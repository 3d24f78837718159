------------------------- MODULE SessionClaimsProofs -------------------------
(***************************************************************************)
(* The tabs of the Qt backend, for any number of tabs and session files.   *)
(* Every action is one tab's.  The claims that a tab has fit its fields;   *)
(* a child whose tab has noticed everything is in a session that has no    *)
(* file yet, and that nobody else is in, or in the session that its tab    *)
(* has, and owns.                                                          *)
(***************************************************************************)
EXTENDS SessionClaims, TLAPS

Operations == {"switch", "new", "history", "state"}
Name       == Files \cup {NoFile}
Index      == [Files -> TabIds \cup {NoTab}]

TabRecord ==
  [place: {"none", "open", "closing", "closed"}, sessionFile: Name, durable: BOOLEAN, pendingResume: Name,
   resumeBlocked: BOOLEAN, transition: Name, previous: Name,
   mutation: {"none", "other", "restart"} \cup Operations]

ClaimsTypeOK ==
  /\ tab \in [TabIds -> TabRecord] /\ identityOwners \in Index
  /\ alive \in [TabIds -> BOOLEAN] /\ at \in [TabIds -> Name]
  /\ ready \in [TabIds -> BOOLEAN] /\ active \in [TabIds -> BOOLEAN]
  /\ shuttingDown \in [TabIds -> BOOLEAN] /\ unnoticed \in [TabIds -> BOOLEAN]
  /\ files \in SUBSET Files /\ late \in [TabIds -> SUBSET (files \cup {NoFile})]

\* The claims that the index o has of tab t fit its fields r.
Owns(t, f, o) == f \in files /\ o[f] = t
Fits(t, r, o) ==
  /\ \A f \in Files : o[f] = t =>
       /\ f \in files /\ r.place \in {"open", "closing"}
       /\ r.place = "open" /\ r.mutation \notin Operations => f \in Names(r)
  /\ r.durable => Owns(t, r.sessionFile, o)
  /\ r.pendingResume # NoFile => Owns(t, r.pendingResume, o)
  /\ r.mutation = "switch" => Owns(t, r.transition, o)
  /\ r.durable => r.pendingResume \in {NoFile, r.sessionFile}
  /\ r.mutation \notin Operations => r.transition = NoFile /\ r.previous = NoFile
  /\ r.place \in {"none", "closed"} => r = [NoSuchTab EXCEPT !.place = r.place]

\* What a tab has to resume it resumes, and what its child is in it knows.
Resumes(t) ==
  /\ tab[t].mutation \in Operations => ready[t]
  /\ tab[t].place = "open" /\ ready[t] /\ tab[t].mutation \notin {"other", "restart"}
     /\ tab[t].pendingResume # NoFile => tab[t].resumeBlocked

Knows(t) ==
  /\ ready[t] => alive[t]
  /\ alive[t] => at[t] # NoFile /\ Present(t)
  /\ alive[t] /\ at[t] \in files => unnoticed[t] \/ (tab[t].sessionFile = at[t] /\ identityOwners[at[t]] = t)
  /\ ready[t] /\ ~shuttingDown[t] /\ tab[t].pendingResume = NoFile =>
       unnoticed[t] \/ tab[t].sessionFile \in {at[t], NoFile}

\* Where two children are is a file: no two are in one new session.
FreshApart ==
  \A t, u \in TabIds : t # u /\ alive[t] /\ alive[u] /\ at[t] = at[u] => at[t] \in files

TabInv(t)  == Fits(t, tab[t], identityOwners) /\ Resumes(t) /\ Knows(t)
ClaimsInv  == ClaimsTypeOK /\ FreshApart /\ \A t \in TabIds : TabInv(t)

\* Another index says the same of every tab but t.
SameForOthers(t, o, p) == \A f \in Files, u \in TabIds \ {t} : o[f] = u <=> p[f] = u

\* A step changes nothing of the tabs but t, and where the child of t goes is a file, or new.
OnlyOf(t) ==
  /\ files \subseteq files'
  /\ SameForOthers(t, identityOwners, identityOwners')
  /\ \A u \in TabIds \ {t} :
       /\ tab'[u] = tab[u] /\ ready'[u] = ready[u] /\ alive'[u] = alive[u] /\ at'[u] = at[u]
       /\ shuttingDown'[u] = shuttingDown[u] /\ unnoticed'[u] = unnoticed[u]
       /\ alive[u] /\ at[u] \in files' => at[u] \in files
       /\ alive'[t] /\ alive[u] /\ at'[t] = at[u] => at[u] \in files

\* What has to be shown of an action of tab t.
Good(t) == ClaimsTypeOK' /\ OnlyOf(t) /\ TabInv(t)'

-----------------------------------------------------------------------------
(* Steps of one tab.                                                       *)

LEMMA GoodSteps ==
  ASSUME ClaimsInv, NEW t \in TabIds, Good(t)
  PROVE  ClaimsInv'
  <1>1. ASSUME NEW u \in TabIds \ {t} PROVE TabInv(u)'
    <2>1. TabInv(u) /\ tab'[u] = tab[u]
      BY <1>1 DEF ClaimsInv, Good, OnlyOf
    <2>2. Fits(u, tab[u], identityOwners)'
      BY <2>1, <1>1 DEF TabInv, Good, OnlyOf, SameForOthers, Fits, Owns, ClaimsTypeOK, TabRecord, Name
    <2>3. Resumes(u)'
      BY <2>1, <1>1 DEF TabInv, Good, OnlyOf, Resumes
    <2>4. at[u] \in files => at[u] \in Files
      BY DEF ClaimsInv, ClaimsTypeOK
    <2>5. Knows(u)'
      BY <2>1, <2>4, <1>1 DEF TabInv, Good, OnlyOf, SameForOthers, Knows, Present
    <2>. QED
      BY <2>2, <2>3, <2>5 DEF TabInv
  <1>2. FreshApart'
    BY DEF ClaimsInv, Good, OnlyOf, FreshApart
  <1>. QED
    BY <1>1, <1>2 DEF ClaimsInv, Good

LEMMA Unindexed == NoFile \notin Files /\ NoTab \notin TabIds
  BY ClaimsAssumption DEF Files

\* A claim of what nobody else owns changes the owner of that file alone.
LEMMA ClaimedIndex ==
  ASSUME ClaimsTypeOK, NEW t \in TabIds, NEW f \in Name, ~Clashes(t, f)
  PROVE  /\ Claimed(t, f) \in Index /\ SameForOthers(t, identityOwners, Claimed(t, f))
         /\ f \in files => Claimed(t, f)[f] = t
         /\ \A g \in Files : Claimed(t, f)[g] = t => identityOwners[g] = t \/ (g = f /\ g \in files)
         /\ \A g \in Files : identityOwners[g] = t => Claimed(t, f)[g] = t
  BY Unindexed DEF ClaimsTypeOK, Index, Clashes, Claimed, SameForOthers, Name

\* A refresh drops claims of that tab alone, and none of what it names.
LEMMA RefreshedIndex ==
  ASSUME NEW o \in Index, NEW t \in TabIds, NEW r \in TabRecord
  PROVE  /\ Refreshed(o, t, r) \in Index /\ SameForOthers(t, o, Refreshed(o, t, r))
         /\ \A g \in Files : Refreshed(o, t, r)[g] = t =>
              o[g] = t /\ r.place \in {"open", "closing"} /\ (r.place = "open" => g \in Names(r))
         /\ \A g \in Files : o[g] = t /\ r.place \in {"open", "closing"} /\ g \in Names(r) =>
              Refreshed(o, t, r)[g] = t
  BY Unindexed DEF Index, Refreshed, SameForOthers, TabRecord

LEMMA Transitivity ==
  ASSUME NEW t, NEW o, NEW p, NEW q, SameForOthers(t, o, p), SameForOthers(t, p, q)
  PROVE  SameForOthers(t, o, q)
  BY DEF SameForOthers

\* After a refresh the claims fit, if what the tab has durably, will resume or switches to is its.
LEMMA RefreshedFits ==
  ASSUME NEW o \in Index, NEW t \in TabIds, NEW r \in TabRecord,
         r.place \in {"open", "closing"}, \A g \in Files : o[g] = t => g \in files,
         r.durable => Owns(t, r.sessionFile, o) /\ r.pendingResume \in {NoFile, r.sessionFile},
         r.pendingResume # NoFile => Owns(t, r.pendingResume, o),
         r.mutation = "switch" => Owns(t, r.transition, o),
         r.mutation \notin Operations => r.transition = NoFile /\ r.previous = NoFile,
         files \in SUBSET Files
  PROVE  Fits(t, r, Refreshed(o, t, r))
  <1>1. \A g \in Files : Owns(t, g, o) /\ g \in Names(r) => Owns(t, g, Refreshed(o, t, r))
    BY RefreshedIndex DEF Owns
  <1>2. \A g \in Files : Refreshed(o, t, r)[g] = t => g \in files /\ (r.place = "open" => g \in Names(r))
    BY RefreshedIndex
  <1>3. {r.sessionFile, r.pendingResume, r.transition} \subseteq Names(r)
    BY DEF Names
  <1>. QED
    BY <1>1, <1>2, <1>3 DEF Fits, Owns

\* What a tab does with the session f that it hears of: only sessionFile and durable change,
\* the claims fit, it has f or keeps its own, or clashes, and what it owned and has it owns.
Hears(t, f, h) ==
  /\ h.fields \in TabRecord
  /\ \E s \in Name, d \in BOOLEAN : h.fields = [tab[t] EXCEPT !.sessionFile = s, !.durable = d]
  /\ h.owners \in Index /\ SameForOthers(t, identityOwners, h.owners)
  /\ Fits(t, h.fields, h.owners)
  /\ h.fields = tab[t] \/ h.fields.sessionFile = f
  /\ Verdict(t, f) = "clash" \/ tab[t].pendingResume # NoFile \/ h.fields.sessionFile = f
  /\ tab[t].pendingResume # NoFile => h.fields = tab[t] /\ h.owners = identityOwners
  /\ Owns(t, tab[t].sessionFile, identityOwners) => Owns(t, tab[t].sessionFile, h.owners)
                                                   \/ h.fields.sessionFile # tab[t].sessionFile

\* It keeps its fields, and the index may be refreshed.
LEMMA KeepsHears ==
  ASSUME ClaimsInv, NEW t \in TabIds, NEW f \in Name, Present(t), NEW h, h.fields = tab[t],
         Verdict(t, f) = "clash" \/ tab[t].pendingResume # NoFile \/ tab[t].sessionFile = f,
         \/ h.owners = identityOwners
         \/ h.owners = Refreshed(identityOwners, t, tab[t]) /\ tab[t].pendingResume = NoFile
  PROVE  Hears(t, f, h)
  <1>1. tab[t] \in TabRecord /\ identityOwners \in Index /\ files \in SUBSET Files
        /\ Fits(t, tab[t], identityOwners) /\ SameForOthers(t, identityOwners, identityOwners)
    BY DEF ClaimsInv, ClaimsTypeOK, TabInv, SameForOthers
  <1>2. tab[t] = [tab[t] EXCEPT !.sessionFile = tab[t].sessionFile, !.durable = tab[t].durable]
    BY <1>1 DEF TabRecord
  <1>3. \E s \in Name, d \in BOOLEAN : tab[t] = [tab[t] EXCEPT !.sessionFile = s, !.durable = d]
    <2>1. tab[t].sessionFile \in Name /\ tab[t].durable \in BOOLEAN
      BY <1>1 DEF TabRecord
    <2>. QED
      BY <1>2, <2>1
  <1>4. CASE h.owners = identityOwners
    BY <1>1, <1>3, <1>4 DEF Hears
  <1>5. CASE h.owners = Refreshed(identityOwners, t, tab[t]) /\ tab[t].pendingResume = NoFile
    <2>1. tab[t].place \in {"open", "closing"} /\ tab[t].sessionFile \in Names(tab[t])
      BY DEF Present, Names
    <2>2. h.owners \in Index /\ SameForOthers(t, identityOwners, h.owners)
          /\ \A g \in Files : identityOwners[g] = t /\ g \in Names(tab[t]) => h.owners[g] = t
      BY <1>1, <1>5, <2>1, RefreshedIndex
    <2>3. Owns(t, tab[t].sessionFile, identityOwners) => Owns(t, tab[t].sessionFile, h.owners)
      BY <1>1, <2>1, <2>2 DEF Owns
    <2>4. \A g \in Files : identityOwners[g] = t => g \in files
      BY <1>1 DEF Fits
    <2>5. Fits(t, tab[t], Refreshed(identityOwners, t, tab[t]))
      BY <1>1, <1>5, <2>1, <2>4, RefreshedFits DEF Fits
    <2>. QED
      BY <1>1, <1>3, <1>5, <2>2, <2>3, <2>5 DEF Hears
  <1>. QED
    BY <1>4, <1>5

\* It takes f for its session.
LEMMA MovedHears ==
  ASSUME ClaimsInv, NEW t \in TabIds, NEW f \in Name, Present(t), NEW d \in BOOLEAN, d => f \in files,
         tab[t].pendingResume = NoFile, ~Clashes(t, f)
  PROVE  Hears(t, f, Moved(t, f, d))
  <1>. DEFINE h == Moved(t, f, d)
              r == [tab[t] EXCEPT !.sessionFile = f, !.durable = d]
              o == Claimed(t, f)
  <1>1. tab[t] \in TabRecord /\ files \in SUBSET Files /\ Fits(t, tab[t], identityOwners)
    BY DEF ClaimsInv, ClaimsTypeOK, TabInv
  <1>2. h.fields = r /\ h.owners = Refreshed(o, t, r)
    BY DEF Moved, Outcome
  <1>3. r \in TabRecord /\ \E s \in Name, e \in BOOLEAN : r = [tab[t] EXCEPT !.sessionFile = s, !.durable = e]
    BY <1>1 DEF TabRecord
  <1>4. r.place = tab[t].place /\ r.pendingResume = NoFile /\ r.mutation = tab[t].mutation
        /\ r.transition = tab[t].transition /\ r.previous = tab[t].previous
        /\ r.sessionFile = f /\ (r.durable <=> d)
    BY <1>1 DEF TabRecord
  <1>5. /\ o \in Index /\ SameForOthers(t, identityOwners, o)
        /\ f \in files => o[f] = t
        /\ \A g \in Files : o[g] = t => identityOwners[g] = t \/ (g = f /\ g \in files)
        /\ \A g \in Files : identityOwners[g] = t => o[g] = t
    BY ClaimedIndex DEF ClaimsInv
  <1>. HIDE DEF r, o
  <1>6. \A g \in Files : o[g] = t => g \in files
    BY <1>5, <1>1 DEF Fits
  <1>7. r.mutation = "switch" => Owns(t, r.transition, o)
    BY <1>4, <1>5, <1>1 DEF Fits, Owns
  <1>8. r.durable => Owns(t, r.sessionFile, o)
    BY <1>4, <1>5 DEF Owns
  <1>9. r.mutation \notin Operations => r.transition = NoFile /\ r.previous = NoFile
    BY <1>4, <1>1 DEF Fits
  <1>10. Fits(t, r, Refreshed(o, t, r))
    BY <1>1, <1>3, <1>4, <1>5, <1>6, <1>7, <1>8, <1>9, RefreshedFits DEF Present
  <1>11. /\ Refreshed(o, t, r) \in Index /\ SameForOthers(t, o, Refreshed(o, t, r))
         /\ \A g \in Files : o[g] = t /\ r.place \in {"open", "closing"} /\ g \in Names(r) =>
              Refreshed(o, t, r)[g] = t
    BY <1>3, <1>5, RefreshedIndex
  <1>12. SameForOthers(t, identityOwners, Refreshed(o, t, r))
    BY <1>5, <1>11, Transitivity
  <1>13. f \in files => Owns(t, f, Refreshed(o, t, r))
    BY <1>1, <1>4, <1>5, <1>11 DEF Owns, Names, Present
  <1>14. Owns(t, tab[t].sessionFile, identityOwners) => Owns(t, tab[t].sessionFile, Refreshed(o, t, r))
                                                       \/ r.sessionFile # tab[t].sessionFile
    BY <1>4, <1>13 DEF Owns
  <1>. HIDE DEF h
  <1>15. \E s \in Name, e \in BOOLEAN : h.fields = [tab[t] EXCEPT !.sessionFile = s, !.durable = e]
    BY <1>2, <1>3
  <1>16. /\ h.fields \in TabRecord /\ h.fields.sessionFile = f
         /\ h.owners \in Index /\ SameForOthers(t, identityOwners, h.owners) /\ Fits(t, h.fields, h.owners)
    BY <1>2, <1>3, <1>4, <1>10, <1>11, <1>12
  <1>17. Owns(t, tab[t].sessionFile, identityOwners) => Owns(t, tab[t].sessionFile, h.owners)
                                                       \/ h.fields.sessionFile # tab[t].sessionFile
    BY <1>2, <1>14
  <1>18. Hears(t, f, h)
    BY <1>15, <1>16, <1>17 DEF Hears
  <1>. QED
    BY <1>18 DEF h

\* It claims its session, and cannot migrate the draft.
LEMMA ClaimedHears ==
  ASSUME ClaimsInv, NEW t \in TabIds, NEW f \in Name, Present(t), tab[t].sessionFile = f, f \in files,
         tab[t].pendingResume = NoFile, ~Clashes(t, f)
  PROVE  Hears(t, f, Outcome(tab[t], Claimed(t, f)))
  <1>. DEFINE h == Outcome(tab[t], Claimed(t, f))
              o == Claimed(t, f)
  <1>1. tab[t] \in TabRecord /\ files \in SUBSET Files /\ Fits(t, tab[t], identityOwners)
    BY DEF ClaimsInv, ClaimsTypeOK, TabInv
  <1>2. h.fields = tab[t] /\ h.owners = o
    BY DEF Outcome
  <1>3. \E s \in Name, d \in BOOLEAN : tab[t] = [tab[t] EXCEPT !.sessionFile = s, !.durable = d]
    <2>1. tab[t].sessionFile \in Name /\ tab[t].durable \in BOOLEAN
      BY <1>1 DEF TabRecord
    <2>2. tab[t] = [tab[t] EXCEPT !.sessionFile = tab[t].sessionFile, !.durable = tab[t].durable]
      BY <1>1 DEF TabRecord
    <2>. QED
      BY <2>1, <2>2
  <1>4. /\ o \in Index /\ SameForOthers(t, identityOwners, o)
        /\ o[f] = t
        /\ \A g \in Files : o[g] = t => identityOwners[g] = t \/ (g = f /\ g \in files)
        /\ \A g \in Files : identityOwners[g] = t => o[g] = t
    BY ClaimedIndex DEF ClaimsInv
  <1>. HIDE DEF o, h
  <1>5. tab[t].place \in {"open", "closing"} /\ f \in Names(tab[t])
    BY DEF Present, Names
  <1>6. Fits(t, tab[t], o)
    BY <1>1, <1>4, <1>5 DEF Fits, Owns
  <1>. QED
    BY <1>1, <1>2, <1>3, <1>4, <1>6 DEF Hears, Owns, h

LEMMA HeardFits ==
  ASSUME ClaimsInv, NEW t \in TabIds, NEW f \in Name, Present(t), NEW h \in Told(t, f)
  PROVE  Hears(t, f, h)
  <1>1. CASE Verdict(t, f) # "moved"
    <2>1. \/ h = Outcome(tab[t], identityOwners)
          \/ h = Outcome(tab[t], Refreshed(identityOwners, t, tab[t])) /\ tab[t].pendingResume = NoFile
      BY <1>1 DEF Told, Heard
    <2>2. Verdict(t, f) = "clash" \/ tab[t].pendingResume # NoFile \/ tab[t].sessionFile = f
      BY <1>1 DEF Verdict
    <2>. QED
      BY <2>1, <2>2, KeepsHears DEF Outcome
  <1>2. CASE Verdict(t, f) = "moved"
    <2>1. tab[t].pendingResume = NoFile /\ ~Clashes(t, f)
      BY <1>2 DEF Verdict
    <2>2. \/ h = Moved(t, f, f \in files)
          \/ h = Moved(t, f, FALSE)
          \/ h = Outcome(tab[t], Claimed(t, f)) /\ tab[t].sessionFile = f /\ f \in files
      BY <1>2 DEF Told, Heard
    <2>3. CASE h = Moved(t, f, f \in files)
      <3>1. (f \in files) \in BOOLEAN
        OBVIOUS
      <3>. QED
        BY <2>1, <2>3, <3>1, MovedHears
    <2>. QED
      BY <2>1, <2>2, <2>3, MovedHears, ClaimedHears
  <1>. QED
    BY <1>1, <1>2

\* What becomes of the fields r of a tab that looks for something to resume.
LEMMA ResumingFits ==
  ASSUME ClaimsInv, NEW t \in TabIds, NEW r \in TabRecord, Fits(t, r, identityOwners)
  PROVE  LET n == Resuming(t, r)
             o == IF n # r THEN Claimed(t, n.transition) ELSE identityOwners
         IN /\ n \in TabRecord /\ o \in Index /\ SameForOthers(t, identityOwners, o) /\ Fits(t, n, o)
            /\ n.sessionFile = r.sessionFile /\ (n.durable <=> r.durable) /\ n.place = r.place
            /\ n.pendingResume = r.pendingResume /\ (r.resumeBlocked => n.resumeBlocked)
            /\ n.mutation = r.mutation \/ r.mutation = "none"
            /\ n.mutation \in {"other", "restart"} => r.mutation = n.mutation
            /\ r.mutation = "none" /\ r.place = "open" /\ r.pendingResume # NoFile => n.resumeBlocked
            /\ n # r => r.pendingResume # NoFile
            /\ \A g \in Files : identityOwners[g] = t => o[g] = t
  <1>. DEFINE n == Resuming(t, r)
              o == IF n # r THEN Claimed(t, n.transition) ELSE identityOwners
              f == r.pendingResume
  <1>1. identityOwners \in Index /\ files \in SUBSET Files /\ SameForOthers(t, identityOwners, identityOwners)
    BY DEF ClaimsInv, ClaimsTypeOK, SameForOthers
  <1>2. CASE r.place # "open" \/ r.mutation # "none" \/ f = NoFile \/ r.resumeBlocked
    <2>1. n = r
      BY <1>2 DEF Resuming
    <2>. QED
      BY <2>1, <1>1, <1>2 DEF TabRecord
  <1>3. CASE r.place = "open" /\ r.mutation = "none" /\ f # NoFile /\ ~r.resumeBlocked
    <2>1. f \in files /\ identityOwners[f] = t /\ ~Clashes(t, f)
      BY <1>3 DEF Fits, Owns, Clashes
    <2>2. n = [Switching(r, f) EXCEPT !.resumeBlocked = TRUE]
      BY <1>3, <2>1 DEF Resuming
    <2>3. n = [r EXCEPT !.mutation = "switch", !.transition = f, !.previous = r.sessionFile, !.resumeBlocked = TRUE]
      BY <2>2 DEF Switching, TabRecord
    <2>4. n \in TabRecord
      BY <2>3 DEF TabRecord, Operations
    <2>5. n.sessionFile = r.sessionFile /\ (n.durable <=> r.durable) /\ n.place = r.place
          /\ n.pendingResume = f /\ n.resumeBlocked /\ n.mutation = "switch" /\ n.transition = f
      BY <2>3 DEF TabRecord
    <2>6. n # r
      BY <2>5, <1>3
    <2>7. /\ o \in Index /\ SameForOthers(t, identityOwners, o) /\ o[f] = t
          /\ \A g \in Files : identityOwners[g] = t => o[g] = t
          /\ \A g \in Files : o[g] = t => g \in files
      BY <2>1, <2>5, <2>6, <1>1, ClaimedIndex DEF ClaimsInv, Fits, TabRecord
    <2>8. Fits(t, n, o)
      BY <2>1, <2>5, <2>7, <1>3, <1>1 DEF Fits, Owns, Operations
    <2>. QED
      BY <2>4, <2>5, <2>6, <2>7, <2>8, <1>3
  <1>. QED
    BY <1>2, <1>3 DEF TabRecord

\* An operation that ends keeps the session and what there is to resume.
LEMMA EndsFits ==
  ASSUME ClaimsInv, NEW t \in TabIds, NEW r \in TabRecord, NEW o \in Index, Fits(t, r, o),
         r.place \in {"open", "closing"}
  PROVE  LET n == Over(r)
             p == Refreshed(o, t, n)
         IN /\ n \in TabRecord /\ p \in Index /\ SameForOthers(t, o, p) /\ Fits(t, n, p)
            /\ n.mutation = "none" /\ n.place = r.place /\ n.sessionFile = r.sessionFile
            /\ (n.durable <=> r.durable) /\ n.pendingResume = r.pendingResume
            /\ (n.resumeBlocked <=> r.resumeBlocked)
            /\ Owns(t, n.sessionFile, o) => Owns(t, n.sessionFile, p)
  <1>. DEFINE n == Over(r)
  <1>1. /\ n \in TabRecord /\ n.mutation = "none" /\ n.place = r.place /\ n.sessionFile = r.sessionFile
        /\ (n.durable <=> r.durable) /\ n.pendingResume = r.pendingResume
        /\ (n.resumeBlocked <=> r.resumeBlocked) /\ n.transition = NoFile /\ n.previous = NoFile
    BY DEF Over, TabRecord, Name
  <1>2. files \in SUBSET Files
    BY DEF ClaimsInv, ClaimsTypeOK
  <1>3. /\ \A g \in Files : o[g] = t => g \in files
        /\ n.durable => Owns(t, n.sessionFile, o) /\ n.pendingResume \in {NoFile, n.sessionFile}
        /\ n.pendingResume # NoFile => Owns(t, n.pendingResume, o)
    BY <1>1 DEF Fits
  <1>4. Fits(t, n, Refreshed(o, t, n))
    BY <1>1, <1>2, <1>3, RefreshedFits
  <1>5. /\ Refreshed(o, t, n) \in Index /\ SameForOthers(t, o, Refreshed(o, t, n))
        /\ \A g \in Files : o[g] = t /\ n.place \in {"open", "closing"} /\ g \in Names(n) =>
             Refreshed(o, t, n)[g] = t
    BY <1>1, RefreshedIndex
  <1>6. Owns(t, n.sessionFile, o) => Owns(t, n.sessionFile, Refreshed(o, t, n))
    BY <1>1, <1>2, <1>5 DEF Owns, Names
  <1>. QED
    BY <1>1, <1>4, <1>5, <1>6

\* What a step that registers r and leaves the index o makes of tab t and of the others.
LEMMA Registering ==
  ASSUME ClaimsInv, NEW t \in TabIds, NEW r \in TabRecord, NEW o \in Index, Registers(t, r),
         identityOwners' = o, SameForOthers(t, identityOwners, o), Fits(t, r, o), files' = files
  PROVE  /\ tab' \in [TabIds -> TabRecord] /\ tab'[t] = r /\ \A u \in TabIds \ {t} : tab'[u] = tab[u]
         /\ identityOwners' \in Index /\ SameForOthers(t, identityOwners, identityOwners')
         /\ Fits(t, tab[t], identityOwners)'
         /\ files \subseteq files' /\ files' \in SUBSET Files
  BY DEF ClaimsInv, ClaimsTypeOK, Registers, Fits, Owns

\* The facts of the tab in the invariant.
LEMMA OfTab ==
  ASSUME ClaimsInv, NEW t \in TabIds
  PROVE  /\ tab[t] \in TabRecord /\ identityOwners \in Index /\ files \in SUBSET Files
         /\ Fits(t, tab[t], identityOwners) /\ Resumes(t) /\ Knows(t)
         /\ SameForOthers(t, identityOwners, identityOwners)
         /\ at[t] \in Name
  BY DEF ClaimsInv, ClaimsTypeOK, TabInv, SameForOthers

-----------------------------------------------------------------------------
(* The actions.                                                            *)

LEMMA ReserveGood ==
  ASSUME ClaimsInv, NEW t \in TabIds, Reserve(t)
  PROVE  Good(t)
  <1>. DEFINE r == [tab[t] EXCEPT !.mutation = "other"]
  <1>1. r \in TabRecord /\ Fits(t, r, identityOwners)
    BY OfTab DEF Reserve, Fits, Names, TabRecord, Operations
  <1>2. /\ tab' \in [TabIds -> TabRecord] /\ tab'[t] = r /\ \A u \in TabIds \ {t} : tab'[u] = tab[u]
        /\ identityOwners' \in Index /\ SameForOthers(t, identityOwners, identityOwners')
        /\ Fits(t, tab[t], identityOwners)' /\ files \subseteq files' /\ files' \in SUBSET Files
    BY <1>1, OfTab, Registering DEF Reserve
  <1>3. Resumes(t)' /\ Knows(t)'
    BY <1>2, OfTab DEF Reserve, Resumes, Knows, Present, process, TabRecord, Operations
  <1>. QED
    BY <1>2, <1>3 DEF Good, OnlyOf, TabInv, Reserve, process, ClaimsInv, ClaimsTypeOK, FreshApart

LEMMA ReleaseGood ==
  ASSUME ClaimsInv, NEW t \in TabIds, Release(t)
  PROVE  Good(t)
  <1>. DEFINE r == [tab[t] EXCEPT !.mutation = "none"]
              n == IF ready[t] THEN Resuming(t, r) ELSE r
              o == IF n # r THEN Claimed(t, n.transition) ELSE identityOwners
  <1>0. /\ r \in TabRecord /\ r.mutation = "none" /\ r.place = tab[t].place
        /\ r.sessionFile = tab[t].sessionFile /\ (r.durable <=> tab[t].durable)
        /\ r.pendingResume = tab[t].pendingResume /\ Names(r) = Names(tab[t])
        /\ r.transition = tab[t].transition /\ r.previous = tab[t].previous
    BY OfTab DEF TabRecord, Names
  <1>1. Fits(t, r, identityOwners)
    <2>1. tab[t].mutation = "other" /\ Fits(t, tab[t], identityOwners)
      BY OfTab DEF Release
    <2>2. tab[t].place \notin {"none", "closed"}
      BY <2>1 DEF Fits, NoSuchTab
    <2>. QED
      BY <1>0, <2>1, <2>2 DEF Fits, Owns, Operations
  <1>2. /\ n \in TabRecord /\ o \in Index /\ SameForOthers(t, identityOwners, o) /\ Fits(t, n, o)
        /\ n.sessionFile = r.sessionFile /\ (n.durable <=> r.durable) /\ n.place = r.place
        /\ n.pendingResume = r.pendingResume
        /\ ready[t] /\ r.place = "open" /\ r.pendingResume # NoFile => n.resumeBlocked
        /\ n.mutation \in Operations => ready[t]
        /\ \A g \in Files : identityOwners[g] = t => o[g] = t
    <2>1. CASE ready[t]
      BY <2>1, <1>0, <1>1, ResumingFits
    <2>2. CASE ~ready[t]
      BY <2>2, <1>0, <1>1, OfTab DEF Operations
    <2>. QED
      BY <2>1, <2>2
  <1>3. /\ tab' \in [TabIds -> TabRecord] /\ tab'[t] = n /\ \A u \in TabIds \ {t} : tab'[u] = tab[u]
        /\ identityOwners' \in Index /\ SameForOthers(t, identityOwners, identityOwners')
        /\ Fits(t, tab[t], identityOwners)' /\ files \subseteq files' /\ files' \in SUBSET Files
    BY <1>2, Registering DEF Release
  <1>4. Resumes(t)' /\ Knows(t)'
    <2>1. identityOwners' = o /\ process' = process /\ files' = files /\ (at[t] \in files => at[t] \in Files)
      BY OfTab DEF Release
    <2>. HIDE DEF n, r, o
    <2>2. Resumes(t)'
      BY <1>0, <1>2, <1>3, <2>1, OfTab DEF Release, Resumes, process
    <2>3. Knows(t)'
      BY <1>0, <1>2, <1>3, <2>1, OfTab DEF Knows, Present, process
    <2>. QED
      BY <2>2, <2>3
  <1>. QED
    BY <1>3, <1>4 DEF Good, OnlyOf, TabInv, Release, process, ClaimsInv, ClaimsTypeOK, FreshApart

LEMMA SwitchGood ==
  ASSUME ClaimsInv, NEW t \in TabIds, NEW f \in files, Switch(t, f)
  PROVE  Good(t)
  <1>. DEFINE r == Switching(tab[t], f)
  <1>1. /\ r \in TabRecord /\ r.mutation = "switch" /\ r.transition = f /\ r.place = tab[t].place
        /\ r.sessionFile = tab[t].sessionFile /\ (r.durable <=> tab[t].durable)
        /\ r.pendingResume = tab[t].pendingResume /\ (r.resumeBlocked <=> tab[t].resumeBlocked)
    BY OfTab DEF Switching, TabRecord, Operations, Name
  <1>2. Claimed(t, f) \in Index /\ SameForOthers(t, identityOwners, Claimed(t, f))
        /\ Claimed(t, f)[f] = t
        /\ \A g \in Files : (Claimed(t, f)[g] = t => g \in files) /\ (identityOwners[g] = t => Claimed(t, f)[g] = t)
    <2>1. f \in Name /\ ~Clashes(t, f) /\ ClaimsTypeOK
      BY OfTab DEF Switch, ClaimsInv, Name
    <2>2. \A g \in Files : identityOwners[g] = t => g \in files
      BY OfTab DEF Fits
    <2>. QED
      BY <2>1, <2>2, ClaimedIndex
  <1>3. Fits(t, r, Claimed(t, f))
    <2>1. Fits(t, tab[t], identityOwners) /\ tab[t].place = "open" /\ files \in SUBSET Files
      BY OfTab DEF Switch, Idle
    <2>. QED
      BY <1>1, <1>2, <2>1 DEF Fits, Owns, Operations
  <1>4. /\ tab' \in [TabIds -> TabRecord] /\ tab'[t] = r /\ \A u \in TabIds \ {t} : tab'[u] = tab[u]
        /\ identityOwners' \in Index /\ SameForOthers(t, identityOwners, identityOwners')
        /\ Fits(t, tab[t], identityOwners)' /\ files \subseteq files' /\ files' \in SUBSET Files
    BY <1>1, <1>2, <1>3, Registering DEF Switch
  <1>5. Resumes(t)' /\ Knows(t)'
    <2>1. /\ identityOwners' = Claimed(t, f) /\ process' = process /\ files' = files
          /\ at[t] \in files => at[t] \in Files
      BY OfTab DEF Switch
    <2>2. Resumes(t)'
      BY <1>1, <1>4, <2>1, OfTab DEF Switch, Idle, Resumes, process, Operations
    <2>3. Knows(t)'
      BY <1>1, <1>2, <1>4, <2>1, OfTab DEF Knows, Present, process
    <2>. QED
      BY <2>2, <2>3
  <1>. QED
    BY <1>4, <1>5 DEF Good, OnlyOf, TabInv, Switch, process, ClaimsInv, ClaimsTypeOK, FreshApart

LEMMA NewGood ==
  ASSUME ClaimsInv, NEW t \in TabIds, New(t)
  PROVE  Good(t)
  <1>. DEFINE r == [tab[t] EXCEPT !.mutation = "new", !.transition = tab[t].sessionFile]
  <1>1. /\ r \in TabRecord /\ r.mutation = "new" /\ r.place = tab[t].place
        /\ r.sessionFile = tab[t].sessionFile /\ (r.durable <=> tab[t].durable)
        /\ r.pendingResume = tab[t].pendingResume /\ (r.resumeBlocked <=> tab[t].resumeBlocked)
    BY OfTab DEF TabRecord, Operations
  <1>2. Fits(t, r, identityOwners)
    BY <1>1, OfTab DEF Fits, Owns, Operations, New, Idle
  <1>3. /\ tab' \in [TabIds -> TabRecord] /\ tab'[t] = r /\ \A u \in TabIds \ {t} : tab'[u] = tab[u]
        /\ identityOwners' \in Index /\ SameForOthers(t, identityOwners, identityOwners')
        /\ Fits(t, tab[t], identityOwners)' /\ files \subseteq files' /\ files' \in SUBSET Files
    BY <1>1, <1>2, OfTab, Registering DEF New
  <1>4. Resumes(t)' /\ Knows(t)'
    BY <1>1, <1>3, OfTab DEF New, Idle, Resumes, Knows, Present, process
  <1>. QED
    BY <1>3, <1>4 DEF Good, OnlyOf, TabInv, New, process, ClaimsInv, ClaimsTypeOK, FreshApart

LEMMA StateHeardGood ==
  ASSUME ClaimsInv, NEW t \in TabIds, StateHeard(t)
  PROVE  Good(t)
  <1>0. PICK h \in Told(t, at[t]) :
          /\ Registers(t, Resuming(t, h.fields)) /\ Tracks(t, Resuming(t, h.fields))
          /\ identityOwners' = IF Resuming(t, h.fields) # h.fields
                               THEN Claimed(t, Resuming(t, h.fields).transition) ELSE h.owners
    BY DEF StateHeard
  <1>. DEFINE r == h.fields
              n == Resuming(t, r)
              o == IF n # r THEN Claimed(t, n.transition) ELSE h.owners
  <1>1. Present(t) /\ at[t] \in Name /\ at[t] # NoFile
    BY OfTab DEF StateHeard, Knows
  <1>11. Hears(t, at[t], h)
    BY <1>1, HeardFits
  <1>2. /\ r \in TabRecord /\ h.owners \in Index /\ Fits(t, r, h.owners)
        /\ SameForOthers(t, identityOwners, h.owners)
        /\ r = tab[t] \/ r.sessionFile = at[t]
        /\ Verdict(t, at[t]) = "clash" \/ tab[t].pendingResume # NoFile \/ r.sessionFile = at[t]
        /\ tab[t].pendingResume # NoFile => r = tab[t] /\ h.owners = identityOwners
        /\ Owns(t, tab[t].sessionFile, identityOwners) =>
             Owns(t, tab[t].sessionFile, h.owners) \/ r.sessionFile # tab[t].sessionFile
    BY <1>11 DEF Hears
  <1>3. /\ r.place = tab[t].place /\ r.mutation = tab[t].mutation /\ r.pendingResume = tab[t].pendingResume
        /\ (r.resumeBlocked <=> tab[t].resumeBlocked)
    <2>1. PICK s \in Name, d \in BOOLEAN : r = [tab[t] EXCEPT !.sessionFile = s, !.durable = d]
      BY <1>11 DEF Hears
    <2>. QED
      BY <2>1, OfTab DEF TabRecord
  <1>4. /\ n \in TabRecord /\ o \in Index /\ SameForOthers(t, identityOwners, o) /\ Fits(t, n, o)
        /\ n.sessionFile = r.sessionFile /\ n.place = r.place
        /\ n.pendingResume = r.pendingResume /\ (r.resumeBlocked => n.resumeBlocked)
        /\ n.mutation = r.mutation \/ r.mutation = "none"
        /\ n.mutation \in {"other", "restart"} => r.mutation = n.mutation
        /\ r.mutation = "none" /\ r.place = "open" /\ r.pendingResume # NoFile => n.resumeBlocked
        /\ \A g \in Files : h.owners[g] = t => o[g] = t
    <2>1. CASE tab[t].pendingResume # NoFile
      <3>1. r = tab[t] /\ h.owners = identityOwners /\ Fits(t, r, identityOwners)
        BY <2>1, <1>2
      <3>. QED
        BY <3>1, <1>2, ResumingFits
    <2>2. CASE tab[t].pendingResume = NoFile
      <3>1. n = r
        BY <2>2, <1>3 DEF Resuming
      <3>. QED
        BY <3>1, <2>2, <1>2, <1>3
    <2>. QED
      BY <2>1, <2>2
  <1>5. /\ tab' \in [TabIds -> TabRecord] /\ tab'[t] = n /\ \A u \in TabIds \ {t} : tab'[u] = tab[u]
        /\ identityOwners' \in Index /\ SameForOthers(t, identityOwners, identityOwners')
        /\ Fits(t, tab[t], identityOwners)' /\ files \subseteq files' /\ files' \in SUBSET Files
    <2>1. Registers(t, n) /\ identityOwners' = o /\ files' = files
      BY <1>0 DEF StateHeard
    <2>. QED
      BY <1>4, <2>1, Registering
  <1>6. /\ ready'[t] = TRUE /\ alive'[t] = alive[t] /\ at'[t] = at[t] /\ files' = files
        /\ (unnoticed'[t] <=> /\ unnoticed[t]
                              /\ n.sessionFile # at[t] \/ (at[t] \in files /\ identityOwners'[at[t]] # t))
        /\ (shuttingDown'[t] <=> shuttingDown[t] \/ Verdict(t, at[t]) = "clash")
    BY <1>0 DEF StateHeard, Tracks, StopsOnClash, ClaimsInv, ClaimsTypeOK
  <1>7. Resumes(t)'
    <2>1. tab[t].mutation \in {"none", "other", "restart"} \cup Operations /\ Resumes(t)
      BY OfTab DEF TabRecord
    <2>2. CASE tab[t].mutation = "none"
      BY <2>2, <1>3, <1>4, <1>5, <1>6 DEF Resumes
    <2>3. CASE tab[t].mutation # "none"
      BY <2>1, <2>3, <1>3, <1>4, <1>5, <1>6 DEF Resumes
    <2>. QED
      BY <2>2, <2>3
  <1>8. Knows(t)'
    <2>1. /\ at[t] \in files => at[t] \in Files
          /\ identityOwners' = o /\ alive[t] /\ Knows(t)
      BY <1>0, OfTab DEF StateHeard
    <2>. HIDE DEF n, r, o
    <2>2. at[t] \in files => unnoticed'[t] \/ (n.sessionFile = at[t] /\ identityOwners'[at[t]] = t)
      <3>1. CASE unnoticed[t]
        BY <3>1, <1>6
      <3>2. ASSUME ~unnoticed[t], at[t] \in files
            PROVE  n.sessionFile = at[t] /\ identityOwners'[at[t]] = t
        <4>1. tab[t].sessionFile = at[t] /\ identityOwners[at[t]] = t
          BY <2>1, <3>2 DEF Knows
        <4>2. r.sessionFile = at[t]
          BY <4>1, <1>2
        <4>3. h.owners[at[t]] = t
          BY <4>1, <4>2, <3>2, <1>2 DEF Owns
        <4>. QED
          BY <4>2, <4>3, <3>2, <2>1, <1>4
      <3>. QED
        BY <3>1, <3>2
    <2>. QED
      BY <1>1, <1>2, <1>3, <1>4, <1>5, <1>6, <2>1, <2>2 DEF Knows, Present
  <1>9. /\ ready' \in [TabIds -> BOOLEAN] /\ unnoticed' \in [TabIds -> BOOLEAN]
        /\ shuttingDown' \in [TabIds -> BOOLEAN]
        /\ \A u \in TabIds \ {t} : ready'[u] = ready[u] /\ unnoticed'[u] = unnoticed[u]
                                   /\ shuttingDown'[u] = shuttingDown[u]
    BY <1>0 DEF StateHeard, Tracks, StopsOnClash, ClaimsInv, ClaimsTypeOK
  <1>10. OnlyOf(t) /\ ClaimsTypeOK'
    BY <1>5, <1>9 DEF OnlyOf, StateHeard, ClaimsInv, ClaimsTypeOK, FreshApart
  <1>. QED
    BY <1>5, <1>7, <1>8, <1>10 DEF Good, TabInv

LEMMA CommandFailsGood ==
  ASSUME ClaimsInv, NEW t \in TabIds, CommandFails(t)
  PROVE  Good(t)
  <1>. DEFINE n == Over(tab[t])
              o == Refreshed(identityOwners, t, n)
  <1>1. alive[t] /\ Present(t) /\ tab[t].mutation \in {"switch", "new"}
    BY OfTab DEF CommandFails, Knows
  <1>2. /\ n \in TabRecord /\ o \in Index /\ SameForOthers(t, identityOwners, o) /\ Fits(t, n, o)
        /\ n.mutation = "none" /\ n.place = tab[t].place /\ n.sessionFile = tab[t].sessionFile
        /\ (n.durable <=> tab[t].durable) /\ n.pendingResume = tab[t].pendingResume
        /\ (n.resumeBlocked <=> tab[t].resumeBlocked)
        /\ Owns(t, tab[t].sessionFile, identityOwners) => Owns(t, tab[t].sessionFile, o)
    BY <1>1, OfTab, EndsFits DEF Present
  <1>3. /\ tab' \in [TabIds -> TabRecord] /\ tab'[t] = n /\ \A u \in TabIds \ {t} : tab'[u] = tab[u]
        /\ identityOwners' \in Index /\ SameForOthers(t, identityOwners, identityOwners')
        /\ Fits(t, tab[t], identityOwners)' /\ files \subseteq files' /\ files' \in SUBSET Files
    BY <1>2, Registering DEF CommandFails, Ends
  <1>4. Resumes(t)' /\ Knows(t)'
    <2>1. identityOwners' = o
      BY DEF CommandFails, Ends
    <2>. QED
      BY <1>1, <1>2, <1>3, <2>1, OfTab DEF CommandFails, Resumes, Knows, Present, Operations, Owns
  <1>5. late' \in [TabIds -> SUBSET (files' \cup {NoFile})]
    <2>1. tab[t].mutation = "switch" => tab[t].transition \in files
      BY OfTab DEF Fits, Owns
    <2>. QED
      BY <2>1, <1>1 DEF CommandFails, ClaimsInv, ClaimsTypeOK
  <1>. QED
    BY <1>3, <1>4, <1>5 DEF Good, OnlyOf, TabInv, CommandFails, ClaimsInv, ClaimsTypeOK, FreshApart

\* A switch or a new session that a session being stopped has disregarded.
LEMMA DisregardedGood ==
  ASSUME ClaimsInv, NEW t \in TabIds, alive[t], tab[t].mutation \in {"switch", "new"}, Disregarded(t),
         NEW f \in Files, at' = [at EXCEPT ![t] = f],
         \A u \in TabIds \ {t} : alive[u] /\ at[u] = f => f \in files,
         UNCHANGED <<alive, ready, active, shuttingDown, late, files>>
  PROVE  Good(t)
  <1>. DEFINE n == Over(tab[t])
              o == Refreshed(identityOwners, t, n)
  <1>1. alive[t] /\ Present(t)
    BY OfTab DEF Knows
  <1>2. /\ n \in TabRecord /\ o \in Index /\ SameForOthers(t, identityOwners, o) /\ Fits(t, n, o)
        /\ n.mutation = "none" /\ n.place = tab[t].place /\ n.sessionFile = tab[t].sessionFile
        /\ (n.durable <=> tab[t].durable) /\ n.pendingResume = tab[t].pendingResume
        /\ (n.resumeBlocked <=> tab[t].resumeBlocked)
    BY <1>1, OfTab, EndsFits DEF Present
  <1>3. /\ tab' \in [TabIds -> TabRecord] /\ tab'[t] = n /\ \A u \in TabIds \ {t} : tab'[u] = tab[u]
        /\ identityOwners' \in Index /\ SameForOthers(t, identityOwners, identityOwners')
        /\ Fits(t, tab[t], identityOwners)' /\ files \subseteq files' /\ files' \in SUBSET Files
    BY <1>2, Registering DEF Disregarded, Ends
  <1>4. /\ at' \in [TabIds -> Name] /\ at'[t] = f /\ unnoticed' \in [TabIds -> BOOLEAN] /\ unnoticed'[t] = TRUE
        /\ \A u \in TabIds \ {t} : at'[u] = at[u] /\ unnoticed'[u] = unnoticed[u]
    BY DEF Disregarded, Name, ClaimsInv, ClaimsTypeOK
  <1>5. Resumes(t)' /\ Knows(t)'
    BY <1>1, <1>2, <1>3, <1>4, OfTab, Unindexed DEF Resumes, Knows, Present, Operations
  <1>. QED
    BY <1>3, <1>4, <1>5 DEF Good, OnlyOf, TabInv, ClaimsInv, ClaimsTypeOK, FreshApart

LEMMA SwitchAnsweredGood ==
  ASSUME ClaimsInv, NEW t \in TabIds, SwitchAnswered(t)
  PROVE  Good(t)
  <1>. DEFINE f == tab[t].transition
              r == [tab[t] EXCEPT !.sessionFile = f, !.durable = f # NoFile, !.pendingResume = NoFile,
                                  !.resumeBlocked = FALSE, !.mutation = "history"]
  <1>1. Present(t) /\ ready[t] /\ f \in files /\ f \in Files /\ identityOwners[f] = t
    BY OfTab DEF SwitchAnswered, Knows, Resumes, Fits, Owns, Operations
  <1>2. CASE shuttingDown[t]
    BY <1>1, <1>2, DisregardedGood DEF SwitchAnswered
  <1>3. CASE ~shuttingDown[t]
    <2>0. (f # NoFile) = TRUE
      BY <1>1, Unindexed
    <2>1. /\ r \in TabRecord /\ r.mutation = "history" /\ r.place = tab[t].place
          /\ r.sessionFile = f /\ r.durable /\ r.pendingResume = NoFile
      <3>1. tab[t] \in TabRecord /\ f \in Name
        BY <1>1, OfTab DEF Name
      <3>2. r = [tab[t] EXCEPT !.sessionFile = f, !.durable = TRUE, !.pendingResume = NoFile,
                               !.resumeBlocked = FALSE, !.mutation = "history"]
        BY <2>0
      <3>3. NoFile \in Name
        BY DEF Name
      <3>. HIDE DEF r, f
      <3>. QED
        BY <3>1, <3>2, <3>3 DEF TabRecord, Operations
    <2>2. /\ Claimed(t, f) \in Index /\ SameForOthers(t, identityOwners, Claimed(t, f))
          /\ Claimed(t, f)[f] = t
          /\ \A g \in Files : Claimed(t, f)[g] = t => g \in files
      <3>1. f \in Name /\ ~Clashes(t, f) /\ ClaimsTypeOK
        BY <1>1 DEF ClaimsInv, Name, Clashes
      <3>2. \A g \in Files : identityOwners[g] = t => g \in files
        BY OfTab DEF Fits
      <3>. QED
        BY <3>1, <3>2, <1>1, ClaimedIndex
    <2>3. /\ identityOwners' \in Index /\ SameForOthers(t, identityOwners, identityOwners')
          /\ Fits(t, r, identityOwners') /\ identityOwners'[f] = t
      <3>1. CASE f = tab[t].sessionFile /\ identityOwners' = identityOwners
        BY <3>1, <2>1, <1>1, OfTab DEF Fits, Owns, Operations, Present
      <3>2. CASE identityOwners' = Refreshed(Claimed(t, f), t, r)
        <4>1. Fits(t, r, Refreshed(Claimed(t, f), t, r))
          BY <2>1, <2>2, <1>1, OfTab, RefreshedFits DEF Owns, Present, Operations
        <4>2. /\ Refreshed(Claimed(t, f), t, r) \in Index
              /\ SameForOthers(t, Claimed(t, f), Refreshed(Claimed(t, f), t, r))
          BY <2>1, <2>2, RefreshedIndex
        <4>. QED
          BY <3>2, <4>1, <4>2, <2>1, <2>2, Transitivity DEF Fits, Owns
      <3>. QED
        BY <3>1, <3>2, <1>3 DEF SwitchAnswered, Replaced
    <2>4. /\ tab' \in [TabIds -> TabRecord] /\ tab'[t] = r /\ \A u \in TabIds \ {t} : tab'[u] = tab[u]
          /\ Fits(t, tab[t], identityOwners)' /\ files \subseteq files' /\ files' \in SUBSET Files
      <3>1. Registers(t, r) /\ files' = files
        BY <1>3 DEF SwitchAnswered, Replaced
      <3>. QED
        BY <2>1, <2>3, <3>1, Registering
    <2>5. /\ at' \in [TabIds -> Name] /\ at'[t] = f /\ unnoticed' \in [TabIds -> BOOLEAN]
          /\ \A u \in TabIds \ {t} : at'[u] = at[u] /\ unnoticed'[u] = unnoticed[u]
      BY <1>1, <1>3 DEF SwitchAnswered, Replaced, Name, ClaimsInv, ClaimsTypeOK
    <2>6. Resumes(t)' /\ Knows(t)'
      BY <1>1, <2>0, <2>1, <2>3, <2>4, <2>5, OfTab DEF SwitchAnswered, Resumes, Knows, Present
    <2>. QED
      BY <1>1, <2>3, <2>4, <2>5, <2>6 DEF Good, OnlyOf, TabInv, SwitchAnswered, ClaimsInv, ClaimsTypeOK, FreshApart
  <1>. QED
    BY <1>2, <1>3

\* A new name is nobody's: neither a file nor where a child is.
LEMMA UnusedNames ==
  ASSUME NEW f \in Unused
  PROVE  f \in Files /\ f \notin files /\ f # NoFile /\ \A u \in TabIds : at[u] # f
  BY Unindexed DEF Unused, Files

LEMMA NewAnsweredGood ==
  ASSUME ClaimsInv, NEW t \in TabIds, NewAnswered(t)
  PROVE  Good(t)
  <1>. DEFINE r == [tab[t] EXCEPT !.sessionFile = NoFile, !.durable = NoFile # NoFile, !.pendingResume = NoFile,
                                  !.resumeBlocked = FALSE, !.mutation = "state"]
  <1>1. Present(t) /\ ready[t] /\ alive[t]
    BY OfTab DEF NewAnswered, Knows, Resumes, Operations
  <1>2. PICK f \in Unused : at' = [at EXCEPT ![t] = f]
    BY DEF NewAnswered
  <1>3. f \in Files /\ f \notin files /\ \A u \in TabIds : at[u] # f
    BY UnusedNames
  <1>4. CASE shuttingDown[t]
    BY <1>1, <1>2, <1>3, <1>4, DisregardedGood DEF NewAnswered
  <1>5. CASE ~shuttingDown[t]
    <2>0. (NoFile # NoFile) = FALSE
      OBVIOUS
    <2>1. /\ r \in TabRecord /\ r.mutation = "state" /\ r.place = tab[t].place
          /\ r.sessionFile = NoFile /\ ~r.durable /\ r.pendingResume = NoFile
      <3>1. tab[t] \in TabRecord /\ NoFile \in Name
        BY OfTab DEF Name
      <3>2. r = [tab[t] EXCEPT !.sessionFile = NoFile, !.durable = FALSE, !.pendingResume = NoFile,
                               !.resumeBlocked = FALSE, !.mutation = "state"]
        BY <2>0
      <3>. HIDE DEF r
      <3>. QED
        BY <3>1, <3>2 DEF TabRecord, Operations
    <2>2. /\ Claimed(t, NoFile) \in Index /\ SameForOthers(t, identityOwners, Claimed(t, NoFile))
          /\ \A g \in Files : Claimed(t, NoFile)[g] = t => g \in files
      <3>1. NoFile \in Name /\ ~Clashes(t, NoFile) /\ ClaimsTypeOK
        BY OfTab, Unindexed DEF ClaimsInv, Name, Clashes
      <3>2. \A g \in Files : identityOwners[g] = t => g \in files
        BY OfTab DEF Fits
      <3>. QED
        BY <3>1, <3>2, ClaimedIndex
    <2>3. /\ identityOwners' \in Index /\ SameForOthers(t, identityOwners, identityOwners')
          /\ Fits(t, r, identityOwners')
      <3>1. CASE NoFile = tab[t].sessionFile /\ identityOwners' = identityOwners
        BY <3>1, <2>1, <1>1, OfTab DEF Fits, Owns, Operations, Present
      <3>2. CASE identityOwners' = Refreshed(Claimed(t, NoFile), t, r)
        <4>1. Fits(t, r, Refreshed(Claimed(t, NoFile), t, r))
          BY <2>1, <2>2, <1>1, OfTab, RefreshedFits DEF Owns, Present, Operations
        <4>2. /\ Refreshed(Claimed(t, NoFile), t, r) \in Index
              /\ SameForOthers(t, Claimed(t, NoFile), Refreshed(Claimed(t, NoFile), t, r))
          BY <2>1, <2>2, RefreshedIndex
        <4>. QED
          BY <3>2, <4>1, <4>2, <2>2, Transitivity
      <3>. QED
        BY <3>1, <3>2, <1>5 DEF NewAnswered, Replaced
    <2>4. /\ tab' \in [TabIds -> TabRecord] /\ tab'[t] = r /\ \A u \in TabIds \ {t} : tab'[u] = tab[u]
          /\ Fits(t, tab[t], identityOwners)' /\ files \subseteq files' /\ files' \in SUBSET Files
      <3>1. Registers(t, r) /\ files' = files
        BY <1>5 DEF NewAnswered, Replaced
      <3>. QED
        BY <2>1, <2>3, <3>1, Registering
    <2>5. /\ at' \in [TabIds -> Name] /\ at'[t] = f /\ unnoticed' \in [TabIds -> BOOLEAN]
          /\ \A u \in TabIds \ {t} : at'[u] = at[u] /\ unnoticed'[u] = unnoticed[u]
      BY <1>2, <1>3, <1>5 DEF NewAnswered, Replaced, Name, ClaimsInv, ClaimsTypeOK
    <2>6. Resumes(t)' /\ Knows(t)'
      BY <1>1, <1>3, <2>1, <2>4, <2>5, OfTab, Unindexed DEF NewAnswered, Resumes, Knows, Present
    <2>. QED
      BY <1>3, <2>3, <2>4, <2>5, <2>6 DEF Good, OnlyOf, TabInv, NewAnswered, ClaimsInv, ClaimsTypeOK, FreshApart
  <1>. QED
    BY <1>4, <1>5

LEMMA PerformLateGood ==
  ASSUME ClaimsInv, NEW t \in TabIds, NEW f \in late[t], PerformLate(t, f)
  PROVE  Good(t)
  <1>1. PICK g \in (IF f = NoFile THEN Unused ELSE {f}) : at' = [at EXCEPT ![t] = g]
    BY DEF PerformLate
  <1>2. g \in Files /\ \A u \in TabIds \ {t} : at[u] = g => g \in files
    BY UnusedNames DEF ClaimsInv, ClaimsTypeOK
  <1>3. /\ at' \in [TabIds -> Name] /\ at'[t] = g /\ unnoticed' \in [TabIds -> BOOLEAN] /\ unnoticed'[t] = TRUE
        /\ \A u \in TabIds \ {t} : at'[u] = at[u] /\ unnoticed'[u] = unnoticed[u]
    BY <1>1, <1>2 DEF PerformLate, Name, ClaimsInv, ClaimsTypeOK
  <1>4. late' \in [TabIds -> SUBSET (files' \cup {NoFile})]
    BY DEF PerformLate, ClaimsInv, ClaimsTypeOK
  <1>5. TabInv(t)'
    BY <1>2, <1>3, OfTab, Unindexed DEF PerformLate, TabInv, Fits, Owns, Resumes, Knows, Present
  <1>6. OnlyOf(t) /\ ClaimsTypeOK'
    BY <1>2, <1>3, <1>4, OfTab DEF PerformLate, OnlyOf, ClaimsInv, ClaimsTypeOK, FreshApart
  <1>. QED
    BY <1>5, <1>6 DEF Good

LEMMA OperationEndsGood ==
  ASSUME ClaimsInv, NEW t \in TabIds, OperationEnds(t)
  PROVE  Good(t)
  <1>1. Present(t) /\ at[t] \in Name /\ at[t] # NoFile /\ tab[t].mutation \in {"history", "state"}
    BY OfTab DEF OperationEnds, Knows
  <1>2. ASSUME NEW h \in Told(t, at[t]), Registers(t, Over(h.fields)),
               identityOwners' = Refreshed(h.owners, t, Over(h.fields)),
               StopsOnClash(t, at[t]), Tracks(t, h.fields)
        PROVE  Good(t)
    <2>. DEFINE r == h.fields
                n == Over(r)
                o == Refreshed(h.owners, t, n)
    <2>10. Hears(t, at[t], h)
      BY <1>1, <1>2, HeardFits
    <2>1. /\ r \in TabRecord /\ h.owners \in Index /\ Fits(t, r, h.owners)
          /\ SameForOthers(t, identityOwners, h.owners)
          /\ r = tab[t] \/ r.sessionFile = at[t]
          /\ Verdict(t, at[t]) = "clash" \/ tab[t].pendingResume # NoFile \/ r.sessionFile = at[t]
          /\ Owns(t, tab[t].sessionFile, identityOwners) =>
               Owns(t, tab[t].sessionFile, h.owners) \/ r.sessionFile # tab[t].sessionFile
      BY <2>10 DEF Hears
    <2>2. /\ r.place = tab[t].place /\ r.pendingResume = tab[t].pendingResume
          /\ (r.resumeBlocked <=> tab[t].resumeBlocked)
      <3>1. PICK s \in Name, d \in BOOLEAN : r = [tab[t] EXCEPT !.sessionFile = s, !.durable = d]
        BY <2>10 DEF Hears
      <3>. QED
        BY <3>1, OfTab DEF TabRecord
    <2>3. /\ n \in TabRecord /\ o \in Index /\ SameForOthers(t, h.owners, o) /\ Fits(t, n, o)
          /\ n.mutation = "none" /\ n.place = tab[t].place /\ n.sessionFile = r.sessionFile
          /\ n.pendingResume = tab[t].pendingResume
          /\ (n.resumeBlocked <=> tab[t].resumeBlocked)
          /\ Owns(t, r.sessionFile, h.owners) => Owns(t, r.sessionFile, o)
      BY <1>1, <2>1, <2>2, EndsFits DEF Present
    <2>4. SameForOthers(t, identityOwners, o)
      BY <2>1, <2>3, Transitivity
    <2>5. /\ tab' \in [TabIds -> TabRecord] /\ tab'[t] = n /\ \A u \in TabIds \ {t} : tab'[u] = tab[u]
          /\ identityOwners' \in Index /\ SameForOthers(t, identityOwners, identityOwners')
          /\ Fits(t, tab[t], identityOwners)' /\ files \subseteq files' /\ files' \in SUBSET Files
      BY <1>2, <2>3, <2>4, Registering DEF OperationEnds
    <2>6. /\ (unnoticed'[t] <=> /\ unnoticed[t]
                                /\ r.sessionFile # at[t] \/ (at[t] \in files /\ identityOwners'[at[t]] # t))
          /\ (shuttingDown'[t] <=> shuttingDown[t] \/ Verdict(t, at[t]) = "clash")
          /\ unnoticed' \in [TabIds -> BOOLEAN] /\ shuttingDown' \in [TabIds -> BOOLEAN]
          /\ \A u \in TabIds \ {t} : unnoticed'[u] = unnoticed[u] /\ shuttingDown'[u] = shuttingDown[u]
      BY <1>2 DEF Tracks, StopsOnClash, ClaimsInv, ClaimsTypeOK
    <2>7. Resumes(t)'
      BY <1>1, <2>3, <2>5, OfTab DEF Resumes, OperationEnds, Operations
    <2>8. Knows(t)'
      <3>1. identityOwners' = o /\ Knows(t)
        BY <1>2, OfTab
      <3>. HIDE DEF r, n, o
      <3>2. at[t] \in files => unnoticed'[t] \/ (n.sessionFile = at[t] /\ identityOwners'[at[t]] = t)
        <4>1. CASE unnoticed[t]
          BY <4>1, <2>3, <2>6
        <4>2. ASSUME ~unnoticed[t], at[t] \in files
              PROVE  n.sessionFile = at[t] /\ identityOwners'[at[t]] = t
          <5>1. tab[t].sessionFile = at[t] /\ identityOwners[at[t]] = t
            BY <3>1, <4>2 DEF Knows, OperationEnds
          <5>2. r.sessionFile = at[t]
            BY <5>1, <2>1
          <5>3. Owns(t, at[t], o)
            BY <5>1, <5>2, <4>2, <2>1, <2>3 DEF Owns
          <5>. QED
            BY <5>2, <5>3, <3>1, <2>3 DEF Owns
        <4>. QED
          BY <4>1, <4>2
      <3>. QED
        BY <1>1, <2>1, <2>3, <2>5, <2>6, <3>1, <3>2 DEF Knows, OperationEnds, Present
    <2>9. OnlyOf(t) /\ ClaimsTypeOK'
      BY <2>5, <2>6 DEF OnlyOf, OperationEnds, ClaimsInv, ClaimsTypeOK, FreshApart
    <2>. QED
      BY <2>5, <2>7, <2>8, <2>9 DEF Good, TabInv
  <1>3. CASE Ends(t) /\ UNCHANGED <<shuttingDown, unnoticed>>
    <2>. DEFINE n == Over(tab[t])
                o == Refreshed(identityOwners, t, n)
    <2>1. /\ n \in TabRecord /\ o \in Index /\ SameForOthers(t, identityOwners, o) /\ Fits(t, n, o)
          /\ n.mutation = "none" /\ n.place = tab[t].place /\ n.sessionFile = tab[t].sessionFile
          /\ (n.durable <=> tab[t].durable) /\ n.pendingResume = tab[t].pendingResume
          /\ (n.resumeBlocked <=> tab[t].resumeBlocked)
          /\ Owns(t, tab[t].sessionFile, identityOwners) => Owns(t, tab[t].sessionFile, o)
      BY <1>1, OfTab, EndsFits DEF Present
    <2>2. /\ tab' \in [TabIds -> TabRecord] /\ tab'[t] = n /\ \A u \in TabIds \ {t} : tab'[u] = tab[u]
          /\ identityOwners' \in Index /\ SameForOthers(t, identityOwners, identityOwners')
          /\ Fits(t, tab[t], identityOwners)' /\ files \subseteq files' /\ files' \in SUBSET Files
      BY <1>3, <2>1, Registering DEF OperationEnds, Ends
    <2>3. identityOwners' = o
      BY <1>3 DEF Ends
    <2>4. Resumes(t)' /\ Knows(t)'
      BY <1>1, <1>3, <2>1, <2>2, <2>3, OfTab DEF OperationEnds, Resumes, Knows, Present, Operations, Owns
    <2>. QED
      BY <1>3, <2>2, <2>4 DEF Good, OnlyOf, TabInv, OperationEnds, ClaimsInv, ClaimsTypeOK, FreshApart
  <1>. QED
    BY <1>2, <1>3 DEF OperationEnds

\* A started child is alone in a new session.
LEMMA Spawned ==
  ASSUME ClaimsInv, NEW t \in TabIds, Spawns(t)
  PROVE  /\ alive' \in [TabIds -> BOOLEAN] /\ at' \in [TabIds -> Name] /\ ready' \in [TabIds -> BOOLEAN]
         /\ active' \in [TabIds -> BOOLEAN] /\ shuttingDown' \in [TabIds -> BOOLEAN]
         /\ alive'[t] /\ ~ready'[t] /\ at'[t] \notin files /\ at'[t] # NoFile
         /\ \A u \in TabIds \ {t} : at[u] # at'[t]
         /\ \A u \in TabIds \ {t} : /\ at'[u] = at[u] /\ alive'[u] = alive[u] /\ ready'[u] = ready[u]
                                    /\ shuttingDown'[u] = shuttingDown[u]
  <1>1. PICK f \in Unused : at' = [at EXCEPT ![t] = f]
    BY DEF Spawns
  <1>2. f \in Files /\ f \notin files /\ f # NoFile /\ \A u \in TabIds : at[u] # f
    BY UnusedNames
  <1>. QED
    BY <1>1, <1>2 DEF Spawns, ClaimsInv, ClaimsTypeOK, Name

LEMMA OpenGood ==
  ASSUME ClaimsInv, NEW t \in TabIds, NEW f \in files \cup {NoFile}, NEW confirmed \in BOOLEAN,
         Open(t, f, confirmed)
  PROVE  Good(t)
  <1>. DEFINE r == [NoSuchTab EXCEPT !.place = "open", !.pendingResume = f, !.durable = confirmed /\ f # NoFile,
                                     !.sessionFile = IF confirmed THEN f ELSE NoFile]
  <1>0. (confirmed /\ f # NoFile) \in BOOLEAN /\ f \in Name
    BY OfTab DEF Name
  <1>1. /\ r \in TabRecord /\ r.place = "open" /\ r.pendingResume = f /\ r.mutation = "none"
        /\ (r.durable <=> confirmed /\ f # NoFile) /\ r.sessionFile = (IF confirmed THEN f ELSE NoFile)
        /\ r.transition = NoFile /\ r.previous = NoFile
    BY <1>0 DEF NoSuchTab, TabRecord, Name
  <1>2. \A g \in Files : identityOwners[g] # t
    BY OfTab DEF Fits, Open
  <1>3. Claimed(t, f) \in Index /\ SameForOthers(t, identityOwners, Claimed(t, f))
        /\ (f \in files => Claimed(t, f)[f] = t)
        /\ \A g \in Files : Claimed(t, f)[g] = t => g = f /\ g \in files
    BY <1>0, <1>2, ClaimedIndex DEF Open, ClaimsInv
  <1>4. Fits(t, r, Claimed(t, f))
    BY <1>0, <1>1, <1>3, Unindexed DEF Fits, Owns, Names, Operations
  <1>5. /\ tab' \in [TabIds -> TabRecord] /\ tab'[t] = r /\ \A u \in TabIds \ {t} : tab'[u] = tab[u]
        /\ identityOwners' \in Index /\ SameForOthers(t, identityOwners, identityOwners')
        /\ Fits(t, tab[t], identityOwners)' /\ files \subseteq files' /\ files' \in SUBSET Files
    BY <1>1, <1>3, <1>4, Registering DEF Open
  <1>6. Resumes(t)' /\ Knows(t)'
    BY <1>1, <1>5, Spawned DEF Open, Resumes, Knows, Present, Operations
  <1>7. OnlyOf(t) /\ ClaimsTypeOK'
    <2>1. files' = files /\ late' = late /\ unnoticed' = unnoticed /\ Spawns(t)
      BY DEF Open, Spawns
    <2>. QED
      BY <1>5, <2>1, Spawned DEF OnlyOf, ClaimsInv, ClaimsTypeOK, FreshApart
  <1>. QED
    BY <1>5, <1>6, <1>7 DEF Good, TabInv

LEMMA RestartGood ==
  ASSUME ClaimsInv, NEW t \in TabIds, Restart(t)
  PROVE  Good(t)
  <1>. DEFINE g == IF tab[t].durable THEN tab[t].sessionFile ELSE tab[t].pendingResume
              r == [tab[t] EXCEPT !.mutation = "restart", !.resumeBlocked = FALSE, !.pendingResume = g]
  <1>1. /\ r \in TabRecord /\ r.place = "open" /\ r.mutation = "restart" /\ r.pendingResume = g
        /\ r.sessionFile = tab[t].sessionFile /\ (r.durable <=> tab[t].durable)
        /\ r.transition = tab[t].transition /\ r.previous = tab[t].previous
    BY OfTab DEF TabRecord, Restart
  <1>2. /\ Fits(t, tab[t], identityOwners) /\ tab[t].place = "open" /\ tab[t].mutation = "none"
        /\ files \in SUBSET Files
    BY OfTab DEF Restart
  <1>3. Fits(t, r, identityOwners)
    BY <1>1, <1>2 DEF Fits, Owns, Names, Operations
  <1>4. Registers(t, r)
    BY <1>1 DEF Restart
  <1>5. /\ tab' \in [TabIds -> TabRecord] /\ tab'[t] = r /\ \A u \in TabIds \ {t} : tab'[u] = tab[u]
        /\ identityOwners' \in Index /\ SameForOthers(t, identityOwners, identityOwners')
        /\ Fits(t, tab[t], identityOwners)' /\ files \subseteq files' /\ files' \in SUBSET Files
    BY <1>1, <1>3, <1>4, OfTab, Registering DEF Restart
  <1>6. Resumes(t)' /\ Knows(t)'
    BY <1>1, <1>2, <1>5, OfTab DEF Restart, Resumes, Knows, Present, Operations, ClaimsInv, ClaimsTypeOK
  <1>. QED
    BY <1>5, <1>6 DEF Good, OnlyOf, TabInv, Restart, ClaimsInv, ClaimsTypeOK, FreshApart

LEMMA RestartedGood ==
  ASSUME ClaimsInv, NEW t \in TabIds, Restarted(t)
  PROVE  Good(t)
  <1>. DEFINE r == Over(tab[t])
  <1>1. /\ r \in TabRecord /\ r.place = tab[t].place /\ r.mutation = "none"
        /\ r.pendingResume = tab[t].pendingResume /\ r.transition = NoFile /\ r.previous = NoFile
        /\ r.sessionFile = tab[t].sessionFile /\ (r.durable <=> tab[t].durable)
    BY OfTab DEF TabRecord, Over, Name
  <1>2. /\ Fits(t, tab[t], identityOwners) /\ tab[t].mutation = "restart"
        /\ tab[t].place \in {"open", "closing"} /\ ~ready[t] /\ ~alive[t]
    <2>1. Fits(t, tab[t], identityOwners) /\ tab[t].mutation = "restart" /\ tab[t] \in TabRecord
      BY OfTab DEF Restarted
    <2>2. tab[t].place \notin {"none", "closed"}
      BY <2>1 DEF Fits, NoSuchTab
    <2>. QED
      BY <2>1, <2>2, OfTab DEF TabRecord, Restarted, Knows
  <1>3. tab[t].transition = NoFile /\ tab[t].previous = NoFile
    BY <1>2 DEF Fits, Operations
  <1>4. Fits(t, r, identityOwners)
    BY <1>1, <1>2, <1>3 DEF Fits, Owns, Names, Operations
  <1>5. /\ tab' \in [TabIds -> TabRecord] /\ tab'[t] = r /\ \A u \in TabIds \ {t} : tab'[u] = tab[u]
        /\ identityOwners' \in Index /\ SameForOthers(t, identityOwners, identityOwners')
        /\ Fits(t, tab[t], identityOwners)' /\ files \subseteq files' /\ files' \in SUBSET Files
    BY <1>1, <1>4, OfTab, Registering DEF Restarted
  <1>6. CASE UNCHANGED process
    BY <1>1, <1>2, <1>5, <1>6, OfTab DEF Restarted, process, Good, OnlyOf, TabInv, Resumes, Knows, Operations,
       ClaimsInv, ClaimsTypeOK, FreshApart
  <1>7. CASE Spawns(t)
    <2>1. Resumes(t)' /\ Knows(t)'
      BY <1>1, <1>2, <1>5, <1>7, Spawned DEF Restarted, Resumes, Knows, Present, Operations
    <2>2. files' = files /\ late' = late /\ unnoticed' = unnoticed
      BY <1>7 DEF Restarted, Spawns
    <2>3. OnlyOf(t) /\ ClaimsTypeOK'
      BY <1>5, <1>7, <2>2, Spawned DEF OnlyOf, ClaimsInv, ClaimsTypeOK, FreshApart
    <2>. QED
      BY <1>5, <2>1, <2>3 DEF Good, TabInv
  <1>. QED
    BY <1>6, <1>7 DEF Restarted

LEMMA ExitGood ==
  ASSUME ClaimsInv, NEW t \in TabIds, Exit(t)
  PROVE  Good(t)
  <1>. DEFINE own == tab[t].sessionFile
              After(p) == [p EXCEPT !.pendingResume = IF p.durable THEN own ELSE @, !.resumeBlocked = FALSE]
              Last(q) == IF q.mutation \in {"switch", "new", "history", "state"} THEN Over(q) ELSE q
  <1>0. PICK h \in Heard(t, own) :
          /\ Registers(t, Last(After(h.fields)))
          /\ identityOwners' = IF Last(After(h.fields)) = After(h.fields) THEN h.owners
                               ELSE Refreshed(h.owners, t, Last(After(h.fields)))
    BY DEF Exit
  <1>. DEFINE p == h.fields
              w == h.owners
              q == After(p)
              r == Last(q)
              o == IF r = q THEN w ELSE Refreshed(w, t, r)
  <1>1. Present(t) /\ own \in Name
    BY OfTab DEF Exit, Knows, TabRecord
  <1>12. Hears(t, own, h)
    <2>1. h \in Told(t, own)
      BY DEF Told
    <2>. QED
      BY <1>1, <2>1, HeardFits
  <1>2. /\ p \in TabRecord /\ w \in Index /\ Fits(t, p, w) /\ SameForOthers(t, identityOwners, w)
        /\ (p = tab[t] \/ p.sessionFile = own)
    BY <1>12 DEF Hears
  <1>3. /\ p.place = tab[t].place /\ p.sessionFile = own
    <2>1. PICK s \in Name, d \in BOOLEAN : p = [tab[t] EXCEPT !.sessionFile = s, !.durable = d]
      BY <1>12 DEF Hears
    <2>. QED
      BY <2>1, <1>2, OfTab DEF TabRecord
  <1>4. /\ q \in TabRecord /\ q.place = p.place /\ q.sessionFile = own /\ (q.durable <=> p.durable)
        /\ q.pendingResume = (IF p.durable THEN own ELSE p.pendingResume) /\ q.mutation = p.mutation
        /\ q.transition = p.transition /\ q.previous = p.previous
    BY <1>1, <1>2, <1>3 DEF TabRecord
  <1>5. Fits(t, q, w) /\ q.place \in {"open", "closing"}
    BY <1>1, <1>2, <1>3, <1>4 DEF Fits, Owns, Names, Present
  <1>6. /\ r \in TabRecord /\ o \in Index /\ SameForOthers(t, identityOwners, o) /\ Fits(t, r, o)
        /\ r.mutation \notin Operations
    <2>1. CASE q.mutation \in Operations
      <3>1. r = Over(q) /\ Over(q) # q
        BY <2>1, <1>4 DEF Operations, Over, TabRecord
      <3>2. /\ r \in TabRecord /\ o \in Index /\ SameForOthers(t, w, o) /\ Fits(t, r, o)
            /\ r.mutation = "none"
        BY <3>1, <1>2, <1>4, <1>5, EndsFits
      <3>. QED
        BY <3>2, <1>2, Transitivity DEF Operations
    <2>2. CASE q.mutation \notin Operations
      BY <2>2, <1>2, <1>4, <1>5 DEF Operations
    <2>. QED
      BY <2>1, <2>2
  <1>7. Registers(t, r) /\ identityOwners' = o
    BY <1>0
  <1>13. /\ alive' = [alive EXCEPT ![t] = FALSE] /\ at' = [at EXCEPT ![t] = NoFile]
         /\ ready' = [ready EXCEPT ![t] = FALSE] /\ active' = [active EXCEPT ![t] = FALSE]
         /\ late' = [late EXCEPT ![t] = {}] /\ unnoticed' = [unnoticed EXCEPT ![t] = FALSE]
         /\ files' = files
    BY DEF Exit
  <1>. HIDE DEF r, o
  <1>8. /\ tab' \in [TabIds -> TabRecord] /\ tab'[t] = r /\ \A u \in TabIds \ {t} : tab'[u] = tab[u]
        /\ identityOwners' \in Index /\ SameForOthers(t, identityOwners, identityOwners')
        /\ Fits(t, tab[t], identityOwners)' /\ files \subseteq files' /\ files' \in SUBSET Files
    BY <1>6, <1>7, <1>13, Registering
  <1>9. Resumes(t)' /\ Knows(t)'
    BY <1>6, <1>8, <1>13 DEF Resumes, Knows, ClaimsInv, ClaimsTypeOK
  <1>10. /\ shuttingDown' \in [TabIds -> BOOLEAN]
         /\ \A u \in TabIds \ {t} : shuttingDown'[u] = shuttingDown[u]
    BY DEF Exit, StopsOnClash, ClaimsInv, ClaimsTypeOK
  <1>11. OnlyOf(t) /\ ClaimsTypeOK'
    BY <1>8, <1>10, <1>13 DEF OnlyOf, Name, ClaimsInv, ClaimsTypeOK, FreshApart
  <1>. QED
    BY <1>8, <1>9, <1>11 DEF Good, TabInv

LEMMA PromptGood ==
  ASSUME ClaimsInv, NEW t \in TabIds, Prompt(t)
  PROVE  Good(t)
  <1>1. TabInv(t)'
    BY OfTab DEF Prompt, TabInv, Fits, Owns, Resumes, Knows, Present
  <1>. QED
    BY <1>1, OfTab DEF Prompt, Good, OnlyOf, ClaimsInv, ClaimsTypeOK, FreshApart

LEMMA RunSavesGood ==
  ASSUME ClaimsInv, NEW t \in TabIds, RunSaves(t)
  PROVE  Good(t)
  <1>1. at[t] \in Files /\ at[t] \notin files /\ alive[t] /\ files' = files \cup {at[t]}
    BY OfTab DEF RunSaves, Knows, Name
  <1>2. unnoticed' \in [TabIds -> BOOLEAN] /\ unnoticed'[t] /\ \A u \in TabIds \ {t} : unnoticed'[u] = unnoticed[u]
    BY DEF RunSaves, ClaimsInv, ClaimsTypeOK
  <1>3. \A u \in TabIds \ {t} : alive[u] => at[u] # at[t]
    BY <1>1 DEF ClaimsInv, FreshApart
  <1>4. TabInv(t)'
    BY <1>1, <1>2, OfTab DEF RunSaves, TabInv, Fits, Owns, Resumes, Knows, Present
  <1>5. ClaimsTypeOK'
    BY <1>1, <1>2 DEF RunSaves, ClaimsInv, ClaimsTypeOK
  <1>6. OnlyOf(t)
    BY <1>1, <1>2, <1>3, OfTab DEF RunSaves, OnlyOf
  <1>. QED
    BY <1>4, <1>5, <1>6 DEF Good

LEMMA RunEndsGood ==
  ASSUME ClaimsInv, NEW t \in TabIds, RunEnds(t)
  PROVE  Good(t)
  <1>. DEFINE own == tab[t].sessionFile
  <1>0. PICK h \in Heard(t, own) :
          Registers(t, h.fields) /\ identityOwners' = h.owners /\ Tracks(t, h.fields)
    BY DEF RunEnds
  <1>. DEFINE r == h.fields
  <1>1. Present(t) /\ own \in Name /\ h \in Told(t, own)
    BY OfTab DEF RunEnds, Knows, TabRecord, Told
  <1>9. Hears(t, own, h)
    BY <1>1, HeardFits
  <1>2. /\ r \in TabRecord /\ h.owners \in Index /\ Fits(t, r, h.owners)
        /\ SameForOthers(t, identityOwners, h.owners)
        /\ r = tab[t] \/ r.sessionFile = own
        /\ Owns(t, own, identityOwners) => Owns(t, own, h.owners) \/ r.sessionFile # own
    BY <1>9 DEF Hears
  <1>3. /\ r.place = tab[t].place /\ r.pendingResume = tab[t].pendingResume /\ r.sessionFile = own
        /\ r.mutation = tab[t].mutation /\ (r.resumeBlocked <=> tab[t].resumeBlocked)
    <2>1. PICK s \in Name, d \in BOOLEAN : r = [tab[t] EXCEPT !.sessionFile = s, !.durable = d]
      BY <1>9 DEF Hears
    <2>. QED
      BY <2>1, <1>2, OfTab DEF TabRecord
  <1>4. /\ tab' \in [TabIds -> TabRecord] /\ tab'[t] = r /\ \A u \in TabIds \ {t} : tab'[u] = tab[u]
        /\ identityOwners' \in Index /\ SameForOthers(t, identityOwners, identityOwners')
        /\ Fits(t, tab[t], identityOwners)' /\ files \subseteq files' /\ files' \in SUBSET Files
    BY <1>0, <1>2, Registering DEF RunEnds
  <1>5. /\ (unnoticed'[t] <=> /\ unnoticed[t]
                              /\ own # at[t] \/ (at[t] \in files /\ identityOwners'[at[t]] # t))
        /\ (shuttingDown'[t] <=> shuttingDown[t] \/ Verdict(t, own) = "clash")
        /\ unnoticed' \in [TabIds -> BOOLEAN] /\ shuttingDown' \in [TabIds -> BOOLEAN]
        /\ \A u \in TabIds \ {t} : unnoticed'[u] = unnoticed[u] /\ shuttingDown'[u] = shuttingDown[u]
    <2>1. unnoticed \in [TabIds -> BOOLEAN] /\ shuttingDown \in [TabIds -> BOOLEAN]
      BY DEF ClaimsInv, ClaimsTypeOK
    <2>2. /\ unnoticed' = [unnoticed EXCEPT ![t] =
                @ /\ (own # at[t] \/ (at[t] \in files /\ identityOwners'[at[t]] # t))]
          /\ shuttingDown' = [shuttingDown EXCEPT ![t] = @ \/ Verdict(t, own) = "clash"]
      BY <1>0, <1>3 DEF RunEnds, Tracks, StopsOnClash
    <2>. QED
      BY <2>1, <2>2
  <1>6. Resumes(t)'
    BY <1>3, <1>4, OfTab DEF RunEnds, Resumes
  <1>7. Knows(t)'
    <2>1. at[t] \in files => unnoticed'[t] \/ (own = at[t] /\ identityOwners'[at[t]] = t)
      BY <1>0, <1>2, <1>3, <1>5, OfTab DEF RunEnds, Knows, Owns
    <2>. QED
      BY <1>1, <1>2, <1>3, <1>4, <1>5, <2>1, OfTab DEF RunEnds, Knows, Present
  <1>8. OnlyOf(t) /\ ClaimsTypeOK'
    BY <1>4, <1>5 DEF RunEnds, OnlyOf, ClaimsInv, ClaimsTypeOK, FreshApart
  <1>. QED
    BY <1>4, <1>6, <1>7, <1>8 DEF Good, TabInv

LEMMA CloseGood ==
  ASSUME ClaimsInv, NEW t \in TabIds, Close(t)
  PROVE  Good(t)
  <1>. DEFINE r == [tab[t] EXCEPT !.place = "closing"]
  <1>1. /\ r \in TabRecord /\ r.place = "closing" /\ r.mutation = tab[t].mutation
        /\ r.sessionFile = tab[t].sessionFile /\ (r.durable <=> tab[t].durable)
        /\ r.pendingResume = tab[t].pendingResume /\ r.transition = tab[t].transition
        /\ r.previous = tab[t].previous
    BY OfTab DEF TabRecord
  <1>2. Fits(t, tab[t], identityOwners)
    BY OfTab
  <1>3. Fits(t, r, identityOwners)
    BY <1>1, <1>2 DEF Fits, Owns
  <1>4. /\ tab' \in [TabIds -> TabRecord] /\ tab'[t] = r /\ \A u \in TabIds \ {t} : tab'[u] = tab[u]
        /\ identityOwners' \in Index /\ SameForOthers(t, identityOwners, identityOwners')
        /\ Fits(t, tab[t], identityOwners)' /\ files \subseteq files' /\ files' \in SUBSET Files
    BY <1>1, <1>3, OfTab, Registering DEF Close
  <1>5. Resumes(t)' /\ Knows(t)'
    BY <1>1, <1>4, OfTab DEF Close, Resumes, Knows, Present, ClaimsInv, ClaimsTypeOK
  <1>. QED
    BY <1>4, <1>5 DEF Close, Good, OnlyOf, TabInv, ClaimsInv, ClaimsTypeOK, FreshApart

LEMMA ClosedGood ==
  ASSUME ClaimsInv, NEW t \in TabIds, Closed(t)
  PROVE  Good(t)
  <1>. DEFINE r == [NoSuchTab EXCEPT !.place = "closed"]
              o == Refreshed(identityOwners, t, r)
  <1>1. /\ r \in TabRecord /\ r.place = "closed" /\ r.mutation = "none" /\ ~r.durable
        /\ r.pendingResume = NoFile /\ r.transition = NoFile /\ r.previous = NoFile
    BY DEF NoSuchTab, TabRecord, Name
  <1>2. o \in Index /\ SameForOthers(t, identityOwners, o) /\ \A g \in Files : o[g] # t
    <2>1. r \in TabRecord /\ identityOwners \in Index
      BY <1>1, OfTab
    <2>2. o \in Index /\ SameForOthers(t, identityOwners, o)
      BY <2>1, RefreshedIndex
    <2>3. \A g \in Files : o[g] # t
      BY <2>1, <1>1, Unindexed DEF Refreshed, Index
    <2>. QED
      BY <2>2, <2>3
  <1>3. Fits(t, r, o)
    BY <1>1, <1>2 DEF Fits, Operations
  <1>4. /\ tab' \in [TabIds -> TabRecord] /\ tab'[t] = r /\ \A u \in TabIds \ {t} : tab'[u] = tab[u]
        /\ identityOwners' \in Index /\ SameForOthers(t, identityOwners, identityOwners')
        /\ Fits(t, tab[t], identityOwners)' /\ files \subseteq files' /\ files' \in SUBSET Files
    BY <1>1, <1>2, <1>3, Registering DEF Closed, process
  <1>5. Resumes(t)' /\ Knows(t)'
    BY <1>1, <1>4, OfTab DEF Closed, Resumes, Knows, Present, Operations, process
  <1>. QED
    BY <1>4, <1>5 DEF Closed, Good, OnlyOf, TabInv, process, ClaimsInv, ClaimsTypeOK, FreshApart

-----------------------------------------------------------------------------
(* The invariant, and what follows from it.                                *)

LEMMA InvInitially == ClaimsInit => ClaimsInv
  <1>. SUFFICES ASSUME ClaimsInit PROVE ClaimsInv
    OBVIOUS
  <1>1. NoSuchTab \in TabRecord /\ SavedFiles \in SUBSET Files
    BY DEF NoSuchTab, TabRecord, Name, Files
  <1>2. ClaimsTypeOK
    BY <1>1 DEF ClaimsInit, ClaimsTypeOK, Index, Name
  <1>3. NoSuchTab = [NoSuchTab EXCEPT !.place = NoSuchTab.place]
    BY DEF NoSuchTab
  <1>4. ASSUME NEW t \in TabIds PROVE TabInv(t)
    <2>1. tab[t] = NoSuchTab /\ ~alive[t] /\ ~ready[t] /\ \A f \in Files : identityOwners[f] # t
      BY Unindexed DEF ClaimsInit
    <2>. QED
      BY <2>1, <1>3 DEF TabInv, Fits, Resumes, Knows, NoSuchTab, Operations
  <1>. QED
    BY <1>2, <1>4 DEF ClaimsInv, FreshApart, ClaimsInit

LEMMA InvStep == ClaimsInv /\ [ClaimsNext]_claimsVars => ClaimsInv'
  <1>. SUFFICES ASSUME ClaimsInv, [ClaimsNext]_claimsVars PROVE ClaimsInv'
    OBVIOUS
  <1>1. CASE UNCHANGED claimsVars
    BY <1>1 DEF claimsVars, process, ClaimsInv, ClaimsTypeOK, FreshApart, TabInv, Fits, Owns, Resumes, Knows, Present
  <1>2. ASSUME NEW t \in TabIds, NEW f \in files \cup {NoFile}, NEW confirmed \in BOOLEAN, Open(t, f, confirmed)
        PROVE  ClaimsInv'
    BY <1>2, OpenGood, GoodSteps
  <1>3. ASSUME NEW t \in TabIds, NEW f \in files, Switch(t, f)
        PROVE  ClaimsInv'
    BY <1>3, SwitchGood, GoodSteps
  <1>4. ASSUME NEW t \in TabIds, NEW f \in late[t], PerformLate(t, f)
        PROVE  ClaimsInv'
    BY <1>4, PerformLateGood, GoodSteps
  <1>5. ASSUME NEW t \in TabIds, StateHeard(t) \/ Reserve(t) \/ Release(t) \/ SwitchAnswered(t) \/ New(t)
        PROVE  ClaimsInv'
    BY <1>5, StateHeardGood, ReserveGood, ReleaseGood, SwitchAnsweredGood, NewGood, GoodSteps
  <1>6. ASSUME NEW t \in TabIds, NewAnswered(t) \/ CommandFails(t) \/ OperationEnds(t) \/ Restart(t) \/ Restarted(t)
        PROVE  ClaimsInv'
    BY <1>6, NewAnsweredGood, CommandFailsGood, OperationEndsGood, RestartGood, RestartedGood, GoodSteps
  <1>7. ASSUME NEW t \in TabIds, Exit(t) \/ Prompt(t) \/ RunSaves(t) \/ RunEnds(t) \/ Close(t) \/ Closed(t)
        PROVE  ClaimsInv'
    BY <1>7, ExitGood, PromptGood, RunSavesGood, RunEndsGood, CloseGood, ClosedGood, GoodSteps
  <1>. QED
    BY <1>1, <1>2, <1>3, <1>4, <1>5, <1>6, <1>7 DEF ClaimsNext

LEMMA InvAlways == ClaimsSpec => []ClaimsInv
  BY InvInitially, InvStep, PTL DEF ClaimsSpec

\* The registry's fields and index have their types, whatever the tabs do.
THEOREM ClaimsTyped == ClaimsSpec => []ClaimsTypeOK
  BY InvAlways, PTL DEF ClaimsInv

\* The index of claims and the tabs agree (claim, refreshClaims), for any number of tabs.
THEOREM IndexIsRight == ClaimsSpec => []ClaimsMatchTabs
  <1>1. ASSUME ClaimsInv PROVE ClaimsMatchTabs
    <2>1. ASSUME NEW f \in Files, identityOwners[f] # NoTab
          PROVE  LET t == identityOwners[f] IN
                 /\ f \in files /\ Present(t)
                 /\ tab[t].place = "open" /\ tab[t].mutation = "none" => f \in Names(tab[t])
      <3>1. identityOwners[f] \in TabIds
        BY <1>1, <2>1 DEF ClaimsInv, ClaimsTypeOK, Index
      <3>2. Fits(identityOwners[f], tab[identityOwners[f]], identityOwners)
        BY <1>1, <3>1 DEF ClaimsInv, TabInv
      <3>. QED
        BY <3>2 DEF Fits, Present, Operations
    <2>2. ASSUME NEW t \in TabIds
          PROVE  /\ tab[t].durable => identityOwners[tab[t].sessionFile] = t
                 /\ tab[t].pendingResume # NoFile => identityOwners[tab[t].pendingResume] = t
      BY <1>1, OfTab DEF Fits, Owns
    <2>. QED
      BY <2>1, <2>2 DEF ClaimsMatchTabs
  <1>. QED
    BY <1>1, InvAlways, PTL

\* Two children of any number of tabs are never in one session that their tabs know of:
\* a new session is one child's, and a saved one is its owner's.
THEOREM ChildrenStayApart == ClaimsSpec => []ChildrenApart
  <1>1. ASSUME ClaimsInv PROVE ChildrenApart
    <2>. SUFFICES ASSUME NEW t \in TabIds, NEW u \in TabIds, t # u, alive[t], alive[u], at[t] = at[u],
                         ~unnoticed[t], ~unnoticed[u]
                  PROVE  FALSE
      BY DEF ChildrenApart
    <2>1. at[t] \in files
      BY <1>1 DEF ClaimsInv, FreshApart
    <2>2. identityOwners[at[t]] = t /\ identityOwners[at[t]] = u
      BY <2>1, <1>1 DEF ClaimsInv, TabInv, Knows
    <2>. QED
      BY <2>2
  <1>. QED
    BY <1>1, InvAlways, PTL

\* A tab that is ready and idle has tried to resume what it has to (resumePending).
THEOREM ResumesArePursued == ClaimsSpec => []NoMissedResume
  <1>1. ASSUME ClaimsInv PROVE NoMissedResume
    BY <1>1 DEF ClaimsInv, TabInv, Resumes, NoMissedResume
  <1>. QED
    BY <1>1, InvAlways, PTL

\* A prompt starts a run in the session that its tab shows, for any number of tabs.
THEOREM PromptsAreSeen == ClaimsSpec => PromptReachesShownSession
  <1>. DEFINE Sees(t) == unnoticed[t] \/ at[t] = tab[t].sessionFile \/ tab[t].sessionFile = NoFile
  <1>1. ASSUME ClaimsInv, [ClaimsNext]_claimsVars, NEW t \in TabIds, ~active[t], active'[t]
        PROVE  Sees(t)
    <2>1. active # active'
      BY <1>1
    <2>2. PICK u \in TabIds : Prompt(u)
      <3>1. ASSUME NEW u \in TabIds, active' = [active EXCEPT ![u] = FALSE] PROVE FALSE
        BY <1>1, <3>1 DEF ClaimsInv, ClaimsTypeOK
      <3>2. ASSUME NEW u \in TabIds, Spawns(u) PROVE FALSE
        BY <3>1, <3>2 DEF Spawns
      <3>3. PICK u \in TabIds :
              \/ \E f \in files \cup {NoFile}, confirmed \in BOOLEAN : Open(u, f, confirmed)
              \/ StateHeard(u) \/ Reserve(u) \/ Release(u)
              \/ (\E f \in files : Switch(u, f)) \/ SwitchAnswered(u)
              \/ New(u) \/ NewAnswered(u) \/ CommandFails(u) \/ OperationEnds(u)
              \/ \E f \in late[u] : PerformLate(u, f)
              \/ Restart(u) \/ Restarted(u) \/ Exit(u)
              \/ Prompt(u) \/ RunSaves(u) \/ RunEnds(u)
              \/ Close(u) \/ Closed(u)
        BY <1>1, <2>1 DEF ClaimsNext, claimsVars, process
      <3>4. ~\E f \in files \cup {NoFile}, confirmed \in BOOLEAN : Open(u, f, confirmed)
        BY <3>2 DEF Open
      <3>5. ~(StateHeard(u) \/ Reserve(u) \/ Release(u) \/ CommandFails(u) \/ OperationEnds(u) \/ Close(u) \/ Closed(u))
        BY <2>1 DEF StateHeard, Reserve, Release, CommandFails, OperationEnds, Close, Closed, process
      <3>6. ~((\E f \in files : Switch(u, f)) \/ SwitchAnswered(u) \/ New(u) \/ NewAnswered(u))
        BY <2>1 DEF Switch, SwitchAnswered, New, NewAnswered, process
      <3>7. ~((\E f \in late[u] : PerformLate(u, f)) \/ Restart(u) \/ RunSaves(u))
        BY <2>1 DEF PerformLate, Restart, RunSaves
      <3>8. ~(Restarted(u) \/ Exit(u) \/ RunEnds(u))
        BY <2>1, <3>1, <3>2 DEF Restarted, Exit, RunEnds, process
      <3>. QED
        BY <3>3, <3>4, <3>5, <3>6, <3>7, <3>8
    <2>3. u = t
      BY <1>1, <2>2 DEF Prompt, ClaimsInv, ClaimsTypeOK
    <2>. QED
      BY <1>1, <2>2, <2>3 DEF Prompt, Idle, ClaimsInv, TabInv, Knows
  <1>2. ClaimsInv /\ [ClaimsNext]_claimsVars =>
          [\A t \in TabIds : ~active[t] /\ active'[t] => Sees(t)]_claimsVars
    BY <1>1
  <1>. QED
    BY <1>2, InvAlways, PTL DEF ClaimsSpec, PromptReachesShownSession
=============================================================================
