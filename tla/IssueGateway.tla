---------------------------- MODULE IssueGateway ----------------------------
(***************************************************************************)
(* The issue bot: an intake worker that admits a submission and queues it, *)
(* a consumer that moderates it and files an issue on GitHub, and the      *)
(* scheduled job that cleans up after both.  They share rows of a D1       *)
(* database, in which a statement (or a batch of them) is atomic, and a    *)
(* queue that delivers at least once.  Any of them may stop between two    *)
(* statements.  A request r names its submission: the id is drawn afresh.  *)
(***************************************************************************)
EXTENDS Integers, FiniteSets

CONSTANTS
  Requests,     \* the POST /v1/submissions requests
  Workers,      \* the deliveries that are processed at the same time
  BucketOf,     \* the hashed address a request comes from
  KeyOf,        \* its idempotency key
  TextOf,       \* the digest of what it says
  GlobalActive, \* DEFAULT_QUOTA_POLICY.globalActive
  None

Global == "global"
Scopes == {Global} \cup {BucketOf[r] : r \in Requests}
Texts  == {TextOf[r] : r \in Requests}

ASSUME GatewayAssumption ==
  /\ IsFiniteSet(Requests) /\ None \notin Requests \cup Workers
  /\ Global \notin {BucketOf[r] : r \in Requests}
  /\ GlobalActive \in Nat \ {0}

VARIABLES
  status,   \* submissions.status, "absent" without a row
  lease,    \* processor_lease_id
  unlapsed, \* the rows whose processor_lease_expires_at is ahead
  mutation, \* mutation_state
  outbox,   \* the rows of enqueue_outbox
  slots,    \* quota_counters of the window "active"
  reserved, \* digest_reservations that have not expired
  main, dlq,  \* the messages of the two queues
  old,      \* created more than ten minutes ago
  quiet,    \* not updated for an hour
  at, held, \* an intake request, and the active slots it has counted for itself
  out,      \* what the intake or the scheduled job does with an outbox row
  pc, job, view, aim, \* a delivery: its place, message, what claim read, what it is to store
  issues,   \* issues on GitHub with the marker of r
  late,     \* POSTs that were given up on and that GitHub has still to perform
  twice     \* requests that may give back slots which their row owns (history)

store    == <<status, lease, unlapsed, mutation, outbox, slots, reserved>>
queues   == <<main, dlq>>
clock    == <<old, quiet>>
intake   == <<at, held, out, twice>>
consumer == <<pc, job, view, aim>>
github   == <<issues, late>>
vars     == <<store, queues, clock, intake, consumer, github>>

Live  == {"received", "queued", "checking"}
Final == {"created", "rejected", "review", "unavailable"}
Ended == Final \cup {"unknown"}
Statuses  == Live \cup Ended \cup {"absent", "rejected_prefilter"}
Mutations == {"none", "post_started", "ambiguous", "confirmed"}
Senders   == {"request", "cron"}

Init ==
  /\ status = [r \in Requests |-> "absent"] /\ mutation = [r \in Requests |-> "none"]
  /\ lease = [r \in Requests |-> None] /\ unlapsed = {}
  /\ outbox = {} /\ reserved = [t \in Texts |-> None]
  /\ slots = [s \in Scopes |-> 0]
  /\ main = {} /\ dlq = {} /\ old = {} /\ quiet = {}
  /\ at = [r \in Requests |-> "lookup"] /\ held = [r \in Requests |-> {}]
  /\ out = [s \in Senders |-> [r \in Requests |-> "no"]] /\ twice = {}
  /\ pc = [w \in Workers |-> "idle"] /\ job = [w \in Workers |-> None]
  /\ view = [w \in Workers |-> None] /\ aim = [w \in Workers |-> None]
  /\ issues = [r \in Requests |-> 0] /\ late = [r \in Requests |-> 0]

-----------------------------------------------------------------------------
(* The store.                                                              *)

Less(n, k) == IF n > k THEN n - k ELSE 0

\* Statuses are updated, and the trigger counts every row that ends out of the
\* active slots of its bucket and of all.
Update(new) ==
  /\ status' = new
  /\ quiet' = quiet \ {r \in Requests : new[r] # status[r]}
  /\ slots' = [s \in Scopes |-> Less(slots[s],
       Cardinality({r \in Requests : /\ status[r] \in Live /\ new[r] \in Ended
                                     /\ s \in {Global, BucketOf[r]}}))]

GivesAnyBack(r, scope) ==             \* mutant of CountBack: those it was refused, too
  scope \in {Global, BucketOf[r]} /\ slots' = [slots EXCEPT ![scope] = Less(@, 1)]

\* A slot that a request has counted for itself is counted back.
CountBack(r, scope) == scope \in held[r] /\ slots' = [slots EXCEPT ![scope] = Less(@, 1)]

FreeDigest(r) == reserved' = [reserved EXCEPT ![TextOf[r]] = IF @ = r THEN None ELSE @]

Leased(r) == lease[r] # None /\ r \in unlapsed
FreeLease(r) == lease' = [lease EXCEPT ![r] = None] /\ unlapsed' = unlapsed \ {r}

\* markMalformedUnavailable, markDlqUnavailable: whoever holds the lease.
MarkUnleasedUnavailable(r) ==
  IF status[r] \in Live \cup {"unknown"}
  THEN Update([status EXCEPT ![r] = "unavailable"]) /\ FreeLease(r)
  ELSE UNCHANGED <<status, slots, lease, unlapsed, quiet>>

-----------------------------------------------------------------------------
(* The intake: one request, statement by statement.                        *)

Go(r, place) == at' = [at EXCEPT ![r] = place]

\* The requests whose row has this idempotency key.
Known(r) == {q \in Requests : status[q] # "absent" /\ KeyOf[q] = KeyOf[r] /\ BucketOf[q] = BucketOf[r]}

\* A known key is answered from its row; admission, the challenge or the words
\* of the text may end the request, the last by a row that is never queued.
Lookup(r) ==
  /\ at[r] = "lookup"
  /\ \/ Go(r, "done")
     \/ Known(r) = {} /\ \E place \in {"prefilter", "digest"} : Go(r, place)
  /\ UNCHANGED <<store, queues, clock, held, out, twice, consumer, github>>

RejectPrefilter(r) ==
  /\ at[r] = "prefilter" /\ Go(r, "done")
  /\ status' = [status EXCEPT ![r] = IF Known(r) = {} THEN "rejected_prefilter" ELSE @]
  /\ UNCHANGED <<lease, unlapsed, mutation, outbox, slots, reserved,
                 queues, clock, held, out, twice, consumer, github>>

ReserveDigest(r) ==
  /\ at[r] = "digest"
  /\ IF reserved[TextOf[r]] = None
     THEN reserved' = [reserved EXCEPT ![TextOf[r]] = r] /\ Go(r, "bucket")
     ELSE UNCHANGED reserved /\ Go(r, "done")
  /\ UNCHANGED <<status, lease, unlapsed, mutation, outbox, slots,
                 queues, clock, held, out, twice, consumer, github>>

CountSlot(r, scope, limit, next) ==
  /\ IF slots[scope] < limit
     THEN /\ slots' = [slots EXCEPT ![scope] = @ + 1]
          /\ held' = [held EXCEPT ![r] = @ \cup {scope}] /\ Go(r, next)
     ELSE UNCHANGED <<slots, held>> /\ Go(r, "back")
  /\ UNCHANGED <<status, lease, unlapsed, mutation, outbox, reserved,
                 queues, clock, out, twice, consumer, github>>

CountBucket(r) == at[r] = "bucket" /\ CountSlot(r, BucketOf[r], 1, "global")
CountGlobal(r) == at[r] = "global" /\ CountSlot(r, Global, GlobalActive, "create")

\* The cooldown of the bucket, an hour or a day that is full, or a text that is
\* too long.
Refuse(r) ==
  /\ at[r] \in {"bucket", "create"} /\ Go(r, "back")
  /\ UNCHANGED <<store, queues, clock, held, out, twice, consumer, github>>

\* reserve compensates, or release: a statement for each slot.
GiveBack(r, scope) ==
  /\ at[r] = "back"
  /\ CountBack(r, scope) /\ held' = [held EXCEPT ![r] = @ \ {scope}]
  /\ UNCHANGED <<status, lease, unlapsed, mutation, outbox, reserved,
                 queues, clock, at, out, twice, consumer, github>>

\* releaseDigest, when all of them are counted back.
GivenBack(r) ==
  /\ at[r] = "back" /\ held[r] = {}
  /\ Go(r, "done") /\ FreeDigest(r)
  /\ UNCHANGED <<status, lease, unlapsed, mutation, outbox, slots,
                 queues, clock, held, out, twice, consumer, github>>

\* The row and its outbox entry in one batch. The batch fails on a row with the
\* same key, or altogether; and it may be committed while its answer, or one of
\* the reads that verify it, is lost.
Create(r) ==
  /\ at[r] = "create"
  /\ \/ Go(r, "back") /\ UNCHANGED <<status, outbox, out, twice>>
     \/ /\ Known(r) = {}
        /\ status' = [status EXCEPT ![r] = "received"] /\ outbox' = outbox \cup {r}
        /\ \/ Go(r, "done") /\ out' = [out EXCEPT !["request"][r] = "send"] /\ UNCHANGED twice
           \/ Go(r, "back") /\ twice' = twice \cup {r} /\ UNCHANGED out
  /\ held' = IF at'[r] = "done" THEN [held EXCEPT ![r] = {}] ELSE held
  /\ UNCHANGED <<lease, unlapsed, mutation, slots, reserved, queues, clock, consumer, github>>

\* The request dies between two statements; what it counted stays counted.
RequestDies(r) ==
  /\ at[r] # "done" /\ Go(r, "done")
  /\ UNCHANGED <<store, queues, clock, held, out, twice, consumer, github>>

-----------------------------------------------------------------------------
(* enqueueSubmission, by the request and by the scheduled job.             *)

\* The send is accepted or rejected; a rejected one may have been queued.
Send(s, r) ==
  /\ out[s][r] = "send"
  /\ \/ main' = main \cup {r} /\ out' = [out EXCEPT ![s][r] = "mark"]
     \/ main' \in {main, main \cup {r}} /\ out' = [out EXCEPT ![s][r] = "fail"]
  /\ UNCHANGED <<store, dlq, clock, at, held, twice, consumer, github>>

MarkQueued(s, r) ==
  /\ out[s][r] = "mark" /\ out' = [out EXCEPT ![s][r] = "no"]
  /\ status' = [status EXCEPT ![r] = IF @ = "received" THEN "queued" ELSE @]
  /\ quiet' = IF status[r] = "received" THEN quiet \ {r} ELSE quiet
  /\ outbox' = outbox \ {r}
  /\ UNCHANGED <<lease, unlapsed, mutation, slots, reserved, queues, old, at, held, twice, consumer, github>>

MarkUnavailable(s, r) ==
  /\ out[s][r] = "fail" /\ out' = [out EXCEPT ![s][r] = "no"]
  /\ Update([status EXCEPT ![r] = IF @ \in {"received", "queued"} THEN "unavailable" ELSE @])
  /\ outbox' = outbox \ {r}
  /\ UNCHANGED <<lease, unlapsed, mutation, reserved, queues, old, at, held, twice, consumer, github>>

\* The statement fails or its sender dies: the outbox keeps the row.
SenderDies(s, r) ==
  /\ out[s][r] # "no" /\ out' = [out EXCEPT ![s][r] = "no"]
  /\ UNCHANGED <<store, queues, clock, at, held, twice, consumer, github>>

WaitingOnly(r) ==                     \* mutant of Stale: not what a dead worker left
  \/ status[r] = "received" /\ r \in old
  \/ status[r] = "queued" /\ r \in quiet

Stale(r) ==
  \/ status[r] = "received" /\ r \in old
  \/ status[r] \in {"queued", "checking"} /\ r \in quiet

\* A row that has ended goes after days, which no delivery outlasts.
Expirable(r) ==
  /\ status[r] \in Ended \cup {"rejected_prefilter"} /\ r \in quiet
  /\ late[r] = 0 /\ at[r] = "done"
  /\ \A w \in Workers : job[w] # r
  /\ \A s \in Senders : out[s][r] = "no"

Cleaned(expired) ==
  [r \in Requests |-> IF Stale(r) THEN "unavailable"
                      ELSE IF r \in expired THEN "absent" ELSE status[r]]

\* scheduled: cleanup in one batch, then the rows that are still received are
\* sent again.
Scheduled ==
  LET freed == {r \in Requests : Stale(r) /\ status[r] # "received"}
      box   == outbox \ old
  IN /\ UNCHANGED <<consumer, queues, mutation, reserved, old, at, held, twice, github>>
     /\ lease' = [r \in Requests |-> IF r \in freed THEN None ELSE lease[r]]
     /\ unlapsed' = unlapsed \ freed
     /\ out' = [out EXCEPT !["cron"] = [r \in Requests |->
                  IF status[r] = "received" /\ r \in box THEN "send" ELSE @[r]]]
     /\ \E expired \in SUBSET {r \in Requests : Expirable(r)} :
          Update(Cleaned(expired)) /\ outbox' = box \ expired

-----------------------------------------------------------------------------
(* The consumer: one delivery, statement by statement.                     *)

Step(w, place) == pc' = [pc EXCEPT ![w] = place]

\* The delivery ends. An acknowledged message is gone, or a copy of it is left; one
\* to retry stays where it is.
Leave(w)  == Step(w, "idle") /\ job' = [job EXCEPT ![w] = None]
Forget(w) == view' = [view EXCEPT ![w] = None] /\ aim' = [aim EXCEPT ![w] = None]
Ack(w)    == Leave(w) /\ Forget(w) /\ main' \in {main, main \ {job[w]}}
Retry(w)  == Leave(w) /\ Forget(w) /\ UNCHANGED main

Deliver(w, r) ==
  /\ pc[w] = "idle" /\ r \in main
  /\ Step(w, "read") /\ job' = [job EXCEPT ![w] = r]
  /\ UNCHANGED <<store, queues, clock, intake, view, aim, github>>

\* A message of another version of the schema.
Malformed(w) ==
  /\ pc[w] = "read"
  /\ MarkUnleasedUnavailable(job[w]) /\ Ack(w)
  /\ UNCHANGED <<mutation, outbox, reserved, dlq, old, intake, github>>

\* claim reads the row.
ClaimReads(w) ==
  /\ pc[w] = "read"
  /\ LET r == job[w]
     IN CASE status[r] \in Final \cup {"absent", "rejected_prefilter"} -> Ack(w)
          [] status[r] = "received" \/ Leased(r) -> Retry(w)
          [] OTHER -> /\ Step(w, "take")
                      /\ view' = [view EXCEPT ![w] = <<status[r], mutation[r]>>]
                      /\ UNCHANGED <<main, job, aim>>
  /\ UNCHANGED <<store, dlq, clock, intake, github>>

\* claim updates the row, if its status is the one it read and no lease is in
\* force; what it returns of the mutation is what it read. The time is read once
\* for the whole batch, so that a lease may be over as soon as it is given.
ClaimTakes(w) ==
  LET r == job[w]
  IN /\ pc[w] = "take"
     /\ IF status[r] = view[w][1] /\ ~Leased(r)
        THEN /\ status' = [status EXCEPT ![r] = IF @ = "queued" THEN "checking" ELSE @]
             /\ lease' = [lease EXCEPT ![r] = w] /\ unlapsed' \in {unlapsed, unlapsed \cup {r}}
             /\ quiet' = quiet \ {r}
             /\ IF view[w][1] = "unknown" \/ view[w][2] # "none"
                THEN Step(w, "reconcile") /\ UNCHANGED <<view, aim>>
                ELSE Step(w, "moderate") /\ Forget(w)
             /\ UNCHANGED <<main, job>>
        ELSE Retry(w) /\ UNCHANGED <<status, lease, unlapsed, quiet>>
     /\ UNCHANGED <<mutation, outbox, slots, reserved, dlq, old, intake, github>>

Aim(w, end, place) ==
  /\ aim' = [aim EXCEPT ![w] = end] /\ Step(w, place)
  /\ UNCHANGED <<store, queues, clock, intake, job, view, github>>

\* Creation may be switched off; else the model answers, or does not.
Moderate(w) ==
  /\ pc[w] = "moderate"
  /\ \/ Aim(w, "unavailable", "settle")
     \/ \E end \in {"created", "rejected", "review", "unavailable", "retry"} : Aim(w, end, "record")

\* A statement of the consumer, which takes effect for the holder of the lease
\* of a row in one of the statuses.
Guarded(w, from) == lease[job[w]] = w /\ status[job[w]] \in from

RecordModelAttempt(w) ==
  /\ pc[w] = "record"
  /\ IF Guarded(w, {"checking"})
     THEN /\ Step(w, IF aim[w] = "created" THEN "search" ELSE "settle")
          /\ quiet' = quiet \ {job[w]} /\ UNCHANGED <<main, job, view, aim>>
     ELSE Retry(w) /\ UNCHANGED quiet
  /\ UNCHANGED <<store, dlq, old, intake, github>>

\* The token, and the issues listed for the marker of the submission: the list is
\* bounded and need not show it.
Search(w) ==
  /\ pc[w] = "search"
  /\ \/ \E end \in {"retry", "unavailable"} : Aim(w, end, "settle")
     \/ issues[job[w]] > 0 /\ Aim(w, "created", "settle")
     \/ Aim(w, "created", "barrier")

\* reconcileOnly. Without the marker, a row that is unknown stays so.
Reconcile(w) ==
  /\ pc[w] = "reconcile"
  /\ \/ \E end \in {"retry", "unavailable"} : Aim(w, end, "settle")
     \/ issues[job[w]] > 0 /\ Aim(w, "created", "settle")
     \/ Aim(w, IF view[w][1] = "unknown" THEN "keep" ELSE "unknown", "settle")

StartsAgain(w) ==                     \* mutant of MarkPostStarted: whatever was started
  LET r == job[w]
  IN /\ pc[w] = "barrier"
     /\ IF Guarded(w, {"checking"})
        THEN /\ mutation' = [mutation EXCEPT ![r] = "post_started"] /\ quiet' = quiet \ {r}
             /\ Step(w, "post") /\ UNCHANGED <<main, job, view, aim>>
        ELSE Retry(w) /\ UNCHANGED <<mutation, quiet>>
     /\ UNCHANGED <<status, lease, unlapsed, outbox, slots, reserved, dlq, old, intake, github>>

\* The mutation barrier.
MarkPostStarted(w) ==
  LET r == job[w]
  IN /\ pc[w] = "barrier"
     /\ IF Guarded(w, {"checking"}) /\ mutation[r] = "none"
        THEN /\ mutation' = [mutation EXCEPT ![r] = "post_started"] /\ quiet' = quiet \ {r}
             /\ Step(w, "post") /\ UNCHANGED <<main, job, view, aim>>
        ELSE Retry(w) /\ UNCHANGED <<mutation, quiet>>
     /\ UNCHANGED <<status, lease, unlapsed, outbox, slots, reserved, dlq, old, intake, github>>

\* createIssue: the issue is made, and that is heard or not; or the POST is
\* refused; or it is given up on, and is still to be performed.
Post(w) ==
  LET r == job[w]
      Hears(ends) == \E end \in ends : aim' = [aim EXCEPT ![w] = end]
  IN /\ pc[w] = "post" /\ Step(w, "note")
     /\ \/ /\ issues' = [issues EXCEPT ![r] = @ + 1] /\ UNCHANGED late
           /\ Hears({"created", "unknown"})
        \/ UNCHANGED <<issues, late>> /\ Hears({"limited", "unavailable", "unknown"})
        \/ /\ late' = [late EXCEPT ![r] = @ + 1] /\ UNCHANGED issues
           /\ Hears({"unknown"})
     /\ UNCHANGED <<store, queues, clock, intake, job, view>>

RefusedOrUnheard(w) == aim[w] \in {"limited", "unknown"}    \* mutant of NotPerformed
NotPerformed(w) == aim[w] = "limited"

\* recordGithubRequest. Only a POST that GitHub has refused for the time being
\* takes the barrier down again.
RecordGithubRequest(w) ==
  /\ pc[w] = "note"
  /\ IF Guarded(w, {"checking"}) /\ mutation[job[w]] = "post_started"
     THEN /\ Step(w, IF NotPerformed(w) THEN "clear" ELSE "settle")
          /\ quiet' = quiet \ {job[w]} /\ UNCHANGED <<main, job, view, aim>>
     ELSE Retry(w) /\ UNCHANGED quiet
  /\ UNCHANGED <<store, dlq, old, intake, github>>

ClearPostStartedForRetry(w) ==
  LET r == job[w]
  IN /\ pc[w] = "clear" /\ Retry(w)
     /\ IF Guarded(w, {"checking"}) /\ mutation[r] = "post_started"
        THEN /\ mutation' = [mutation EXCEPT ![r] = "none"] /\ FreeLease(r)
             /\ quiet' = quiet \ {r}
        ELSE UNCHANGED <<mutation, lease, unlapsed, quiet>>
     /\ UNCHANGED <<status, outbox, slots, reserved, dlq, old, intake, github>>

\* releaseLease before a retry, or for a row that stays unknown.
Release(w) ==
  LET r == job[w]
  IN /\ pc[w] = "settle" /\ aim[w] \in {"retry", "keep"}
     /\ IF Guarded(w, {"checking", "unknown"})
        THEN FreeLease(r) /\ quiet' = quiet \ {r} /\ (IF aim[w] = "keep" THEN Ack(w) ELSE Retry(w))
        ELSE Retry(w) /\ UNCHANGED <<lease, unlapsed, quiet>>
     /\ UNCHANGED <<status, mutation, outbox, slots, reserved, dlq, old, intake, github>>

\* transition, with the statuses it starts from; terminal acknowledges when it took effect.
Sources(end) == IF end \in {"created", "unavailable"} THEN {"checking", "unknown"} ELSE {"checking"}
Transition(w) ==
  LET r == job[w]
  IN /\ pc[w] = "settle" /\ aim[w] \in Ended
     /\ IF Guarded(w, Sources(aim[w]))
        THEN /\ Update([status EXCEPT ![r] = aim[w]]) /\ FreeLease(r) /\ Ack(w)
             /\ mutation' = [mutation EXCEPT ![r] = IF aim[w] = "created" THEN "confirmed"
                                                    ELSE IF aim[w] = "unknown" THEN "ambiguous" ELSE @]
        ELSE Retry(w) /\ UNCHANGED <<status, slots, quiet, lease, unlapsed, mutation>>
     /\ UNCHANGED <<outbox, reserved, dlq, old, intake, github>>

\* The worker throws or is stopped, and keeps the lease.
WorkerDies(w) ==
  /\ pc[w] # "idle" /\ Retry(w)
  /\ UNCHANGED <<store, dlq, clock, intake, github>>

-----------------------------------------------------------------------------
(* The queues, GitHub and the time.                                        *)

\* The retries of a message are used up.
Exhaust(r) ==
  /\ r \in main /\ main' = main \ {r} /\ dlq' = dlq \cup {r}
  /\ UNCHANGED <<store, clock, intake, consumer, github>>

ProcessDlq(r) ==
  /\ r \in dlq /\ MarkUnleasedUnavailable(r)
  /\ dlq' \in {dlq, dlq \ {r}}
  /\ UNCHANGED <<mutation, outbox, reserved, main, old, intake, consumer, github>>

\* A POST that was given up on is performed, or lost.
Lands(r) ==
  /\ late[r] > 0 /\ late' = [late EXCEPT ![r] = @ - 1]
  /\ issues' \in {issues, [issues EXCEPT ![r] = @ + 1]}
  /\ UNCHANGED <<store, queues, clock, intake, consumer>>

LeaseLapses(r) ==
  /\ r \in unlapsed /\ unlapsed' = unlapsed \ {r}
  /\ UNCHANGED <<status, lease, mutation, outbox, slots, reserved, queues, clock, intake, consumer, github>>

DigestExpires(t) ==
  /\ reserved[t] # None /\ reserved' = [reserved EXCEPT ![t] = None]
  /\ UNCHANGED <<status, lease, unlapsed, mutation, outbox, slots, queues, clock, intake, consumer, github>>

GrowsOld(r) ==
  /\ status[r] # "absent" /\ r \notin old /\ old' = old \cup {r}
  /\ UNCHANGED <<store, queues, quiet, intake, consumer, github>>

GrowsQuiet(r) ==
  /\ status[r] \notin {"absent", "received"} /\ r \notin quiet /\ quiet' = quiet \cup {r}
  /\ UNCHANGED <<store, queues, old, intake, consumer, github>>

Intake(r) ==
  \/ Lookup(r) \/ RejectPrefilter(r) \/ ReserveDigest(r) \/ CountBucket(r) \/ CountGlobal(r)
  \/ Refuse(r) \/ GivenBack(r) \/ Create(r) \/ RequestDies(r)
  \/ \E scope \in Scopes : GiveBack(r, scope)
Enqueue(s, r) == Send(s, r) \/ MarkQueued(s, r) \/ MarkUnavailable(s, r) \/ SenderDies(s, r)
Consume(w) ==
  \/ Malformed(w) \/ ClaimReads(w) \/ ClaimTakes(w) \/ Moderate(w) \/ RecordModelAttempt(w)
  \/ Search(w) \/ Reconcile(w) \/ MarkPostStarted(w) \/ Post(w) \/ RecordGithubRequest(w)
  \/ ClearPostStartedForRetry(w) \/ Release(w) \/ Transition(w) \/ WorkerDies(w)
World(r) == Exhaust(r) \/ ProcessDlq(r) \/ Lands(r) \/ LeaseLapses(r) \/ GrowsOld(r) \/ GrowsQuiet(r)

Next ==
  \/ \E r \in Requests : Intake(r) \/ World(r)
  \/ \E s \in Senders, r \in Requests : Enqueue(s, r)
  \/ Scheduled
  \/ \E w \in Workers : Consume(w) \/ \E r \in Requests : Deliver(w, r)
  \/ \E t \in Texts : DigestExpires(t)

Spec == Init /\ [][Next]_vars

\* Time passes, the cron trigger fires again and again, and the queue gives up
\* on a message after some deliveries. Nothing is assumed of the requests, of the
\* deliveries and of the dead letters.
Fairness ==
  /\ WF_vars(Scheduled)
  /\ WF_vars(\E r \in Requests : GrowsOld(r))
  /\ WF_vars(\E r \in Requests : GrowsQuiet(r))
  /\ WF_vars(\E r \in Requests : Exhaust(r))
FairSpec == Spec /\ Fairness

-----------------------------------------------------------------------------

TypeOK ==
  /\ status \in [Requests -> Statuses] /\ mutation \in [Requests -> Mutations]
  /\ lease \in [Requests -> Workers \cup {None}] /\ unlapsed \subseteq Requests
  /\ outbox \subseteq Requests /\ slots \in [Scopes -> Nat]
  /\ reserved \in [Texts -> Requests \cup {None}]
  /\ main \subseteq Requests /\ dlq \subseteq Requests
  /\ old \subseteq Requests /\ quiet \subseteq Requests
  /\ at \in [Requests -> {"lookup", "prefilter", "digest", "bucket", "global", "create", "back", "done"}]
  /\ held \in [Requests -> SUBSET Scopes] /\ twice \subseteq Requests
  /\ out \in [Senders -> [Requests -> {"no", "send", "mark", "fail"}]]
  /\ pc \in [Workers -> {"idle", "read", "take", "moderate", "record", "search", "reconcile",
                         "barrier", "post", "note", "clear", "settle"}]
  /\ job \in [Workers -> Requests \cup {None}]
  /\ \A w \in Workers : (job[w] = None) <=> (pc[w] = "idle")
  /\ view \in [Workers -> (({"queued", "checking", "unknown"} \X Mutations) \cup {None})]
  /\ aim \in [Workers -> Ended \cup {"retry", "keep", "limited", None}]
  /\ issues \in [Requests -> Nat] /\ late \in [Requests -> Nat]

\* At most one issue exists or is under way for a submission, however often its
\* message is delivered, wherever deliveries stop and whatever becomes of the
\* answers of GitHub (consumer/index.ts:118-200).
AtMostOneIssue == \A r \in Requests : issues[r] + late[r] <= 1

\* The row tells of an issue: one that exists, or that a POST may still make, has
\* left its mark in mutation_state; a created row has its issue; and a text that
\* the prefilter rejected has none.
IssueIsRecorded ==
  \A r \in Requests :
    /\ issues[r] + late[r] > 0 => mutation[r] # "none"
    /\ status[r] = "created" => issues[r] = 1 /\ mutation[r] = "confirmed"
    /\ status[r] = "rejected_prefilter" => issues[r] + late[r] = 0

\* The active slots cover the submissions that are queued or checked, and what
\* requests have counted, but for those whose create failed after its commit:
\* these give back slots that the trigger counts back once more
\* (intake/index.ts:162-173, 0001_initial.sql:71-80).
SlotsCoverLive ==
  \A s \in Scopes :
    LET In(S) == {r \in S : s \in {Global, BucketOf[r]}}
    IN Cardinality(In({r \in Requests : status[r] \in Live})) + Cardinality({r \in Requests : s \in held[r]})
         <= slots[s] + Cardinality(In(twice))

\* Again and again nothing is queued or checked and no outbox entry keeps its
\* words, though requests, deliveries and senders may stop anywhere: a request is
\* made once, so that every submission comes to an end
\* (intake/status-store.ts:128-142).
SubmissionsSettle == []<>(outbox = {} /\ \A r \in Requests : status[r] \notin Live)
=============================================================================
