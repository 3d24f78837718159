--------------------------- MODULE MCIssueGateway ---------------------------
(* Small instances of IssueGateway for TLC. *)
EXTENDS IssueGateway, TLC

CONSTANTS r1, r2, r3, w1, w2, addr, other, key, text

\* All say the same; r1 and r2 come from one address with one key, r3 from another.
MCBucketOf == (r1 :> addr @@ r2 :> addr @@ r3 :> other)
MCKeyOf    == [r \in Requests |-> key]
MCTextOf   == [r \in Requests |-> text]

\* Only the requests in Q are made, and nothing else is under way. A request that
\* is not made is told by quiet, in which no other absent row is.
Made(Q) ==
  /\ at = [r \in Requests |-> IF r \in Q THEN "lookup" ELSE "done"] /\ quiet = Requests \ Q
  /\ held = [r \in Requests |-> {}] /\ twice = {}
  /\ out = [s \in Senders |-> [r \in Requests |-> "no"]]
  /\ lease = [r \in Requests |-> None] /\ unlapsed = {} /\ mutation = [r \in Requests |-> "none"]
  /\ outbox = {} /\ dlq = {}
  /\ pc = [w \in Workers |-> "idle"] /\ job = [w \in Workers |-> None]
  /\ view = [w \in Workers |-> None] /\ aim = [w \in Workers |-> None]
  /\ issues = [r \in Requests |-> 0] /\ late = [r \in Requests |-> 0]
NotMade(r) == status[r] = "absent" /\ r \in quiet

New(Q) ==
  /\ Made(Q) /\ main = {} /\ old = {}
  /\ status = [r \in Requests |-> "absent"]
  /\ slots = [s \in Scopes |-> 0] /\ reserved = [t \in Texts |-> None]

\* The submission r1 was queued by a scheduled run.
Queued(Q) ==
  /\ Made(Q) /\ main = {r1} /\ old = {r1, r2}
  /\ status = [r \in Requests |-> IF r = r1 THEN "queued" ELSE "absent"]
  /\ slots = [s \in Scopes |-> IF s = other THEN 0 ELSE 1]
  /\ reserved = [t \in Texts |-> IF t = text THEN r1 ELSE None]

\* Two deliveries race for a queued submission, or another request arrives next to
\* it; a submission runs its whole course with one delivery at a time; or two
\* requests race. Where requests race, only the dead letter queue delivers; of the two
\* that race from the start, and differ by their names only, r1 has the first row, which
\* may be gone when r2 makes its own.
Workloads == Queued({}) \/ Queued({r3}) \/ New({r1}) \/ New({r1, r2})
AllSpec   == Workloads /\ [][Next]_vars /\ Fairness
Explored  ==
  /\ (\E w \in Workers : pc[w] # "idle") => NotMade(r2) /\ NotMade(r3)
  /\ pc[w2] # "idle" => r2 \in old
  /\ status[r2] # "absent" => status[r1] # "absent" \/ r1 \in old
=============================================================================
