----------------------------- MODULE MCTabHost -----------------------------
(* Small instances of TabHost for TLC: named requests and what they ask for. *)
EXTENDS TabHost

AllKinds ==
  [create |-> "create", again |-> "create", other |-> "create",
   update |-> "update", replace |-> "replace", restart |-> "replace_update",
   close |-> "close", prompt |-> "command",
   state |-> "read", answer |-> "write"]

\* Every request names tab "a", except that other creates tab "b".
KindOfRequests  == [r \in Requests |-> AllKinds[r]]
TabOfRequests   == [r \in Requests |-> IF r = "other" THEN "b" ELSE "a"]

All    == DOMAIN AllKinds
Life   == {"create", "update", "prompt", "close", "other"}
Reuse  == {"create", "close", "again", "replace"}
Order  == {"create", "prompt", "answer", "replace"}
Update == {"create", "prompt", "state", "restart"}
Late   == {"create", "prompt", "again", "answer"}
Close  == {"create", "close"}

\* A workload is met by an idle host: the requests of the other workloads, and
\* the updates of the software but for so many, are over. Only Life is cut short
\* by a shutdown, without its second tab.
Workload(W, fences) ==
  /\ stage = [r \in Requests |-> IF r \in W THEN "new" ELSE "failed"]
  /\ fence = MaxFences - fences
  /\ Idling

Workloads ==
  \/ Workload(Life, 0) \/ Workload(Reuse, 0) \/ Workload(Order, 0) \/ Workload(Late, 0)
  \/ Workload(Update, 1) \/ \E r \in {"prompt", "state"} : Workload(Update \ {r}, 2)

AllSpec  == Workloads /\ [][Next]_vars /\ Fairness
Explored ==
  closing # "no" =>
    /\ \A r \in Requests \ Life : stage[r] = "failed"
    /\ \A r \in (Requests \ Life) \cup {"other"} : at[r] = 0
=============================================================================
