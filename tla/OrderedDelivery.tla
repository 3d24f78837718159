-------------------------- MODULE OrderedDelivery --------------------------
(***************************************************************************)
(* What a Web UI server may rely on when it reads the supervisor's events: *)
(* it is given the next number, or it knows that something is missing.     *)
(* DEVELOPMENT.md: output is replayed in supervisor order, and a gap in    *)
(* the bounded buffer is reported.                                         *)
(***************************************************************************)
EXTENDS Integers, Sequences

CONSTANTS Readers

VARIABLES position,    \* number of the last event a reader has accounted for
          delivered,   \* the numbers it was given
          gap          \* it has been told that its history is incomplete

vars == <<position, delivered, gap>>

Unopened == -1

Init ==
  /\ position = [r \in Readers |-> Unopened]
  /\ delivered = [r \in Readers |-> <<>>]
  /\ gap = [r \in Readers |-> FALSE]

\* A reader starts somewhere; it may be told at once that it is late.
Open(r) ==
  /\ delivered[r] = <<>> /\ position[r] = Unopened
  /\ position'[r] \in Nat
  /\ position' = [position EXCEPT ![r] = position'[r]]
  /\ gap' \in {gap, [gap EXCEPT ![r] = TRUE]}
  /\ UNCHANGED delivered

Deliver(r) ==
  /\ position[r] # Unopened
  /\ position' = [position EXCEPT ![r] = @ + 1]
  /\ delivered' = [delivered EXCEPT ![r] = Append(@, position[r] + 1)]
  /\ UNCHANGED gap

\* Once a reader knows of a gap it may go forward by any distance, with or
\* without an event.
Skip(r) ==
  /\ gap' = [gap EXCEPT ![r] = TRUE]
  /\ position'[r] >= position[r]
  /\ position' = [position EXCEPT ![r] = position'[r]]
  /\ \/ UNCHANGED delivered
     \/ /\ position'[r] > position[r]
        /\ delivered' = [delivered EXCEPT ![r] = Append(@, position'[r])]

Next == \E r \in Readers : Open(r) \/ Deliver(r) \/ Skip(r)

Spec == Init /\ [][Next]_vars
=============================================================================
