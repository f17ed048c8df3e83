--------------------------- MODULE BroadcastQueue ---------------------------
(***************************************************************************)
(* What a MessageQueue promises its users: one writer enqueues objects,    *)
(* and every reader dequeues all of them, each exactly once and in the     *)
(* order they were enqueued.  Objects are numbered by the order of their   *)
(* enqueue calls, so the object a reader must get next is one more than    *)
(* the number it has had.                                                  *)
(***************************************************************************)
EXTENDS Naturals

CONSTANT Readers

VARIABLES
  sent,   \* the number of objects enqueued
  got,    \* got[r]: the number of objects reader r has dequeued
  last    \* last[r]: the object r dequeued last, 0 before the first

vars == <<sent, got, last>>

Init ==
  /\ sent = 0
  /\ got = [r \in Readers |-> 0]
  /\ last = [r \in Readers |-> 0]

Enqueue ==
  /\ sent' = sent + 1
  /\ UNCHANGED <<got, last>>

Dequeue(r) ==
  /\ got[r] < sent
  /\ got' = [got EXCEPT ![r] = @ + 1]
  /\ last' = [last EXCEPT ![r] = got[r] + 1]
  /\ UNCHANGED sent

Next == Enqueue \/ \E r \in Readers : Dequeue(r)

Spec == Init /\ [][Next]_vars
=============================================================================
