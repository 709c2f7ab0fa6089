------------------------------- MODULE Channel ------------------------------
(***************************************************************************)
(* What the data phase promises its two callers, without masks, keys,      *)
(* nonces and sizes: in each direction a queue.  What is put in is taken   *)
(* out once and in order, or, but only after a Write that threw or made    *)
(* more than is ever read, lost from its head.                             *)
(***************************************************************************)
EXTENDS Naturals, Sequences

CONSTANT Dirs

VARIABLES
  queue,   \* queue[d]: numbers of the messages put into d and not yet taken
  got,     \* got[d]: numbers of those that were taken, in order
  count,   \* count[d]: how many were put in
  broken   \* broken[d]: whether messages of d may be lost

vars == <<queue, got, count, broken>>

Init ==
  /\ queue = [d \in Dirs |-> <<>>]
  /\ got = [d \in Dirs |-> <<>>]
  /\ count = [d \in Dirs |-> 0]
  /\ broken = [d \in Dirs |-> FALSE]

Put(d) ==
  /\ count' = [count EXCEPT ![d] = @ + 1]
  /\ queue' = [queue EXCEPT ![d] = Append(@, count'[d])]
  /\ broken' \in {broken, [broken EXCEPT ![d] = TRUE]}
  /\ UNCHANGED got

Break(d) ==
  /\ broken' = [broken EXCEPT ![d] = TRUE]
  /\ UNCHANGED <<queue, got, count>>

Drop(d) == queue[d] # <<>> /\ queue' = [queue EXCEPT ![d] = Tail(@)]

Get(d) ==
  /\ Drop(d)
  /\ got' = [got EXCEPT ![d] = Append(@, Head(queue[d]))]
  /\ UNCHANGED <<count, broken>>

Lose(d) ==
  /\ broken[d]
  /\ Drop(d)
  /\ UNCHANGED <<got, count, broken>>

Next == \E d \in Dirs : Put(d) \/ Break(d) \/ Get(d) \/ Lose(d)

Spec == Init /\ [][Next]_vars
=============================================================================
