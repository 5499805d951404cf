--------------------------- MODULE BoundedBuffer ---------------------------
(***************************************************************************)
(* What the ring-buffer demo of ipc_ring_demo.c is meant to be: producers   *)
(* that put the items 1 .. PerTask each, in order, through a buffer of      *)
(* Capacity places, and consumers that take them in the order they were put. *)
(* Semaphores, slots, indexes and scheduling do not appear.                 *)
(***************************************************************************)
EXTENDS Integers, Sequences

CONSTANTS Producers, PerTask, Capacity
VARIABLES
  made,      \* made[p]: how many items p has put
  buffer,    \* the items put and not taken, oldest first
  taken      \* the items taken, in the order they were taken

bufvars == <<made, buffer, taken>>

Init == made = [p \in Producers |-> 0] /\ buffer = << >> /\ taken = << >>

Put(p) == /\ made[p] < PerTask /\ Len(buffer) < Capacity
          /\ made' = [made EXCEPT ![p] = @ + 1]
          /\ buffer' = Append(buffer, [by |-> p, no |-> made'[p]])
          /\ UNCHANGED taken

Take == /\ buffer # << >>
        /\ taken' = Append(taken, Head(buffer))
        /\ buffer' = Tail(buffer)
        /\ UNCHANGED made

Next == Take \/ \E p \in Producers : Put(p)

Spec == Init /\ [][Next]_bufvars
=============================================================================
