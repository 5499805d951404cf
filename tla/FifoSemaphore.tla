--------------------------- MODULE FifoSemaphore ---------------------------
(***************************************************************************)
(* What PRT_SemCreate, PRT_SemPend and PRT_SemPost promise (include/prt_sem.h,*)
(* "FIFO"): a counting semaphore whose post hands the token straight to the *)
(* process that has waited longest, and keeps it only when nobody waits.    *)
(* Tasks, priorities, run queues and switches do not appear.                *)
(***************************************************************************)
EXTENDS Integers, Sequences, Functions

CONSTANTS Procs, Sems, MaxValue
VARIABLES
  made,      \* the semaphores that exist
  value,     \* value[s]: tokens nobody has taken
  waiting    \* waiting[s]: the processes waiting for a token, oldest first

semvars == <<made, value, waiting>>

Init == /\ made = {}
        /\ value = [s \in Sems |-> 0]
        /\ waiting = [s \in Sems |-> << >>]

Create(s, n) == /\ s \notin made
                /\ made' = made \cup {s}
                /\ value' = [value EXCEPT ![s] = n]
                /\ UNCHANGED waiting

Take(s) == /\ s \in made /\ value[s] > 0
           /\ value' = [value EXCEPT ![s] = @ - 1]
           /\ UNCHANGED <<made, waiting>>

\* A process waits for one semaphore at a time, and only for want of a token.
Wait(s, p) == /\ s \in made /\ value[s] = 0
              /\ \A r \in Sems : p \notin Range(waiting[r])
              /\ waiting' = [waiting EXCEPT ![s] = Append(@, p)]
              /\ UNCHANGED <<made, value>>

HandOver(s) == /\ s \in made /\ waiting[s] # << >>
               /\ waiting' = [waiting EXCEPT ![s] = Tail(@)]
               /\ UNCHANGED <<made, value>>

Keep(s) == /\ s \in made /\ waiting[s] = << >> /\ value[s] < MaxValue
           /\ value' = [value EXCEPT ![s] = @ + 1]
           /\ UNCHANGED <<made, waiting>>

Next == \E s \in Sems :
          \/ \E n \in 0 .. MaxValue : Create(s, n)
          \/ Take(s)
          \/ \E p \in Procs : Wait(s, p)
          \/ HandOver(s)
          \/ Keep(s)

Spec == Init /\ [][Next]_semvars
=============================================================================
