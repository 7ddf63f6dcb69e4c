--------------------------- MODULE RegisterAccess ----------------------------
(***************************************************************************)
(* What a transfer command of CMSIS-DAP promises: its requests are done    *)
(* one by one, in order, each at most once, and each plain read returns    *)
(* the value that its own access of the register has read.  A command that *)
(* fails may lack the value of the last read it did.  The reads of access  *)
(* port registers are numbered; a number is the value that is read.        *)
(***************************************************************************)
EXTENDS Integers, Sequences

CONSTANT Requests

VARIABLES
    todo,                 \* requests of the command that are not done
    reads,                \* reads of access port registers since the command began
    results,              \* values of the plain reads that are done
    running               \* the command has not been answered

vars == <<todo, reads, results, running>>

Init == todo = << >> /\ reads = 0 /\ results = << >> /\ running = FALSE

Begin ==
    /\ ~running
    /\ running' = TRUE
    /\ todo' \in Seq(Requests)
    /\ UNCHANGED <<reads, results>>

(* A plain read of an access port register *)
ReadAP ==
    /\ todo # << >> /\ Head(todo).rnw /\ Head(todo).ap /\ ~Head(todo).match
    /\ todo' = Tail(todo)
    /\ reads' = reads + 1
    /\ results' = Append(results, reads')
    /\ UNCHANGED running

(* A plain read of a debug port register returns its state: not a number. *)
ReadDP ==
    /\ todo # << >> /\ Head(todo).rnw /\ ~Head(todo).ap /\ ~Head(todo).match
    /\ todo' = Tail(todo)
    /\ results' \in {Append(results, value) : value \in {0, -1}}
    /\ UNCHANGED <<reads, running>>

(* A read until a value matches reads as often as it needs; *)
Poll ==
    /\ todo # << >> /\ Head(todo).rnw /\ Head(todo).ap /\ Head(todo).match
    /\ reads' = reads + 1
    /\ todo' \in {todo, Tail(todo)}
    /\ UNCHANGED <<results, running>>

(* what it or a write has done is not among the results. *)
Do ==
    /\ todo # << >> /\ ~(Head(todo).rnw /\ ~Head(todo).match)
    /\ todo' = Tail(todo)
    /\ UNCHANGED <<reads, results, running>>

(* The results go to the host. *)
Answer ==
    /\ todo = << >>
    /\ running' = FALSE
    /\ reads' = 0 /\ results' = << >>
    /\ UNCHANGED todo

(* Something fails: the rest is left. *)
Fail ==
    /\ todo' = << >>
    /\ results' \in {results} \cup
                    (IF results = << >> THEN {} ELSE {SubSeq(results, 1, Len(results) - 1)})
    /\ reads' \in {reads, reads + 1}
    /\ UNCHANGED running

Next == Begin \/ (running /\ (ReadAP \/ ReadDP \/ Poll \/ Do \/ Fail \/ Answer))

Spec == Init /\ [][Next]_vars
=============================================================================
