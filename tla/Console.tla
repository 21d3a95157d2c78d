------------------------------- MODULE Console ------------------------------
(***************************************************************************)
(* What the log promises its reader: every character of every line that a  *)
(* thread logs comes out of the serial line, once, in the order in which   *)
(* the characters were put, and at most Capacity of them are under way.    *)
(* Lines of different threads may be mixed.                                *)
(***************************************************************************)
EXTENDS Integers, Sequences

CONSTANTS
  Thread,       \* the threads that log
  MaxLine,      \* the length of the longest line
  Capacity      \* characters between chprintf and the line

VARIABLES
  todo,         \* per thread: characters left of the line it logs
  fifo          \* the characters that are under way, oldest first

vars == <<todo, fifo>>

Init ==
  /\ todo = [t \in Thread |-> 0]
  /\ fifo = <<>>

StartLine(t) ==
  /\ todo[t] = 0
  /\ \E n \in 1..MaxLine : todo' = [todo EXCEPT ![t] = n]
  /\ UNCHANGED fifo

(* A character is identified by its thread and its place in the line. *)
Put(t) ==
  /\ todo[t] > 0
  /\ Len(fifo) < Capacity
  /\ todo' = [todo EXCEPT ![t] = @ - 1]
  /\ fifo' = Append(fifo, <<t, todo[t]>>)

(* The oldest character is on the line. *)
Send ==
  /\ fifo # <<>>
  /\ fifo' = Tail(fifo)
  /\ UNCHANGED todo

Next == Send \/ \E t \in Thread : StartLine(t) \/ Put(t)

SafeSpec == Init /\ [][Next]_vars

Spec == SafeSpec /\ WF_vars(Send)
=============================================================================
