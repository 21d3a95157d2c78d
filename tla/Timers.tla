------------------------------- MODULE Timers -------------------------------
(***************************************************************************)
(* What the virtual timers of the kernel promise to the code that sets     *)
(* them, and what AdcPacing and CanTx rely on: every armed timer counts    *)
(* down with time, independently of the others, and its callback is called *)
(* when it has run out, never earlier and at most MaxLate ticks later, the *)
(* timers in the order of their deadlines.                                 *)
(***************************************************************************)
EXTENDS Integers, Functions

CONSTANTS
  Timer,      \* the timers
  MinDelay,   \* a shorter delay is raised to this one
  MaxDelay,   \* the longest delay
  MaxLate     \* how late a callback may come, in ticks

VARIABLE left   \* the ticks left to every armed timer, negative when overdue

Armed == DOMAIN left

Init == left = [t \in {} |-> 0]

Set(t) ==
  /\ t \notin Armed
  /\ \E delay \in MinDelay..MaxDelay :
       left' = [u \in Armed \cup {t} |-> IF u = t THEN delay ELSE left[u]]

Reset(t) ==
  /\ t \in Armed
  /\ left' = Restrict(left, Armed \ {t})

Fire(t) ==
  /\ t \in Armed
  /\ left[t] <= 0
  /\ \A u \in Armed : left[t] <= left[u]
  /\ left' = Restrict(left, Armed \ {t})

Tick ==
  /\ \A t \in Armed : left[t] > -MaxLate
  /\ left' = [t \in Armed |-> left[t] - 1]

Next == Tick \/ \E t \in Timer : Set(t) \/ Reset(t) \/ Fire(t)

Spec == Init /\ [][Next]_left
=============================================================================
