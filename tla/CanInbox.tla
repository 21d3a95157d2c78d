------------------------------ MODULE CanInbox ------------------------------
(***************************************************************************)
(* What the receive path promises, without drivers, interrupts or events:  *)
(* frames from the bus enter an inbox; each one that is not overwritten is *)
(* handled exactly once, in the order of arrival, by dispatch_can_rx, and  *)
(* no frame stays in the inbox for ever.  A full FIFO loses the newest     *)
(* stored frame to the one that arrives.                                   *)
(*                                                                         *)
(* The inbox holds one frame more than the FIFO: the one in the worker's   *)
(* rx_msg.                                                                 *)
(***************************************************************************)
EXTENDS AnalogXApi, Sequences

CONSTANTS RxFrame, FifoDepth

VARIABLES
  base,    \* the board's base address
  inbox,   \* frames received and not yet handled
  open,    \* the CAN cell is started
  cfg      \* the settings that messages change

vars == <<base, inbox, open, cfg>>

Init ==
  /\ base = ANALOGX_CAN_BASE_ID
  /\ inbox = <<>>
  /\ open = FALSE
  /\ cfg = InitialSettings

Open ==
  /\ ~open
  /\ open' = TRUE
  /\ base' \in {BaseAddress(j) : j \in JumperSettings}
  /\ UNCHANGED <<inbox, cfg>>

Arrive(f) ==
  /\ open
  /\ Len(inbox) <= FifoDepth
  /\ inbox' = Append(inbox, f)
  /\ UNCHANGED <<base, open, cfg>>

Overrun(f) ==
  /\ open
  /\ Len(inbox) >= FifoDepth
  /\ inbox' = [inbox EXCEPT ![Len(inbox)] = f]
  /\ UNCHANGED <<base, open, cfg>>

Handle ==
  /\ inbox # <<>>
  /\ inbox' = Tail(inbox)
  /\ cfg' = dispatch_can_rx(base, Head(inbox), cfg)
  /\ UNCHANGED <<base, open>>

Next == Open \/ Handle \/ \E f \in RxFrame : Arrive(f) \/ Overrun(f)

SafeSpec == Init /\ [][Next]_vars

Spec == SafeSpec /\ WF_vars(Handle)
=============================================================================
