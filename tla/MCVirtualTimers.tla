--------------------------- MODULE MCVirtualTimers --------------------------
(* Instances of VirtualTimers for TLC. *)
EXTENDS VirtualTimers

CONSTANTS main, can_rx, adc_worker

MCTimer == {main, can_rx, adc_worker}

MCMain == {main}

MCWorker == {adc_worker}

(* main and can_rx sleep for short times.  The worker, whose timer is also *)
(* the one of a wait that can end early, sleeps for a short time or for    *)
(* almost the range of systime_t, as when it took too long.                *)
MCDelays ==
  [t \in MCTimer |->
     CASE t = main -> {1, 3, 4}
       [] t = can_rx -> {3}
       [] t = adc_worker -> {2, SYSTIME_VALUES - 4, SYSTIME_VALUES - 3}]

(* The three timers fit the range, as the proofs assume. *)
ASSUME MCDelaysFit == Timer = MCTimer => DelaysFit

(* The same worker beside can_rx, whose wait for a frame can end early. *)
MCPair == {can_rx, adc_worker}

MCLongPair ==
  [t \in MCPair |-> IF t = can_rx THEN {4} ELSE {SYSTIME_VALUES - 2}]

MCReset == {can_rx}
=============================================================================
