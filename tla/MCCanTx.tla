------------------------------ MODULE MCCanTx -------------------------------
(* Instances of CanTx for TLC. *)
EXTENDS CanTx

CONSTANTS main, can_rx, adc_worker

MCThread == {main, can_rx, adc_worker}

MCTwoThreads == {main, adc_worker}
=============================================================================
