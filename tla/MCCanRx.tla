------------------------------ MODULE MCCanRx -------------------------------
(* Instances of CanRx for TLC. *)
EXTENDS CanRx

Config(board, dlc, rate) ==
  [id |-> ANALOGX_CAN_BASE_ID + ANALOGX_CAN_API_RANGE * board + API_SET_CONFIG_GROUP_1,
   dlc |-> dlc, data0 |-> rate]

(* A configuration of board 0, one without data, and one of board 1. *)
MCRxFrame == {Config(0, 1, 10), Config(0, 0, 0), Config(1, 8, 0)}

(* A configuration and a frame that concerns no board. *)
MCTwoFrames == {Config(0, 1, 10), [id |-> 5, dlc |-> 8, data0 |-> 7]}

Board(n) == CHOOSE j \in JumperSettings : BaseOffset(j) = n

MCJumpers == {Board(0), Board(1)}
MCOneBoard == {Board(0)}
=============================================================================
