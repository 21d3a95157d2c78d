----------------------------- MODULE AnalogXApi -----------------------------
(***************************************************************************)
(* Addressing and message interpretation of the AnalogX CAN API            *)
(* (analogx_api.h, analogx_api.c and the dispatcher in system_CAN.c), as   *)
(* operators without state.  A received frame is a record                  *)
(*                                                                         *)
(*   id     CAN identifier, 11-bit or 29-bit                               *)
(*   dlc    data length code, 0..8                                         *)
(*   data0  first data byte, 0..255                                        *)
(*                                                                         *)
(* The other seven data bytes are never looked at by the firmware.         *)
(***************************************************************************)
EXTENDS Integers

ANALOGX_CAN_BASE_ID   == 935424          \* 0xE4600
ANALOGX_CAN_API_RANGE == 256
API_ANNOUNCEMENT       == 0
API_STATS              == 2
API_SET_CONFIG_GROUP_1 == 3
API_BROADCAST_SENSORS  == 20

ANALOGX_DEFAULT_SAMPLE_RATE == 50

UInt8 == 0..255

CANRxFrame == [id : Nat, dlc : 0..8, data0 : UInt8]

(* A jumper setting: TRUE is an open jumper, read as PAL_HIGH. *)
JumperSettings == [adr1 : BOOLEAN, adr2 : BOOLEAN]

BaseOffset(j) == (IF j.adr1 THEN 1 ELSE 0) + (IF j.adr2 THEN 2 ELSE 0)

(* What init_can_operating_parameters leaves in g_can_base_address. *)
BaseAddress(j) == ANALOGX_CAN_BASE_ID + ANALOGX_CAN_API_RANGE * BaseOffset(j)

(* The identifiers a board transmits on, and the one it listens to. *)
ApiIds(base) ==
  {base + API_ANNOUNCEMENT, base + API_STATS, base + API_BROADCAST_SENSORS,
   base + API_SET_CONFIG_GROUP_1}

(* The switch of dispatch_can_rx has one case. *)
IsConfigGroup1(base, frame) == frame.id - base = API_SET_CONFIG_GROUP_1

(* api_set_config_group_1: a frame without data leaves the rate alone. *)
api_set_config_group_1(frame, rate) == IF frame.dlc < 1 THEN rate ELSE frame.data0

(* The settings after dispatch_can_rx(frame): any configuration message    *)
(* provisions the board, also one whose parameters were rejected.          *)
dispatch_can_rx(base, frame, cfg) ==
  IF IsConfigGroup1(base, frame)
  THEN [update_rate_hz |-> api_set_config_group_1(frame, cfg.update_rate_hz),
        provisioned |-> TRUE]
  ELSE cfg

Settings == [update_rate_hz : UInt8, provisioned : BOOLEAN]

InitialSettings ==
  [update_rate_hz |-> ANALOGX_DEFAULT_SAMPLE_RATE, provisioned |-> FALSE]
=============================================================================
