------------------------- MODULE MCUnspentSelector --------------------------
(* Model of UnspentSelector for TLC: six pools and 72 call argument      *)
(* records, amounts in units where the dust threshold and minimum fee are  *)
(* 10.                                                                     *)
EXTENDS UnspentSelector

MCMinimumFee == 10
MCDustThreshold == 10
MCFakeLarge == 1000000

(* get_maximum_tx_size: fixed header and outputs, then per input a part   *)
(* that grows with the ring size.                                          *)
MCTxSize(inputs, outputs, anonymity) == 10 + outputs + inputs * (2 + anonymity)

(* Height-based unlock times only.                                         *)
MCSpendTimeUnlocked(unlock_time, height, time) == unlock_time <= height

Out(a) == [amount |-> a, height |-> 1, unlock_time |-> 0]
Unconfirmed == [amount |-> 50, height |-> 10, unlock_time |-> 0]
Locked == [amount |-> 90, height |-> 1, unlock_time |-> 20]

MCPools ==
    { Out(100) :> 1,
      (Out(50) :> 1) @@ (Out(30) :> 1) @@ (Out(15) :> 2)
        @@ (Unconfirmed :> 1) @@ (Locked :> 1),
      (Out(10) :> 22) @@ (Out(70) :> 1) @@ (Out(30) :> 12),
      (Out(3) :> 1) @@ (Out(200) :> 1) @@ (Out(500) :> 1)
        @@ (Out(70) :> 10) @@ (Out(50) :> 1),
      (Out(50) :> 1) @@ (Out(20) :> 1),
      (Out(123) :> 1) @@ (Out(40) :> 1) }

MCRequests ==
    [block_height : {10}, block_time : {0}, confirmed_height : {10},
     effective_median_size : {40, 1000}, anonymity : {0, 1},
     total_amount : {40, 95, 250}, total_outputs : {1},
     fee_per_byte : {0, 1},
     optimization_level : {"minimal", "normal", "aggressive"}]

(* Amount is uint64_t.  TLC's integers are 32-bit, so the word is 2^30 in  *)
(* the runs where no value comes near it, and 2^16 in the run about the   *)
(* size fee wrapping, with fee_per_byte scaled so that fee_per_byte times  *)
(* the size crosses 2^16 as a fee_per_byte >= 2^64 / size crosses 2^64.    *)
MCWordModulus == 2^30
MCNarrowWord == 2^16

(* A fee_per_byte for which the size fee of a one-input transaction       *)
(* without mixins (21 bytes) is 65541 = 2^16 + 5.                          *)
MCWideFeeRequests ==
    [block_height : {10}, block_time : {0}, confirmed_height : {10},
     effective_median_size : {1000}, anonymity : {0},
     total_amount : {40}, total_outputs : {1},
     fee_per_byte : {3121}, optimization_level : {"minimal"}]

(* The requests of the run where the caller does not reset.               *)
MCRepeatRequests ==
    [block_height : {10}, block_time : {0}, confirmed_height : {10},
     effective_median_size : {1000}, anonymity : {0},
     total_amount : {40, 95}, total_outputs : {1},
     fee_per_byte : {0}, optimization_level : {"minimal"}]
=============================================================================
