------------------------ MODULE MCTransactionBuilder -------------------------
(* Instantiates TransactionBuilder: two wallets, outputs of amounts 10 and *)
(* 20 with small global indexes, and add_input arguments covering a real   *)
(* output in the middle, first and last place of its ring, a wrong key, a  *)
(* recorded key image that does not match, a ring of mixed amounts, an     *)
(* output whose transaction key is not a point, and a ring with a node key *)
(* that is not a point.                                                     *)
EXTENDS TransactionBuilder

CONSTANTS A1, A2, S1, N1

MCAddresses == {A1, A2}
MCSeeds == {S1}
MCNonces == {N1}
MCOutputAmounts == {10}

(* Global index 13 of amount 10 carries a key that is not a point.         *)
MCChainKey(a, g) == IF a = 10 /\ g = 13 THEN InvalidKey ELSE <<"pk", a, g>>

(* An api::Output of amount a and index g owned by w, with the key image   *)
(* its owner's wallet recorded.                                            *)
Out(a, g, w) ==
    [amount |-> a, global_index |-> g, address |-> w,
     public_key |-> MCChainKey(a, g), tx_key_valid |-> TRUE,
     key_image |-> <<"key_image", w, a, g>>]
Corrupt(o) == [o EXCEPT !.key_image = <<"key_image", "corrupt", o.amount, o.global_index>>]
BadTxKey(o) == [o EXCEPT !.tx_key_valid = FALSE]

MCGoodInputs ==
    { [keys |-> A1, real |-> Out(10, 5, A1), mixes |-> <<Out(10, 9, A2), Out(10, 2, A2)>>],
      [keys |-> A1, real |-> Out(20, 3, A1), mixes |-> <<Out(20, 7, A2)>>],
      [keys |-> A2, real |-> Out(10, 12, A2), mixes |-> <<Out(10, 4, A1)>>] }
MCBadInputs ==
    { [keys |-> A2, real |-> Out(10, 6, A1), mixes |-> <<Out(10, 2, A2)>>],
      [keys |-> A1, real |-> Corrupt(Out(10, 8, A1)), mixes |-> <<>>],
      [keys |-> A1, real |-> Out(10, 11, A1), mixes |-> <<Out(20, 7, A2)>>],
      [keys |-> A1, real |-> BadTxKey(Out(20, 1, A1)), mixes |-> <<>>],
      [keys |-> A2, real |-> Out(10, 10, A2), mixes |-> <<Out(10, 13, A1)>>] }
MCInputs == MCGoodInputs \cup MCBadInputs
====
