-------------------------- MODULE MCTransactionFlow --------------------------
(* Instantiates TransactionFlow with the wallets, outputs and keys of      *)
(* MCTransactionBuilder.  The wallet holds the keys of A1 only; the         *)
(* selections spend one coin, two coins of one amount (they share one node *)
(* list), coins of two amounts, a coin of A2, a coin whose address does    *)
(* not parse, and three coins of two amounts.  The node's answers contain  *)
(* the coin's own index, run short, or are long enough for three coins     *)
(* with up to three decoys each.                                           *)
EXTENDS TransactionFlow, MCTransactionBuilder

MCWalletAddresses == {A1}

MCUsedLists ==
    { <<Out(10, 5, A1)>>,
      <<Out(10, 5, A1), Out(10, 12, A1)>>,
      <<Out(20, 3, A1), Out(10, 5, A1)>>,
      <<Out(10, 5, A1), Out(10, 6, A2)>>,
      <<Out(10, 8, "unparsable")>>,
      <<Out(20, 3, A1), Out(10, 5, A1), Out(10, 12, A1)>> }

MCAnswers ==
    { (10 :> <<Out(10, 2, A2), Out(10, 9, A2), Out(10, 5, A1), Out(10, 7, A2)>>)
      @@ (20 :> <<Out(20, 8, A2), Out(20, 3, A1), Out(20, 7, A2)>>),
      (10 :> <<Out(10, 5, A1)>>) @@ (20 :> <<>>),
      (10 :> <<Out(10, 1, A2), Out(10, 4, A2), Out(10, 12, A1), Out(10, 6, A2),
               Out(10, 9, A2), Out(10, 5, A1), Out(10, 7, A2), Out(10, 2, A2)>>)
      @@ (20 :> <<Out(20, 1, A2), Out(20, 8, A2), Out(20, 3, A1), Out(20, 7, A2)>>) }

(* A node answer that repeats an output.                                   *)
MCDuplicateAnswers ==
    { (10 :> <<Out(10, 2, A2), Out(10, 9, A2), Out(10, 9, A2)>>) @@ (20 :> <<>>) }

MCAnonymities == {0, 1, 2, 3}
====
