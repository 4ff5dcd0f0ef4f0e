--------------------------- MODULE TransactionFlow ---------------------------
(***************************************************************************)
(* UnspentSelector::add_mixed_inputs (src/src/Core/TransactionBuilder.cpp) *)
(* composed with the TransactionBuilder module: for every committed coin   *)
(* it pops ring members of the coin's amount from the node's               *)
(* GetRandomOutputs answer, skipping the coin's own global index, finds the *)
(* sender's keys in the wallet and calls add_input.  The handler that owns *)
(* both objects then adds the outputs and calls sign.                      *)
(*                                                                         *)
(* A thrown exception ends the handler; it is the builder's phase "failed". *)
(***************************************************************************)
EXTENDS TransactionBuilder

CONSTANTS
    UsedLists,        \* m_used_unspents lists a committed selection can have
    Answers,          \* GetRandomOutputs answers: amount -> list of outputs
    Anonymities,      \* anonymity values of the call
    WalletAddresses   \* addresses wallet_records holds spend keys for

VARIABLES
    used,             \* m_used_unspents
    ra,               \* ra_response.outputs, popped from the back
    anonymity,        \* the anonymity argument
    k,                \* position of uu in the range-for over m_used_unspents
    mix,              \* mix_outputs of the current coin
    stage             \* "mixing" in add_mixed_inputs, "outputs" after it

flow_vars == <<used, ra, anonymity, k, mix, stage>>
all_vars == <<vars, flow_vars>>

Uu == used[k]
Pool == ra[Uu.amount]

FlowInit ==
    /\ Init
    /\ used \in UsedLists
    /\ ra \in Answers
    /\ anonymity \in Anonymities
    /\ k = 1
    /\ mix = <<>>
    /\ stage = "mixing"

(* Mutants of the loop: `<=` for `<`; no collision test; a collision      *)
(* skipped before it is popped.                                            *)
MixPopOffByOne ==
    /\ stage = "mixing" /\ phase = "building"
    /\ Len(mix) <= anonymity
    /\ Pool # <<>>
    /\ ra' = [ra EXCEPT ![Uu.amount] = Front(Pool)]
    /\ mix' = IF Last(Pool).global_index # Uu.global_index THEN Append(mix, Last(Pool)) ELSE mix
    /\ UNCHANGED <<vars, used, anonymity, k, stage>>
MixPopNoCollisionCheck ==
    /\ stage = "mixing" /\ phase = "building"
    /\ Len(mix) < anonymity
    /\ Pool # <<>>
    /\ ra' = [ra EXCEPT ![Uu.amount] = Front(Pool)]
    /\ mix' = Append(mix, Last(Pool))
    /\ UNCHANGED <<vars, used, anonymity, k, stage>>
MixPopKeepsCollision ==
    /\ stage = "mixing" /\ phase = "building"
    /\ Len(mix) < anonymity
    /\ Pool # <<>>
    /\ ra' = IF Last(Pool).global_index # Uu.global_index
              THEN [ra EXCEPT ![Uu.amount] = Front(Pool)] ELSE ra
    /\ mix' = IF Last(Pool).global_index # Uu.global_index THEN Append(mix, Last(Pool)) ELSE mix
    /\ UNCHANGED <<vars, used, anonymity, k, stage>>

(* One iteration of the while loop: pop the back of the answer list and    *)
(* keep it unless it is the coin itself.                                   *)
MixPop ==
    /\ stage = "mixing" /\ phase = "building"
    /\ Len(mix) < anonymity
    /\ Pool # <<>>
    /\ LET out == Last(Pool)
       IN /\ ra' = [ra EXCEPT ![Uu.amount] = Front(Pool)]
          /\ mix' = IF out.global_index # Uu.global_index THEN Append(mix, out) ELSE mix
    /\ UNCHANGED <<vars, used, anonymity, k, stage>>

(* The answer runs out: "Not enough anonymity for amount".                 *)
MixExhausted ==
    /\ stage = "mixing" /\ phase = "building"
    /\ Len(mix) < anonymity
    /\ Pool = <<>>
    /\ phase' = "failed"
    /\ UNCHANGED <<transaction, extra, input_descs, output_descs, inputs_amount,
                   outputs_amount, seed, flow_vars>>

(* parse_account_address_string fails: "Could not parse address".         *)
AddressUnparsed ==
    /\ stage = "mixing" /\ phase = "building"
    /\ Len(mix) = anonymity
    /\ Uu.address \notin Addresses
    /\ phase' = "failed"
    /\ UNCHANGED <<transaction, extra, input_descs, output_descs, inputs_amount,
                   outputs_amount, seed, flow_vars>>

(* Mutant: a coin without wallet keys is skipped instead of thrown on.     *)
NoWalletKeysSkips ==
    /\ stage = "mixing" /\ phase = "building"
    /\ Len(mix) = anonymity
    /\ Uu.address \in Addresses \ WalletAddresses
    /\ k' = k + 1
    /\ mix' = <<>>
    /\ stage' = IF k = Len(used) THEN "outputs" ELSE "mixing"
    /\ UNCHANGED <<vars, used, ra, anonymity>>

(* wallet_records has no spend key for the address: "No keys in wallet".  *)
NoWalletKeys ==
    /\ stage = "mixing" /\ phase = "building"
    /\ Len(mix) = anonymity
    /\ Uu.address \in Addresses \ WalletAddresses
    /\ phase' = "failed"
    /\ UNCHANGED <<transaction, extra, input_descs, output_descs, inputs_amount,
                   outputs_amount, seed, flow_vars>>

(* builder->add_input with the sender's keys, then the next coin.          *)
ForwardInput ==
    /\ stage = "mixing" /\ phase = "building"
    /\ Len(mix) = anonymity
    /\ Uu.address \in WalletAddresses
    /\ AddInput([keys |-> Uu.address, real |-> Uu, mixes |-> mix])
    /\ k' = k + 1
    /\ mix' = <<>>
    /\ stage' = IF k = Len(used) THEN "outputs" ELSE "mixing"
    /\ UNCHANGED <<used, ra, anonymity>>

(* The handler after add_mixed_inputs: add_output calls, then sign.        *)
CallerAddOutput ==
    /\ stage = "outputs"
    /\ \E a \in OutputAmounts, to \in Addresses : AddOutput(a, to)
    /\ UNCHANGED flow_vars
CallerSign ==
    /\ stage = "outputs"
    /\ \E s \in Seeds : Sign(s)
    /\ UNCHANGED flow_vars

FlowStep ==
    \/ MixPop \/ MixExhausted \/ AddressUnparsed \/ NoWalletKeys \/ ForwardInput
    \/ CallerAddOutput \/ CallerSign

FlowSpec == FlowInit /\ [][FlowStep]_all_vars /\ WF_all_vars(FlowStep)

-----------------------------------------------------------------------------
FlowTypeOK ==
    /\ TypeOK
    /\ used \in UsedLists /\ anonymity \in Anonymities
    /\ k \in 1 .. Len(used) + 1
    /\ Len(mix) <= anonymity
    /\ stage \in {"mixing", "outputs"}

(* Every input add_mixed_inputs hands to the builder has a ring of exactly *)
(* anonymity + 1 outputs in strictly increasing global-index order: the    *)
(* loop stops at anonymity decoys and never keeps the coin's own index.    *)
RingsWellFormed ==
    \A i \in DOMAIN input_descs :
        LET ring == input_descs[i].outputs
        IN /\ Len(ring) = anonymity + 1
           /\ \A j \in 1 .. Len(ring) - 1 : ring[j].global_index < ring[j + 1].global_index

(* A transaction sign returns spends exactly the committed selection: its  *)
(* inputs' amounts and key images are those of m_used_unspents, each once; *)
(* a coin add_mixed_inputs cannot key throws rather than being left out.   *)
SignedSpendsSelection ==
    phase = "signed" =>
        ToBag([i \in DOMAIN transaction.inputs |->
                  [amount |-> transaction.inputs[i].amount,
                   key_image |-> transaction.inputs[i].key_image]])
        = ToBag([i \in DOMAIN used |->
                    [amount |-> used[i].amount, key_image |-> used[i].key_image]])

(* The handler always ends: add_mixed_inputs' while loop pops on every    *)
(* iteration, so it either fills the ring or empties the answer and throws, *)
(* and the handler then signs or has thrown.                               *)
FlowCompletes == <>(phase \in {"signed", "failed"})
=============================================================================
