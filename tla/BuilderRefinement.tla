------------------------- MODULE BuilderRefinement --------------------------
(***************************************************************************)
(* TransactionBuilder implements TransactionAssembly.  The caller sees the *)
(* added coins as the amounts and key images of m_input_descs' inputs (a   *)
(* move keeps both), the added outputs as m_output_descs, the nonce as the *)
(* one serialized in the prefix's extra, and the sealed transaction as     *)
(* what a reader of the signed prefix alone recovers: the inputs' amounts  *)
(* and key images, each output's amount and the address that recognises   *)
(* its key under the R published in extra, and the nonce in extra.         *)
(***************************************************************************)
EXTENDS TransactionBuilder

CONSTANTS
    NoValue,    \* the abstract specification's None, a model value
    Notes       \* the nonce blobs the caller may set

CoinsOf(ins) == ToBag([i \in DOMAIN ins |->
                          [amount |-> ins[i].amount, key_image |-> ins[i].key_image]])
(* A field of the serialized extra, NoValue when absent.                   *)
ExtraField(ex, tag) ==
    LET f == SelectSeq(ex, LAMBDA fld : fld.tag = tag)
    IN IF f = <<>> THEN NoValue ELSE f[1].value
(* The address whose stealth key for R at ordinal i is the output's key.    *)
Recipient(tx, i) ==
    LET R == ExtraField(tx.extra, 1)
        who == {a \in Addresses : tx.outputs[i].key = StealthKey(a, R, i - 1)}
    IN IF who = {} THEN NoValue ELSE CHOOSE a \in who : TRUE
Published(tx) ==
    [ins |-> CoinsOf(tx.inputs),
     outs |-> ToBag([i \in DOMAIN tx.outputs |->
                        [amount |-> tx.outputs[i].amount, addr |-> Recipient(tx, i)]]),
     note |-> ExtraField(tx.extra, 2)]
StateOf == [building |-> "open", signed |-> "sealed", failed |-> "aborted"]

Abstract == INSTANCE TransactionAssembly
    WITH Coins <- {[amount |-> in.real.amount, key_image |-> in.real.key_image] :
                      in \in Inputs},
         Payees <- [amount : OutputAmounts, addr : Addresses],
         None <- NoValue,
         spends <- CoinsOf([i \in DOMAIN input_descs |-> input_descs[i].input]),
         pays <- ToBag(output_descs),
         note <- ExtraField(transaction.extra, 2),
         state <- StateOf[phase],
         sealed <- IF phase = "signed" THEN Published(transaction) ELSE NoValue

(* Every behaviour of the builder is one of TransactionAssembly's: a       *)
(* rejected add_input or a failed ring signature aborts; sign seals a      *)
(* transaction whose inputs are exactly the coins add_input accepted,      *)
(* whose outputs are recognised by exactly the recipients add_output was   *)
(* given, with their amounts, and whose extra keeps the nonce set last;    *)
(* nothing changes after sign or after a throw.                            *)
BuilderRefinesAssembly == Abstract!Spec
=============================================================================
