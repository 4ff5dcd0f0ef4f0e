-------------------------- MODULE TransactionBuilder -------------------------
(***************************************************************************)
(* The transaction builder of src/src/Core/TransactionBuilder.cpp (class   *)
(* TransactionBuilder): the constructor, set_payment_id, set_extra_nonce,  *)
(* add_output, add_input and sign.                                         *)
(*                                                                         *)
(* Crypto is abstracted to symbolic terms that are equal exactly when the  *)
(* values they stand for are: a key image is the term of the keys and the  *)
(* output it spends, a hash is the hashed value itself, the key derivation *)
(* of a recipient address and a transaction public key is the same term on *)
(* the sender's and the recipient's side.  A ring signature records what   *)
(* it commits to, and generating one fails when a ring key is not a point. *)
(***************************************************************************)
EXTENDS Integers, Sequences, FiniteSets, SequencesExt, Functions, TLC

CONSTANTS
    Addresses,      \* account addresses (model values)
    Seeds,          \* tx_derivation_seed values
    Nonces,         \* extra nonce blobs and payment ids
    OutputAmounts,  \* amounts add_output is called with
    Inputs,         \* records [keys, real, mixes] add_input is called with
    Version,        \* currency.current_transaction_version
    UnlockTime,     \* the constructor's unlock_time
    MaxInputs,      \* bound on add_input calls
    MaxOutputs,     \* bound on add_output calls
    ChainKey(_, _)  \* the node's key of the output of an amount and index

VARIABLES
    transaction,    \* m_transaction
    extra,          \* m_extra: [pk, nonce], None when unset
    input_descs,    \* m_input_descs
    output_descs,   \* m_output_descs
    inputs_amount,  \* m_inputs_amount
    outputs_amount, \* m_outputs_amount
    seed,           \* the tx_derivation_seed sign was called with
    phase           \* "building", "signed", or "failed" after an exception

vars == <<transaction, extra, input_descs, output_descs, inputs_amount,
          outputs_amount, seed, phase>>

None == "none"

-----------------------------------------------------------------------------
(* Crypto terms.  An api::Output's public_key is its on-chain key.         *)
KeyImage(keys, o) == <<"key_image", keys, o.amount, o.global_index>>
(* generate_key_image_helper: the ephemeral pair of spending o with keys;  *)
(* its public part is o's on-chain key only for the owner's keys.          *)
EphemeralKeys(keys, o) ==
    [secret |-> <<"secret", keys, o>>,
     public |-> IF keys = o.address THEN o.public_key
                ELSE <<"public", keys, o.amount, o.global_index>>]
PublicOf(sec) == EphemeralKeys(sec[2], sec[3]).public
ImageOfSecret(sec) == KeyImage(sec[2], sec[3])
(* deterministic_keys_from_seed: Hs(inputs_hash || seed) and its public.   *)
TxSecret(inputs, s) == <<"tx_secret", inputs, s>>
TxPublic(secret) == <<"tx_public", secret>>
(* derive_public_key: the stealth key of output i for address to.  The     *)
(* derivation is the same term for r with view_public and for R with       *)
(* view_secret, so it is written with R.                                   *)
StealthKey(to, txpub, i) == <<"stealth", to, txpub, i>>
(* A public key that is not a point of the curve.                          *)
InvalidKey == "invalid_key"

(* TransactionExtra::serialize: the present fields in tag order, the      *)
(* public key (tag 1) before the nonce (tag 2).                            *)
Serialize(e) ==
    (IF e.pk = None THEN <<>> ELSE <<[tag |-> 1, value |-> e.pk]>>)
    \o (IF e.nonce = None THEN <<>> ELSE <<[tag |-> 2, value |-> e.nonce]>>)

(* get_transaction_prefix_hash: everything but the signatures.             *)
PrefixHash(tx) ==
    [version |-> tx.version, unlock_time |-> tx.unlock_time,
     inputs |-> tx.inputs, outputs |-> tx.outputs, extra |-> tx.extra]

-----------------------------------------------------------------------------
(* add_input's ring preparation.                                           *)
ByGlobalIndex(a, b) == a.global_index < b.global_index
(* std::lower_bound on the sorted mixes, as a 0-based index.               *)
LowerBound(s, o) == Cardinality({i \in DOMAIN s : s[i].global_index < o.global_index})

(* Mutants of the conversion: the difference taken the wrong way round,    *)
(* and taken from the already converted previous entry.                   *)
AbsoluteToRelativeSwapped(off) ==
    [i \in DOMAIN off |-> IF i = 1 THEN off[1] ELSE off[i - 1] - off[i]]
AbsoluteToRelative(off) ==
    [i \in DOMAIN off |-> IF i = 1 THEN off[1] ELSE off[i] - off[i - 1]]

(* generate_ring_signature over the ring's keys: it fails on a key that   *)
(* is not a point; the result stands for what the signature commits to.    *)
RingKeys(ring) == [j \in DOMAIN ring |-> ring[j].public_key]
RingSign(h, ki, ring, sec, index) ==
    [prefix |-> h, key_image |-> ki, ring |-> RingKeys(ring),
     secret |-> sec, index |-> index]
CanSign(d) == \A j \in DOMAIN d.outputs : d.outputs[j].public_key # InvalidKey

-----------------------------------------------------------------------------
(* The constructor.                                                        *)
Init ==
    /\ transaction = [version |-> Version, unlock_time |-> UnlockTime,
                      inputs |-> <<>>, outputs |-> <<>>, extra |-> <<>>,
                      signatures |-> <<>>]
    /\ extra = [pk |-> None, nonce |-> None]
    /\ input_descs = <<>>
    /\ output_descs = <<>>
    /\ inputs_amount = 0
    /\ outputs_amount = 0
    /\ seed = None
    /\ phase = "building"

(* set_extra_nonce: replace the nonce field, reserialize extra.            *)
SetExtraNonce(n) ==
    /\ phase = "building"
    /\ extra' = [extra EXCEPT !.nonce = n]
    /\ transaction' = [transaction EXCEPT !.extra = Serialize(extra')]
    /\ UNCHANGED <<input_descs, output_descs, inputs_amount, outputs_amount,
                   seed, phase>>

(* set_payment_id: a payment-id nonce through set_extra_nonce.             *)
SetPaymentId(h) == SetExtraNonce(<<"payment_id", h>>)

AddOutput(amount, to) ==
    /\ phase = "building"
    /\ Len(output_descs) < MaxOutputs
    /\ outputs_amount' = outputs_amount + amount
    /\ output_descs' = Append(output_descs, [amount |-> amount, addr |-> to])
    /\ UNCHANGED <<transaction, extra, input_descs, inputs_amount, seed, phase>>

(* add_input: the ring is the mixes sorted by global index with the real  *)
(* output inserted at its lower bound.                                     *)
Ring(in) ==
    LET sorted == SortSeq(in.mixes, ByGlobalIndex)
    IN InsertAt(sorted, LowerBound(sorted, in.real) + 1, in.real)
Rejected(in) ==
    \/ ~in.real.tx_key_valid
    \/ KeyImage(in.keys, in.real) # in.real.key_image
    \/ \E j \in DOMAIN Ring(in) : Ring(in)[j].amount # in.real.amount
InputDesc(in) ==
    LET ring == Ring(in)
    IN [input |-> [amount |-> in.real.amount,
                   key_image |-> KeyImage(in.keys, in.real),
                   output_indexes |->
                       AbsoluteToRelative([j \in DOMAIN ring |-> ring[j].global_index])],
        outputs |-> ring,
        real_output_index |-> LowerBound(SortSeq(in.mixes, ByGlobalIndex), in.real),
        eph_keys |-> EphemeralKeys(in.keys, in.real)]

(* m_inputs_amount grows before any check; a failed check throws and the   *)
(* builder is discarded.                                                   *)
AddInput(in) ==
    /\ phase = "building"
    /\ Len(input_descs) < MaxInputs
    /\ inputs_amount' = inputs_amount + in.real.amount
    /\ IF Rejected(in)
       THEN /\ phase' = "failed"
            /\ UNCHANGED input_descs
       ELSE /\ input_descs' = Append(input_descs, InputDesc(in))
            /\ UNCHANGED phase
    /\ UNCHANGED <<transaction, extra, output_descs, outputs_amount, seed>>

(* sign: shuffle both lists, move the inputs into the prefix, derive the  *)
(* transaction key from them, install it in extra, derive the output keys *)
(* in shuffled order, hash the prefix, ring-sign every input.  The moved-  *)
(* from KeyInputs keep their amount and key image, not their indexes.      *)
Shuffled(s, p) == [i \in DOMAIN s |-> s[p[i]]]
(* Mutant: the transaction key derived from the inputs before the shuffle. *)
SignedPrefixUnshuffledKey(ins, outs, s) ==
    LET txin == [i \in DOMAIN ins |-> ins[i].input]
        R == TxPublic(TxSecret([i \in DOMAIN input_descs |-> input_descs[i].input], s))
    IN [transaction EXCEPT
            !.inputs = txin,
            !.extra = Serialize([extra EXCEPT !.pk = R]),
            !.outputs = [i \in DOMAIN outs |->
                            [amount |-> outs[i].amount,
                             key |-> StealthKey(outs[i].addr, R, i - 1)]]]
(* Mutant: m_extra rebuilt with the transaction key alone, dropping the    *)
(* nonce set before sign.                                                  *)
SignedPrefixDropsNonce(ins, outs, s) ==
    LET txin == [i \in DOMAIN ins |-> ins[i].input]
        R == TxPublic(TxSecret(txin, s))
    IN [transaction EXCEPT
            !.inputs = txin,
            !.extra = Serialize([pk |-> R, nonce |-> None]),
            !.outputs = [i \in DOMAIN outs |->
                            [amount |-> outs[i].amount,
                             key |-> StealthKey(outs[i].addr, R, i - 1)]]]
SignedPrefix(ins, outs, s) ==
    LET txin == [i \in DOMAIN ins |-> ins[i].input]
        R == TxPublic(TxSecret(txin, s))
    IN [transaction EXCEPT
            !.inputs = txin,
            !.extra = Serialize([extra EXCEPT !.pk = R]),
            !.outputs = [i \in DOMAIN outs |->
                            [amount |-> outs[i].amount,
                             key |-> StealthKey(outs[i].addr, R, i - 1)]]]
Signatures(tx, ins) ==
    [i \in DOMAIN ins |->
        RingSign(PrefixHash(tx), tx.inputs[i].key_image, ins[i].outputs,
                 ins[i].eph_keys.secret, ins[i].real_output_index)]
(* sign finalizes the builder once and consumes it (the spec's contract).  *)
Sign(s) ==
    /\ phase = "building"
    /\ \E pin \in Permutations(DOMAIN input_descs),
          pout \in Permutations(DOMAIN output_descs) :
        LET ins == Shuffled(input_descs, pin)
            outs == Shuffled(output_descs, pout)
            tx == SignedPrefix(ins, outs, s)
        IN /\ transaction' = [tx EXCEPT !.signatures = Signatures(tx, ins)]
           /\ extra' = [extra EXCEPT !.pk = TxPublic(TxSecret(tx.inputs, s))]
           /\ input_descs' = [i \in DOMAIN ins |->
                                [ins[i] EXCEPT !.input.output_indexes = <<>>]]
           /\ output_descs' = outs
           /\ phase' = IF \A i \in DOMAIN ins : CanSign(ins[i])
                       THEN "signed" ELSE "failed"
    /\ seed' = s
    /\ UNCHANGED <<inputs_amount, outputs_amount>>

Next ==
    \/ \E n \in Nonces : SetExtraNonce(n)
    \/ \E h \in Nonces : SetPaymentId(h)
    \/ \E a \in OutputAmounts, to \in Addresses : AddOutput(a, to)
    \/ \E in \in Inputs : AddInput(in)
    \/ \E s \in Seeds : Sign(s)

Spec == Init /\ [][Next]_vars

-----------------------------------------------------------------------------
(* The node's side.  The ring of a key input is resolved from its relative *)
(* offsets (running sums) to the chain's keys; check_ring_signature accepts *)
(* a signature over this prefix, image and ring whose secret is the one of *)
(* the ring member at the signer's index and images to the key image.      *)
RECURSIVE RelativeToAbsolute(_)
RelativeToAbsolute(off) ==
    IF Len(off) <= 1 THEN off
    ELSE LET front == RelativeToAbsolute(SubSeq(off, 1, Len(off) - 1))
         IN Append(front, front[Len(front)] + off[Len(off)])
NodeRing(in) ==
    LET abs == RelativeToAbsolute(in.output_indexes)
    IN [j \in DOMAIN abs |-> ChainKey(in.amount, abs[j])]
Verifies(tx, i) ==
    LET in == tx.inputs[i]
        sig == tx.signatures[i]
    IN /\ sig.prefix = PrefixHash(tx)
       /\ sig.key_image = in.key_image
       /\ sig.ring = NodeRing(in)
       /\ sig.index \in 0 .. Len(sig.ring) - 1
       /\ sig.ring[sig.index + 1] = PublicOf(sig.secret)
       /\ in.key_image = ImageOfSecret(sig.secret)
ExtraPublicKey(ex) ==
    LET f == SelectSeq(ex, LAMBDA fld : fld.tag = 1)
    IN IF f = <<>> THEN None ELSE f[1].value

TypeOK ==
    /\ phase \in {"building", "signed", "failed"}
    /\ seed \in Seeds \cup {None}
    /\ extra.nonce \in Nonces \cup {<<"payment_id", h>> : h \in Nonces} \cup {None}
    /\ inputs_amount \in Nat /\ outputs_amount \in Nat
    /\ Len(input_descs) <= MaxInputs /\ Len(output_descs) <= MaxOutputs
    /\ \A i \in DOMAIN input_descs :
          /\ input_descs[i].input.output_indexes \in Seq(Nat)
          /\ input_descs[i].real_output_index \in 0 .. Len(input_descs[i].outputs) - 1
    /\ \A i \in DOMAIN transaction.inputs :
          transaction.inputs[i].output_indexes \in Seq(Nat)

AmountSum(s) == FoldLeft(LAMBDA acc, x : acc + x.amount, 0, s)

(* The spec's balance invariant: a transaction sign returns spends at      *)
(* least what it pays out, the difference being the implicit fee.  sign    *)
(* builds whatever it was given: the builder keeps m_inputs_amount and     *)
(* m_outputs_amount but never compares them.                               *)
SignedTxBalances ==
    phase = "signed" => AmountSum(transaction.inputs) >= AmountSum(transaction.outputs)

(* Deterministic resume: from the signed transaction alone and the seed,   *)
(* R = Hs(inputs_hash || seed)·G is the key in extra, and every recipient   *)
(* recognises its output at ordinal i; what is recognised is exactly the   *)
(* outputs add_output was called with.                                     *)
OutputsRecoverable ==
    phase = "signed" =>
        LET R == TxPublic(TxSecret(transaction.inputs, seed))
            Recognised(i) ==
                {a \in Addresses : transaction.outputs[i].key = StealthKey(a, R, i - 1)}
        IN /\ ExtraPublicKey(transaction.extra) = R
           /\ \A i \in DOMAIN transaction.outputs : Cardinality(Recognised(i)) = 1
           /\ ToBag([i \in DOMAIN transaction.outputs |->
                   [amount |-> transaction.outputs[i].amount,
                    addr |-> CHOOSE a \in Recognised(i) : TRUE]])
              = ToBag(output_descs)

(* The ring of every accepted input lists strictly increasing global       *)
(* indexes (the spec's consensus requirement on output_indexes).           *)
RingsCanonical ==
    \A i \in DOMAIN input_descs :
        LET ring == input_descs[i].outputs
        IN \A j \in 1 .. Len(ring) - 1 : ring[j].global_index < ring[j + 1].global_index
=============================================================================
