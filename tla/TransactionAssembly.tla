------------------------ MODULE TransactionAssembly -------------------------
(***************************************************************************)
(* What the transaction builder promises its caller, after the spec's      *)
(* public contract of TransactionBuilder: while the builder is open the    *)
(* caller sets a nonce, adds outputs (amount, recipient) and spends coins; *)
(* a failed check aborts the build; sign seals it into a transaction that  *)
(* spends exactly the coins added, pays exactly the outputs added and      *)
(* carries the last nonce set.  Order is information-free, so the coins    *)
(* and outputs are bags.  A sealed or aborted build never changes.         *)
(***************************************************************************)
EXTENDS Bags

CONSTANTS
    Coins,      \* coins add_input may be given: [amount, key_image]
    Payees,     \* outputs add_output may be given: [amount, addr]
    Notes,      \* nonce blobs set_extra_nonce and set_payment_id may set
    None        \* no nonce, no sealed transaction (a model value)

VARIABLES
    spends,     \* the coins added
    pays,       \* the outputs added
    note,       \* the nonce set last
    state,      \* "open", "sealed" or "aborted"
    sealed      \* the sealed transaction: [ins, outs, note], None before

avars == <<spends, pays, note, state, sealed>>

Init ==
    /\ spends = EmptyBag
    /\ pays = EmptyBag
    /\ note = None
    /\ state = "open"
    /\ sealed = None

SetNote ==
    /\ state = "open"
    /\ note' \in Notes
    /\ UNCHANGED <<spends, pays, state, sealed>>

Pay ==
    /\ state = "open"
    /\ \E p \in Payees : pays' = pays (+) SetToBag({p})
    /\ UNCHANGED <<spends, note, state, sealed>>

Spend ==
    /\ state = "open"
    /\ \E c \in Coins : spends' = spends (+) SetToBag({c})
    /\ UNCHANGED <<pays, note, state, sealed>>

(* A rejected input or a failed ring signature ends the build.             *)
Abort ==
    /\ state = "open"
    /\ state' = "aborted"
    /\ UNCHANGED <<spends, pays, note, sealed>>

Seal ==
    /\ state = "open"
    /\ state' = "sealed"
    /\ sealed' = [ins |-> spends, outs |-> pays, note |-> note]
    /\ UNCHANGED <<spends, pays, note>>

Next == SetNote \/ Pay \/ Spend \/ Abort \/ Seal

Spec == Init /\ [][Next]_avars
=============================================================================
