---------------------------- MODULE CoinSelection ----------------------------
(***************************************************************************)
(* What select_optimal_outputs promises its caller, after the spec's       *)
(* operation list: for a request it answers once, with OK and a selection  *)
(* of spendable coins that covers the amount, the minimum fee and the      *)
(* per-byte fee of its size and fits the block; with NOT_ENOUGH_FUNDS only *)
(* when no selection of spendable coins does; or with                      *)
(* TRANSACTION_DOES_NOT_FIT_IN_BLOCK.  The selection stays until reset     *)
(* hands over a new pool.  A coin is spendable when confirmed and unlocked *)
(* and, with mixing, not dust.                                             *)
(***************************************************************************)
EXTENDS Integers, Sequences, Bags, SequencesExt

CONSTANTS
    Pools,                      \* pools of unspent outputs (bags)
    Requests,                   \* argument records of a selection
    MinimumFee,                 \* minimum fee
    TxSize(_, _, _),            \* size estimate (inputs, outputs, anonymity)
    SpendTimeUnlocked(_, _, _), \* unlock rule
    IsDust(_),                  \* dust rule
    None                        \* no request or no answer (a model value)

VARIABLES
    wallet,     \* the pool handed over
    request,    \* the running request, None between calls
    answer,     \* the status returned, None before the answer
    spent,      \* the selected coins' amounts
    change      \* the change returned

avars == <<wallet, request, answer, spent, change>>

Spendable(r) ==
    {o \in DOMAIN wallet :
        /\ o.height < r.confirmed_height
        /\ SpendTimeUnlocked(o.unlock_time, r.block_height, r.block_time)
        /\ (~IsDust(o.amount) \/ r.anonymity = 0)}
SpendableBag(r) == [o \in Spendable(r) |-> wallet[o]]
Size(n, r) == TxSize(n, r.total_outputs + 8, r.anonymity)
(* A fee paid by n inputs is enough, and the transaction fits.             *)
Pays(paid, n, r) ==
    /\ paid >= MinimumFee
    /\ paid >= r.fee_per_byte * Size(n, r)
    /\ Size(n, r) <= r.effective_median_size
BagAmount(b) == MapThenSumSet(LAMBDA o : b[o] * o.amount, DOMAIN b)
Affordable(b, r) ==
    /\ BagCardinality(b) > 0
    /\ Pays(BagAmount(b) - r.total_amount, BagCardinality(b), r)
Occurs(s, a) == Cardinality({i \in DOMAIN s : s[i] = a})
(* Every amount of s is taken at most as often as spendable coins have it. *)
FromSpendable(s, r) ==
    \A a \in {s[i] : i \in DOMAIN s} :
        Occurs(s, a) <= MapThenSumSet(LAMBDA o : wallet[o],
                                     {o \in Spendable(r) : o.amount = a})

Init ==
    /\ wallet \in Pools
    /\ request = None
    /\ answer = None
    /\ spent = <<>>
    /\ change = 0

(* reset: a new pool, between calls.                                       *)
Hand ==
    /\ request = None \/ answer # None
    /\ wallet' \in Pools
    /\ request' = None
    /\ answer' = None
    /\ spent' = <<>>
    /\ UNCHANGED change

Ask ==
    /\ request = None
    /\ request' \in Requests
    /\ UNCHANGED <<wallet, answer, spent, change>>

AnswerOk ==
    /\ request # None /\ answer = None
    /\ answer' = ""
    /\ \E s \in {spent'}, c \in {change'} :
          /\ FromSpendable(s, request)
          /\ c \in Nat
          /\ Pays(FoldLeft(+, 0, s) - request.total_amount - c, Len(s), request)
    /\ UNCHANGED <<wallet, request>>

AnswerShort ==
    /\ request # None /\ answer = None
    /\ answer' = "NOT_ENOUGH_FUNDS"
    /\ ~\E b \in SubBag(SpendableBag(request)) : Affordable(b, request)
    /\ UNCHANGED <<wallet, request, spent, change>>

AnswerTooBig ==
    /\ request # None /\ answer = None
    /\ answer' = "TRANSACTION_DOES_NOT_FIT_IN_BLOCK"
    /\ UNCHANGED <<wallet, request, spent, change>>

Answer == AnswerOk \/ AnswerShort \/ AnswerTooBig
Next == Hand \/ Ask \/ Answer

SafetySpec == Init /\ [][Next]_avars
(* A request is always answered.                                           *)
Spec == SafetySpec /\ WF_avars(Answer)
=============================================================================
