--------------------------- MODULE UnspentSelector ---------------------------
(***************************************************************************)
(* The coin selector of src/src/Core/TransactionBuilder.cpp               *)
(* (class UnspentSelector): create_have_coins, the fee loop of the outer   *)
(* select_optimal_outputs, the inner select_optimal_outputs, the digit     *)
(* rounding optimize_amounts, the rollback unoptimize_amounts and the      *)
(* commit combine_optimized_unspents, plus reset.                          *)
(*                                                                         *)
(* Abstraction.  A coin stack (std::vector<api::Output>) is kept as the    *)
(* number of coins in it: every coin of a HaveCoins stack has the amount   *)
(* lead * 10^digit and every coin of a DustCoins stack has the amount it   *)
(* is keyed by, so popping "the back" of a stack yields the same amount    *)
(* whichever coin it is.  HaveCoins (map digit -> map lead -> stack) is a  *)
(* bag over keys <<digit, lead>>, DustCoins (map amount -> stack) a bag    *)
(* over amounts; BagAdd/BagRemove erase a key whose stack becomes empty,   *)
(* as the code does with erase().  The selected coins                      *)
(* (m_optimization_unspents, m_used_unspents) are sequences of amounts.    *)
(* The function runs as a sequence of steps with a program counter pc;     *)
(* one step is one iteration of one of its loops.                          *)
(***************************************************************************)
EXTENDS Integers, Sequences, FiniteSets, Bags, BagsExt, SequencesExt

CONSTANTS
    MinimumFee,         \* currency.minimum_fee
    DustThreshold,      \* currency.default_dust_threshold
    FakeLarge,          \* fake_large; a multiple of 10^(digits+1)
    TxSize(_, _, _),    \* get_maximum_tx_size(inputs, outputs, anonymity)
    SpendTimeUnlocked(_, _, _), \* currency.is_transaction_spend_time_unlocked
    Pools,              \* unspent pools the wallet may hand over (bags of outputs)
    Requests,           \* argument records of select_optimal_outputs
    WordModulus,        \* 2^64: Amount is uint64_t and wraps modulo it
    CallerResets        \* TRUE when the caller calls reset between two calls

ASSUME MinimumFee \in Nat /\ DustThreshold \in Nat \ {0}
ASSUME WordModulus \in Nat \ {0} /\ CallerResets \in BOOLEAN

VARIABLES
    unspents,       \* m_unspents: bag of [amount, height, unlock_time]
    used_unspents,  \* m_used_unspents
    opt_unspents,   \* m_optimization_unspents
    used_total,     \* m_used_total
    inputs_count,   \* m_inputs_count
    ra_amounts,     \* m_ra_amounts
    have,           \* have_coins: bag over <<digit, lead>>
    dust,           \* dust_coins: bag over amounts
    max_digit,      \* max_digits
    req,            \* the arguments of the running call
    fee,            \* fee
    optimizations,  \* optimizations
    opt_count,      \* optimization_count, by-value argument of the inner call
    digit,          \* loop index of optimize_amounts
    pc,             \* where the running call is
    status,         \* the returned string: "" (OK) or an error token
    change,         \* *change
    undefined       \* a coin was popped from an empty stack (undefined behaviour)

vars == <<unspents, used_unspents, opt_unspents, used_total, inputs_count,
          ra_amounts, have, dust, max_digit, req, fee, optimizations,
          opt_count, digit, pc, status, change, undefined>>

STACK_OPTIMIZATION_THRESHOLD == 20
TWO_THRESHOLD == 10
OPTIMIZATIONS_PER_TX == 50
OPTIMIZATIONS_PER_TX_AGGRESSIVE == 200
MEDIAN_PERCENT == 5
MEDIAN_PERCENT_AGGRESSIVE == 10
None == "none"

-----------------------------------------------------------------------------
(* Currency::is_dust: an amount not of the form d * 10^k with d in 1..9.   *)
RECURSIVE IsCanonical(_)
IsCanonical(a) == IF a > 9 THEN a % 10 = 0 /\ IsCanonical(a \div 10) ELSE a > 0
IsDust(a) == ~IsCanonical(a)

(* The digit-counting loop of create_have_coins and unoptimize_amounts.   *)
RECURSIVE DigitOf(_)
DigitOf(am) == IF am > 9 THEN 1 + DigitOf(am \div 10) ELSE 0
CoinKey(a) == <<DigitOf(a), a \div 10^DigitOf(a)>>

(* The amount of every coin in the stack have[<<d, l>>].                   *)
AmountOf(k) == k[2] * 10^k[1]

SeqSum(s) == FoldLeft(+, 0, s)

(* The keys of both maps are visited in ascending order; for canonical    *)
(* amounts the order of <<digit, lead>> is the order of the amounts.       *)
LastKey(b) == CHOOSE k \in DOMAIN b : \A j \in DOMAIN b : AmountOf(j) <= AmountOf(k)
LastDust(b) == CHOOSE a \in DOMAIN b : \A j \in DOMAIN b : j <= a

(* Unsigned arithmetic on Amount (uint64_t).                               *)
Wrap(x) == x % WordModulus

(* The inner call's total_amount: total_amount + fee, an Amount.           *)
Target == Wrap(req.total_amount + fee)

-----------------------------------------------------------------------------
(* Take the coins with amounts amts into m_optimization_unspents.          *)
Pick(amts) ==
    /\ opt_unspents' = opt_unspents \o amts
    /\ used_total' = used_total + SeqSum(amts)
    /\ inputs_count' = inputs_count + Len(amts)

(* unoptimize_amounts: every optimization coin goes back to the stack its *)
(* dust flag names, and m_used_total, m_inputs_count drop by it.            *)
ReturnedKeys ==
    LET nd == SelectSeq(opt_unspents, LAMBDA a : ~IsDust(a))
    IN [i \in DOMAIN nd |-> CoinKey(nd[i])]
UnoptimizedHave == have (+) ToBag(ReturnedKeys)
UnoptimizedDust == dust (+) ToBag(SelectSeq(opt_unspents, IsDust))
(* Mutant: the rollback forgets m_optimization_unspents.clear().           *)
UnoptimizeKeepsList ==
    /\ used_total' = used_total - SeqSum(opt_unspents)
    /\ inputs_count' = inputs_count - Len(opt_unspents)
    /\ have' = UnoptimizedHave
    /\ dust' = UnoptimizedDust
    /\ opt_unspents' = opt_unspents
(* Mutant: the rollback files every coin by its digits, ignoring un.dust.  *)
UnoptimizeIgnoresDustFlag ==
    /\ used_total' = used_total - SeqSum(opt_unspents)
    /\ inputs_count' = inputs_count - Len(opt_unspents)
    /\ have' = have (+) ToBag([i \in DOMAIN opt_unspents |-> CoinKey(opt_unspents[i])])
    /\ dust' = dust
    /\ opt_unspents' = <<>>
Unoptimize ==
    /\ used_total' = used_total - SeqSum(opt_unspents)
    /\ inputs_count' = inputs_count - Len(opt_unspents)
    /\ have' = UnoptimizedHave
    /\ dust' = UnoptimizedDust
    /\ opt_unspents' = <<>>

(* create_have_coins: the confirmed, unlocked outputs of m_unspents, the   *)
(* non-dust ones by <<digit, lead>> and the dust ones by amount.           *)
Eligible(r) ==
    {o \in DOMAIN unspents :
        /\ o.height < r.confirmed_height
        /\ SpendTimeUnlocked(o.unlock_time, r.block_height, r.block_time)}
Count(S) == MapThenSumSet(LAMBDA o : unspents[o], S)
HaveStacks(S) ==
    [k \in {CoinKey(o.amount) : o \in S} |-> Count({o \in S : CoinKey(o.amount) = k})]
DustStacks(S) ==
    [a \in {o.amount : o \in S} |-> Count({o \in S : o.amount = a})]
CreateHaveCoins(r) ==
    LET E == Eligible(r)
        NonDust == {o \in E : ~IsDust(o.amount)}
    IN /\ have' = HaveStacks(NonDust)
       /\ dust' = DustStacks(E \ NonDust)
       /\ max_digit' = IF NonDust = {} THEN 0
                       ELSE Max({DigitOf(o.amount) : o \in NonDust})

OptimizationsFor(level) ==
    IF level = "aggressive" THEN OPTIMIZATIONS_PER_TX_AGGRESSIVE
    ELSE IF level = "minimal" THEN 9 ELSE OPTIMIZATIONS_PER_TX
OptimizationMedian(r) ==
    (r.effective_median_size *
        (IF r.optimization_level = "aggressive" THEN MEDIAN_PERCENT_AGGRESSIVE
         ELSE MEDIAN_PERCENT)) \div 100

-----------------------------------------------------------------------------
(* The constructor: the selector owns a pool and has selected nothing.     *)
Init ==
    /\ unspents \in Pools
    /\ used_unspents = <<>>
    /\ opt_unspents = <<>>
    /\ used_total = 0
    /\ inputs_count = 0
    /\ ra_amounts = <<>>
    /\ have = EmptyBag
    /\ dust = EmptyBag
    /\ max_digit = 0
    /\ req = None
    /\ fee = 0
    /\ optimizations = 0
    /\ opt_count = 0
    /\ digit = 0
    /\ pc = "idle"
    /\ status = None
    /\ change = 0
    /\ undefined = FALSE

(* reset(unspents): a new pool, no selection.                              *)
Reset ==
    /\ pc \in {"idle", "done"}
    /\ unspents' \in Pools
    /\ used_unspents' = <<>>
    /\ opt_unspents' = <<>>
    /\ used_total' = 0
    /\ inputs_count' = 0
    /\ ra_amounts' = <<>>
    /\ have' = EmptyBag
    /\ dust' = EmptyBag
    /\ pc' = "idle"
    /\ status' = None
    /\ UNCHANGED <<max_digit, req, fee, optimizations, opt_count, digit,
                   change, undefined>>

(* The outer select_optimal_outputs up to the first inner call.  Nothing  *)
(* in the class stops a second call on a selector that already answered:   *)
(* create_have_coins rebuilds the stacks from all of m_unspents, while     *)
(* m_used_unspents, m_used_total and m_inputs_count keep what the first    *)
(* call committed.  CallerResets says whether the caller resets first.     *)
SelectOptimalOutputs ==
    /\ \/ pc = "idle"
       \/ pc = "done" /\ ~CallerResets
    /\ \E r \in Requests :
        /\ req' = r
        /\ CreateHaveCoins(r)
        /\ fee' = MinimumFee
        /\ optimizations' = OptimizationsFor(r.optimization_level)
        /\ opt_count' = OptimizationsFor(r.optimization_level)
    /\ pc' = "dust_single"
    /\ status' = None
    /\ UNCHANGED <<unspents, used_unspents, opt_unspents, used_total,
                   inputs_count, ra_amounts, digit, change, undefined>>

-----------------------------------------------------------------------------
(* Inner call, anonymity 0: the smallest dust coin covering the shortfall. *)
(* Mutant: the large dust coin is taken whatever the anonymity.           *)
DustSingleAnyAnonymity ==
    /\ pc = "dust_single"
    /\ LET fit == {a \in DOMAIN dust : a >= Target - used_total}
       IN IF used_total < Target /\ fit # {}
          THEN LET a == Min(fit)
               IN /\ Pick(<<a>>)
                  /\ dust' = BagRemove(dust, a)
          ELSE UNCHANGED <<opt_unspents, used_total, inputs_count, dust>>
    /\ pc' = "dust_fill"
    /\ UNCHANGED <<unspents, used_unspents, ra_amounts, have, max_digit, req,
                   fee, optimizations, opt_count, digit, status, change,
                   undefined>>
DustSingle ==
    /\ pc = "dust_single"
    /\ LET fit == {a \in DOMAIN dust : a >= Target - used_total}
       IN IF req.anonymity = 0 /\ used_total < Target /\ fit # {}
          THEN LET a == Min(fit)
               IN /\ Pick(<<a>>)
                  /\ dust' = BagRemove(dust, a)
          ELSE UNCHANGED <<opt_unspents, used_total, inputs_count, dust>>
    /\ pc' = "dust_fill"
    /\ UNCHANGED <<unspents, used_unspents, ra_amounts, have, max_digit, req,
                   fee, optimizations, opt_count, digit, status, change,
                   undefined>>

(* One iteration of "fill with dust coins, but no more than K coins".     *)
DustFill ==
    /\ pc = "dust_fill"
    /\ req.anonymity = 0
    /\ used_total < Target
    /\ dust # EmptyBag
    /\ opt_count >= 1
    /\ LET a == LastDust(dust)
       IN /\ Pick(<<a>>)
          /\ dust' = BagRemove(dust, a)
    /\ opt_count' = opt_count - 1
    /\ UNCHANGED <<unspents, used_unspents, ra_amounts, have, max_digit, req,
                   fee, optimizations, digit, pc, status, change, undefined>>

DustFillDone ==
    /\ pc = "dust_fill"
    /\ ~(req.anonymity = 0 /\ used_total < Target /\ dust # EmptyBag
         /\ opt_count >= 1)
    /\ pc' = "stacks"
    /\ UNCHANGED <<unspents, used_unspents, opt_unspents, used_total,
                   inputs_count, ra_amounts, have, dust, max_digit, req, fee,
                   optimizations, opt_count, digit, status, change, undefined>>

(* The first, in map order, of the tallest stacks above the threshold.    *)
TallStacks == {k \in DOMAIN have : have[k] > STACK_OPTIMIZATION_THRESHOLD}
BestStack ==
    CHOOSE k \in TallStacks :
        \A j \in TallStacks : have[j] < have[k]
                              \/ (have[j] = have[k] /\ AmountOf(k) <= AmountOf(j))

(* One iteration of "add coins from large stacks": 10 coins of one stack. *)
StackOptimization ==
    /\ pc = "stacks"
    /\ opt_count >= 10
    /\ TallStacks # {}
    /\ LET k == BestStack
       IN /\ Pick([i \in 1..10 |-> AmountOf(k)])
          /\ have' = [have EXCEPT ![k] = @ - 10]
          /\ undefined' = (undefined \/ have[k] < 10)
    /\ opt_count' = opt_count - 10
    /\ UNCHANGED <<unspents, used_unspents, ra_amounts, dust, max_digit, req,
                   fee, optimizations, digit, pc, status, change>>

StackOptimizationDone ==
    /\ pc = "stacks"
    /\ ~(opt_count >= 10 /\ TallStacks # {})
    /\ pc' = "round1"
    /\ digit' = 0
    /\ UNCHANGED <<unspents, used_unspents, opt_unspents, used_total,
                   inputs_count, ra_amounts, have, dust, max_digit, req, fee,
                   optimizations, opt_count, status, change, undefined>>

-----------------------------------------------------------------------------
(* optimize_amounts, one step per digit.  Am is the count of 10^digit     *)
(* coins that would round the digit-th place of used_total up.  The pair   *)
(* search runs a over the leads in order and b inside it, keeping the      *)
(* first pair of the largest weight.                                       *)
DigitAmount == 10^digit
Am == 10 - (((FakeLarge + Target + DigitAmount - 1 - used_total) \div DigitAmount) % 10)
Leads == {k[2] : k \in {j \in DOMAIN have : j[1] = digit}}
StackSize(l) == have[<<digit, l>>]
(* Mutant: pairs without the TWO_THRESHOLD condition.                     *)
PairsAnyHeight ==
    {p \in Leads \X Leads : (p[1] + p[2] + Am) % 10 = 0}
Pairs ==
    {p \in Leads \X Leads :
        /\ (p[1] + p[2] + Am) % 10 = 0
        /\ (StackSize(p[1]) >= TWO_THRESHOLD \/ StackSize(p[2]) >= TWO_THRESHOLD)}
Weight(p) == StackSize(p[1]) + StackSize(p[2])
BestPair ==
    CHOOSE p \in Pairs :
        \A q \in Pairs : Weight(q) < Weight(p)
                         \/ (Weight(q) = Weight(p)
                             /\ (p[1] < q[1] \/ (p[1] = q[1] /\ p[2] <= q[2])))
(* The single search: the lead 10 - Am, else the first of the tallest     *)
(* stacks whose lead exceeds 10 - Am.                                      *)
Singles == {l \in Leads : l > 10 - Am}
BestSingle ==
    IF 10 - Am \in Leads THEN 10 - Am
    ELSE CHOOSE l \in Singles :
            \A m \in Singles : StackSize(m) < StackSize(l) \/ (StackSize(m) = StackSize(l) /\ l <= m)

(* Mutant: the digit loop stops one digit early.                          *)
RoundingOverEarly ==
    \/ digit = max_digit
    \/ used_total >= Target /\ DigitAmount > used_total
RoundingOver ==
    \/ digit = max_digit + 1
    \/ used_total >= Target /\ DigitAmount > used_total

(* The pair: pop from have[a], then from have[b]; when a = b the second   *)
(* pop is from what the first left.                                        *)
RoundPair ==
    /\ pc \in {"round1", "round2"}
    /\ ~RoundingOver
    /\ Pairs # {}
    /\ LET a == <<digit, BestPair[1]>>
           b == <<digit, BestPair[2]>>
           after == BagRemove(have, a)
       IN /\ Pick(<<AmountOf(a), AmountOf(b)>>)
          /\ have' = BagRemove(after, b)
          /\ undefined' = (undefined \/ b \notin DOMAIN after)
    /\ digit' = digit + 1
    /\ UNCHANGED <<unspents, used_unspents, ra_amounts, dust, max_digit, req,
                   fee, optimizations, opt_count, pc, status, change>>

RoundSingle ==
    /\ pc \in {"round1", "round2"}
    /\ ~RoundingOver
    /\ Pairs = {}
    /\ Am # 10
    /\ (10 - Am \in Leads \/ Singles # {})
    /\ LET k == <<digit, BestSingle>>
       IN /\ Pick(<<AmountOf(k)>>)
          /\ have' = BagRemove(have, k)
    /\ digit' = digit + 1
    /\ UNCHANGED <<unspents, used_unspents, ra_amounts, dust, max_digit, req,
                   fee, optimizations, opt_count, pc, status, change, undefined>>

(* No coins for the digit, or nothing found for it.                        *)
RoundSkip ==
    /\ pc \in {"round1", "round2"}
    /\ ~RoundingOver
    /\ Pairs = {}
    /\ (Am = 10 \/ ~(10 - Am \in Leads \/ Singles # {}))
    /\ digit' = digit + 1
    /\ UNCHANGED <<unspents, used_unspents, opt_unspents, used_total,
                   inputs_count, ra_amounts, have, dust, max_digit, req, fee,
                   optimizations, opt_count, pc, status, change, undefined>>

(* End of optimize_amounts.  After the first rounding the inner call      *)
(* returns true when the target is met; after the second it always does.  *)
RoundDone ==
    /\ pc \in {"round1", "round2"}
    /\ RoundingOver
    /\ pc' = IF pc = "round1" /\ used_total < Target THEN "smallest" ELSE "check"
    /\ UNCHANGED <<unspents, used_unspents, opt_unspents, used_total,
                   inputs_count, ra_amounts, have, dust, max_digit, req, fee,
                   optimizations, opt_count, digit, status, change, undefined>>

-----------------------------------------------------------------------------
(* "Find smallest coin >= total_amount - used_total": digits upwards,     *)
(* leads upwards.  Found, it meets the target and the inner call returns   *)
(* true; not found, the optimization coins are rolled back before the      *)
(* largest-coin filler.                                                    *)
Covering == {k \in DOMAIN have : AmountOf(k) >= Target - used_total}
Smallest ==
    /\ pc = "smallest"
    /\ IF Covering # {}
       THEN LET k == CHOOSE c \in Covering :
                        \A j \in Covering : AmountOf(c) <= AmountOf(j)
            IN /\ Pick(<<AmountOf(k)>>)
               /\ have' = BagRemove(have, k)
               /\ pc' = "check"
               /\ UNCHANGED dust
       ELSE /\ Unoptimize
            /\ pc' = "filler"
    /\ UNCHANGED <<unspents, used_unspents, ra_amounts, max_digit, req, fee,
                   optimizations, opt_count, digit, status, change, undefined>>

(* One iteration of "use largest coins until amount satisfied".           *)
(* Mutant: the filler gives up when the have coins are gone.              *)
ExhaustedHaveOnly == have = EmptyBag
Exhausted == have = EmptyBag /\ (req.anonymity # 0 \/ dust = EmptyBag)
FillerFail ==
    /\ pc = "filler"
    /\ used_total < Target
    /\ Exhausted
    /\ status' = "NOT_ENOUGH_FUNDS"
    /\ pc' = "done"
    /\ UNCHANGED <<unspents, used_unspents, opt_unspents, used_total,
                   inputs_count, ra_amounts, have, dust, max_digit, req, fee,
                   optimizations, opt_count, digit, change, undefined>>

FillerTake ==
    /\ pc = "filler"
    /\ used_total < Target
    /\ ~Exhausted
    /\ LET ha == IF have # EmptyBag THEN AmountOf(LastKey(have)) ELSE 0
           du == IF req.anonymity = 0 /\ dust # EmptyBag THEN LastDust(dust) ELSE 0
       IN IF ha > du
          THEN /\ Pick(<<ha>>)
               /\ have' = BagRemove(have, LastKey(have))
               /\ UNCHANGED <<dust, undefined>>
          ELSE /\ Pick(<<du>>)
               /\ dust' = BagRemove(dust, du)
               /\ undefined' = (undefined \/ dust = EmptyBag)
               /\ UNCHANGED have
    /\ UNCHANGED <<unspents, used_unspents, ra_amounts, max_digit, req, fee,
                   optimizations, opt_count, digit, pc, status, change>>

FillerDone ==
    /\ pc = "filler"
    /\ used_total >= Target
    /\ pc' = "round2"
    /\ digit' = 0
    /\ UNCHANGED <<unspents, used_unspents, opt_unspents, used_total,
                   inputs_count, ra_amounts, have, dust, max_digit, req, fee,
                   optimizations, opt_count, status, change, undefined>>

-----------------------------------------------------------------------------
(* The outer loop after a successful inner call.                          *)
ChangeDustFee == Wrap(used_total - req.total_amount - fee) % DustThreshold
TxBytes == TxSize(inputs_count, req.total_outputs + 8, req.anonymity)
SizeFee == Wrap(req.fee_per_byte * TxBytes)

(* Too large for the optimization median: roll back, halve, retry.        *)
ShrinkOptimizations ==
    /\ pc = "check"
    /\ TxBytes > OptimizationMedian(req)
    /\ optimizations > 0
    /\ Unoptimize
    /\ LET half == optimizations \div 2
       IN /\ optimizations' = IF half < 10 THEN 0 ELSE half
          /\ opt_count' = IF half < 10 THEN 0 ELSE half
    /\ pc' = "dust_single"
    /\ UNCHANGED <<unspents, used_unspents, ra_amounts, max_digit, req, fee,
                   digit, status, change, undefined>>

NotFit ==
    /\ pc = "check"
    /\ ~(TxBytes > OptimizationMedian(req) /\ optimizations > 0)
    /\ TxBytes > req.effective_median_size
    /\ status' = "TRANSACTION_DOES_NOT_FIT_IN_BLOCK"
    /\ pc' = "done"
    /\ UNCHANGED <<unspents, used_unspents, opt_unspents, used_total,
                   inputs_count, ra_amounts, have, dust, max_digit, req, fee,
                   optimizations, opt_count, digit, change, undefined>>

(* combine_optimized_unspents: the optimization list's amounts go to     *)
(* m_ra_amounts and its coins to the end of m_used_unspents.               *)
CombineOptimizedUnspents ==
    /\ ra_amounts' = ra_amounts \o opt_unspents
    /\ used_unspents' = used_unspents \o opt_unspents
    /\ opt_unspents' = <<>>

(* The fee covers the size: compute the change and                        *)
(* combine_optimized_unspents.                                             *)
Commit ==
    /\ pc = "check"
    /\ ~(TxBytes > OptimizationMedian(req) /\ optimizations > 0)
    /\ TxBytes <= req.effective_median_size
    /\ fee + ChangeDustFee >= SizeFee
    /\ change' = Wrap(used_total - req.total_amount - fee - ChangeDustFee)
    /\ CombineOptimizedUnspents
    /\ status' = ""
    /\ pc' = "done"
    /\ UNCHANGED <<unspents, used_total, inputs_count, have, dust, max_digit,
                   req, fee, optimizations, opt_count, digit, undefined>>

(* The fee falls short: round the size fee up to the dust threshold,      *)
(* roll back, retry.                                                       *)
(* Mutant: the new fee is rounded down to the dust threshold.            *)
RaiseFeeRoundedDown ==
    /\ pc = "check"
    /\ ~(TxBytes > OptimizationMedian(req) /\ optimizations > 0)
    /\ TxBytes <= req.effective_median_size
    /\ fee + ChangeDustFee < SizeFee
    /\ fee' = ((SizeFee - ChangeDustFee) \div DustThreshold) * DustThreshold
    /\ Unoptimize
    /\ opt_count' = optimizations
    /\ pc' = "dust_single"
    /\ UNCHANGED <<unspents, used_unspents, ra_amounts, max_digit, req,
                   optimizations, digit, status, change, undefined>>

RaiseFee ==
    /\ pc = "check"
    /\ ~(TxBytes > OptimizationMedian(req) /\ optimizations > 0)
    /\ TxBytes <= req.effective_median_size
    /\ fee + ChangeDustFee < SizeFee
    /\ fee' = Wrap(((SizeFee - ChangeDustFee + DustThreshold - 1) \div DustThreshold)
                     * DustThreshold)
    /\ Unoptimize
    /\ opt_count' = optimizations
    /\ pc' = "dust_single"
    /\ UNCHANGED <<unspents, used_unspents, ra_amounts, max_digit, req,
                   optimizations, digit, status, change, undefined>>

-----------------------------------------------------------------------------
Step ==
    \/ DustSingle \/ DustFill \/ DustFillDone
    \/ StackOptimization \/ StackOptimizationDone
    \/ RoundPair \/ RoundSingle \/ RoundSkip \/ RoundDone
    \/ Smallest
    \/ FillerFail \/ FillerTake \/ FillerDone
    \/ ShrinkOptimizations \/ NotFit \/ Commit \/ RaiseFee

Next == Reset \/ SelectOptimalOutputs \/ Step

(* The call runs to completion on the caller's thread.                    *)
Spec == Init /\ [][Next]_vars /\ WF_vars(Step)

-----------------------------------------------------------------------------
Statuses == {None, "", "NOT_ENOUGH_FUNDS", "TRANSACTION_DOES_NOT_FIT_IN_BLOCK"}
PCs == {"idle", "dust_single", "dust_fill", "stacks", "round1", "smallest",
        "filler", "round2", "check", "done"}

TypeOK ==
    /\ pc \in PCs
    /\ status \in Statuses
    /\ used_unspents \in Seq(Nat) /\ opt_unspents \in Seq(Nat)
    /\ ra_amounts \in Seq(Nat)
    /\ used_total \in Nat /\ inputs_count \in Nat
    /\ IsABag(have) /\ IsABag(dust)
    /\ max_digit \in Nat /\ digit \in Nat
    /\ fee \in Nat /\ optimizations \in Nat /\ opt_count \in Int
    /\ change \in Nat
    /\ undefined \in BOOLEAN

(* Helpers of the properties: how many coins of amount a are where.       *)
Occurrences(s, a) == Cardinality({i \in DOMAIN s : s[i] = a})
InHave(a) == IF ~IsDust(a) /\ CoinKey(a) \in DOMAIN have THEN have[CoinKey(a)] ELSE 0
InDust(a) == IF a \in DOMAIN dust THEN dust[a] ELSE 0
EligibleCount(a) == Count({o \in Eligible(req) : o.amount = a})
PoolAmounts == {o.amount : o \in DOMAIN unspents}

(* Across every pick, rollback (unoptimize_amounts after a size or fee    *)
(* retry, and before the filler) and commit, each eligible coin is in      *)
(* exactly one place: a have stack, a dust stack, the optimization list or *)
(* the used list; m_used_total and m_inputs_count count exactly the coins  *)
(* of the two lists.                                                       *)
SelectionConsistent ==
    pc # "idle" =>
        /\ \A a \in PoolAmounts :
              EligibleCount(a) = InHave(a) + InDust(a)
                                 + Occurrences(opt_unspents, a)
                                 + Occurrences(used_unspents, a)
        /\ used_total = SeqSum(opt_unspents) + SeqSum(used_unspents)
        /\ inputs_count = Len(opt_unspents) + Len(used_unspents)

(* No coin is ever taken from an empty stack or an erased map entry (the  *)
(* pair search may name one stack twice; stack optimization takes 10 coins *)
(* at once), and the maps never keep an empty stack.                       *)
NoPopFromEmptyStack ==
    /\ ~undefined
    /\ \A k \in DOMAIN have : have[k] > 0

(* When the selector answers OK, the fee the transaction really pays      *)
(* (inputs minus amount minus change) is the nominal fee plus less than    *)
(* one dust threshold, covers fee_per_byte times the size of a transaction *)
(* with the committed inputs, and that size fits the block median.         *)
CommittedFeeCoversSize ==
    status = "" =>
        LET paid == SeqSum(used_unspents) - req.total_amount - change
            bytes == TxSize(Len(used_unspents), req.total_outputs + 8, req.anonymity)
        IN /\ fee <= paid /\ paid < fee + DustThreshold
           /\ paid >= req.fee_per_byte * bytes
           /\ bytes <= req.effective_median_size

(* m_used_unspents lists the coins the caller puts into the transaction:  *)
(* whatever sequence of select_optimal_outputs and reset calls the class   *)
(* accepts, no coin of the pool is listed more often than the pool holds   *)
(* it, so no key image is spent twice.                                     *)
NoCoinSpentTwice ==
    \A a \in PoolAmounts :
        Occurrences(used_unspents, a) <= Count({o \in DOMAIN unspents : o.amount = a})

(* With mixing, no dust coin is ever selected: it would have no ring.     *)
NoDustWhenMixing ==
    (pc # "idle" /\ req.anonymity > 0) =>
        \A i \in DOMAIN (opt_unspents \o used_unspents) :
            ~IsDust((opt_unspents \o used_unspents)[i])

(* Digit rounding ends at max_digit, and at that digit it takes a coin   *)
(* whose lead reaches the shortfall whenever one exists; so when the       *)
(* inner call goes on to "find smallest coin >= total_amount - used_total" *)
(* no coin is left that covers the shortfall, and the search never finds.  *)
SmallestSearchNeverFinds == pc = "smallest" => Covering = {}

(* Every call of select_optimal_outputs returns: the fee retries and the  *)
(* optimization halvings do not loop forever.                              *)
SelectionTerminates == (pc \notin {"idle", "done"}) ~> (pc = "done")
=============================================================================
