------------------------- MODULE SelectorRefinement --------------------------
(***************************************************************************)
(* UnspentSelector implements CoinSelection.  The caller sees a request    *)
(* from the entry of select_optimal_outputs until reset, the returned      *)
(* status once the call is done, and m_used_unspents as the selection;     *)
(* every step inside the call is a stuttering step of the abstract         *)
(* specification.                                                          *)
(***************************************************************************)
EXTENDS UnspentSelector

CONSTANT NoValue    \* the abstract specification's None, a model value

Abstract == INSTANCE CoinSelection
    WITH None <- NoValue,
         wallet <- unspents,
         request <- IF pc = "idle" THEN NoValue ELSE req,
         answer <- IF pc = "done" THEN status ELSE NoValue,
         spent <- used_unspents,
         change <- change

(* Every behaviour of the selector is one of CoinSelection's safety part   *)
(* (that every call is answered is SelectionTerminates): a call is        *)
(* answered at most once; OK commits spendable coins whose surplus over the *)
(* amount and the change pays the minimum and the per-byte fee of the      *)
(* committed size, which fits the median; NOT_ENOUGH_FUNDS comes only when *)
(* no choice of spendable coins could pay; the selection only changes at   *)
(* commit and reset.                                                       *)
SelectionRefinesCoinSelection == Abstract!SafetySpec
=============================================================================
