------------------------ MODULE MCSelectorRefinement -------------------------
(* The selector's refinement checked over the pools and requests of        *)
(* MCUnspentSelector.                                                       *)
EXTENDS SelectorRefinement, MCUnspentSelector
====
