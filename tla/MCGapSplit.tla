----------------------------- MODULE MCGapSplit -----------------------------
(***************************************************************************)
(* Every list of up to four entries, sorted or not, with repetitions and   *)
(* entries above the head, over a u64 of six values, so that both          *)
(* saturating additions are reached.                                       *)
(***************************************************************************)
EXTENDS GapSplit

CONSTANT MaxLen

MCInputs ==
    {[head |-> h, existing |-> e, size |-> s] :
        h \in 0 .. U64Max,
        e \in UNION {[1 .. n -> 0 .. U64Max] : n \in 0 .. MaxLen},
        s \in 1 .. U64Max}
=============================================================================
