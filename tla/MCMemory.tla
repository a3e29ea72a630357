------------------------------- MODULE MCMemory -------------------------------
(***************************************************************************)
(* Small instances of MemoryPipeline.                                      *)
(***************************************************************************)
EXTENDS MemoryPipeline, TLC

CONSTANTS w1, w2, t1, t2

\* Two sessions extract from two threads: one that goes on and one that goes.
MCExtractors == [w \in Workers |-> {1}]
MCExtractEvents ==
    [t \in Threads |-> IF t = t1 THEN {"updated", "failed"} ELSE {"deleted", "no_output"}]

\* One session extracts and consolidates, the other only consolidates.
MCConsolidators == [w \in Workers |-> IF w = w1 THEN {1, 2} ELSE {2}]
MCConsolidateEvents == [t \in Threads |-> {"updated", "polluted"}]
=============================================================================
