---------------------------- MODULE MCContainers ----------------------------
(***************************************************************************)
(* Three alternatives of two types; chains of one and of three match calls,*)
(* and match with two functions, as main of mstd-test/choice.cpp calls it  *)
(* (225-230).                                                              *)
(***************************************************************************)
EXTENDS Containers, TLC

MCChains == UNION {[1 .. n -> Types] : n \in {1, 3}}
MCTries  == {<<"T", "U">>, <<"U", "T">>}
MCTypeList == <<"T", "U", "T">>

\* The operations treat all objects, all maybes, ... alike, and every property
\* of the run is one of states or of single steps.
MCSymmetry == Permutations(Objects) \cup Permutations(Choices)
                \cup Permutations(Cells)
=============================================================================
