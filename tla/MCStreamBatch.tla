---------------------------- MODULE MCStreamBatch ----------------------------
(* Instances of StreamBatch for TLC. *)
EXTENDS StreamRefinement, TLC

Streaming   == [parallel |-> TRUE,  findOnly |-> FALSE, stream |-> TRUE,  novelty |-> FALSE]
Sequential  == [parallel |-> FALSE, findOnly |-> FALSE, stream |-> TRUE,  novelty |-> FALSE]
FindOnly    == [parallel |-> TRUE,  findOnly |-> TRUE,  stream |-> TRUE,  novelty |-> FALSE]
NotStreamed == [parallel |-> TRUE,  findOnly |-> FALSE, stream |-> FALSE, novelty |-> FALSE]
Novelty     == [parallel |-> TRUE,  findOnly |-> FALSE, stream |-> TRUE,  novelty |-> TRUE]

StreamingOnly == {Streaming}
AllModes      == {Streaming, Sequential, FindOnly, NotStreamed, Novelty}

\* Root causes are interchangeable.
CauseSymmetry == Permutations(Causes)
=============================================================================
