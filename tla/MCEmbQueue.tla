----------------------------- MODULE MCEmbQueue -----------------------------
(* EmbQueue with a ring of MCQueueSize slots, i.e. MCQueueSize - 1 elements *)
EXTENDS EmbQueue

CONSTANTS a, b, none   \* model values

MCQueueSize == 3
MCElements == {a, b}
MCBothMemories == {FALSE, TRUE}
MCWeakMemory == {TRUE}
=============================================================================
