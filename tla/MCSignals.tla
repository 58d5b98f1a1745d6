------------------------------ MODULE MCSignals ------------------------------
(* Signals with one command channel, one disk and one MBIN channel *)
EXTENDS Signals

CONSTANTS cmd, disk, mbin, nullHandler, null   \* model values

MCDisks == {disk}
MCMbins == {mbin}
NoMbins == {}
=============================================================================
