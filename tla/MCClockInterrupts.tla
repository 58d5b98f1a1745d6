-------------------------- MODULE MCClockInterrupts --------------------------
(* ClockInterrupts with a timer that is cancelled, or set for at most one tick *)
EXTENDS ClockInterrupts

MCTimeouts == {-1, 0, 1}
MCReprogram == {1}
MCIntervals == {2}
MCTrapModes == {TrapMode_IO, TrapMode_FEP}
=============================================================================
