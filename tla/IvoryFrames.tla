----------------------------- MODULE IvoryFrames -----------------------------
(***************************************************************************)
(* The control stack of the interpreter and the traps that push frames on  *)
(* it (ifuntrap.c).  The stack is a sequence and a stack address an index  *)
(* of it, heap addresses are above.  A frame begins at FP with the         *)
(* caller's continuation and control register, and its arguments; the      *)
(* locals are at LP and above.  A pc counts instructions, the entries of   *)
(* an entry vector included.                                               *)
(*                                                                         *)
(* The variable calls is history, no state of the program: for each frame  *)
(* on the stack what its caller expects to find when it returns.           *)
(***************************************************************************)
EXTENDS Integers, Sequences, SequencesExt

CONSTANTS
  Programs,        \* records of the code, a function of pcs, and its tracing
  Heap,            \* the words of the heap, a function of its addresses
  Vector,          \* the trap vector: of each trap the handler's pc and mode
  CSLimit,         \* stack limit of emulator mode ...
  CSExtraLimit,    \* ... and of the higher modes
  InitialValues,   \* the special variables and their values
  Bits,            \* width of a word's data
  MaxTraps,        \* interrupts and faults in a run
  PullFaults       \* whether the slow path of pulling arguments may fault

VARIABLES program, stk, reg, bindings, values, calls, traps

vars == <<program, stk, reg, bindings, values, calls, traps>>

ASSUME LimitsAssumption == CSLimit <= CSExtraLimit
ASSUME VectorAssumption == /\ Vector.StackOverflow.mode > 0
                           /\ \A k \in DOMAIN Vector : Vector[k].mode \in 0 .. 3
ASSUME HeapAssumption == \A v \in DOMAIN Heap : v > CSExtraLimit + 8

---------------------------------------------------------------------------
(* Words and the control register. *)
NoCr == [argsize |-> 0, extra |-> FALSE, cfs |-> 0, apply |-> FALSE, disp |-> "effect", started |-> FALSE,
         cip |-> FALSE, toe |-> FALSE, bind |-> FALSE, catch |-> FALSE, pending |-> FALSE, trace |-> FALSE,
         itrace |-> FALSE, mode |-> 0]

W(t, x) == [type |-> t, data |-> x, cdr |-> 0, cr |-> NoCr]
Fix(n) == W("Fixnum", n)
NilWord == W("NIL", 0)
TWord == W("T", 0)
PcWord(p) == W("EvenPC", p)
WithCdr(w, c) == [w EXCEPT !.cdr = c]
ControlWord(c) == [W("Fixnum", 0) EXCEPT !.cdr = 3, !.cr = c]
Same(v, w) == v.type = w.type /\ v.data = w.data

SP == Len(stk)
Top(s) == s[Len(s)]
Drop(s, n) == SubSeq(s, 1, Len(s) - n)
InStack(v) == v <= CSExtraLimit + 8
At(s, v) == IF InStack(v) THEN s[v] ELSE Heap[v]

\* All that an instruction may change.
Now == [stk |-> stk, reg |-> reg, bindings |-> bindings, values |-> values, calls |-> calls]
Become(m) == /\ stk' = m.stk /\ reg' = m.reg /\ bindings' = m.bindings
             /\ values' = m.values /\ calls' = m.calls

---------------------------------------------------------------------------
(* History. *)
Expectation(kind, s) ==
  [kind |-> kind, begun |-> FALSE, below |-> s, fp |-> reg.fp, lp |-> reg.lp, cr |-> reg.cr, cont |-> reg.cont,
   pc |-> reg.pc, values |-> values, bindings |-> bindings, catchblock |-> reg.catchblock,
   disp |-> "effect", passed |-> << >>]

Begun(c) == {i \in 1 .. Len(c) : c[i].begun}
Current(c) == CHOOSE i \in Begun(c) : \A j \in Begun(c) : j <= i
Returned(c) == SubSeq(c, 1, Current(c) - 1)

\* A trap on the machine m: its frame comes above the stack m.stk and is left
\* by going on at p.
ExpectTrap(m, p) ==
  Append(m.calls, [Expectation("trap", m.stk) EXCEPT
                     !.begun = TRUE, !.fp = m.reg.fp, !.lp = m.reg.fp + m.reg.cr.argsize, !.cr = m.reg.cr,
                     !.cont = m.reg.cont, !.pc = p, !.values = m.values, !.bindings = m.bindings,
                     !.catchblock = m.reg.catchblock, !.disp = "value"])

---------------------------------------------------------------------------
(* Trap frames. *)
Limit(mode) == IF mode = 0 THEN CSLimit ELSE CSExtraLimit
Fits(m) == Len(m.stk) < Limit(m.reg.cr.mode)

Maximum(a, b) == IF a >= b THEN a ELSE b

\* What fccrtrapmask leaves of the control register is cleanup in progress.
\* In FEP mode every trap goes through one vector.
TrapVector(k, c) == IF c.mode = 3 THEN Vector.FEP ELSE Vector[k]
TrapControl(c, size, cfs, mode) ==
  [NoCr EXCEPT !.cip = c.cip, !.mode = Maximum(mode, c.mode), !.argsize = size, !.cfs = cfs, !.disp = "value"]

\* The frame of a trap: the header, the vector's index, the pc, and args.
TrapFrame(m, k, saved, next, args) ==
  LET v == TrapVector(k, m.reg.cr)
      s == m.stk \o <<WithCdr(PcWord(m.reg.cont), 3), ControlWord(saved), Fix(0), PcWord(m.reg.pc)>> \o args
      f == Len(m.stk) + 1
      n == Len(s) + 1 - f
  IN  [m EXCEPT !.stk = s,
                !.reg = [@ EXCEPT !.fp = f, !.lp = f + n, !.cont = next, !.pc = v.pc,
                                  !.cr = TrapControl(m.reg.cr, n, f - m.reg.fp, v.mode)],
                !.calls = ExpectTrap(m, next)]

Traced(c) == [c EXCEPT !.pending = @ \/ c.itrace]

Halted(m, why) == [m EXCEPT !.reg.halt = why]

\* A frame that does not fit is installed first; the overflow is a trap of its
\* first instruction.  The handler has more room, but if that is not enough
\* the machine halts.
STACKOVERFLOW(m) ==
  LET Check(t) == IF Fits(t) THEN t ELSE Halted(t, "FatalStackOverflow")
  IN  Check(TrapFrame(m, "StackOverflow", Traced(m.reg.cr), m.reg.pc, << >>))
Checked(m) == IF Fits(m) THEN m ELSE STACKOVERFLOW(m)

\* Before an instruction that is to be executed again.  The stack pointer is
\* what it was at its beginning, restartsp: m.stk.
PreTrap(m, k, args) == Checked(TrapFrame(m, k, m.reg.cr, m.reg.pc, args))

\* In place of an instruction: its n arguments on the stack become those of
\* the frame, which returns to next.
HandleException(m, k, n, next) ==
  LET below == [m EXCEPT !.stk = Drop(@, n)]
      args == SubSeq(m.stk, Len(m.stk) - n + 1, Len(m.stk))
      Check(t) == IF Fits(t) THEN t
                  ELSE IF t.reg.cr.mode = 0 THEN STACKOVERFLOW(t) ELSE Halted(t, "FatalStackOverflow")
  IN  Check(TrapFrame(below, k, Traced(m.reg.cr), next, args))

ILLEGALOPERAND(m, n) == PreTrap(m, "Error", <<Fix(n), W("Locative", 0)>>)
TRACETRAP(m) == PreTrap(m, "Trace", << >>)
\* The rest argument is taken from the stack and given to the handler.
PULLAPPLYARGSTRAP(m, n) ==
  PreTrap([m EXCEPT !.stk = Drop(@, 1)], "PullApplyArgs", <<Fix(n), WithCdr(Top(m.stk), 0)>>)
PAGENOTRESIDENT(m, v) == PreTrap(m, "PageNotResident", <<W("Locative", v)>>)

---------------------------------------------------------------------------
(* Instructions. *)
Code(p) == program.code[p]
Running == reg.halt = "no"
Op(name) == Running /\ Code(reg.pc).op = name
Ins == Code(reg.pc)

Step(m) == Become(m) /\ UNCHANGED <<program, traps>>
Fault(m) == traps < MaxTraps /\ traps' = traps + 1 /\ Become(m) /\ UNCHANGED program

GoTo(m, p) == [m EXCEPT !.reg.pc = p]
Advance(m) == [m EXCEPT !.reg.pc = @ + 1]
Pushed(m, w) == [m EXCEPT !.stk = Append(@, w)]

---------------------------------------------------------------------------
(* Interrupts, between two instructions, if the mode lets them through, and *)
(* page faults of an instruction that has changed nothing yet.              *)
HIGHPRIORITYSEQUENCEBREAK ==
  Running /\ reg.cr.mode <= 1 /\ Fault(PreTrap(Now, "HighPrioritySequenceBreak", << >>))
LOWPRIORITYSEQUENCEBREAK ==
  Running /\ reg.cr.mode = 0 /\ Fault(PreTrap(Now, "LowPrioritySequenceBreak", << >>))
PREEMPTREQUESTTRAP ==
  Running /\ reg.cr.mode = 0 /\ Fault(PreTrap(Now, "PreemptRequest", << >>))
PageFault ==
  Running /\ Fault(PAGENOTRESIDENT(Now, 0))

\* The handlers are Lisp's.  That of a trace trap clears the pending bit in
\* the control register that its frame saved, or it would trap again.
HandlerClearsPending ==
  /\ Op("ClearPending")
  /\ Step(Advance([Now EXCEPT !.stk = [@ EXCEPT ![reg.fp + 1].cr.pending = FALSE]]))
DoHalt == Op("Halt") /\ Step(Halted(Now, "Halted"))
=============================================================================
