--------------------------- MODULE IvoryUnwinding ---------------------------
(***************************************************************************)
(* Catch blocks, unwind-protect, and what a frame has to undo before it    *)
(* returns (ifunfcal.c, HANDLEUNWINDPROTECT of ifuntrap.c).  A catch block *)
(* is three words of the stack, or four: the handler's pc, the binding     *)
(* level, the block before it with the extra-argument and catch bits of    *)
(* the frame, and for a catch the continuation.                            *)
(***************************************************************************)
EXTENDS IvoryFrames

---------------------------------------------------------------------------
(* Bindings: the binding stack is the sequence of what was bound.  The bit *)
(* says whether the frame had bindings before this one.                    *)
DoBind ==
  /\ Op("Bind")
  /\ Step(Advance([Now EXCEPT !.bindings = Append(@, [var |-> Ins.var, old |-> values[Ins.var], bit |-> reg.cr.bind]),
                              !.values = [@ EXCEPT ![Ins.var] = Ins.data],
                              !.reg.cr.bind = TRUE]))

\* Mutant of UnbindOne: the cleanup bit is not restored.
UnbindOneKeepsBit(m) ==
  LET b == Top(m.bindings)
  IN  [m EXCEPT !.values = [@ EXCEPT ![b.var] = b.old], !.bindings = Drop(@, 1)]
UnbindOne(m) ==
  LET b == Top(m.bindings)
  IN  [m EXCEPT !.values = [@ EXCEPT ![b.var] = b.old], !.bindings = Drop(@, 1), !.reg.cr.bind = b.bit]

\* How many bindings the bits say that the frame has.
FrameBindings(m) ==
  LET b == m.bindings
      Oldest(i) == ~b[Len(b) - i + 1].bit /\ \A j \in 1 .. i - 1 : b[Len(b) - j + 1].bit
  IN  IF m.reg.cr.bind THEN CHOOSE i \in 1 .. Len(b) : Oldest(i) ELSE 0

UnbindSteps(m, k) ==
  LET Go[i \in 0 .. k] == IF i = 0 THEN m ELSE UnbindOne(Go[i - 1])
  IN  Go[k]

\* Unbinding n: one after the other, and illegal beyond the frame's own.
\* Memory may fault at each; what was undone until then stays undone, and the
\* instruction begins again.
Unbinding(m, n, Then(_)) ==
  LET own == FrameBindings(m)
      done == IF n <= own THEN n ELSE own
  IN  \/ Step(IF n <= own THEN Then(UnbindSteps(m, n)) ELSE ILLEGALOPERAND(UnbindSteps(m, own), 20))
      \/ \E k \in 0 .. done - 1 : Fault(PAGENOTRESIDENT(UnbindSteps(m, k), 0))

DoUnbindN == Op("Unbind") /\ Unbinding(Now, Ins.n, Advance)

---------------------------------------------------------------------------
(* Catch blocks. *)
Bit(b) == IF b THEN 1 ELSE 0
IsUnwindProtect(m) == m.stk[m.reg.catchblock + 1].cdr = 1
BindingLevel(m) == m.stk[m.reg.catchblock + 1].data
Previous(m) == m.stk[m.reg.catchblock + 2]

DoCatchOpen ==
  LET level == WithCdr(W("Locative", Len(bindings)), Bit(Ins.uwp))
      before == WithCdr(W("Locative", reg.catchblock), 2 * Bit(reg.cr.extra) + Bit(reg.cr.catch))
      block == <<level, before>> \o IF Ins.uwp THEN << >> ELSE <<WithCdr(PcWord(reg.cont), Ins.disp)>>
  IN  /\ Op("CatchOpen")
      /\ Step(Advance([Now EXCEPT !.stk = @ \o block, !.reg.catchblock = SP, !.reg.cr.catch = TRUE]))

\* The innermost block is no longer open.
CatchPopped(m) ==
  [m EXCEPT !.reg = [@ EXCEPT !.catchblock = Previous(m).data,
                              !.cr = [@ EXCEPT !.extra = Previous(m).cdr >= 2, !.catch = Previous(m).cdr % 2 = 1]]]

\* Its handler runs, to jump to p at the end; the cdr code of p says what the
\* cleanup-in-progress bit will be.
RunCleanup(m, p, block, inProgress) ==
  [m EXCEPT !.stk = Append(@, WithCdr(PcWord(p), 2 + Bit(inProgress))),
            !.reg = [@ EXCEPT !.pc = m.stk[block].data, !.cr.cip = TRUE]]

\* The code computes the bit and then overwrites the register it is in
\* (t8 = t7 & 1): it is always off.
DoCatchClose ==
  LET Close(m) == IF IsUnwindProtect(m)
                  THEN RunCleanup(CatchPopped(m), m.reg.pc + 1, m.reg.catchblock, FALSE)
                  ELSE Advance(CatchPopped(m))
  IN  Op("CatchClose") /\ Unbinding(Now, Len(bindings) - BindingLevel(Now), Close)

\* Mutant of HANDLEUNWINDPROTECT: the bindings are not undone first.
HANDLEUNWINDPROTECTStillBound(m) == Step(RunCleanup(CatchPopped(m), m.reg.pc, m.reg.catchblock, m.reg.cr.cip))
HANDLEUNWINDPROTECT(m) ==
  LET Protect(u) == RunCleanup(CatchPopped(u), u.reg.pc, u.reg.catchblock, u.reg.cr.cip)
  IN  Unbinding(m, Len(m.bindings) - BindingLevel(m), Protect)

\* Catches are forgotten, up to the first unwind-protect.  The extra-argument
\* bit is not restored.
Uncaught ==
  LET Block[i \in 0 .. SP] == IF i = 0 THEN reg.catchblock ELSE stk[Block[i - 1] + 2].data
      Catch(i) == IF i = 0 THEN reg.cr.catch ELSE stk[Block[i - 1] + 2].cdr % 2 = 1
      Stops(i) == ~Catch(i) \/ stk[Block[i] + 1].cdr = 1
      n == CHOOSE i \in 0 .. SP : Stops(i) /\ \A j \in 0 .. i - 1 : ~Stops(j)
  IN  [Now EXCEPT !.reg = [@ EXCEPT !.catchblock = Block[n], !.cr.catch = Catch(n)]]

\* A return from a frame that has something to undo: one unwind-protect, or
\* all bindings; then the return begins again.
NeedsCleanup == reg.cr.toe \/ reg.cr.bind \/ reg.cr.catch
HANDLEFRAMECLEANUP ==
  LET Exit(m) == IF m.reg.cr.toe THEN ILLEGALOPERAND(m, 79) ELSE m
      Cleanup(m) == IF m.reg.cr.catch THEN HANDLEUNWINDPROTECT(m) ELSE Unbinding(m, FrameBindings(m), Exit)
  IN  Cleanup(Uncaught)

\* At the end of a cleanup handler, among others.
DoJump ==
  LET w == Top(stk)
      Jumped(m) == IF w.cdr >= 2 THEN [m EXCEPT !.reg.cr.cip = w.cdr = 3] ELSE m
  IN  /\ Op("Jump")
      /\ Step(IF w.type # "EvenPC" THEN HandleException(Now, "Jump", 1, reg.pc + 1)
              ELSE Jumped([Now EXCEPT !.stk = Drop(@, 1), !.reg.pc = w.data]))

\* Set by the debugger in the frame that it wants to see the end of.
DebuggerTrapsOnExit == Op("TrapOnExit") /\ Step(Advance([Now EXCEPT !.reg.cr.toe = TRUE]))
=============================================================================
