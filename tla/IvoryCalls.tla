----------------------------- MODULE IvoryCalls -----------------------------
(***************************************************************************)
(* Function calls (ifuncom1.c, ifunfcal.c): a call is started, its         *)
(* arguments are pushed, it is finished; the callee's entry instruction    *)
(* matches the arguments, pulling them from the list of an apply if it has *)
(* to; a return gives up the frame.                                        *)
(***************************************************************************)
EXTENDS IvoryUnwinding

CONSTANTS MaxIndirections,   \* cells between a call and the function
          MaxElements        \* length of an apply's list

---------------------------------------------------------------------------
(* Lists, in the stack or in the heap. *)
Strip(w) == WithCdr(w, 0)
CdrOf(s, v) ==
  CASE At(s, v).cdr = 0 -> W("List", v + 1)
    [] At(s, v).cdr = 2 -> Strip(At(s, v + 1))
    [] OTHER -> NilWord

\* The elements of a list, and what it ends with if that is not NIL.
Elements(s, w) ==
  LET Onward(x) == IF x.rest.type # "List" THEN x
                   ELSE [seen |-> Append(x.seen, Strip(At(s, x.rest.data))), rest |-> CdrOf(s, x.rest.data)]
      Go[i \in 0 .. MaxElements] == IF i = 0 THEN [seen |-> << >>, rest |-> w] ELSE Onward(Go[i - 1])
      All(x) == IF x.rest.type = "NIL" THEN x.seen ELSE Append(x.seen, x.rest)
  IN  All(Go[MaxElements])

Stripped(s) == [i \in DOMAIN s |-> Strip(s[i])]

---------------------------------------------------------------------------
(* Starting a call: what is called, and the extra argument it gets. *)
Callee(p, extra) == [pc |-> p, extra |-> extra]
Direct(w) ==
  CASE w.type = "CompiledFunction" -> Callee(w.data, << >>)
    [] w.type = "GenericFunction" -> Callee(Vector.GenericDispatch.pc, <<Strip(w)>>)
    [] w.type = "Instance" -> Callee(Vector.MessageDispatch.pc, <<Strip(w)>>)
    [] OTHER -> Callee(Vector.Interpret.pc, <<Strip(w)>>)

\* Symbols and closures name a cell with a function, or with another of them.
IsIndirect(w) == w.type \in {"Symbol", "LexicalClosure"}
FunctionCell(w) == IF w.type = "Symbol" THEN w.data + 2 ELSE w.data + 1
Environment(w) == IF w.type = "Symbol" THEN << >> ELSE <<Strip(Heap[w.data])>>

Resolve(w) ==
  LET Follow(x) == IF IsIndirect(x.word) THEN [word |-> Heap[FunctionCell(x.word)], extra |-> Environment(x.word)]
                   ELSE x
      Go[i \in 0 .. MaxIndirections] == IF i = 0 THEN [word |-> w, extra |-> << >>] ELSE Follow(Go[i - 1])
      Found(x) == IF x.word.type = "CompiledFunction" THEN Callee(x.word.data, x.extra) ELSE Direct(x.word)
  IN  Found(Go[MaxIndirections])

\* The header of the frame to be; the continuation register keeps the callee.
StartCall(m, callee) ==
  [m EXCEPT !.stk = @ \o <<WithCdr(PcWord(m.reg.cont), 3), ControlWord(m.reg.cr)>> \o callee.extra,
            !.reg = [@ EXCEPT !.cont = callee.pc, !.pc = @ + 1,
                              !.cr = [@ EXCEPT !.started = TRUE, !.extra = callee.extra # << >>]],
            !.calls = Append(@, Expectation("call", m.stk))]

DoStartCall == Op("StartCall") /\ Step(StartCall([Now EXCEPT !.stk = Drop(@, 1)], Resolve(Top(stk))))
callindirect == Op("CallIndirect") /\ Step(StartCall(Now, Resolve(Heap[Ins.data])))
callgeneric == Op("CallGeneric") /\ Step(StartCall(Now, Direct(W("GenericFunction", Ins.data))))
callcompiled == Op("CallCompiled") /\ Step(StartCall(Now, Callee(Ins.data, << >>)))

DoSetSpToAddress == Op("SetSpToAddress") /\ Step(Advance([Now EXCEPT !.stk = Drop(@, Ins.n)]))
DoPush == Op("Push") /\ Step(Advance(Pushed(Now, Ins.word)))

---------------------------------------------------------------------------
(* Finishing it.  An apply's list is on top of the arguments, outside the  *)
(* argument size and at the local pointer.                                 *)
CallControl(c, size, cfs, apply, disp) ==
  [NoCr EXCEPT !.cip = c.cip, !.trace = c.trace, !.itrace = c.itrace, !.mode = c.mode,
               !.pending = c.pending \/ c.trace,
               !.argsize = size, !.cfs = cfs, !.apply = apply, !.disp = disp]

\* The caller expects to go on after this with all that it has now.
Expected(m, f, l, apply, disp) ==
  LET c == m.calls
      rest == IF apply THEN Elements(m.stk, Top(m.stk)) ELSE << >>
  IN  [c EXCEPT ![Len(c)] = [@ EXCEPT !.begun = TRUE, !.pc = m.reg.pc + 1, !.values = m.values,
                                      !.bindings = m.bindings, !.catchblock = m.reg.catchblock, !.disp = disp,
                                      !.passed = Stripped(SubSeq(m.stk, f + 2, l - 1)) \o rest]]

FinishCall(m, n, apply, disp) ==
  LET f == Len(m.stk) - (n + 1) - Bit(m.reg.cr.extra)
      l == Len(m.stk) + 1 - Bit(apply)
  IN  Checked([m EXCEPT !.calls = Expected(m, f, l, apply, disp),
                        !.reg = [@ EXCEPT !.fp = f, !.lp = l, !.pc = m.reg.cont, !.cont = m.reg.pc + 1,
                                          !.cr = CallControl(@, l - f, f - m.reg.fp, apply, disp)]])

DoFinishCallN == Op("FinishCallN") /\ Step(FinishCall(Now, Ins.n, Ins.apply, Ins.disp))
DoFinishCallTos ==
  Op("FinishCallTos") /\ Step(FinishCall([Now EXCEPT !.stk = Drop(@, 1)], Top(stk).data, Ins.apply, Ins.disp))

---------------------------------------------------------------------------
(* Pulling n arguments from the list on top of the stack.  The instruction *)
(* that wanted them is executed again.                                     *)
\* Mutant of Spread: the argument size is not advanced.
SpreadLocalsOnly(m, k) == [m EXCEPT !.reg.lp = @ + k]
Spread(m, k) == [m EXCEPT !.reg = [@ EXCEPT !.lp = @ + k, !.cr.argsize = @ + k]]
NoApply(m) == [m EXCEPT !.reg.cr.apply = FALSE]

\* At a trap the stack pointer is that of the beginning, whatever was pushed.
Restart(m) == [m EXCEPT !.stk = SubSeq(@, 1, SP)]

\* Mutant of PullOne: the list is not advanced.
PullOneSameList(m) ==
  Spread([m EXCEPT !.stk = Append(Drop(@, 1), At(m.stk, Top(m.stk).data)) \o <<Top(m.stk)>>], 1)
\* One argument, through memory.
PullOne(m) ==
  LET v == Top(m.stk).data
      nil == Top(m.stk).type = "NIL"
      car == IF nil THEN Top(m.stk) ELSE At(m.stk, v)
      cdr == IF nil THEN NilWord ELSE CdrOf(m.stk, v)
  IN  IF ~nil /\ car.cdr = 3 THEN ILLEGALOPERAND(Restart(m), 15)
      ELSE Spread([m EXCEPT !.stk = Append(Drop(@, 1), car) \o <<cdr>>], 1)
PullApplyArgsSlowly(m, n) ==
  \/ Step(IF Top(m.stk).type \in {"List", "NIL"} THEN PullOne(m) ELSE PULLAPPLYARGSTRAP(m, n))
  \/ /\ PullFaults /\ Top(m.stk).type = "List" /\ ~InStack(Top(m.stk).data)
     /\ Fault(PAGENOTRESIDENT(Restart(m), Top(m.stk).data))

\* Several, of a list in the stack.  This goes on until there are enough, or
\* the list leaves the stack or ends.
Pull(x, n) ==
  LET c == x.stk[x.rest]
      p == [x EXCEPT !.stk = Append(@, Strip(c)), !.rest = @ + 1, !.count = @ + 1]
      next == x.stk[x.rest + 1]
  IN  CASE x.end # "go" -> x
        [] x.end = "go" /\ (x.count = n \/ c.cdr = 3) -> [x EXCEPT !.end = "pointer", !.stk = Append(@, W("List", x.rest))]
        [] x.end = "go" /\ x.count # n /\ c.cdr = 0 -> p
        [] x.end = "go" /\ x.count # n /\ c.cdr = 1 -> [p EXCEPT !.end = "ranout"]
        [] OTHER -> CASE next.type = "List" /\ InStack(next.data) -> [p EXCEPT !.rest = next.data]
                      [] next.type = "NIL" -> [p EXCEPT !.end = "ranout"]
                      [] OTHER -> [p EXCEPT !.end = "left", !.stk = Append(@, Strip(next))]
PullQuickly(n) ==
  LET Go[i \in 0 .. n + 1] ==
        IF i = 0 THEN [stk |-> Drop(stk, 1), rest |-> Top(stk).data, count |-> 0, end |-> "go"] ELSE Pull(Go[i - 1], n)
  IN  Go[n + 1]

Pulled(x, n) ==
  LET m == Spread([Now EXCEPT !.stk = x.stk], x.count)
  IN  CASE x.end = "ranout" -> Step(NoApply(m))
        [] x.end # "ranout" /\ x.count >= n -> Step(m)
        [] OTHER -> PullApplyArgsSlowly(m, n - x.count)

PullApplyArgs(n) ==
  LET w == Top(stk)
  IN  CASE w.type = "NIL" -> Step(NoApply([Now EXCEPT !.stk = Drop(@, 1)]))
        [] w.type = "List" /\ InStack(w.data) -> Pulled(PullQuickly(n), n)
        [] w.type = "List" /\ ~InStack(w.data) -> PullApplyArgsSlowly(Now, n)
        [] OTHER -> Step(PULLAPPLYARGSTRAP(Now, n))

---------------------------------------------------------------------------
(* The entry instruction, with the fewest and the most arguments counted   *)
(* from FP, enters the function at the entry for the number it got.        *)
Enter(m, k) == GoTo(m, m.reg.pc + 1 + k)
NilApplied == reg.cr.apply /\ Top(stk).type = "NIL"
Unapplied == IF NilApplied THEN NoApply([Now EXCEPT !.stk = Drop(@, 1)]) ELSE Now
Supplied == reg.cr.argsize

\* An operand error leaves the NIL on the stack, no longer applied.
TooFew == ILLEGALOPERAND(Restart([Unapplied EXCEPT !.stk = stk]), 77)
TooMany == ILLEGALOPERAND(Restart([Unapplied EXCEPT !.stk = stk]), 78)

DoEntryRestNotAccepted ==
  /\ Op("EntryRestNotAccepted")
  /\ CASE reg.cr.pending -> Step(TRACETRAP(Now))
       [] ~reg.cr.pending /\ reg.cr.apply /\ ~NilApplied ->
            IF Ins.max <= Supplied THEN Step(ILLEGALOPERAND(Now, 78)) ELSE PullApplyArgs(Ins.max - Supplied)
       [] OTHER -> Step(CASE Supplied < Ins.min -> TooFew
                          [] Supplied > Ins.max -> TooMany
                          [] OTHER -> Enter(Unapplied, Supplied - Ins.min))

\* The arguments beyond the most are a list in place, whose last cdr is NIL
\* or, if there is a list applied too, that list.
RestList(m) == W("List", m.reg.fp + Ins.max)
\* Mutant of SetLastCdr: the code goes to the stack's top.
SetTopCdr(m, c) == [m EXCEPT !.stk = [@ EXCEPT ![Len(m.stk)].cdr = c]]
SetLastCdr(m, c) == [m EXCEPT !.stk = [@ EXCEPT ![Len(m.stk) - 1].cdr = c]]

RestEntry(m) ==
  LET Applied(u) == Spread(SetLastCdr(u, 2), 1)
      Rest(u) == IF u.reg.cr.apply THEN Applied(u) ELSE u
      Rested(u) == Enter(Pushed(u, RestList(u)), Ins.max - Ins.min + 1)
  IN  Rested(Rest(SetTopCdr(m, 1)))

DoEntryRestAccepted ==
  /\ Op("EntryRestAccepted")
  /\ CASE reg.cr.pending -> Step(TRACETRAP(Now))
       [] ~reg.cr.pending /\ reg.cr.apply /\ ~NilApplied ->
            CASE Ins.max < Supplied -> Step(RestEntry(Now))
              [] Ins.max > Supplied -> PullApplyArgs(Ins.max - Supplied)
              [] OTHER -> Step(Enter(SetTopCdr(Now, 1), Supplied - Ins.min + 1))
       [] OTHER -> Step(CASE Supplied < Ins.min -> TooFew
                          [] Supplied > Ins.max -> RestEntry(Unapplied)
                          [] OTHER -> Enter(Unapplied, Supplied - Ins.min))

DoLocateLocals ==
  /\ Op("LocateLocals")
  /\ Step(Advance(Pushed([Now EXCEPT !.reg = [@ EXCEPT !.lp = SP, !.cr.argsize = SP - reg.fp]],
                         Fix(reg.cr.argsize - 2))))

---------------------------------------------------------------------------
(* Returning.  A call for return makes its caller return the same values:  *)
(* the pc stays at the return instruction.                                 *)
PopFrame(m, p) ==
  LET c == [m.stk[m.reg.fp + 1].cr EXCEPT !.pending = @ \/ m.reg.cr.pending]
      f == m.reg.fp - m.reg.cr.cfs
  IN  [m EXCEPT !.stk = SubSeq(@, 1, m.reg.fp - 1),
                !.reg = [@ EXCEPT !.fp = f, !.lp = f + c.argsize, !.cr = c, !.cont = m.stk[m.reg.fp].data, !.pc = p],
                !.calls = Returned(@)]
\* Mutant of ReturnPC: the disposition is not looked at.
ReturnPCAlwaysContinues == reg.cont
ReturnPC == IF reg.cr.disp = "return" THEN reg.pc ELSE reg.cont

\* pops says that the return found the value on the stack, and will again.
ReturnValue(w, pops) ==
  LET m == PopFrame(Now, ReturnPC)
  IN  CASE reg.cr.disp = "effect" -> m
        [] reg.cr.disp = "value" -> Pushed(m, w)
        [] reg.cr.disp = "multiple" -> Pushed(Pushed(m, w), Fix(1))
        [] OTHER -> IF pops THEN Pushed(m, w) ELSE m

DoReturnSingle ==
  /\ Op("ReturnSingle")
  /\ IF NeedsCleanup THEN HANDLEFRAMECLEANUP
     ELSE Step(CASE Ins.operand = "TOS" -> ReturnValue(Strip(Top(stk)), TRUE)
                 [] Ins.operand = "NIL" -> ReturnValue(NilWord, FALSE)
                 [] OTHER -> ReturnValue(TWord, FALSE))

\* The last n words of the frame, or of what is below the count on top of it.
DoReturnMultiple ==
  LET s == IF Ins.pops THEN Drop(stk, 1) ELSE stk
      n == IF Ins.pops THEN Top(stk).data ELSE Ins.n
      vs == Stripped(SubSeq(s, Len(s) - n + 1, Len(s)))
      m == [PopFrame(Now, ReturnPC) EXCEPT !.stk = @ \o vs]
  IN  /\ Op("ReturnMultiple")
      /\ CASE Ins.pops /\ Top(stk).type # "Fixnum" -> Step(ILLEGALOPERAND(Now, 63))
           [] NeedsCleanup /\ ~(Ins.pops /\ Top(stk).type # "Fixnum") -> HANDLEFRAMECLEANUP
           [] OTHER ->
                Step(CASE reg.cr.disp \in {"effect", "value"} -> ReturnValue(IF n = 0 THEN NilWord ELSE vs[1], FALSE)
                       [] reg.cr.disp = "multiple" \/ Ins.pops -> Pushed(m, Fix(n))
                       [] OTHER -> m)

\* The end of a handler: words as they are, and always to the continuation.
DoReturnKludge ==
  LET m == [PopFrame(Now, reg.cont) EXCEPT !.stk = @ \o SubSeq(stk, SP - Ins.n + 1, SP)]
  IN  Op("ReturnKludge") /\ IF NeedsCleanup THEN HANDLEFRAMECLEANUP ELSE Step(m)

\* The values that the caller wants, of those that a call for multiple got.
DoTakeValues ==
  LET got == Top(stk).data
      s == Drop(stk, 1)
  IN  /\ Op("TakeValues")
      /\ Step(Advance([Now EXCEPT !.stk = IF got >= Ins.n THEN Drop(s, got - Ins.n)
                                          ELSE s \o [i \in 1 .. Ins.n - got |-> NilWord]]))
=============================================================================
