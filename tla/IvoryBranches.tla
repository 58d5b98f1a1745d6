---------------------------- MODULE IvoryBranches ----------------------------
(***************************************************************************)
(* Branches and loops (ifuncom1.c, ifuncom2.c, ifunloop.c), and the        *)
(* dispatch to methods (ifuncom1.c, ifungene.c), which is a jump in the    *)
(* frame of the generic function.                                          *)
(***************************************************************************)
EXTENDS IvoryCalls

CONSTANT MaxProbes    \* entries of a handler table

---------------------------------------------------------------------------
(* The conditional branches differ in what they pop when they branch and   *)
(* when they do not.                                                       *)
True == Top(stk).type # "NIL"
BranchIf(name, condition, popTaken, popElse) ==
  /\ Op(name)
  /\ Step(CASE condition /\ Ins.offset = 0 -> ILLEGALOPERAND(Now, 24)
            [] condition /\ Ins.offset # 0 -> GoTo([Now EXCEPT !.stk = Drop(@, popTaken)], reg.pc + Ins.offset)
            [] OTHER -> Advance([Now EXCEPT !.stk = Drop(@, popElse)]))

DoBranch == Op("Branch") /\ Step(GoTo(Now, reg.pc + Ins.offset))

DoBranchTrue == BranchIf("BranchTrue", True, 1, 1)
DoBranchFalse == BranchIf("BranchFalse", ~True, 1, 1)
DoBranchTrueNoPop == BranchIf("BranchTrueNoPop", True, 0, 0)
DoBranchFalseNoPop == BranchIf("BranchFalseNoPop", ~True, 0, 0)
DoBranchTrueAndNoPop == BranchIf("BranchTrueAndNoPop", True, 0, 1)
DoBranchFalseAndNoPop == BranchIf("BranchFalseAndNoPop", ~True, 0, 1)
DoBranchTrueElseNoPop == BranchIf("BranchTrueElseNoPop", True, 1, 0)
DoBranchFalseElseNoPop == BranchIf("BranchFalseElseNoPop", ~True, 1, 0)
DoBranchTrueAndExtraPop == BranchIf("BranchTrueAndExtraPop", True, 2, 1)
DoBranchFalseAndExtraPop == BranchIf("BranchFalseAndExtraPop", ~True, 2, 1)
DoBranchTrueElseExtraPop == BranchIf("BranchTrueElseExtraPop", True, 1, 2)
DoBranchFalseElseExtraPop == BranchIf("BranchFalseElseExtraPop", ~True, 1, 2)
DoBranchTrueExtraPop == BranchIf("BranchTrueExtraPop", True, 2, 2)
DoBranchFalseExtraPop == BranchIf("BranchFalseExtraPop", ~True, 2, 2)
DoBranchTrueAndNoPopElseNoPopExtraPop == BranchIf("BranchTrueAndNoPopElseNoPopExtraPop", True, 1, 1)
DoBranchFalseAndNoPopElseNoPopExtraPop == BranchIf("BranchFalseAndNoPopElseNoPopExtraPop", ~True, 1, 1)

\* Data are compared as they come from memory, without a sign, with results
\* that have one.
Signed(x) == IF x >= 2^(Bits - 1) THEN x - 2^Bits ELSE x
Numeric(w) == w.type \in {"Fixnum", "Ratio"}
\* Mutant of Counted: the count does not go down.
CountedNever(m, x) == m
Counted(m, x) == [m EXCEPT !.stk = Append(Drop(@, 1), Fix(x % 2^Bits))]

DoLoopDecrementTos ==
  LET w == Top(stk)
      x == Signed((w.data - 1) % 2^Bits)
      taken == GoTo(Counted(Now, x), reg.pc + Ins.offset)
  IN  /\ Op("LoopDecrementTos")
      /\ Step(CASE ~Numeric(w) -> ILLEGALOPERAND(Now, 81)
                [] Numeric(w) /\ (w.type # "Fixnum" \/ x >= w.data) ->
                     HandleException(Now, "Loop", 1, reg.pc + Ins.offset)
                [] OTHER -> IF x > 0 THEN taken ELSE Advance(Counted(Now, x)))

DoLoopIncrementTosLessThan ==
  LET w == Top(stk)
      limit == stk[SP - 1]
      x == Signed((w.data + 1) % 2^Bits)
      fixnums == w.type = "Fixnum" /\ limit.type = "Fixnum"
      taken == GoTo(Counted(Now, x), reg.pc + Ins.offset)
  IN  /\ Op("LoopIncrementTosLessThan")
      /\ Step(CASE ~(Numeric(w) /\ Numeric(limit)) -> ILLEGALOPERAND(Now, 16)
                [] Numeric(w) /\ Numeric(limit) /\ (~fixnums \/ w.data > x) ->
                     HandleException(Now, "Loop", 2, reg.pc + Ins.offset)
                [] OTHER -> IF x <= limit.data THEN taken ELSE Advance(Counted(Now, x)))

---------------------------------------------------------------------------
(* Dispatch.  A flavor has the mask and the address of its handler table,  *)
(* of entries of three words: key, method and parameter.  The entry with   *)
(* the key NIL at the end stands for all others.                           *)
Flavor(w) == IF w.type = "Instance" THEN Heap[w.data].data ELSE Vector.Flavor.pc

Probe(key, table, i) == Heap[table + 3 * i]
Hits(key, table, i) == Probe(key, table, i).type = "NIL" \/ Same(Probe(key, table, i), key)
FirstHit(key, table, start) ==
  start + CHOOSE i \in 0 .. MaxProbes : /\ Hits(key, table, start + i)
                                        /\ \A j \in 0 .. i - 1 : ~Hits(key, table, start + j)

\* The mask is one less than a power of two.
LookupHandler(key, instance) ==
  LET f == Flavor(instance)
      mask == Heap[f]
      table == Heap[f + 1]
      Entry(i) == [trap |-> 0, method |-> Heap[table.data + 3 * i + 1], parameter |-> Heap[table.data + 3 * i + 2]]
      Error(n) == [trap |-> n, method |-> NilWord, parameter |-> NilWord]
  IN  CASE mask.type # "Fixnum" -> Error(34)
        [] mask.type = "Fixnum" /\ table.type # "Locative" -> Error(35)
        [] OTHER -> Entry(FirstHit(key, table.data, key.data % (mask.data + 1)))

\* The method takes over the frame, with its first two arguments changed, and
\* gets those arguments at its entry.
Dispatched(h, first, second) ==
  LET s == [stk EXCEPT ![reg.fp + 2] = first, ![reg.fp + 3] = second]
      c == [calls EXCEPT ![Len(calls)].passed = <<Strip(first), Strip(second)>> \o SubSeq(@, 3, Len(@))]
  IN  CASE h.trap # 0 -> ILLEGALOPERAND(Now, h.trap)
        [] h.trap = 0 /\ h.method.type # "EvenPC" -> ILLEGALOPERAND(Now, 37)
        [] OTHER -> [Now EXCEPT !.stk = s, !.reg.pc = h.method.data, !.calls = c]

VerifyGenericArity ==
  IF reg.cr.apply THEN PullApplyArgs(4 - reg.cr.argsize) ELSE Step(ILLEGALOPERAND(Now, 77))

DoGenericDispatch ==
  LET generic == stk[reg.fp + 2]
      instance == stk[reg.fp + 3]
      Go(h) == Dispatched(h, IF h.parameter.type = "NIL" THEN generic ELSE h.parameter, instance)
  IN  /\ Op("GenericDispatch")
      /\ IF reg.cr.argsize < 4 THEN VerifyGenericArity ELSE Step(Go(LookupHandler(generic, instance)))

DoMessageDispatch ==
  LET instance == stk[reg.fp + 2]
      message == stk[reg.fp + 3]
      Go(h) == Dispatched(h, IF h.parameter.type = "NIL" THEN message ELSE h.parameter, instance)
  IN  /\ Op("MessageDispatch")
      /\ IF reg.cr.argsize < 4 THEN VerifyGenericArity ELSE Step(Go(LookupHandler(message, instance)))
=============================================================================
