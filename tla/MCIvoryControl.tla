--------------------------- MODULE MCIvoryControl ---------------------------
(* Small programs of calls, entries, unwinding, branches and dispatch. *)
EXTENDS IvoryControl

---------------------------------------------------------------------------
(* The heap: lists, function cells, a closure and a flavor. *)
MCHeap ==
  (101 :> Fix(3)) @@ (102 :> WithCdr(Fix(4), 1))
  @@ (103 :> WithCdr(Fix(3), 2)) @@ (104 :> W("List", 102))
  \* A symbol with a compiled function, one with another, and a closure.
  @@ (112 :> W("CompiledFunction", 20)) @@ (115 :> W("Symbol", 110))
  @@ (116 :> W("Locative", 7)) @@ (117 :> W("CompiledFunction", 20))
  @@ (118 :> W("Locative", 8)) @@ (119 :> W("Symbol", 110))
  @@ (120 :> W("Closure", 9))
  \* An instance, its flavor, and the handler table.
  @@ (130 :> W("Locative", 131)) @@ (131 :> Fix(1)) @@ (132 :> W("Locative", 133))
  @@ (133 :> W("GenericFunction", 2)) @@ (134 :> PcWord(20)) @@ (135 :> Fix(9))
  @@ (136 :> W("Symbol", 4)) @@ (137 :> PcWord(20)) @@ (138 :> NilWord)
  @@ (139 :> NilWord) @@ (140 :> PcWord(75)) @@ (141 :> NilWord)
  @@ (142 :> NilWord) @@ (143 :> Fix(0)) @@ (144 :> NilWord)

Handler(p, m) == [pc |-> p, mode |-> m]
MCVector ==
  [Error |-> Handler(60, 1), PullApplyArgs |-> Handler(60, 1), StackOverflow |-> Handler(60, 1),
   FEP |-> Handler(60, 3), Jump |-> Handler(60, 0), Loop |-> Handler(61, 0),
   PageNotResident |-> Handler(62, 1), PreemptRequest |-> Handler(62, 0), LowPrioritySequenceBreak |-> Handler(62, 1),
   HighPrioritySequenceBreak |-> Handler(63, 1), Trace |-> Handler(65, 0),
   GenericDispatch |-> Handler(70, 0), MessageDispatch |-> Handler(71, 0), Interpret |-> Handler(75, 0),
   Flavor |-> Handler(131, 0)]

I(op) == [op |-> op]
P(w) == [op |-> "Push", word |-> w]
Finish(n, apply, disp) == [op |-> "FinishCallN", n |-> n, apply |-> apply, disp |-> disp]
Entry(op, min, max) == [op |-> op, min |-> min, max |-> max]
Return(o) == [op |-> "ReturnSingle", operand |-> o]
ReturnN(n) == [op |-> "ReturnMultiple", n |-> n, pops |-> FALSE]
ReturnPop == [op |-> "ReturnMultiple", n |-> 0, pops |-> TRUE]
Bind(x, n) == [op |-> "Bind", var |-> x, data |-> n]
Unbind(n) == [op |-> "Unbind", n |-> n]
Open(uwp) == [op |-> "CatchOpen", uwp |-> uwp, disp |-> 1]
Jumps(op, n) == [op |-> op, offset |-> n]
SetSp(n) == [op |-> "SetSpToAddress", n |-> n]
To(f) == [op |-> "CallCompiled", data |-> f]

Laid(base, seq) == [p \in base .. base + Len(seq) - 1 |-> seq[p - base + 1]]

Handlers ==
  Laid(60, <<I("Halt"), Return("NIL"), [op |-> "ReturnKludge", n |-> 0],
             Bind("x", 9), [op |-> "ReturnKludge", n |-> 0],
             I("ClearPending"), [op |-> "ReturnKludge", n |-> 0]>>)
  @@ Laid(70, <<I("GenericDispatch"), I("MessageDispatch")>>)
  @@ Laid(75, <<Entry("EntryRestAccepted", 2, 2), Return("NIL"), Return("T")>>)

\* Main at 1, a function at 20, another at 40, cleanup handlers at 80.
Program(main, f, g, cleanup) ==
  [code |-> Laid(1, main) @@ Laid(20, f) @@ Laid(40, g) @@ Laid(80, cleanup) @@ Handlers,
   start |-> 1, trace |-> FALSE]
Traces(p) == [p EXCEPT !.trace = TRUE]

\* A function whose entries, one for each number of arguments and one for a
\* rest argument, all lead to the body.
Function(op, min, max, body) ==
  LET n == max - min + 2
  IN  <<Entry(op, min, max)>> \o [i \in 1 .. n |-> Jumps("Branch", n - i + 1)] \o body

---------------------------------------------------------------------------
(* Apply.  Main keeps stack lists at 3 and above. *)
StackLists == << <<Fix(1), Fix(2), WithCdr(Fix(3), 1)>>,
                 <<Fix(1), WithCdr(Fix(2), 2), W("List", 102)>>,
                 <<WithCdr(Fix(1), 2), W("List", 5), WithCdr(Fix(2), 2), NilWord>>,
                 <<WithCdr(Fix(1), 2), W("List", 103)>>,
                 <<Fix(1), WithCdr(Fix(2), 3)>> >>
Applied == {[words |-> StackLists[i], rest |-> W("List", 3)] : i \in DOMAIN StackLists}
           \cup {[words |-> << >>, rest |-> w] : w \in {NilWord, W("List", 101), W("List", 103), Fix(5)}}
Pushes(s) == [i \in DOMAIN s |-> P(s[i])]
Args == << << >>, <<Fix(6)>>, <<Fix(6), Fix(7)>> >>
ApplyMain(l, args, disp) ==
  Pushes(l.words) \o <<To(20)>> \o Pushes(args) \o <<P(l.rest), Finish(Len(args) + 1, TRUE, disp), I("Halt")>>
Entries == {"EntryRestAccepted", "EntryRestNotAccepted"}
MinMax == {<<2, 2>>, <<2, 4>>, <<3, 3>>, <<4, 6>>}
ApplyPrograms(ls) ==
  {Program(ApplyMain(l, Args[i], "value"), Function(e, m[1], m[2], <<I("LocateLocals"), Return("TOS")>>), << >>, << >>) :
     l \in ls, i \in DOMAIN Args, e \in Entries, m \in MinMax}
CallPrograms ==
  {Program(<<To(20)>> \o Pushes(Args[i]) \o <<Finish(Len(Args[i]), FALSE, "effect"), I("Halt")>>,
           Function(e, m[1], m[2], <<Return("T")>>), << >>, << >>) :
     i \in DOMAIN Args, e \in Entries, m \in MinMax}

---------------------------------------------------------------------------
(* Unwinding.  The function opens blocks and binds in all ways; values are *)
(* returned for all dispositions, by another function's return too.        *)
Blocks == {<< >>, <<P(PcWord(80)), Open(TRUE)>>, <<P(PcWord(80)), Open(FALSE)>>}
Bindings == {<< >>, <<Bind("y", 2)>>, <<Bind("y", 2), Bind("x", 3)>>}
Exits == {<<Return("TOS")>>, <<I("CatchClose"), Return("NIL")>>}
Bodies == {b1 \o v1 \o b2 \o v2 \o x : b1 \in Blocks \ {<< >>}, v1 \in Bindings, b2 \in Blocks,
                                        v2 \in {<< >>, <<Bind("x", 4)>>}, x \in Exits}
UnwindMain(d) ==
  <<Bind("x", 1), To(20), Finish(0, FALSE, d)>>
  \o (IF d = "multiple" THEN <<[op |-> "TakeValues", n |-> 2]>> ELSE << >>) \o <<Unbind(1), I("Halt")>>
CleanupCode == <<Bind("y", 5), Unbind(1), I("Jump")>>
UnwindPrograms ==
  {Program(UnwindMain("value"), Function("EntryRestNotAccepted", 2, 2, b), << >>, CleanupCode) : b \in Bodies}

\* A cleanup that itself protects something.
NestedCleanup == <<P(PcWord(85)), Open(TRUE), I("CatchClose"), SetSp(3), I("Jump"), I("Jump")>>
NestedPrograms ==
  {Program(UnwindMain("value"),
           Function("EntryRestNotAccepted", 2, 2, <<P(PcWord(80)), Open(TRUE)>> \o x), << >>,
           NestedCleanup) : x \in Exits}

Dispositions == {"effect", "value", "multiple", "return"}
Returns == {<<Return("TOS")>>, <<Return("NIL")>>, <<P(Fix(1)), P(Fix(2)), ReturnN(2)>>, <<ReturnN(0)>>,
            <<P(Fix(1)), P(Fix(1)), ReturnPop>>, <<P(NilWord), ReturnPop>>,
            <<P(Fix(1)), [op |-> "ReturnKludge", n |-> 1]>>, <<I("TrapOnExit"), Return("T")>>}
ReturnPrograms ==
  {Program(UnwindMain(d), Function("EntryRestNotAccepted", 2, 2,
                                   b \o <<To(40), Finish(0, FALSE, e)>> \o
                                   (IF e = "multiple" THEN <<ReturnPop>> ELSE <<Return("T")>>)),
           <<Bind("y", 7)>> \o r, << >>) :
     d \in Dispositions \ {"return"}, e \in Dispositions, r \in Returns, b \in {<< >>, <<Bind("x", 6)>>}}

---------------------------------------------------------------------------
(* Ways to call, dispatch, the stack's limits. *)
Callees == {W("CompiledFunction", 20), W("Symbol", 110), W("Symbol", 113), W("LexicalClosure", 116),
            W("LexicalClosure", 118), W("Closure", 120)}
Sends == {<<W("GenericFunction", 2), W("Instance", 130)>>, <<W("GenericFunction", 3), W("Instance", 130)>>,
          <<W("Instance", 130), W("Symbol", 4)>>, <<W("Instance", 130), W("Symbol", 5)>>,
          <<W("GenericFunction", 2), Fix(3)>>}
Method == Function("EntryRestAccepted", 2, 4, <<Return("NIL")>>)
StartPrograms ==
  {Program(<<P(w), I("StartCall"), P(Fix(1)), P(Fix(1)), [op |-> "FinishCallTos", apply |-> FALSE, disp |-> "value"], I("Halt")>>,
           Method, << >>, << >>) : w \in Callees}
  \cup {Program(<<[op |-> "CallIndirect", data |-> c], Finish(0, FALSE, "value"), I("Halt")>>, Method, << >>, << >>) :
          c \in {112, 115}}
  \cup {Program(<<P(s[1]), I("StartCall"), P(s[2]), Finish(1, FALSE, "value"), I("Halt")>>, Method, << >>, << >>) : s \in Sends}
  \cup {Program(<<P(WithCdr(s[2], 1)), P(s[1]), I("StartCall"), P(W("List", 3)), Finish(1, TRUE, "value"), I("Halt")>>,
                Method, << >>, << >>) : s \in Sends}
  \cup {Program(<<[op |-> "CallGeneric", data |-> 2], P(w), Finish(1, a, "value"), I("Halt")>>, Method, << >>, << >>) :
          w \in {NilWord}, a \in BOOLEAN}
TracePrograms == {Traces(p) : p \in StartPrograms}
DeepPrograms ==
  {Program(<<To(20), Finish(0, FALSE, "value"), I("Halt")>>,
           Function("EntryRestNotAccepted", 2, 2, b \o <<To(20), Finish(0, FALSE, "value"), Return("TOS")>>), << >>, << >>) :
     b \in {<< >>, <<P(Fix(1)), P(Fix(2))>>}}
  \cup {Program(Pushes([i \in 1 .. n |-> Fix(i)]) \o <<I("Jump"), I("Halt")>>, << >>, << >>, << >>) : n \in {1, 18, 19, 20}}

---------------------------------------------------------------------------
(* Branches, both ways, and loops. *)
Conditionals ==
  {"BranchTrue", "BranchFalse", "BranchTrueNoPop", "BranchFalseNoPop", "BranchTrueAndNoPop", "BranchFalseAndNoPop",
   "BranchTrueElseNoPop", "BranchFalseElseNoPop", "BranchTrueAndExtraPop", "BranchFalseAndExtraPop",
   "BranchTrueElseExtraPop", "BranchFalseElseExtraPop", "BranchTrueExtraPop", "BranchFalseExtraPop",
   "BranchTrueAndNoPopElseNoPopExtraPop", "BranchFalseAndNoPopElseNoPopExtraPop"}
BranchPrograms ==
  {Program(<<P(Fix(1)), P(w), Jumps(b, n), I("Halt"), I("Halt")>>, << >>, << >>, << >>) :
     b \in Conditionals, w \in {NilWord, TWord}, n \in {0, 2}}
LoopPrograms ==
  {Program(<<P(w), P(v), Jumps("Branch", 1), Jumps(op, -1), I("Halt")>>, << >>, << >>, << >>) :
     op \in {"LoopIncrementTosLessThan"}, w \in {Fix(2), Fix(0)}, v \in {Fix(0), NilWord, Fix(7), W("Ratio", 0)}}
  \cup {Program(<<P(w), Jumps("Branch", 1), Jumps(op, -1), I("Halt")>>, << >>, << >>, << >>) :
     op \in {"LoopDecrementTos"}, w \in {Fix(0), Fix(2), Fix(8), NilWord, W("Ratio", 0)}}

MCInitialValues == [x |-> 0, y |-> 0]
AllPrograms ==
  ApplyPrograms(Applied) \cup CallPrograms \cup UnwindPrograms \cup NestedPrograms \cup ReturnPrograms \cup StartPrograms
  \cup TracePrograms \cup DeepPrograms \cup BranchPrograms \cup LoopPrograms
PullPrograms == ApplyPrograms({l \in Applied : Len(l.words) = 2})
=============================================================================
