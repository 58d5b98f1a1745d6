---------------------------- MODULE IvoryControl ----------------------------
(***************************************************************************)
(* Programs of the control instructions, interrupted anywhere, and what    *)
(* calls, returns and unwinding promise to the code that uses them.        *)
(***************************************************************************)
EXTENDS IvoryBranches

Init ==
  /\ program \in Programs
  /\ stk = <<PcWord(0), ControlWord(NoCr)>>
  /\ reg = [fp |-> 1, lp |-> 3, pc |-> program.start, cont |-> 0, catchblock |-> 0, halt |-> "no",
            cr |-> [NoCr EXCEPT !.argsize = 2, !.trace = program.trace, !.itrace = program.trace]]
  /\ bindings = << >>
  /\ values = InitialValues
  /\ calls = << >>
  /\ traps = 0

Calls ==
  \/ DoStartCall
  \/ callindirect
  \/ callgeneric
  \/ callcompiled
  \/ DoPush
  \/ DoSetSpToAddress
  \/ DoFinishCallN
  \/ DoFinishCallTos
  \/ DoEntryRestNotAccepted
  \/ DoEntryRestAccepted
  \/ DoLocateLocals
  \/ DoReturnSingle
  \/ DoReturnMultiple
  \/ DoReturnKludge
  \/ DoTakeValues
  \/ DoGenericDispatch
  \/ DoMessageDispatch

Unwinds ==
  \/ DoBind
  \/ DoUnbindN
  \/ DoCatchOpen
  \/ DoCatchClose
  \/ DoJump
  \/ DebuggerTrapsOnExit

Branches ==
  \/ DoBranch
  \/ DoBranchTrue
  \/ DoBranchFalse
  \/ DoBranchTrueNoPop
  \/ DoBranchFalseNoPop
  \/ DoBranchTrueAndNoPop
  \/ DoBranchFalseAndNoPop
  \/ DoBranchTrueElseNoPop
  \/ DoBranchFalseElseNoPop
  \/ DoBranchTrueAndExtraPop
  \/ DoBranchFalseAndExtraPop
  \/ DoBranchTrueElseExtraPop
  \/ DoBranchFalseElseExtraPop
  \/ DoBranchTrueExtraPop
  \/ DoBranchFalseExtraPop
  \/ DoBranchTrueAndNoPopElseNoPopExtraPop
  \/ DoBranchFalseAndNoPopElseNoPopExtraPop
  \/ DoLoopDecrementTos
  \/ DoLoopIncrementTosLessThan

Interrupts ==
  \/ HIGHPRIORITYSEQUENCEBREAK
  \/ LOWPRIORITYSEQUENCEBREAK
  \/ PREEMPTREQUESTTRAP
  \/ PageFault

Instructions == Calls \/ Unwinds \/ Branches \/ HandlerClearsPending \/ DoHalt

\* A halted machine stays so; any other has an instruction to execute, or TLC
\* reports a deadlock.
Stopped == ~Running /\ UNCHANGED vars

Next == Instructions \/ Interrupts \/ Stopped

Spec == Init /\ [][Next]_vars

\* The interpreter runs on.  This is the weak fairness of Instructions, which
\* are enabled as long as the machine is not halted, written out.
FairSpec == Spec /\ ([]<>(~Running) \/ []<><<Instructions>>_vars)

---------------------------------------------------------------------------
(* Properties. *)

\* The registers agree with each other and with the stack: the local pointer
\* is the argument size above the frame, and no instruction pops below the
\* locals (DoFinishCallN, DoLocateLocals, Spread in PullApplyArgs, the pops
\* of the branches).
TypeOK ==
  /\ reg.lp = reg.fp + reg.cr.argsize
  /\ reg.fp >= 1 /\ Len(stk) >= reg.lp - 1
  /\ reg.catchblock \in 0 .. Len(stk) /\ reg.cr.mode \in 0 .. 3
  /\ reg.halt \in {"no", "Halted", "FatalStackOverflow"}
  /\ DOMAIN values = DOMAIN InitialValues
  /\ traps \in 0 .. MaxTraps
  /\ \A i \in 1 .. Len(stk) : stk[i].cdr \in 0 .. 3

\* A frame that returns, by whatever instruction, after whatever cleanups and
\* interrupts, gives its caller back what the caller had: frame, locals,
\* control register, continuation, stack, bindings, variables and catch
\* blocks; and the caller goes on after the call, or, called for return,
\* executes the return itself (returncommontail, handleframecleanup).  The
\* pending trace is the exception, it stays.
Restores(e) ==
  /\ reg'.fp = e.fp /\ reg'.lp = e.lp /\ reg'.cont = e.cont
  /\ [reg'.cr EXCEPT !.pending = FALSE] = [e.cr EXCEPT !.pending = FALSE]
  /\ IsPrefix(e.below, stk')
  /\ reg'.pc = IF e.disp = "return" /\ Ins.op # "ReturnKludge" THEN reg.pc ELSE e.pc
  /\ values' = e.values /\ bindings' = e.bindings /\ reg'.catchblock = e.catchblock
ReturnRestoresCaller ==
  [][Len(calls') < Len(calls) => Restores(calls[Current(calls)])]_vars

\* Until the entry instruction is done, the frame's arguments and what is left
\* of the applied list are the arguments of the call, whatever was pulled and
\* however often the instruction was interrupted and began again
\* (PullApplyArgs, PullApplyArgsSlowly, DoMessageDispatch).
Taking == {"EntryRestAccepted", "EntryRestNotAccepted", "GenericDispatch", "MessageDispatch"}
Arguments ==
  Stripped(SubSeq(stk, reg.fp + 2, reg.lp - 1)) \o IF reg.cr.apply THEN Elements(stk, Top(stk)) ELSE << >>
ArgumentsPreserved == Running /\ Ins.op \in Taking => Arguments = calls[Len(calls)].passed

\* The entry that a function is entered at says how many arguments it has,
\* and they are those of the call: in the frame, or beyond the most it takes
\* in the list at the local pointer (DoEntryRestAccepted,
\* DoEntryRestNotAccepted).
Enters == Running /\ Ins.op \in {"EntryRestAccepted", "EntryRestNotAccepted"}
Delivered(s, r, n) ==
  IF n <= Ins.max THEN SubSeq(s, r.fp + 2, r.fp + n - 1)
  ELSE SubSeq(s, r.fp + 2, r.fp + Ins.max - 1) \o Elements(s, s[r.lp])
EntryDelivers ==
  [][(Enters /\ reg'.fp = reg.fp /\ reg'.pc # reg.pc) =>
       Stripped(Delivered(stk', reg', Ins.min + reg'.pc - reg.pc - 1)) = calls[Len(calls)].passed]_vars

\* The cleanup bits of the current frame say exactly whether it has bindings
\* and open catch blocks, and those kept in a catch block whether the one
\* before is of the same frame: a return neither forgets a cleanup nor undoes
\* its caller's (DoCatchOpen, DoCatchClose, HANDLEUNWINDPROTECT, unbind).
CallerBindings == IF Begun(calls) = {} THEN 0 ELSE Len(calls[Current(calls)].bindings)
InFrame(b) == b >= reg.fp
OpenBlocks ==
  LET Before(bs) == bs \cup {stk[b + 2].data : b \in bs \ {0}}
      Blocks[i \in 0 .. Len(stk) \div 3] == IF i = 0 THEN {reg.catchblock} ELSE Before(Blocks[i - 1])
  IN  {b \in Blocks[Len(stk) \div 3] \ {0} : InFrame(b)}
CleanupBitsAgree ==
  /\ reg.cr.bind <=> Len(bindings) > CallerBindings
  /\ reg.cr.catch <=> InFrame(reg.catchblock)
  /\ \A b \in OpenBlocks : (stk[b + 2].cdr % 2 = 1 <=> InFrame(stk[b + 2].data)) /\ stk[b + 2].data < b

\* The handler of an unwind-protect begins with the bindings that there were
\* when it was established: what was bound later is undone first, in however
\* many attempts, and whether the protected form ends or the function returns
\* out of it (DoCatchClose, HANDLEFRAMECLEANUP, HANDLEUNWINDPROTECT).
BeginsHandler(b) ==
  /\ reg'.fp = reg.fp /\ reg'.catchblock = stk[b + 2].data
  /\ reg'.pc = stk[b].data /\ stk[b + 1].cdr = 1
CleanupAtItsLevel ==
  [][reg.cr.catch =>
       \A b \in OpenBlocks : BeginsHandler(b) => Len(bindings') = stk[b + 1].data /\ reg'.cr.cip]_vars

\* Every program comes to its end: retries after pulling arguments, cleanups
\* and interrupts make progress.
Terminates == <>(reg.halt # "no")
=============================================================================
