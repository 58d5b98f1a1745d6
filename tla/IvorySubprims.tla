---------------------------- MODULE IvorySubprims ----------------------------
(***************************************************************************)
(* Subprimitives (ifunsubp.c): allocation from the list and structure      *)
(* caches, stores that bypass or check what they replace, internal         *)
(* registers and the coprocessor registers the interpreter itself handles. *)
(***************************************************************************)
EXTENDS IvoryArrays

PointerTypes == {0, 1, 2} \cup 4 .. 7 \cup 11 .. 31 \cup {34} \cup 36 .. 47

\* Only objects of zone 0 are ephemeral.
ZoneBits == 5
DoEphemeralp(o) ==
  LET w == Value(o)
  IN  Unary(o, w, Return(Bool(w.data \div 2^(Bits - ZoneBits) = 0 /\ w.type \in PointerTypes)))

DoUnsignedLessp(o, noPop) ==
  LET rest == Rest(o)
  IN  Predicate(o, Unsigned(o), Return(Bool(rest[Len(rest)].data < Unsigned(o).data)), noPop)

DoPointerDifference(o) ==
  LET rest == Rest(o)
  IN  Binary(o, Value(o), Return(Fixnum(rest[Len(rest)].data - Value(o).data)))

DoPointerIncrement(o) == Begin /\ Continue([stk EXCEPT ![Index(o)].data = Trunc(@ + 1)])
DoSetCdrCode1(o) == Begin /\ Continue([stk EXCEPT ![Index(o)].cdr = Cdr.Nil])
DoSetCdrCode2(o) == Begin /\ Continue([stk EXCEPT ![Index(o)].cdr = Cdr.Normal])
DoNoOp == Begin /\ Continue(stk)

\* An opcode nobody implements.
DoSpareOp == Begin /\ RaiseException([mode |-> "pop", n |-> 0], NilWord, Exception(0).trap)

---------------------------------------------------------------------------
(* Allocation: the area that is asked for must be the cache's. *)
AllocateBlock(o, area, length, address, next(_)) ==
  LET w == Unsigned(o)
      rest == Rest(o)
  IN  /\ Begin /\ Deep(o, 1)
      /\ CASE ~IsFixnum(w) -> PreTrap(IllegalOperand(1, 0))
           [] IsFixnum(w) /\ (rest[Len(rest)] # area \/ length < w.data) -> Fail(o, w, Exception(2).trap)
           [] OTHER -> /\ stk' = Replace(rest, W(Type.Locative, address))
                       /\ bar' = [bar EXCEPT ![1] = address]
                       /\ reg' = [next(w.data) EXCEPT !.trapmode = IF @ = 0 THEN 1 ELSE @]
                       /\ UNCHANGED <<mem, trap>>

DoAllocateListBlock(o) ==
  LET next(n) == [reg EXCEPT !.lclength = @ - n, !.lcaddress = @ + n]
  IN  AllocateBlock(o, reg.lcarea, reg.lclength, reg.lcaddress, next)

DoAllocateStructureBlock(o) ==
  LET next(n) == [reg EXCEPT !.sclength = @ - n, !.scaddress = @ + n]
  IN  AllocateBlock(o, reg.scarea, reg.sclength, reg.scaddress, next)

---------------------------------------------------------------------------
(* Stores.  The address, and for the first the old value, are on the stack.*)

\* The location is found with a read cycle; if it holds the old value it gets
\* the new one.
DoStoreConditional(o) ==
  LET old == ArrayArg(o)
      address == ValueArg(o)
      r == MemoryReadData(address.data)
      rest == SubSeq(stk, 1, Len(Rest(o)) - 2)
  IN  /\ Begin /\ Deep(o, 2)
      /\ CASE address.type # Type.Locative -> PreTrap(IllegalOperand(65, 0))
           [] address.type = Type.Locative /\ ~Ok(r) -> PreTrap(r.trap)
           [] address.type = Type.Locative /\ Ok(r) /\ ~SameObject(r.word, old) -> Continue(Push(rest, NilWord))
           [] OTHER -> IF WriteFaults(r.vma) THEN PreTrap(DecodeFault(r.vma))
                       ELSE Store(Push(rest, TWord), r.vma, WithCdr(Value(o), r.word.cdr))

\* memory-write stores the word as it is, whatever was there.
DoMemoryWrite(o) ==
  LET v == ArrayArg(o).data
  IN  /\ Begin /\ Deep(o, 1)
      /\ IF WriteFaults(v) THEN PreTrap(DecodeFault(v)) ELSE Store(Front(Rest(o)), v, Value(o))

\* p-store-contents keeps the cdr code but follows nothing.
DoPStoreContents(o) ==
  LET v == ArrayArg(o).data
  IN  /\ Begin /\ Deep(o, 1)
      /\ IF ReadFaults(v) \/ WriteFaults(v) THEN PreTrap(DecodeFault(v))
         ELSE Store(Front(Rest(o)), v, WithCdr(Value(o), Fetch(v).cdr))

---------------------------------------------------------------------------
\* check-preempt-request: a pending request becomes one to be taken.
DoCheckPreemptRequest ==
  /\ Begin
  /\ reg' = [reg EXCEPT !.preempt = IF @ \div 2 = 1 THEN 3 ELSE @]
  /\ UNCHANGED <<mem, stk, trap, bar>>

\* Only the front end may halt the machine.
DoHalt ==
  /\ Begin
  /\ trap' = IF reg.trapmode = 3 THEN [kind |-> "halt", n |-> 0, vma |-> 0] ELSE Exception(0).trap
  /\ UNCHANGED <<mem, stk, bar, reg>>

---------------------------------------------------------------------------
(* Internal registers. *)
ReadPointer(r) ==
  CASE r = "FP" -> Return(W(Type.Locative, StackVMA(FP)))
    [] r = "LP" -> Return(W(Type.Locative, StackVMA(LP)))
    [] r = "SP" -> Return(W(Type.Locative, StackVMA(SP)))
    [] OTHER -> Return(W(Type.Locative, StackBase))

ReadRegisterBARx(i) == Return(W(Type.Locative, bar[i]))

ReadControl(r) ==
  CASE r = "EphemeralOldspace" -> Return(W(Type.Fixnum, reg.oldspace))
    [] OTHER -> Return(W(Type.Fixnum, reg.alu.f))

ReadRegisterContinuation == Return(Uncdr(reg.continuation))
ReadRegisterPreemptRegister == Return(W(Type.Fixnum, reg.preempt))

\* Registers of the chip that the emulator does not have.
ReadFixed == Return(W(Type.Fixnum, 0))

ReadRegisterTOS == Return(Uncdr(TOS))
ReadRegisterEventCount == Return(W(Type.Fixnum, reg.eventcount))
ReadRegisterBindingStackPointer == Return(W(Type.Locative, reg.bsp))
ReadRegisterBindingStackLimit == Return(W(Type.Locative, reg.bsl))

ReadCache(r) ==
  CASE r = "ListCacheArea" -> Return(Uncdr(reg.lcarea))
    [] r = "ListCacheAddress" -> Return(W(Type.Locative, reg.lcaddress))
    [] r = "ListCacheLength" -> Return(W(Type.Fixnum, reg.lclength))
    [] r = "StructureCacheArea" -> Return(Uncdr(reg.scarea))
    [] r = "StructureCacheAddress" -> Return(W(Type.Locative, reg.scaddress))
    [] OTHER -> Return(W(Type.Fixnum, reg.sclength))

ReadRegisterConstantNIL == Return(TWord)
ReadRegisterConstantT == Return(NilWord)
ReadRegisterError == Illegal(84)

Pointers == {"FP", "LP", "SP", "StackCacheLowerBound"}
BARs == {"BAR1", "BAR2", "BAR3"}
Controls == {"EphemeralOldspace", "AluAndRotateControl"}
Caches == {"ListCacheArea", "ListCacheAddress", "ListCacheLength",
           "StructureCacheArea", "StructureCacheAddress", "StructureCacheLength"}
Registers == Pointers \cup BARs \cup Controls \cup Caches
             \cup {"Preempt", "Fixed", "TOS", "EventCount", "BindingStackPointer", "BindingStackLimit",
                   "Continuation", "FEPModeTrapVectorAddress", "ConstantNIL", "ConstantT", "Error"}

BARNumber(r) == CASE r = "BAR1" -> 1 [] r = "BAR2" -> 2 [] OTHER -> 3

RegisterValue(r) ==
  CASE r \in Pointers -> ReadPointer(r)
    [] r \in BARs -> ReadRegisterBARx(BARNumber(r))
    [] r \in Controls -> ReadControl(r)
    [] r \in Caches -> ReadCache(r)
    [] r = "Preempt" -> ReadRegisterPreemptRegister
    [] r = "Continuation" -> ReadRegisterContinuation
    [] r = "Fixed" -> ReadFixed
    [] r = "TOS" -> ReadRegisterTOS
    [] r = "EventCount" -> ReadRegisterEventCount
    [] r = "BindingStackPointer" -> ReadRegisterBindingStackPointer
    [] r = "BindingStackLimit" -> ReadRegisterBindingStackLimit
    [] r = "ConstantNIL" -> ReadRegisterConstantNIL
    [] r = "ConstantT" -> ReadRegisterConstantT
    [] OTHER -> ReadRegisterError

\* The handler of the front end's trap vector pushes nothing.
DoReadInternalRegister(r) ==
  /\ Begin
  /\ IF r = "FEPModeTrapVectorAddress" THEN Continue(stk)
     ELSE IF Ok(RegisterValue(r)) THEN Continue(Push(stk, RegisterValue(r).word))
     ELSE PreTrap(RegisterValue(r).trap)

\* Changing which space is old empties the array cache.
WriteRegisterEphemeralOldspaceRegister(d) ==
  [reg EXCEPT !.oldspace = d, !.ac = [s \in DOMAIN @ |-> [@[s] EXCEPT !.array = 0]]]

WriteRegisterPreemptRegister(d) == [reg EXCEPT !.preempt = d % 4]
WriteRegisterEventCount(d) == [reg EXCEPT !.eventcount = d]
WriteRegisterBindingStackPointer(d) == [reg EXCEPT !.bsp = d]
WriteRegisterBindingStackLimit(d) == [reg EXCEPT !.bsl = d]

WriteCache(r, w) ==
  CASE r = "ListCacheArea" -> [reg EXCEPT !.lcarea = w]
    [] r = "ListCacheAddress" -> [reg EXCEPT !.lcaddress = w.data]
    [] r = "ListCacheLength" -> [reg EXCEPT !.lclength = w.data]
    [] r = "StructureCacheArea" -> [reg EXCEPT !.scarea = w]
    [] r = "StructureCacheAddress" -> [reg EXCEPT !.scaddress = w.data]
    [] OTHER -> [reg EXCEPT !.sclength = w.data]

WriteRegisterBARx(i, d) == bar' = [bar EXCEPT ![i] = d]

\* Bits 10-13 select the function, 14-15 its class, 5-9 and 0-4 the byte.
WriteRegisterAluAndRotateControl(d) ==
  [reg EXCEPT !.alu.f = (d \div 2^(Bits - 6)) % 16, !.alu.op = (d \div 2^(Bits - 2)) % 4,
              !.alu.size = (d \div 8) % 8, !.alu.rotate = d % 8]

\* Without the checks of a debugging build the code of a write to one of the
\* pointers is empty: it runs on into the write of the continuation.
WriteRegisterContinuation(w) == [reg EXCEPT !.continuation = w]

WriteRegisterError == PreTrap(IllegalOperand(84, 0))

\* Writing the top is ignored.
DoWriteInternalRegister(r) ==
  LET d == TOS.data
      Set(g) == reg' = g /\ stk' = Front(stk) /\ UNCHANGED <<mem, trap, bar>>
  IN  /\ Begin /\ SP > LP
      /\ CASE r \in BARs -> /\ WriteRegisterBARx(BARNumber(r), d)
                            /\ stk' = Front(stk) /\ UNCHANGED <<mem, trap, reg>>
           [] r = "EphemeralOldspace" -> Set(WriteRegisterEphemeralOldspaceRegister(d))
           [] r = "AluAndRotateControl" -> Set(WriteRegisterAluAndRotateControl(d))
           [] r = "Preempt" -> Set(WriteRegisterPreemptRegister(d))
           [] r = "EventCount" -> Set(WriteRegisterEventCount(d))
           [] r = "BindingStackPointer" -> Set(WriteRegisterBindingStackPointer(d))
           [] r = "BindingStackLimit" -> Set(WriteRegisterBindingStackLimit(d))
           [] r \in Caches -> Set(WriteCache(r, TOS))
           [] r \in Pointers \cup {"Continuation"} -> Set(WriteRegisterContinuation(TOS))
           [] r = "TOS" -> Set(reg)
           [] OTHER -> WriteRegisterError

---------------------------------------------------------------------------
\* The hooks of the host answer, or refuse a register they do not know.
DoCoprocessorRead ==
  Begin /\ (Continue(Push(stk, Fixnum(0))) \/ PreTrap(IllegalOperand(84, 0)))

\* flush-hidden-array-registers, for a stack array that is made anew.
FlushHiddenArrayRegisters(v) ==
  IF reg.ac[Slot(v)].array = v THEN [reg EXCEPT !.ac[Slot(v)].array = 0] ELSE reg

DoCoprocessorWrite(r) ==
  /\ Begin /\ SP > LP
  /\ IF r = "FlushHiddenArrayRegisters"
     THEN reg' = FlushHiddenArrayRegisters(TOS.data) /\ stk' = Front(stk) /\ UNCHANGED <<mem, trap, bar>>
     ELSE Continue(Front(stk)) \/ PreTrap(IllegalOperand(84, 0))
=============================================================================
