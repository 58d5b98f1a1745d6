------------------------------ MODULE IvoryData ------------------------------
(***************************************************************************)
(* Programs of the data instructions: any sequence of instructions of one  *)
(* family, from the stacks and the heap that the constants give, with page *)
(* faults and the collector's marks at any time, and the properties of the *)
(* instructions together.                                                  *)
(***************************************************************************)
EXTENDS IvoryMoves, IvoryArithmetic, IvoryLists, IvorySubprims, IvoryBlocks, IvoryFields,
        IvoryInstances, IvoryBinding

CONSTANTS
  InitialHeap,     \* family -> the heap a program starts with
  InitialStacks,   \* family -> the stacks it may start with
  InitialRegs,     \* family -> the internal registers it may start with
  InitialBars,     \* family -> the block address registers
  Fields,          \* <<rotation, size>> of the field instructions tried
  Variables,       \* indices of instance and lexical variables tried
  Modes,           \* modes of the block instructions tried
  Pages,           \* family -> heap addresses whose page may be taken away
  NewPlace         \* family -> where a structure that moves goes

\* A program starts with a heap of words and an event count.
ASSUME ProgramAssumption ==
  \A f \in Families :
    /\ InitialHeap[f] \in [Heap -> Word]
    /\ \A r \in InitialRegs[f] : "eventcount" \in DOMAIN r /\ r.eventcount \in Nat

Init ==
  /\ family \in Families
  /\ mem = InitialHeap[family]
  /\ attr = [v \in Heap |-> "ok"]
  /\ stk \in InitialStacks[family]
  /\ trap = NoTrap
  /\ bar = InitialBars[family]
  /\ reg \in InitialRegs[family]
  /\ steps = 0

---------------------------------------------------------------------------
Program(f) == family = f /\ Running

Moves ==
  /\ Program("moves")
  /\ \/ \E o \in Operands :
          \/ DoPush(o)
          \/ DoTag(o)
          \/ DoPushNNils(o)
          \/ DoPushAddressSpRelative(o)
          \/ DoSetTag(o)
          \/ DoEndp(o)
     \/ \E o \in StackOperands : DoStackBlt(o)
     \/ \E o \in Operands, noPop \in BOOLEAN : DoEq(o, noPop) \/ DoEql(o, noPop)
     \/ \E o \in InPlace :
          \/ DoPop(o)
          \/ DoMovem(o)
          \/ DoPushAddress(o)
          \/ DoSetSpToAddress(o)
          \/ DoSetSpToAddressSaveTos(o)
          \/ DoMergeCdrNoPop(o)
          \/ DoStackBltAddress(o)
     \/ \E n \in {0, 2^ImmBits - 1} : DoPushImmediateHandler(n)
     \/ \E n \in {1, 2^ImmBits - 1}, noPop \in BOOLEAN : DoEqImmediateHandler(n, noPop)
     \/ \E types \in {{Type.Fixnum}, {Type.NIL, Type.Symbol}}, noPop \in BOOLEAN : DoTypeMember(types, noPop)

PopOrImmediate == {o \in Operands : o.mode \in {"pop", "imm"}}

Arithmetic ==
  /\ Program("arithmetic")
  /\ \/ \E o \in PopOrImmediate :
          \/ DoAdd(o)
          \/ DoSub(o)
          \/ DoMultiply(o)
          \/ DoQuotient(o)
          \/ DoRationalQuotient(o)
          \/ DoFloor(o)
          \/ DoCeiling(o)
          \/ DoTruncate(o)
          \/ DoRound(o)
          \/ DoMax(o)
          \/ DoMin(o)
          \/ DoUnaryMinus(o)
          \/ DoZerop(o)
          \/ DoMinusp(o)
          \/ DoPlusp(o)
          \/ DoDoubleFloatOp(o)
     \/ \E o \in PopOrImmediate, noPop \in BOOLEAN :
          DoEqualNumber(o, noPop) \/ DoLessp(o, noPop) \/ DoGreaterp(o, noPop)
     \/ \E o \in InPlace : DoIncrement(o) \/ DoDecrement(o)

Bitwork ==
  /\ Program("bits")
  /\ \/ \E o \in PopOrImmediate :
          \/ DoLogand(o)
          \/ DoLogior(o)
          \/ DoLogxor(o)
          \/ DoAsh(o)
          \/ DoRot(o)
          \/ DoLsh(o)
          \/ Do32BitPlus(o)
          \/ Do32BitDifference(o)
          \/ DoPointerPlus(o)
          \/ DoMultiplyDouble(o)
          \/ DoMultiplyBignumStep(o)
          \/ DoAddBignumStep(o)
          \/ DoSubBignumStep(o)
          \/ DoDivideBignumStep(o)
          \/ DoLshcBignumStep(o)
     \/ \E o \in PopOrImmediate, noPop \in BOOLEAN : DoLogtest(o, noPop)
     \/ \E f \in Fields : DoLdb(f[1], f[2])

Lists ==
  /\ Program("lists")
  /\ \/ \E o \in StackOperands :
          \/ DoCar(o)
          \/ DoCdr(o)
          \/ DoRplaca(o)
          \/ DoRplacd(o)
          \/ DoMember(o)
          \/ DoAssoc(o)
          \/ DoRgetf(o)
     \/ \E o \in InPlace : DoSetToCar(o) \/ DoSetToCdr(o) \/ DoSetToCdrPushCar(o)

Logic ==
  /\ Program("logic")
  /\ \/ \E o \in StackOperands : DoDereference(o) \/ DoUnify(o) \/ DoLogicTailTest(o)
     \/ DoPushGlobalLogicVariable

Arrays ==
  /\ Program("arrays")
  /\ \/ \E o \in PopOrImmediate :
          \/ DoAref1(o)
          \/ DoAset1(o)
          \/ DoAloc1(o)
          \/ DoArrayLeader(o)
          \/ DoStoreArrayLeader(o)
          \/ DoAlocLeader(o)
     \/ \E v \in {4, 8} : ForwardArray(v, NewPlace[family])

\* Registers that a program keeps on its stack.
ArrayRegisters ==
  /\ Program("registers")
  /\ \/ \E o \in {p \in Operands : p.mode = "fp"} : DoSetup1DArray(o) \/ DoSetupForce1DArray(o)
     \/ \E n \in 0 .. 3 : LET o == [mode |-> "fp", n |-> n] IN DoFastAref1(o) \/ DoFastAset1(o)
     \/ \E n \in {0, 2} : DoPushImmediateHandler(n)
     \/ \E v \in {4, 8} : ForwardArray(v, NewPlace[family])

Blocks ==
  /\ Program("blocks")
  /\ \/ \E m \in Modes :
          \/ DoBlock1Read(m)
          \/ DoBlock2Read(m)
          \/ DoBlock3Read(m)
          \/ DoBlock1ReadShift(m)
          \/ DoBlock2ReadShift(m)
          \/ DoBlock3ReadShift(m)
          \/ DoBlock1ReadTest(m)
          \/ DoBlock2ReadTest(m)
          \/ DoBlock3ReadTest(m)
     \/ \E o \in PopOrImmediate : DoBlock1Write(o) \/ DoBlock2Write(o) \/ DoBlock3Write(o)
     \/ \E o \in InPlace : DoBlock1ReadAlu(o) \/ DoBlock2ReadAlu(o) \/ DoBlock3ReadAlu(o)
     \/ \E m \in Modes, address \in BOOLEAN : DoMemoryRead(m, address)

Alu ==
  /\ Program("alu")
  /\ \/ \E o \in PopOrImmediate : DoAlu(o)
     \/ \E n \in {0, 2^ImmBits - 1} : DoPushImmediateHandler(n)

Stores ==
  /\ Program("stores")
  /\ \/ \E o \in PopOrImmediate :
          \/ DoEphemeralp(o)
          \/ DoPointerDifference(o)
          \/ DoAllocateListBlock(o)
          \/ DoAllocateStructureBlock(o)
          \/ DoStoreConditional(o)
          \/ DoMemoryWrite(o)
          \/ DoPStoreContents(o)
     \/ \E o \in PopOrImmediate, noPop \in BOOLEAN : DoUnsignedLessp(o, noPop)
     \/ \E o \in InPlace : DoPointerIncrement(o) \/ DoSetCdrCode1(o) \/ DoSetCdrCode2(o)

Internal ==
  /\ Program("internal")
  /\ \/ \E r \in Registers : DoReadInternalRegister(r) \/ DoWriteInternalRegister(r)
     \/ \E r \in {"FlushHiddenArrayRegisters", "Host"} : DoCoprocessorWrite(r)
     \/ DoCoprocessorRead
     \/ DoCheckPreemptRequest
     \/ DoHalt
     \/ DoNoOp
     \/ DoSpareOp

FieldInstructions ==
  /\ Program("fields")
  /\ \/ \E f \in Fields :
          \/ DoCharLdb(f[1], f[2])
          \/ DoPLdb(f[1], f[2])
          \/ DoPTagLdb(f[1], f[2])
          \/ DoDpb(f[1], f[2])
          \/ DoCharDpb(f[1], f[2])
          \/ DoPDpb(f[1], f[2])
          \/ DoPTagDpb(f[1], f[2])
     \/ \E o \in StackOperands, n \in Variables :
          DoPushLexicalVarN(o, n) \/ DoPopLexicalVarN(o, n) \/ DoMovemLexicalVarN(o, n)

Instances ==
  /\ Program("instances")
  /\ \/ \E n \in Variables :
          \/ DoPushInstanceVariable(n)
          \/ DoPopInstanceVariable(n)
          \/ DoMovemInstanceVariable(n)
          \/ DoPushAddressInstanceVariable(n)
          \/ DoPushInstanceVariableOrdered(n)
          \/ DoPopInstanceVariableOrdered(n)
          \/ DoMovemInstanceVariableOrdered(n)
          \/ DoPushAddressInstanceVariableOrdered(n)
     \/ \E o \in PopOrImmediate : DoInstanceRef(o) \/ DoInstanceLoc(o) \/ DoInstanceSet(o)

Binding ==
  /\ Program("binding")
  /\ \/ \E o \in PopOrImmediate : DoBindLocativeToValue(o) \/ DoUnbindN(o)
     \/ \E o \in InPlace : DoBindLocative(o) \/ DoRestoreBindingStack(o)
     \/ \E o \in {p \in Operands : p.mode = "fp"} : DoPush(o)

Next ==
  \/ Moves
  \/ Arithmetic
  \/ Bitwork
  \/ Lists
  \/ Logic
  \/ Arrays
  \/ ArrayRegisters
  \/ Blocks
  \/ Alu
  \/ Stores
  \/ Internal
  \/ FieldInstructions
  \/ Instances
  \/ Binding
  \/ HandleFault
  \/ HandleException
  \/ \E v \in Pages[family], a \in Attributes : PageOut(v, a)

Spec == Init /\ [][Next]_vars

---------------------------------------------------------------------------
(* Properties. *)

\* Memory, stack and registers hold words and data of their widths: every
\* instruction truncates what it computes (the code masks with (u32)).
TypeOK ==
  /\ \A v \in Heap : mem[v] \in Word
  /\ attr \in [Heap -> Attributes]
  /\ Len(stk) <= MaxStack /\ \A i \in 1 .. Len(stk) : stk[i] \in Word
  /\ trap.kind \in {"none", "illegal", "monitor", "exception", "pagenotresident", "pagefaultrequest",
                    "transport", "pagewritefault", "buserror", "preempt", "halt"}
  /\ \A i \in 1 .. 3 : bar[i] \in Data
  /\ reg.eventcount \in Nat /\ reg.lclength \in Nat /\ reg.preempt \in 0 .. 3

NoFaults == \A v \in Heap : attr[v] = "ok"

\* An entry of the array cache that a reference may hit says what decoding
\* its array now would say: the event count guards against arrays that moved
\* or changed their length since (DoAref1, Aref1Regset).  Arrays that only
\* Lisp can decode are left out.
Decodable(a) == a.trap = NoTrap /\ ~a.exc
CacheCoherent ==
  \A s \in DOMAIN reg.ac :
    LET Agrees(e, a) == Decodable(a) => e = Entry(e.array, a)
    IN  Hit(reg.ac[s], reg.ac[s].array) => Agrees(reg.ac[s], Decode(W(Type.Array, reg.ac[s].array), FALSE, 0))

\* A store into an element reads back, and changes no other element of any
\* array, whatever the packing and however arrays share words (DoAset1,
\* DoFastAset1 and their read-modify-write of packed words).  Elements beyond
\* a byte are cut; Booleans read back as truth values.
ArraysNow == {a \in {Decode(W(Type.Array, v), TRUE, 0) : v \in {u \in Heap : mem[u].type = Type.HeaderI}} : Decodable(a)}
Differing(h, a) == {i \in 0 .. a.length - 1 : ArefIn(h, a, i) # Aref(a, i)}
ReadsBack(r, a, x) ==
  Ok(r) /\ (ElementType(a.arword) # Element.Boolean =>
              r.word.data = IF BytePacking(a.arword) = 0 THEN x.data ELSE x.data % 2^ByteSize(BytePacking(a.arword)))
StoredOnly(h, a, i, x, arrays) ==
  ReadsBack(ArefIn(h, a, i), a, x) /\ \A b \in arrays : Cardinality(Differing(h, b)) <= 1
AsetStoresOneElement ==
  LET Each(a, i, r, arrays) == Ok(r) => StoredOnly(HeapWith(r.vma, r.word), a, i, stk[3], arrays)
      All(arrays) == \A a \in arrays : \A i \in 0 .. a.length - 1 : Each(a, i, Aset(a, i, stk[3]), arrays)
  IN  family = "arrays" /\ Running /\ NoFaults /\ SP >= 3 => All(ArraysNow)

\* A store through a cycle leaves invisible pointers, headers and cdr codes
\* as they are: it follows forwarding to the word it means and keeps that
\* word's cdr code (memory-write of DoRplaca, DoRplacd, the instance stores
\* and DoAset1).  Lisp's own moving of an array is left out.
Structural == Forwards \cup Headers \cup {Type.ExternalValueCellPointer}
KeepsStructure(v) == /\ mem'[v].cdr = mem[v].cdr
                     /\ mem[v].type \in Structural => mem'[v] = mem[v]
StoresKeepStructure ==
  [][(family \in {"lists", "instances", "arrays"} /\ reg.eventcount' = reg.eventcount) =>
       (\A v \in Heap : KeepsStructure(v))]_vars

\* Whatever was bound, interrupted by faults or not, unbinding back to the
\* base restores every variable and the cleanup bit the frame began with
\* (DoBindLocative, DoBindLocativeToValue, unbind).
BindingBase == (CHOOSE r \in InitialRegs["binding"] : TRUE).bsp
Undone(s) ==
  /\ s.trap = NoTrap /\ s.bsp = BindingBase /\ ~s.cleanup
  /\ \A v \in 0 .. BindingBase : s.mem[v] = InitialHeap["binding"][v]
BindingsUndo ==
  family = "binding" /\ NoFaults => Undone(UnbindWhile(LAMBDA s, n : s.bsp > BindingBase))
=============================================================================
