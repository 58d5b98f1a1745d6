--------------------------- MODULE IvoryStoreProofs ---------------------------
(***************************************************************************)
(* Stores of the list, instance and array instructions, for every heap,    *)
(* every stack and every width of a word: what a store finds at the end of *)
(* its cycle is no invisible pointer and no header, so it destroys none.   *)
(***************************************************************************)
EXTENDS IvoryData, TLAPS

StoreFamilies == {"lists", "instances", "arrays"}

\* A program of these instructions has all of its heap, and counts events
Counting == "eventcount" \in DOMAIN reg /\ reg.eventcount \in Nat
StoreInv == family \in StoreFamilies => Heap \subseteq DOMAIN mem /\ Counting

\* What a step may do to the heap
Kept == Heap \subseteq DOMAIN mem' /\ \A v \in Heap : KeepsStructure(v)

---------------------------------------------------------------------------
(* Cycles *)

\* A fault is a trap
LEMMA FaultIsTrap == \A v : DecodeFault(v) # NoTrap
BY DEF DecodeFault, NoTrap

\* The memory actions that remain are traps
LEMMA ActionIsTrap ==
  \A cycle, action, v : PerformMemoryAction(cycle, action, v) # NoTrap
<1>1. \A n, v : IllegalOperand(n, v) # NoTrap /\ MonitorTrap(v) # NoTrap
  BY DEF IllegalOperand, MonitorTrap, NoTrap
<1> QED
  BY <1>1, Zenon DEF PerformMemoryAction

\* The types that make the structure of the heap are not those a data cycle
\* treats specially
LEMMA TypesDiffer == Type.MonitorForward \notin Structural /\ Type.LogicVariable \notin Structural
BY DEF Structural, Forwards, Headers, Type

\* A data cycle follows invisible pointers and traps at headers
LEMMA StructureIsFollowed ==
  ASSUME NEW cycle \in {"DataRead", "DataWrite"}, NEW t \in Structural
  PROVE  MemoryAction(cycle, t) \in {"indirect", "trap"}
<1>1. Indirects(cycle) = Forwards \cup {Type.ExternalValueCellPointer}
  BY DEF Indirects
<1>2. Headers \subseteq TrapsAt(cycle)
  BY DEF TrapsAt
<1>3. t \in Indirects(cycle) \cup TrapsAt(cycle)
  BY <1>1, <1>2 DEF Structural
<1> QED
  BY <1>3, TypesDiffer DEF MemoryAction

\* A data cycle that does not trap ends at a word that is no structure, and
\* gives that word's cdr code
LEMMA CycleEndsAtData ==
  ASSUME NEW cycle \in {"DataRead", "DataWrite"}, NEW STATE v,
         Ok(MemoryReadGeneral(cycle, v))
  PROVE  LET r == MemoryReadGeneral(cycle, v)
         IN  r.word.cdr = Fetch(r.vma).cdr /\ Fetch(r.vma).type \notin Structural
<1> DEFINE u == Followed(mem, stk, cycle, v)
<1>1. MemoryReadGeneral(cycle, v) = CycleAt(mem, stk, cycle, u)
  BY DEF MemoryReadGeneral, MemoryReadIn
<1> HIDE DEF u
<1> DEFINE w == FetchIn(mem, stk, u)
           action == MemoryAction(cycle, w.type)
<1>2. ~ReadFaults(u)
  BY <1>1, FaultIsTrap DEF CycleAt, Ok
<1>3. CycleAt(mem, stk, cycle, u) = CycleEnd(cycle, u, w, action)
  BY <1>2 DEF CycleAt
<1>4. action \in {"none", "transform"}
  <2> HIDE DEF action, w
  <2>1. action \notin {"none", "transform"} =>
           CycleEnd(cycle, u, w, action).trap = PerformMemoryAction(cycle, action, u)
    BY DEF CycleEnd
  <2> QED
    BY <1>1, <1>3, <2>1, ActionIsTrap DEF Ok
<1>5. w.type \notin Structural
  BY <1>4, StructureIsFollowed
<1>6. /\ CycleEnd(cycle, u, w, action).vma = u
      /\ CycleEnd(cycle, u, w, action).word.cdr = w.cdr
  <2> HIDE DEF w, action
  <2> QED
    BY <1>4 DEF CycleEnd, WithType
<1> QED
  BY <1>1, <1>3, <1>5, <1>6 DEF Fetch
---------------------------------------------------------------------------
(* Stores *)

\* A step that leaves the heap alone
LEMMA SameHeap ==
  ASSUME Heap \subseteq DOMAIN mem, UNCHANGED mem
  PROVE  Kept
BY DEF Kept, KeepsStructure

\* A step that stores at v a word with the cdr code of the word that is there,
\* which is no structure
LEMMA StoreKeeps ==
  ASSUME NEW STATE v, NEW STATE w, Heap \subseteq DOMAIN mem,
         mem' = HeapWith(v, w),
         w.cdr = Fetch(v).cdr, Fetch(v).type \notin Structural
  PROVE  Kept
<1>1. CASE v \in Heap
  BY <1>1 DEF Kept, KeepsStructure, HeapWith, Fetch, FetchIn
<1>2. CASE v \notin Heap
  BY <1>2, SameHeap DEF HeapWith
<1> QED
  BY <1>1, <1>2

\* A write cycle that can be completed
LEMMA WriteCycleEndsAtData ==
  ASSUME NEW STATE v, Ok(MemoryWriteCycle("DataWrite", v))
  PROVE  LET r == MemoryWriteCycle("DataWrite", v)
         IN  r.word.cdr = Fetch(r.vma).cdr /\ Fetch(r.vma).type \notin Structural
<1> DEFINE r == MemoryReadGeneral("DataWrite", v)
<1>1. MemoryWriteCycle("DataWrite", v) = Writable(r)
  BY DEF MemoryWriteCycle
<1> HIDE DEF r
<1>2. Writable(r) = r /\ Ok(r)
  BY <1>1, FaultIsTrap DEF Writable, Ok
<1> USE DEF r
<1>3. r.word.cdr = Fetch(r.vma).cdr /\ Fetch(r.vma).type \notin Structural
  BY <1>2, CycleEndsAtData
<1> QED
  BY <1>1, <1>2, <1>3

\* StoreContents stores what the cycle leads to, or leaves the heap alone
LEMMA StoreContentsKeeps ==
  ASSUME NEW STATE o, NEW STATE w, NEW STATE s, NEW STATE v, NEW STATE new,
         Heap \subseteq DOMAIN mem,
         StoreContents(o, w, s, MemoryWriteCycle("DataWrite", v), new)
  PROVE  Kept
<1> DEFINE c == MemoryWriteCycle("DataWrite", v)
<1>1. CASE Ok(c)
  <2>1. c.word.cdr = Fetch(c.vma).cdr /\ Fetch(c.vma).type \notin Structural
    BY <1>1, WriteCycleEndsAtData
  <2> HIDE DEF c
  <2>2. mem' = HeapWith(c.vma, WithCdr(new, c.word.cdr))
    BY <1>1 DEF StoreContents, Store, c
  <2>3. WithCdr(new, c.word.cdr).cdr = c.word.cdr
    BY DEF WithCdr
  <2> QED
    BY <2>1, <2>2, <2>3, StoreKeeps
<1>2. CASE ~Ok(c)
  BY <1>2, SameHeap DEF StoreContents, Fail, RaiseException, PreTrap
<1> QED
  BY <1>1, <1>2

---------------------------------------------------------------------------
(* Instructions *)

\* The list instructions: rplaca and rplacd store, the others do not
LEMMA ListsKeep ==
  ASSUME Heap \subseteq DOMAIN mem, Lists
  PROVE  Kept
<1> USE DEF Unary, Binary, Continue, Fail, RaiseException, PreTrap
<1>1. CASE \E o \in StackOperands : DoCar(o) \/ DoCdr(o) \/ DoMember(o) \/ DoAssoc(o)
  BY <1>1, SameHeap DEF DoCar, DoCdr, DoMember, DoAssoc
<1>2. CASE \E o \in StackOperands : DoRgetf(o)
  BY <1>2, SameHeap DEF DoRgetf, RgetfEnd, RgetfFound, RgetfValue
<1>3. CASE \E o \in InPlace : DoSetToCar(o) \/ DoSetToCdr(o) \/ DoSetToCdrPushCar(o)
  BY <1>3, SameHeap
  DEF DoSetToCar, DoSetToCdr, SetTo, DoSetToCdrPushCar, SetToCdrPushCar, SetToCdrPushCarLocative
<1>4. CASE \E o \in StackOperands : DoRplaca(o) \/ DoRplacd(o)
  <2>1. PICK o \in StackOperands : DoRplaca(o) \/ DoRplacd(o)
    BY <1>4
  <2>2. (\E v : RplacStore(o, v)) \/ UNCHANGED mem
    BY <2>1 DEF DoRplaca, DoRplacd, RplacdCell
  <2> QED
    BY <2>2, SameHeap, StoreContentsKeeps DEF RplacStore
<1> QED
  BY <1>1, <1>2, <1>3, <1>4 DEF Lists

\* A store of an element stores at the end of a data cycle
LEMMA AsetEndsAtData ==
  ASSUME NEW STATE a, NEW STATE i, NEW STATE x, Ok(Aset(a, i, x))
  PROVE  LET r == Aset(a, i, x)
         IN  r.word.cdr = Fetch(r.vma).cdr /\ Fetch(r.vma).type \notin Structural
<1> DEFINE c == AsetCycle(a, i)
<1>1. Aset(a, i, x) = AsetAt(a, i, x, c)
  <2>1. ElementCheck(a, x) # NoTrap => ~Ok(Aset(a, i, x))
    BY DEF Aset, Ok, Raise
  <2> QED
    BY <2>1 DEF Aset
<1>2. Ok(c) => c.word.cdr = Fetch(c.vma).cdr /\ Fetch(c.vma).type \notin Structural
  <2>1. CASE IsObject(a)
    BY <2>1, WriteCycleEndsAtData DEF AsetCycle
  <2>2. CASE ~IsObject(a)
    BY <2>2, CycleEndsAtData DEF AsetCycle, MemoryReadData
  <2> QED
    BY <2>1, <2>2
<1> HIDE DEF c
<1>3. Ok(c)
  BY <1>1 DEF AsetAt
<1>4. CASE IsObject(a)
  <2>1. AsetAt(a, i, x, c) = Located(c.vma, WithCdr(x, c.word.cdr))
    BY <1>3, <1>4 DEF AsetAt
  <2> QED
    BY <1>1, <1>2, <1>3, <2>1 DEF Located, WithCdr
<1>5. CASE ~IsObject(a)
  <2>1. \A n, v : Raise(IllegalOperand(n, v)) .trap # NoTrap /\ Raise(DecodeFault(v)).trap # NoTrap
    BY FaultIsTrap DEF Raise, IllegalOperand, NoTrap
  <2>2. IsFixnum(c.word) /\ ~WriteFaults(c.vma)
    BY <1>1, <1>3, <1>5, <2>1 DEF AsetAt, Ok
  <2>3. AsetAt(a, i, x, c) = Located(c.vma, WithData(c.word, AsetDatum(a, i, x, c.word.data)))
    BY <1>3, <1>5, <2>2 DEF AsetAt
  <2> QED
    BY <1>1, <1>2, <1>3, <2>3 DEF Located, WithData
<1> QED
  BY <1>4, <1>5

\* The array instructions: aset-1 and store-array-leader store; Lisp's moving of
\* an array is an event
LEMMA ArraysKeep ==
  ASSUME Heap \subseteq DOMAIN mem, Counting, Arrays
  PROVE  /\ Heap \subseteq DOMAIN mem' /\ Counting'
         /\ reg.eventcount' = reg.eventcount => Kept
<1> USE DEF Binary, Continue, Fail, RaiseException, PreTrap
<1>1. CASE \E o \in PopOrImmediate : DoAref1(o)
  <2>1. UNCHANGED mem /\ Counting'
    BY <1>1 DEF DoAref1, Aref1Exception, ArefWith, ArrayTrap, ArefEnd, WithCache, Counting
  <2> QED
    BY <2>1, SameHeap
<1>2. CASE \E o \in PopOrImmediate : DoAloc1(o) \/ DoArrayLeader(o) \/ DoAlocLeader(o)
  <2>1. UNCHANGED <<mem, reg>>
    BY <1>2 DEF DoAloc1, DoArrayLeader, DoAlocLeader, Then
  <2> QED
    BY <2>1, SameHeap DEF Counting
<1>3. CASE \E o \in PopOrImmediate : DoStoreArrayLeader(o)
  <2>1. PICK o \in PopOrImmediate : DoStoreArrayLeader(o)
    BY <1>3
  <2>2. Kept
    BY <2>1, SameHeap, StoreContentsKeeps DEF DoStoreArrayLeader, StoreLeader
  <2>3. UNCHANGED reg
    BY <2>1 DEF DoStoreArrayLeader, StoreLeader, StoreContents, Store
  <2> QED
    BY <2>2, <2>3 DEF Counting, Kept
<1>4. CASE \E o \in PopOrImmediate : DoAset1(o)
  <2>1. PICK o \in PopOrImmediate : DoAset1(o)
    BY <1>4
  <2>2. /\ Counting'
        /\ \/ UNCHANGED mem
           \/ \E a, i, x : Ok(Aset(a, i, x)) /\ mem' = HeapWith(Aset(a, i, x).vma, Aset(a, i, x).word)
    BY <2>1 DEF DoAset1, Aset1Exception, AsetWith, AsetEnd, ArrayTrap, WithCache, Counting
  <2> QED
    BY <2>2, SameHeap, AsetEndsAtData, StoreKeeps DEF Kept
<1>5. CASE \E v \in {4, 8} : ForwardArray(v, NewPlace[family])
  <2>1. /\ DOMAIN mem' = Heap
        /\ reg' = [reg EXCEPT !.eventcount = @ + 1]
    BY <1>5 DEF ForwardArray
  <2> QED
    BY <2>1 DEF Counting
<1> QED
  BY <1>1, <1>2, <1>3, <1>4, <1>5 DEF Arrays, Kept

\* A store of an instance variable stores at the end of a write cycle
LEMMA VariableStoreKeeps ==
  ASSUME NEW STATE v, NEW STATE s, Heap \subseteq DOMAIN mem,
         StoreVariable(v, s) \/ StoreOrdered(v, s)
  PROVE  Kept
<1> DEFINE c == MemoryWriteCycle("DataWrite", v)
<1>1. CASE Ok(c)
  <2>1. c.word.cdr = Fetch(c.vma).cdr /\ Fetch(c.vma).type \notin Structural
    BY <1>1, WriteCycleEndsAtData
  <2>2. mem' = HeapWith(c.vma, WithCdr(TOS, c.word.cdr))
    BY <1>1 DEF StoreVariable, StoreOrdered, Store
  <2>3. WithCdr(TOS, c.word.cdr).cdr = c.word.cdr
    BY DEF WithCdr
  <2> QED
    BY <2>1, <2>2, <2>3, StoreKeeps
<1>2. CASE ~Ok(c)
  BY <1>2, SameHeap DEF StoreVariable, StoreOrdered, MarkedTrap, PreTrap
<1> QED
  BY <1>1, <1>2

\* The instance instructions
LEMMA InstancesKeep ==
  ASSUME Heap \subseteq DOMAIN mem, Instances
  PROVE  Kept /\ UNCHANGED reg
<1> USE DEF Binary, Continue, Fail, RaiseException, PreTrap, MarkedTrap, MappedAccess, MappedBy, Ordered
<1>1. CASE \E n \in Variables : \/ DoPushInstanceVariable(n)
                                \/ DoPushAddressInstanceVariable(n)
                                \/ DoPushInstanceVariableOrdered(n)
                                \/ DoPushAddressInstanceVariableOrdered(n)
  <2>1. UNCHANGED <<mem, reg>>
    BY <1>1 DEF DoPushInstanceVariable, PushVariable, DoPushAddressInstanceVariable,
                DoPushInstanceVariableOrdered, DoPushAddressInstanceVariableOrdered
  <2> QED
    BY <2>1, SameHeap
<1>2. CASE \E n \in Variables : DoPopInstanceVariable(n) \/ DoMovemInstanceVariable(n)
  <2>1. UNCHANGED reg
    BY <1>2 DEF DoPopInstanceVariable, DoMovemInstanceVariable, StoreVariable, Store
  <2>2. UNCHANGED mem \/ \E v, s : StoreVariable(v, s)
    BY <1>2 DEF DoPopInstanceVariable, DoMovemInstanceVariable
  <2> QED
    BY <2>1, <2>2, SameHeap, VariableStoreKeeps
<1>3. CASE \E n \in Variables : DoPopInstanceVariableOrdered(n) \/ DoMovemInstanceVariableOrdered(n)
  <2>1. UNCHANGED reg
    BY <1>3 DEF DoPopInstanceVariableOrdered, DoMovemInstanceVariableOrdered, StoreOrdered, Store
  <2>2. UNCHANGED mem \/ \E v, s : StoreOrdered(v, s)
    BY <1>3 DEF DoPopInstanceVariableOrdered, DoMovemInstanceVariableOrdered
  <2> QED
    BY <2>1, <2>2, SameHeap, VariableStoreKeeps
<1>4. CASE \E o \in PopOrImmediate : DoInstanceRef(o) \/ DoInstanceLoc(o)
  <2>1. UNCHANGED <<mem, reg>>
    BY <1>4 DEF DoInstanceRef, DoInstanceLoc, Then
  <2> QED
    BY <2>1, SameHeap
<1>5. CASE \E o \in PopOrImmediate : DoInstanceSet(o)
  <2>1. PICK o \in PopOrImmediate : DoInstanceSet(o)
    BY <1>5
  <2>2. UNCHANGED reg
    BY <2>1 DEF DoInstanceSet, StoreContents, Store
  <2>3. Kept
    BY <2>1, SameHeap, StoreContentsKeeps DEF DoInstanceSet
  <2> QED
    BY <2>2, <2>3
<1> QED
  BY <1>1, <1>2, <1>3, <1>4, <1>5 DEF Instances

\* The list instructions count no events either
LEMMA ListsCount ==
  ASSUME Lists
  PROVE  UNCHANGED reg
BY DEF Lists, Unary, Binary, Continue, Fail, RaiseException, PreTrap, DoCar, DoCdr, DoMember, DoAssoc,
       DoRgetf, RgetfEnd, RgetfFound, RgetfValue, DoSetToCar, DoSetToCdr, SetTo, DoSetToCdrPushCar,
       SetToCdrPushCar, SetToCdrPushCarLocative, DoRplaca, DoRplacd, RplacdCell, RplacStore,
       StoreContents, Store

---------------------------------------------------------------------------
(* Programs *)

\* A program stays in its family: every instruction begins like any other
LEMMA FamilyStays ==
  ASSUME Next
  PROVE  UNCHANGED family
<1>1. CASE Moves
  BY <1>1 DEF Moves, DoEndp, DoEq, DoEqImmediateHandler, DoEql, DoMergeCdrNoPop,
              DoMovem, DoPop, DoPush, DoPushAddress, DoPushAddressSpRelative,
              DoPushImmediateHandler, DoPushNNils, DoSetSpToAddress,
              DoSetSpToAddressSaveTos, DoSetTag, DoStackBlt, DoStackBltAddress, DoTag,
              DoTypeMember, Binary, Predicate, Unary, Begin
<1>2. CASE Arithmetic
  BY <1>2 DEF Arithmetic, DoAdd, DoCeiling, DoDecrement, DoDoubleFloatOp, DoEqualNumber,
              DoFloor, DoGreaterp, DoIncrement, DoLessp, DoMax, DoMin, DoMinusp,
              DoMultiply, DoPlusp, DoQuotient, DoRationalQuotient, DoRound, DoSub,
              DoTruncate, DoUnaryMinus, DoZerop, Binary, BinaryArithmetic, Compare,
              Extremum, Predicate, QuotientResult, TestNumber, TwoValued, Unary, Step,
              Begin
<1>3. CASE Bitwork
  BY <1>3 DEF Bitwork, Do32BitDifference, Do32BitPlus, DoAddBignumStep, DoAsh,
              DoDivideBignumStep, DoLdb, DoLogand, DoLogior, DoLogtest, DoLogxor, DoLsh,
              DoLshcBignumStep, DoMultiplyBignumStep, DoMultiplyDouble, DoPointerPlus,
              DoRot, DoSubBignumStep, BignumStep, Binary, Logical, Predicate, Fixnums,
              Begin
<1>4. CASE Lists
  BY <1>4 DEF Lists, DoAssoc, DoCar, DoCdr, DoMember, DoRgetf, DoRplaca, DoRplacd,
              DoSetToCar, DoSetToCdr, DoSetToCdrPushCar, Binary, SetTo, Unary, Begin
<1>5. CASE Logic
  BY <1>5 DEF Logic, DoDereference, DoLogicTailTest, DoPushGlobalLogicVariable, DoUnify,
              Unary, Begin
<1>6. CASE Arrays
  BY <1>6 DEF Arrays, DoAloc1, DoAlocLeader, DoAref1, DoArrayLeader, DoAset1,
              DoStoreArrayLeader, Binary, ForwardArray, Begin
<1>7. CASE ArrayRegisters
  BY <1>7 DEF ArrayRegisters, DoFastAref1, DoFastAset1, DoPushImmediateHandler,
              DoSetup1DArray, DoSetupForce1DArray, SetupArray, ForwardArray, Begin
<1>8. CASE Blocks
  BY <1>8 DEF Blocks, DoBlock1Read, DoBlock1ReadAlu, DoBlock1ReadShift,
              DoBlock1ReadTest, DoBlock1Write, DoBlock2Read, DoBlock2ReadAlu,
              DoBlock2ReadShift, DoBlock2ReadTest, DoBlock2Write, DoBlock3Read,
              DoBlock3ReadAlu, DoBlock3ReadShift, DoBlock3ReadTest, DoBlock3Write,
              DoMemoryRead, BlockRead, BlockReadAlu, BlockReadShift, BlockReadTest,
              BlockWrite, Begin
<1>9. CASE Alu
  BY <1>9 DEF Alu, DoAlu, DoPushImmediateHandler, Begin
<1>10. CASE Stores
  BY <1>10 DEF Stores, DoAllocateListBlock, DoAllocateStructureBlock, DoEphemeralp,
               DoMemoryWrite, DoPStoreContents, DoPointerDifference, DoPointerIncrement,
               DoSetCdrCode1, DoSetCdrCode2, DoStoreConditional, DoUnsignedLessp,
               AllocateBlock, Binary, Predicate, Unary, Begin
<1>11. CASE Internal
  BY <1>11 DEF Internal, DoCheckPreemptRequest, DoCoprocessorRead, DoCoprocessorWrite,
               DoHalt, DoNoOp, DoReadInternalRegister, DoSpareOp,
               DoWriteInternalRegister, Begin
<1>12. CASE FieldInstructions
  BY <1>12 DEF FieldInstructions, DoCharDpb, DoCharLdb, DoDpb, DoMovemLexicalVarN,
               DoPDpb, DoPLdb, DoPTagDpb, DoPTagLdb, DoPopLexicalVarN,
               DoPushLexicalVarN, PDpb, PLdb, StoreLexicalVar, Unary, Begin
<1>13. CASE Instances
  BY <1>13 DEF Instances, DoInstanceLoc, DoInstanceRef, DoInstanceSet,
               DoMovemInstanceVariable, DoMovemInstanceVariableOrdered,
               DoPopInstanceVariable, DoPopInstanceVariableOrdered,
               DoPushAddressInstanceVariable, DoPushAddressInstanceVariableOrdered,
               DoPushInstanceVariable, DoPushInstanceVariableOrdered, Binary,
               MappedAccess, Ordered, Begin
<1>14. CASE Binding
  BY <1>14 DEF Binding, DoBindLocative, DoBindLocativeToValue, DoPush,
               DoRestoreBindingStack, DoUnbindN, Begin
<1>15. CASE HandleFault \/ HandleException \/ \E v \in Pages[family], a \in Attributes : PageOut(v, a)
  BY <1>15 DEF HandleFault, HandleException, PageOut
<1> QED
  BY <1>1, <1>2, <1>3, <1>4, <1>5, <1>6, <1>7, <1>8, <1>9, <1>10, <1>11, <1>12, <1>13, <1>14, <1>15 DEF Next

\* Every step of a program of one of the three families does to the heap what
\* it may
LEMMA StepKeeps ==
  ASSUME StoreInv, Next
  PROVE  /\ StoreInv'
         /\ family \in StoreFamilies /\ reg.eventcount' = reg.eventcount => Kept
<1>1. UNCHANGED family
  BY FamilyStays
<1>2. SUFFICES ASSUME family \in StoreFamilies
               PROVE  /\ Heap \subseteq DOMAIN mem'
                      /\ Counting'
                      /\ reg.eventcount' = reg.eventcount => Kept
  BY <1>1 DEF StoreInv
<1>3. Heap \subseteq DOMAIN mem /\ Counting
  BY <1>2 DEF StoreInv
<1>4. CASE Lists
  BY <1>3, <1>4, ListsKeep, ListsCount DEF Kept, Counting
<1>5. CASE Arrays
  BY <1>3, <1>5, ArraysKeep DEF Kept
<1>6. CASE Instances
  BY <1>3, <1>6, InstancesKeep DEF Kept, Counting
<1>7. CASE HandleFault \/ HandleException \/ \E v \in Pages[family], a \in Attributes : PageOut(v, a)
  <2>1. UNCHANGED <<mem, reg>>
    BY <1>7 DEF HandleFault, HandleException, PageOut
  <2> QED
    BY <1>3, <2>1, SameHeap DEF Kept, Counting
<1> QED
  BY <1>2, <1>4, <1>5, <1>6, <1>7
  DEF Next, StoreFamilies, Program, Moves, Arithmetic, Bitwork, Logic, ArrayRegisters, Blocks,
      Alu, Stores, Internal, FieldInstructions, Binding

---------------------------------------------------------------------------
(* The theorem *)

\* A program starts with all of its heap and an event count
LEMMA StoreInvInit == Init => StoreInv
<1> SUFFICES ASSUME Init
             PROVE  Heap \subseteq DOMAIN mem /\ Counting
  BY DEF StoreInv
<1>1. family \in Families /\ mem = InitialHeap[family] /\ reg \in InitialRegs[family]
  BY DEF Init
<1>2. mem \in [Heap -> Word]
  BY <1>1, ProgramAssumption
<1>3. Counting
  BY <1>1, ProgramAssumption DEF Counting
<1> QED
  BY <1>2, <1>3

\* No list, array or instance store destroys the structure of the heap
\* (DoRplaca, DoRplacd, DoAset1, DoStoreArrayLeader, the instance stores):
\* it changes no header, no forwarding pointer and no cdr code, whatever the
\* heap, the addresses and the faults on the way to the word it means.
THEOREM StoresDestroyNoStructure == Spec => StoresKeepStructure
<1>1. StoreInv /\ [Next]_vars => StoreInv'
  BY StepKeeps DEF vars, StoreInv, Counting
<1>2. StoreInv /\ [Next]_vars =>
        [(family \in StoreFamilies /\ reg.eventcount' = reg.eventcount) =>
           (\A v \in Heap : KeepsStructure(v))]_vars
  BY StepKeeps DEF Kept
<1> QED
  BY <1>1, <1>2, StoreInvInit, PTL DEF Spec, StoresKeepStructure, StoreFamilies

====
