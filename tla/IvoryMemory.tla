----------------------------- MODULE IvoryMemory -----------------------------
(***************************************************************************)
(* Words, types and memory cycles of the Ivory processor, as the generated *)
(* C interpreter (stub/) implements them.  A word is a type, a cdr code    *)
(* and a datum of Bits bits; memory is the heap and, above StackBase, the  *)
(* words of the stack.  Every reference of an instruction to memory is a   *)
(* cycle of some kind: it follows the invisible pointers of that kind to   *)
(* the word it is about, or it traps.                                      *)
(***************************************************************************)
EXTENDS Integers, Sequences, FiniteSets

CONSTANTS
  Bits,        \* bits of a datum (32 in the processor)
  HeapSize,    \* heap addresses are 0 .. HeapSize - 1
  MaxHops      \* bound on a chain of invisible pointers

VARIABLES
  mem,         \* the heap: address -> word
  attr,        \* the attribute of the page of each heap address
  stk          \* the words of the stack up to iSP, the last is the top

ASSUME MemoryAssumption ==
  /\ Bits \in Nat /\ Bits >= 3
  /\ HeapSize \in Nat /\ HeapSize < 2^Bits
  /\ MaxHops \in Nat

Type == [Null |-> 0, MonitorForward |-> 1, HeaderP |-> 2, HeaderI |-> 3,
         ExternalValueCellPointer |-> 4, OneQForward |-> 5,
         HeaderForward |-> 6, ElementForward |-> 7, Fixnum |-> 8,
         SmallRatio |-> 9, SingleFloat |-> 10, DoubleFloat |-> 11,
         Bignum |-> 12, BigRatio |-> 13, Complex |-> 14, SpareNumber |-> 15,
         Instance |-> 16, ListInstance |-> 17, ArrayInstance |-> 18,
         StringInstance |-> 19, NIL |-> 20, List |-> 21, Array |-> 22,
         String |-> 23, Symbol |-> 24, Locative |-> 25,
         LexicalClosure |-> 26, DynamicClosure |-> 27,
         CompiledFunction |-> 28, GenericFunction |-> 29,
         SparePointer1 |-> 30, SparePointer2 |-> 31, PhysicalAddress |-> 32,
         NativeInstruction |-> 33, BoundLocation |-> 34, Character |-> 35,
         LogicVariable |-> 36, GCForward |-> 37, EvenPC |-> 38, OddPC |-> 39,
         CallCompiledEven |-> 40, PackedInstruction |-> 48]

Types == 0 .. 63

Cdr == [Next |-> 0, Nil |-> 1, Normal |-> 2, Spare |-> 3]

Data == 0 .. 2^Bits - 1
Word == [type : Types, cdr : 0 .. 3, data : Data]

\* A datum is unsigned in a word; a fixnum reads it in two's complement.
Trunc(n) == n % 2^Bits
Signed(d) == IF d >= 2^(Bits - 1) THEN d - 2^Bits ELSE d

W(t, d) == [type |-> t, cdr |-> Cdr.Next, data |-> d]
Fixnum(n) == W(Type.Fixnum, Trunc(n))
NilWord == W(Type.NIL, 0)
TWord == W(Type.Symbol, 1)
Bool(b) == IF b THEN TWord ELSE NilWord

Uncdr(w) == [w EXCEPT !.cdr = Cdr.Next]
WithCdr(w, c) == [type |-> w.type, cdr |-> c, data |-> w.data]
WithType(w, t) == [type |-> t, cdr |-> w.cdr, data |-> w.data]
WithData(w, d) == [type |-> w.type, cdr |-> w.cdr, data |-> d]
IsFixnum(w) == w.type = Type.Fixnum
IsNumeric(w) == w.type \in Type.Fixnum .. Type.SpareNumber
IsInstance(w) == w.type \in Type.Instance .. Type.StringInstance
SameObject(v, w) == v.type = w.type /\ v.data = w.data

---------------------------------------------------------------------------
Heap == 0 .. HeapSize - 1
StackBase == HeapSize
StackVMA(i) == StackBase + i - 1
StackIndex(v) == v - StackBase + 1
InStack(v) == StackIndex(v) \in 1 .. Len(stk)
Mapped(v) == v \in Heap \/ InStack(v)
FetchIn(h, s, v) == IF v \in Heap THEN h[v] ELSE s[StackIndex(v)]
Fetch(v) == FetchIn(mem, stk, v)

Attributes == {"ok", "absent", "access", "transport", "write"}

\* What an instruction ends with when it cannot complete.
NoTrap == [kind |-> "none", n |-> 0, vma |-> 0]
IllegalOperand(n, v) == [kind |-> "illegal", n |-> n, vma |-> v]
MonitorTrap(v) == [kind |-> "monitor", n |-> 0, vma |-> v]

\* decodefault: the attributes of the page decide which trap a fault is.
DecodeFault(v) ==
  [kind |-> IF v \notin Heap \/ attr[v] = "absent" THEN "pagenotresident"
            ELSE CASE attr[v] = "access" -> "pagefaultrequest"
                   [] attr[v] = "transport" -> "transport"
                   [] attr[v] = "write" -> "pagewritefault"
                   [] OTHER -> "buserror",
   n |-> 0, vma |-> v]

ReadFaults(v) == ~Mapped(v) \/ (v \in Heap /\ attr[v] \in {"absent", "access", "transport"})
WriteFaults(v) == ~Mapped(v) \/ (v \in Heap /\ attr[v] # "ok")

\* The memory action table with the transport bits cleared.
Headers == {Type.HeaderP, Type.HeaderI}
Forwards == {Type.OneQForward, Type.HeaderForward, Type.ElementForward}
Indirects(cycle) ==
  CASE cycle \in {"DataRead", "DataWrite"} -> Forwards \cup {Type.ExternalValueCellPointer}
    [] cycle \in {"BindRead", "BindWrite"} -> Forwards
    [] cycle \in {"BindReadNoMonitor", "BindWriteNoMonitor"} -> Forwards \cup {Type.MonitorForward}
    [] cycle \in {"Header", "StructureOffset"} -> {Type.HeaderForward}
    [] cycle = "Cdr" -> {Type.HeaderForward, Type.ElementForward}
    [] OTHER -> {}
TrapsAt(cycle) ==
  CASE cycle = "DataRead" -> Headers \cup {Type.GCForward, Type.Null}
    [] cycle \in {"DataWrite", "BindRead", "BindWrite", "BindReadNoMonitor",
                  "BindWriteNoMonitor", "Cdr"} -> Headers \cup {Type.GCForward}
    [] cycle = "Header" -> Types \ (Headers \cup {Type.HeaderForward})
    [] cycle \in {"StructureOffset", "Scavenge", "GCCopy"} -> {Type.GCForward}
    [] OTHER -> {}
MemoryAction(cycle, t) ==
  CASE t \in Indirects(cycle) -> "indirect"
    [] t \in TrapsAt(cycle) -> "trap"
    [] t = Type.MonitorForward /\ cycle \in {"DataRead", "DataWrite", "BindRead", "BindWrite"} -> "monitor"
    [] t = Type.LogicVariable /\ cycle \in {"DataRead", "RawTranslate"} -> "transform"
    [] OTHER -> "none"

\* performmemoryaction: the microstate tells the handler which cycle failed.
PerformMemoryAction(cycle, action, v) ==
  IF action = "monitor" THEN MonitorTrap(v)
  ELSE IllegalOperand(CASE cycle = "DataRead" -> 57
                        [] cycle = "DataWrite" -> 58
                        [] cycle \in {"BindRead", "BindReadNoMonitor"} -> 54
                        [] cycle \in {"BindWrite", "BindWriteNoMonitor"} -> 55
                        [] cycle \in {"Header", "StructureOffset"} -> 59
                        [] cycle \in {"Scavenge", "GCCopy"} -> 60
                        [] OTHER -> 56, v)

\* How a cycle that follows no further pointer ends at u, where w is.
CycleEnd(cycle, u, w, action) ==
  CASE action = "none" -> [trap |-> NoTrap, vma |-> u, word |-> w]
    [] action = "transform" ->
         [trap |-> NoTrap, vma |-> u, word |-> WithType(w, Type.ExternalValueCellPointer)]
    [] OTHER -> [trap |-> PerformMemoryAction(cycle, action, u), vma |-> u, word |-> w]

\* Where a cycle at v comes to, in heap h and stack s: it follows the invisible
\* pointers of its kind, no more than MaxHops.
Followed(h, s, cycle, v) ==
  LET Hop(u) == IF ~ReadFaults(u) /\ MemoryAction(cycle, FetchIn(h, s, u).type) = "indirect"
                THEN FetchIn(h, s, u).data ELSE u
      Go[n \in 0 .. MaxHops] == IF n = 0 THEN v ELSE Hop(Go[n - 1])
  IN  Go[MaxHops]

\* The address at which the cycle ends and the word there, or its trap.
CycleAt(h, s, cycle, u) ==
  IF ReadFaults(u) THEN [trap |-> DecodeFault(u), vma |-> u, word |-> NilWord]
  ELSE CycleEnd(cycle, u, FetchIn(h, s, u), MemoryAction(cycle, FetchIn(h, s, u).type))
MemoryReadIn(h, s, cycle, v) == CycleAt(h, s, cycle, Followed(h, s, cycle, v))

MemoryReadGeneral(cycle, v) == MemoryReadIn(mem, stk, cycle, v)
MemoryReadData(v) == MemoryReadGeneral("DataRead", v)
MemoryReadHeader(v) == MemoryReadGeneral("Header", v)
MemoryReadCdr(v) == MemoryReadGeneral("Cdr", v)
Ok(r) == r.trap = NoTrap

\* A store is a cycle that finds the place, and then the store itself, which
\* may fault although the read did not.
Writable(r) ==
  IF Ok(r) /\ WriteFaults(r.vma) THEN [trap |-> DecodeFault(r.vma), vma |-> r.vma, word |-> r.word] ELSE r
\* Mutant of MemoryWriteCycle: forwarding is not followed.
MemoryWriteCycleHere(cycle, v) == Writable([MemoryReadGeneral(cycle, v) EXCEPT !.vma = v])
MemoryWriteCycle(cycle, v) == Writable(MemoryReadGeneral(cycle, v))

HeapWith(v, w) == IF v \in Heap THEN [mem EXCEPT ![v] = w] ELSE mem
StackWith(s, v, w) == IF v \in Heap \/ StackIndex(v) \notin 1 .. Len(s) THEN s
                      ELSE [s EXCEPT ![StackIndex(v)] = w]
=============================================================================
