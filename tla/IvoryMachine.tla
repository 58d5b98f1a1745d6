---------------------------- MODULE IvoryMachine ----------------------------
(***************************************************************************)
(* What the instructions of the Ivory processor have in common: operands,  *)
(* the three ways an instruction ends, and what answers a trap.            *)
(*                                                                         *)
(* The program is any sequence of instructions of one family inside one    *)
(* frame, so the PC is not a variable.  The words of the stack from FP to  *)
(* SP are stk; an operand is a word of the frame (fp, lp), a word below    *)
(* the top (sp), the top that is popped (pop), or immediate.               *)
(***************************************************************************)
EXTENDS IvoryMemory, SequencesExt

CONSTANTS
  ImmBits,     \* bits of an immediate operand (8 in the processor)
  MaxStack,    \* bound on the words of the frame
  MaxSteps     \* bound on the instructions of a program of each family

VARIABLES
  family,      \* the instructions this program is made of
  trap,        \* NoTrap while instructions execute, else why they do not
  bar,         \* the block address registers: vma, 1 .. 3
  reg,         \* internal registers
  steps        \* instructions begun

vars == <<mem, attr, stk, family, trap, bar, reg, steps>>

Families == {"moves", "arithmetic", "bits", "lists", "logic", "arrays", "registers", "blocks", "alu",
             "stores", "internal", "fields", "instances", "binding"}

ASSUME MachineAssumption ==
  /\ ImmBits \in 2 .. Bits - 1
  /\ MaxStack \in Nat /\ HeapSize + MaxStack < 2^Bits
  /\ MaxSteps \in [Families -> Nat]

FP == 1
LP == 2
SP == Len(stk)
TOS == stk[SP]

\* SP|n with n > 0 in the code is the word 255 - n below the top.
Operands ==
  {[mode |-> "fp", n |-> 0], [mode |-> "lp", n |-> 0], [mode |-> "pop", n |-> 0],
   [mode |-> "sp", n |-> 0]}
  \cup [mode : {"imm"}, n : {0, 1, 2^(ImmBits - 1), 2^ImmBits - 1}]

StackOperands == {o \in Operands : o.mode # "imm"}
InPlace == {o \in Operands : o.mode \in {"fp", "lp", "sp"}}

SignedImmediate(n) == IF n >= 2^(ImmBits - 1) THEN n - 2^ImmBits ELSE n

\* The stack index an operand addresses, its value, and the stack once the
\* operand is off it.
Index(o) == CASE o.mode = "fp" -> FP + o.n
              [] o.mode = "lp" -> LP + o.n
              [] o.mode = "sp" -> SP - o.n
              [] OTHER -> SP
Unsigned(o) == IF o.mode = "imm" THEN Fixnum(o.n) ELSE stk[Index(o)]
Value(o) == IF o.mode = "imm" THEN Fixnum(SignedImmediate(o.n)) ELSE stk[Index(o)]
Rest(o) == IF o.mode = "pop" THEN Front(stk) ELSE stk

\* The logical functions of data.
And(a, b) ==
  LET Bit(n, i) == (n \div 2^i) % 2
      Low[i \in 0 .. Bits] ==
        IF i = 0 THEN 0 ELSE Low[i - 1] + Bit(a, i - 1) * Bit(b, i - 1) * 2^(i - 1)
  IN  Low[Bits]
Ior(a, b) == a + b - And(a, b)
Xor(a, b) == a + b - 2 * And(a, b)

Push(s, w) == Append(s, w)
Replace(s, w) == [s EXCEPT ![Len(s)] = w]
Deep(o, n) == Len(Rest(o)) >= LP + n

---------------------------------------------------------------------------
(* Outcomes: a word, or the trap the instruction takes. *)
Return(w) == [trap |-> NoTrap, vma |-> 0, word |-> w]
Raise(t) == [trap |-> t, vma |-> 0, word |-> NilWord]
Illegal(n) == Raise(IllegalOperand(n, 0))
Exception(n) == Raise([kind |-> "exception", n |-> n, vma |-> 0])

NumericException(w, n) == IF IsNumeric(w) THEN Exception(n) ELSE Illegal(16)
UnaryNumericException(w, n) == IF IsNumeric(w) THEN Exception(n) ELSE Illegal(81)
ListException(w, n) == IF w.type \in {Type.List, Type.ListInstance} THEN Exception(n) ELSE Illegal(26)
SpareException(w, n, k) ==
  IF w.type \in {Type.SparePointer1, Type.SparePointer2, Type.SpareNumber} THEN Exception(n) ELSE Illegal(k)
ArrayException(w, n, k) ==
  IF w.type \in {Type.Array, Type.String, Type.ArrayInstance, Type.StringInstance}
  THEN Exception(n) ELSE SpareException(w, n, k)

Then(r, Op(_)) == IF Ok(r) THEN Op(r) ELSE r

---------------------------------------------------------------------------
(* Endings. *)
Running == trap = NoTrap /\ steps < MaxSteps[family]

Begin == Running /\ steps' = steps + 1 /\ UNCHANGED <<attr, family>>

Continue(s) == /\ Len(s) <= MaxStack
               /\ stk' = s
               /\ UNCHANGED <<mem, trap, bar, reg>>

\* A pre-trap restores SP from restartsp; the instruction is executed again
\* when the handler returns.
PreTrap(t) == trap' = t /\ UNCHANGED <<mem, stk, bar, reg>>

\* An exception calls a function in place of the instruction.  Its arguments
\* are those on the stack and, if it was not there, the operand.
RaiseException(o, w, t) ==
  /\ trap' = t
  /\ stk' = IF o.mode = "pop" THEN stk ELSE Push(stk, w)
  /\ Len(stk') <= MaxStack
  /\ UNCHANGED <<mem, bar, reg>>

Fail(o, w, t) == IF t.kind = "exception" THEN RaiseException(o, w, t) ELSE PreTrap(t)

\* The result of a unary instruction is pushed; that of a binary one, whose
\* first argument is below the operand, replaces that argument.
Unary(o, w, r) ==
  Begin /\ IF Ok(r) THEN Continue(Push(Rest(o), r.word)) ELSE Fail(o, w, r.trap)
Binary(o, w, r) ==
  Begin /\ Deep(o, 1) /\ IF Ok(r) THEN Continue(Replace(Rest(o), r.word)) ELSE Fail(o, w, r.trap)

\* Some binary predicates keep their first argument (bit 12 of the opcode).
Predicate(o, w, r, noPop) ==
  /\ Begin /\ Deep(o, 1)
  /\ IF Ok(r) THEN Continue(IF noPop THEN Push(Rest(o), r.word) ELSE Replace(Rest(o), r.word))
     ELSE Fail(o, w, r.trap)

\* The word w is stored at v and the stack becomes s.
Store(s, v, w) == /\ stk' = StackWith(s, v, w)
                  /\ mem' = HeapWith(v, w)
                  /\ UNCHANGED <<trap, bar, reg>>

\* A store through a write cycle keeps the cdr code of the word it replaces.
StoreContents(o, w, s, c, new) ==
  IF Ok(c) THEN Store(s, c.vma, WithCdr(new, c.word.cdr)) ELSE Fail(o, w, c.trap)

---------------------------------------------------------------------------
(* What happens outside the instructions. *)

\* The guest's handlers of page and transport faults repair the page.
HandleFault ==
  /\ trap.kind \in {"pagenotresident", "pagefaultrequest", "transport", "pagewritefault"}
  /\ trap.vma \in Heap
  /\ attr' = [attr EXCEPT ![trap.vma] = "ok"]
  /\ trap' = NoTrap
  /\ UNCHANGED <<mem, stk, family, bar, reg, steps>>

\* The function called for an exception takes its arguments and returns one
\* value.
HandleException ==
  /\ trap.kind = "exception"
  /\ Len(stk) - trap.n >= LP - 1
  /\ stk' = Push(SubSeq(stk, 1, Len(stk) - trap.n), NilWord)
  /\ trap' = NoTrap
  /\ UNCHANGED <<mem, attr, family, bar, reg, steps>>

\* A page is taken away, or marked by the collector.
PageOut(v, a) ==
  /\ Running /\ attr[v] = "ok" /\ a # "ok"
  /\ \A u \in Heap \ {v} : attr[u] = "ok"
  /\ attr' = [attr EXCEPT ![v] = a]
  /\ steps' = steps + 1
  /\ UNCHANGED <<mem, stk, family, trap, bar, reg>>
=============================================================================
