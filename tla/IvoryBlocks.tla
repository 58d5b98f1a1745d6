----------------------------- MODULE IvoryBlocks -----------------------------
(***************************************************************************)
(* Block instructions: a block address register is read or written through *)
(* and advanced; what is read may be shifted, combined with a word of the  *)
(* stack by the ALU, or tested.  ifunblok.c, the block instructions of     *)
(* ifuncom1.c and ifuncom2.c, and the ALU instruction of ifunsubp.c.       *)
(*                                                                         *)
(* The ALU control register is the record reg.alu: op, the function class; *)
(* f, bits 10-13, whose meaning depends on the class; cond and sense; load,*)
(* whether the adder's carry is kept; size and rotate.                     *)
(***************************************************************************)
EXTENDS IvoryMachine

BlockCycles == {"DataRead", "BindRead", "Cdr", "Raw", "Scavenge"}
BlockModes == [cycle : BlockCycles, fixnumOnly : BOOLEAN, cdrNext : BOOLEAN, noIncrement : BOOLEAN]

\* The word a block instruction reads, without its effect on the register.
BlockWord(i, m) ==
  LET Checked(r) == IF m.fixnumOnly /\ ~IsFixnum(r.word) THEN Raise(IllegalOperand(23, r.vma)) ELSE r
  IN  Then(MemoryReadGeneral(m.cycle, bar[i]), Checked)

BlockCdr(m, w) == IF m.cdrNext THEN Uncdr(w) ELSE w

\* The register gets the address that was read, after any forwarding.
BlockAdvance(i, m, v) == bar' = [bar EXCEPT ![i] = IF m.noIncrement THEN v ELSE Trunc(v + 1)]

\* blockread
BlockRead(i, m) ==
  LET Got(r) == IF ~Ok(r) THEN PreTrap(r.trap)
                ELSE /\ BlockAdvance(i, m, r.vma)
                     /\ Len(stk) < MaxStack /\ stk' = Push(stk, BlockCdr(m, r.word))
                     /\ UNCHANGED <<mem, trap, reg>>
  IN  Begin /\ Got(BlockWord(i, m))
DoBlock1Read(m) == BlockRead(1, m)
DoBlock2Read(m) == BlockRead(2, m)
DoBlock3Read(m) == BlockRead(3, m)

\* blockwrite: the word is stored as it is, cdr code and forwarding included.
BlockWrite(i, o) ==
  /\ Begin /\ Deep(o, 0)
  /\ IF WriteFaults(bar[i]) THEN PreTrap(DecodeFault(bar[i]))
     ELSE /\ stk' = StackWith(Rest(o), bar[i], Value(o))
          /\ mem' = HeapWith(bar[i], Value(o))
          /\ bar' = [bar EXCEPT ![i] = Trunc(@ + 1)]
          /\ UNCHANGED <<trap, reg>>
DoBlock1Write(o) == BlockWrite(1, o)
DoBlock2Write(o) == BlockWrite(2, o)
DoBlock3Write(o) == BlockWrite(3, o)

---------------------------------------------------------------------------
(* The ALU.  A result is the datum that is stored, and what the 64 bits of *)
(* the register it is computed in have above it.                           *)
LowWord(n) == [lo |-> n, high |-> 0, negative |-> FALSE]
Complement(n) == [lo |-> 2^Bits - 1 - n, high |-> 1, negative |-> TRUE]

AndC(a, b) == a - And(a, b)

\* The codes of the Boolean functions.
Boole == [Clear |-> 0, And |-> 1, AndC1 |-> 2, Two |-> 3, AndC2 |-> 4, One |-> 5, Xor |-> 6, Ior |-> 7,
          Nor |-> 8, Equiv |-> 9, C1 |-> 10, OrC1 |-> 11, C2 |-> 12, OrC2 |-> 13, Nand |-> 14, Set |-> 15]

AluBoolean(f, a, b) ==
  CASE f = Boole.Clear -> LowWord(0)
    [] f = Boole.And -> LowWord(And(a, b))
    [] f = Boole.AndC1 -> LowWord(AndC(b, a))
    [] f = Boole.Two -> LowWord(b)
    [] f = Boole.AndC2 -> LowWord(AndC(a, b))
    [] f = Boole.One -> LowWord(a)
    [] f = Boole.Xor -> LowWord(Xor(a, b))
    [] f = Boole.Ior -> LowWord(Ior(a, b))
    [] f = Boole.Nor -> Complement(Ior(a, b))
    [] f = Boole.Equiv -> Complement(Xor(a, b))
    [] f = Boole.C1 -> Complement(a)
    [] f = Boole.OrC1 -> Complement(AndC(a, b))
    [] f = Boole.C2 -> Complement(b)
    [] f = Boole.OrC2 -> LowWord(AndC(a, b))
    [] f = Boole.Nand -> LowWord(And(a, b))
    [] OTHER -> Complement(0)

\* A byte of size + 1 bits of the rotated operand over a background.
Rotate(n, k) == ((n * 2^k) % 2^Bits) + ((n * 2^k) \div 2^Bits)
ByteMask(size, rotate) == Trunc((2^(size + 1) - 1) * 2^rotate)
AluByte(c, a, b) ==
  LET background == CASE c.f % 4 = 0 -> a
                      [] c.f % 4 = 1 -> reg.latch
                      [] c.f % 4 = 2 -> 0
                      [] OTHER -> 3
      mask == ByteMask(c.size, IF c.f \div 8 = 0 THEN c.rotate ELSE 0)
  IN  LowWord(And(Rotate(b, c.rotate), mask) + AndC(background, mask))

\* The adder works on operands that are not sign-extended.
AdderOp2(c, b) ==
  CASE (c.f \div 2) % 4 = 0 -> b
    [] (c.f \div 2) % 4 = 1 -> 0
    [] (c.f \div 2) % 4 = 2 -> Trunc(-Signed(b))
    [] OTHER -> 2^Bits - 1
AluAdder(c, a, b) ==
  LET sum == a + AdderOp2(c, b) + (c.f % 2)
  IN  [lo |-> Trunc(sum), high |-> sum \div 2^Bits, negative |-> FALSE]

AluResult(c, a, b) ==
  CASE c.op = 0 -> AluBoolean(c.f, a, b)
    [] c.op = 1 -> AluByte(c, a, b)
    [] OTHER -> AluAdder(c, a, b)

\* What an operation leaves in the registers beside its result.  Overflow is
\* the exclusive or of the two highest bits of the sum, and the carry above.
AluRegisters(c, a, b) ==
  LET r == AluResult(c, a, b)
      op2 == AdderOp2(c, b)
      carry == r.high % 2
  IN  CASE c.op = 1 /\ (c.f \div 4) % 2 = 1 -> [reg EXCEPT !.latch = Rotate(b, c.rotate), !.overflow = 0]
        [] c.op = 2 -> [reg EXCEPT
                          !.overflow = 2 * carry + (IF (r.lo >= 2^(Bits - 1)) # (carry = 1) THEN 1 ELSE 0),
                          !.borrow = a < op2,
                          !.lessthan = Signed(a) < op2,
                          !.alu.f = IF c.load THEN @ - (@ % 2) + carry ELSE @]
        [] OTHER -> [reg EXCEPT !.overflow = 0]

DoAlu(o) ==
  LET w == Value(o)
      x == Rest(o)[Len(Rest(o))]
      c == reg.alu
  IN  /\ Begin /\ Deep(o, 1)
      /\ CASE ~IsFixnum(w) \/ ~IsFixnum(x) -> PreTrap(IllegalOperand(80, 0))
           [] IsFixnum(w) /\ IsFixnum(x) /\ c.op = 3 ->
                /\ trap' = IllegalOperand(38, 0) /\ reg' = [reg EXCEPT !.overflow = 0]
                /\ UNCHANGED <<mem, stk, bar>>
           [] OTHER -> /\ stk' = Replace(Rest(o), [x EXCEPT !.data = AluResult(c, x.data, w.data).lo])
                       /\ reg' = AluRegisters(c, x.data, w.data)
                       /\ UNCHANGED <<mem, trap, bar>>

---------------------------------------------------------------------------
(* Blocks through the ALU. *)

\* blockreadshift always deposits a byte over the rotate latch and keeps the
\* rotated word there.
BlockReadShift(i, m) ==
  LET c == [reg.alu EXCEPT !.op = 1, !.f = 5]
      Got(r) == IF ~Ok(r) THEN PreTrap(r.trap)
                ELSE /\ BlockAdvance(i, m, r.vma)
                     /\ Len(stk) < MaxStack
                     /\ stk' = Push(stk, [BlockCdr(m, r.word) EXCEPT !.data = AluByte(c, 0, r.word.data).lo])
                     /\ reg' = [reg EXCEPT !.latch = Rotate(r.word.data, c.rotate)]
                     /\ UNCHANGED <<mem, trap>>
  IN  Begin /\ Got(BlockWord(i, m))
DoBlock1ReadShift(m) == BlockReadShift(1, m)
DoBlock2ReadShift(m) == BlockReadShift(2, m)
DoBlock3ReadShift(m) == BlockReadShift(3, m)

\* blockreadalu: the word of the stack is operand and result; the register is
\* advanced before the ALU turns an operation down.
NoAlu == trap' = IllegalOperand(38, 0) /\ reg' = [reg EXCEPT !.overflow = 0] /\ UNCHANGED stk
ReadAlu(i, o, x, r) ==
  CASE ~Ok(r) -> PreTrap(r.trap)
    [] Ok(r) /\ ~IsFixnum(r.word) -> PreTrap(IllegalOperand(23, r.vma))
    [] OTHER ->
         /\ bar' = [bar EXCEPT ![i] = Trunc(r.vma + 1)]
         /\ UNCHANGED mem
         /\ IF reg.alu.op = 3 THEN NoAlu
            ELSE /\ stk' = [stk EXCEPT ![Index(o)].data = AluResult(reg.alu, r.word.data, x.data).lo]
                 /\ reg' = AluRegisters(reg.alu, r.word.data, x.data)
                 /\ UNCHANGED trap
BlockReadAlu(i, o) ==
  /\ Begin
  /\ IF IsFixnum(stk[Index(o)]) THEN ReadAlu(i, o, stk[Index(o)], MemoryReadData(bar[i]))
     ELSE PreTrap(IllegalOperand(23, StackVMA(Index(o))))
DoBlock1ReadAlu(o) == BlockReadAlu(1, o)
DoBlock2ReadAlu(o) == BlockReadAlu(2, o)
DoBlock3ReadAlu(o) == BlockReadAlu(3, o)

\* The conditions that are written; the result is tested in all its 64 bits.
Condition == [SignedLessThanOrEqual |-> 0, SignedLessThan |-> 1, Negative |-> 2, SignedOverflow |-> 3,
              UnsignedLessThanOrEqual |-> 4, UnsignedLessThan |-> 5, Zero |-> 6, High25Zero |-> 7, Eq |-> 8,
              ResultCdrLow |-> 15]
Written == 0 .. 8 \cup {15}
IsZero(r) == r.lo = 0 /\ r.high = 0
ComputeCondition(c, g, w, x, r) ==
  CASE c = Condition.SignedLessThanOrEqual -> g.lessthan \/ IsZero(r)
    [] c = Condition.SignedLessThan -> g.lessthan
    [] c = Condition.Negative -> r.negative
    [] c = Condition.SignedOverflow -> g.overflow # 0
    [] c = Condition.UnsignedLessThanOrEqual -> g.borrow \/ IsZero(r)
    [] c = Condition.UnsignedLessThan -> g.borrow
    [] c = Condition.Zero -> IsZero(r)
    [] c = Condition.High25Zero -> r.high = 0 /\ r.lo \div 2^(Bits - 3) = 0
    [] c = Condition.Eq -> IsZero(r) /\ w.type = x.type
    [] OTHER -> w.cdr % 2 = 1

\* blockreadtest: if the condition is met it jumps to the address below the
\* top and the register stays where it was.
TestCondition(i, m, v, w, result, registers) ==
  /\ reg' = registers /\ UNCHANGED <<mem, stk>>
  /\ IF reg.alu.cond \notin Written THEN trap' = IllegalOperand(38, 0) /\ UNCHANGED bar
     ELSE /\ UNCHANGED trap
          /\ IF ComputeCondition(reg.alu.cond, registers, w, TOS, result) # reg.alu.sense
             THEN UNCHANGED bar ELSE BlockAdvance(i, m, v)
ReadTest(i, m, r, w) ==
  CASE ~Ok(r) -> PreTrap(r.trap)
    [] Ok(r) /\ m.fixnumOnly /\ ~IsFixnum(TOS) -> PreTrap(IllegalOperand(23, StackVMA(SP)))
    [] OTHER -> IF reg.alu.op = 3 THEN NoAlu /\ UNCHANGED <<mem, bar>>
                ELSE TestCondition(i, m, r.vma, w, AluResult(reg.alu, w.data, TOS.data),
                                   AluRegisters(reg.alu, w.data, TOS.data))
BlockReadTest(i, m) ==
  LET Got(r) == ReadTest(i, m, r, BlockCdr(m, r.word))
  IN  Begin /\ SP > LP /\ Got(BlockWord(i, m))
DoBlock1ReadTest(m) == BlockReadTest(1, m)
DoBlock2ReadTest(m) == BlockReadTest(2, m)
DoBlock3ReadTest(m) == BlockReadTest(3, m)

---------------------------------------------------------------------------
\* memory-read, and memory-read-address, whose result is the address after
\* forwarding with the type of the argument.
DoMemoryRead(m, address) ==
  LET Got(r) ==
        CASE ~Ok(r) -> PreTrap(r.trap)
          [] Ok(r) /\ m.fixnumOnly /\ ~IsFixnum(r.word) -> PreTrap(IllegalOperand(5, 0))
          [] OTHER -> Continue(Replace(stk, BlockCdr(m, IF address THEN [TOS EXCEPT !.data = r.vma] ELSE r.word)))
  IN  Begin /\ SP > LP /\ Got(MemoryReadGeneral(m.cycle, TOS.data))
=============================================================================
