-------------------------- MODULE IvoryArithmetic --------------------------
(***************************************************************************)
(* Arithmetic, comparisons, shifts and bignum steps: ifunmath.c,           *)
(* ifunbits.c, ifunbnum.c, ifunpred.c, idouble.c and the arithmetic of     *)
(* ifuncom1.c and ifuncom2.c.                                              *)
(*                                                                         *)
(* Fixnums are exact.  A single float is ordered by its datum; what the    *)
(* floating-point unit computes is any float.  A double float is the       *)
(* address of two fixnums; results are allocated from the list cache.      *)
(***************************************************************************)
EXTENDS IvoryMachine

MostPositive == 2^(Bits - 1) - 1
MostNegative == -2^(Bits - 1)
Fits(n) == n \in MostNegative .. MostPositive
IntOf(w) == Signed(w.data)

Arg1(o) == Rest(o)[Len(Rest(o))]
Single == {W(Type.SingleFloat, d) : d \in {0, 1}}
Numbers == {Type.Fixnum, Type.SingleFloat, Type.DoubleFloat}

---------------------------------------------------------------------------
(* Doubles. *)

\* fetchdoublefloat: both halves must be fixnums.
FetchDoubleFloat(v) ==
  LET Second(lo) == IF IsFixnum(lo.word) THEN lo ELSE Exception(2)
      First(hi) == IF IsFixnum(hi.word) THEN Then(MemoryReadData(Trunc(v + 1)), Second) ELSE Exception(2)
  IN  Then(MemoryReadData(v), First)

\* consdoublefloat: the list cache is advanced before the words are stored,
\* so a store that faults is repeated at the next two words.
ConsDoubleFloat(o, w, s, hi, lo) ==
  IF reg.lcarea = NilWord \/ reg.lclength < 2 THEN Fail(o, w, Exception(2).trap)
  ELSE LET a == reg.lcaddress
           next == [reg EXCEPT !.lclength = @ - 2, !.lcaddress = @ + 2]
           first == WithCdr(Fixnum(hi), Cdr.Normal)
           second == WithCdr(Fixnum(lo), Cdr.Nil)
       IN  /\ reg' = next
           /\ UNCHANGED bar
           /\ CASE WriteFaults(a) -> trap' = DecodeFault(a) /\ UNCHANGED <<mem, stk>>
                [] ~WriteFaults(a) /\ WriteFaults(a + 1) ->
                     /\ trap' = DecodeFault(a + 1) /\ mem' = HeapWith(a, first) /\ UNCHANGED stk
                [] OTHER -> /\ mem' = [mem EXCEPT ![a] = first, ![a + 1] = second]
                            /\ stk' = Replace(s, W(Type.DoubleFloat, a))
                            /\ UNCHANGED trap

\* The double arguments of an instruction, or the first trap of theirs.
FetchArguments(x, y) ==
  LET First == IF x.type = Type.DoubleFloat THEN FetchDoubleFloat(x.data) ELSE Return(x)
      Second(r) == IF y.type = Type.DoubleFloat THEN FetchDoubleFloat(y.data) ELSE Return(y)
  IN  Then(First, Second)

\* One arithmetic operation with the contagion of its arguments' types.
FixnumResult(o, w, n) ==
  IF Fits(n) THEN Continue(Replace(Rest(o), Fixnum(n))) ELSE Fail(o, w, Exception(2).trap)
SingleResult(o) == \E f \in Single : Continue(Replace(Rest(o), f))
DoubleResult(o, w, fetched) ==
  IF Ok(fetched) THEN \E d \in {0, 1} : ConsDoubleFloat(o, w, Rest(o), d, 0) ELSE Fail(o, w, fetched.trap)
BinaryOf(o, x, w, Op(_, _)) ==
  LET types == {x.type, w.type}
  IN  CASE types = {Type.Fixnum} -> FixnumResult(o, w, Op(IntOf(x), IntOf(w)))
        [] types \subseteq {Type.Fixnum, Type.SingleFloat} /\ Type.SingleFloat \in types -> SingleResult(o)
        [] types \subseteq Numbers /\ Type.DoubleFloat \in types -> DoubleResult(o, w, FetchArguments(x, w))
        [] OTHER -> Fail(o, w, NumericException(IF x.type \in Numbers THEN w ELSE x, 2).trap)
BinaryArithmetic(o, w, Op(_, _)) == Begin /\ Deep(o, 1) /\ BinaryOf(o, Arg1(o), w, Op)

Plus(a, b) == a + b
Minus(a, b) == a - b
Times(a, b) == a * b

DoAdd(o) == BinaryArithmetic(o, Value(o), Plus)
DoSub(o) == BinaryArithmetic(o, Unsigned(o), Minus)
DoMultiply(o) == BinaryArithmetic(o, Value(o), Times)

---------------------------------------------------------------------------
(* Division. *)

\* binaryarithmeticdivisionprelude: the arguments as floats and the type of
\* the result, which DoubleFloat and SingleFloat determine before Fixnum.
DivisionPrelude(x, y) ==
  IF {x.type, y.type} \subseteq Numbers THEN FetchArguments(x, y)
  ELSE NumericException(IF x.type \in Numbers THEN y ELSE x, 2)
DivisionType(x, y) ==
  CASE Type.DoubleFloat \in {x.type, y.type} -> Type.DoubleFloat
    [] Type.SingleFloat \in {x.type, y.type} -> Type.SingleFloat
    [] OTHER -> Type.Fixnum

Abs(n) == IF n < 0 THEN -n ELSE n
Sign(n) == IF n < 0 THEN -1 ELSE IF n = 0 THEN 0 ELSE 1
TruncateOf(a, b) == Sign(a) * Sign(b) * (Abs(a) \div Abs(b))
FloorOf(a, b) == (a * Sign(b)) \div Abs(b)
CeilingOf(a, b) == -FloorOf(-a, b)
RoundOf(a, b) ==
  LET q == FloorOf(a, b)
      twice == 2 * Abs(a - q * b)
  IN  IF twice < Abs(b) \/ (twice = Abs(b) /\ q % 2 = 0) THEN q ELSE q + 1

\* The host's conversion of what a double cannot hold as an integer
\* saturates; a division by zero gives an infinity or no number.
Saturated(n) == IF n > MostPositive THEN MostPositive ELSE IF n < MostNegative THEN MostNegative ELSE n
Divide(a, b, Op(_, _)) ==
  IF b = 0 THEN [q |-> Sign(a) * 2^Bits, r |-> 0]
  ELSE [q |-> Op(a, b), r |-> a - Op(a, b) * b]

\* quotient converts to 64 bits first and drops the high half.
WideConvert(a, b) == IF b # 0 THEN TruncateOf(a, b)
                     ELSE IF a > 0 THEN 2^(2 * Bits - 1) - 1 ELSE IF a < 0 THEN -2^(2 * Bits - 1) ELSE 0

QuotientOf(o, x, w, r, fixnum) ==
  CASE ~Ok(r) -> Fail(o, w, r.trap)
    [] Ok(r) /\ DivisionType(x, w) = Type.Fixnum ->
         IF Ok(fixnum) THEN Continue(Replace(Rest(o), fixnum.word)) ELSE Fail(o, w, fixnum.trap)
    [] Ok(r) /\ DivisionType(x, w) = Type.SingleFloat -> SingleResult(o)
    [] OTHER -> DoubleResult(o, w, r)
QuotientResult(o, w, fixnum) ==
  Begin /\ Deep(o, 1) /\ QuotientOf(o, Arg1(o), w, DivisionPrelude(Arg1(o), w), fixnum)

DoQuotient(o) ==
  QuotientResult(o, Value(o), Return(Fixnum(WideConvert(IntOf(Arg1(o)), IntOf(Value(o))))))

DoRationalQuotient(o) ==
  LET a == IntOf(Arg1(o))
      b == IntOf(Value(o))
  IN  QuotientResult(o, Value(o),
        IF b = 0 \/ (a = MostNegative /\ b = -1) \/ TruncateOf(a, b) * b # a THEN Exception(2)
        ELSE Return(Fixnum(TruncateOf(a, b))))

\* floor and its relatives push the quotient and the remainder.
Quotients == {Fixnum(n) : n \in {0, MostPositive}}
TwoResults(o, q, r) == Continue(Push(Replace(Rest(o), q), r))
TwoOf(o, x, w, r, d) ==
  CASE ~Ok(r) -> Fail(o, w, r.trap)
    [] Ok(r) /\ DivisionType(x, w) = Type.Fixnum -> TwoResults(o, Fixnum(Saturated(d.q)), Fixnum(d.r))
    [] Ok(r) /\ DivisionType(x, w) = Type.SingleFloat -> \E q \in Quotients, f \in Single : TwoResults(o, q, f)
    [] OTHER -> /\ Len(stk) < MaxStack
                /\ \E q \in Quotients : ConsDoubleFloat(o, w, Push(Replace(Rest(o), q), q), 0, 0)
TwoValued(o, Op(_, _)) ==
  /\ Begin /\ Deep(o, 1)
  /\ TwoOf(o, Arg1(o), Value(o), DivisionPrelude(Arg1(o), Value(o)),
           Divide(IntOf(Arg1(o)), IntOf(Value(o)), Op))

DoFloor(o) == TwoValued(o, FloorOf)
DoCeiling(o) == TwoValued(o, CeilingOf)
DoTruncate(o) == TwoValued(o, TruncateOf)
DoRound(o) == TwoValued(o, RoundOf)

---------------------------------------------------------------------------
(* Unary arithmetic and comparisons. *)

\* The immediate form negates the unsigned immediate.
DoUnaryMinus(o) ==
  LET w == Unsigned(o)
  IN  \/ w.type = Type.SingleFloat /\ \E f \in Single : Unary(o, w, Return(f))
      \/ /\ w.type # Type.SingleFloat
         /\ Unary(o, w, IF IsFixnum(w) /\ IntOf(w) # MostNegative THEN Return(Fixnum(-IntOf(w)))
                        ELSE UnaryNumericException(w, 1))

\* increment and decrement change their operand in place.
Step(o, n, limit) ==
  LET w == stk[Index(o)]
  IN  /\ Begin
      /\ CASE IsFixnum(w) /\ IntOf(w) # limit -> Continue([stk EXCEPT ![Index(o)].data = Trunc(@ + n)])
           [] w.type = Type.SingleFloat -> \E d \in {0, 1} : Continue([stk EXCEPT ![Index(o)].data = d])
           [] OTHER -> Fail(o, W(Type.Locative, StackVMA(Index(o))), UnaryNumericException(w, 1).trap)

DoIncrement(o) == Step(o, 1, MostPositive)
DoDecrement(o) == Step(o, -1, MostNegative)

Compare(o, Op(_, _), noPop) ==
  LET x == Arg1(o)
      w == Value(o)
  IN  Predicate(o, w,
        IF {x.type, w.type} \subseteq {Type.Fixnum, Type.SingleFloat} THEN Return(Bool(Op(IntOf(x), IntOf(w))))
        ELSE NumericException(IF x.type \in {Type.Fixnum, Type.SingleFloat} THEN w ELSE x, 2), noPop)

Equal(a, b) == a = b
Less(a, b) == a < b
Greater(a, b) == a > b

DoEqualNumber(o, noPop) == Compare(o, Equal, noPop)
DoLessp(o, noPop) == Compare(o, Less, noPop)
DoGreaterp(o, noPop) == Compare(o, Greater, noPop)

TestNumber(o, Op(_, _)) ==
  Unary(o, Value(o), IF Value(o).type \in {Type.Fixnum, Type.SingleFloat}
                     THEN Return(Bool(Op(IntOf(Value(o)), 0))) ELSE UnaryNumericException(Value(o), 1))
DoZerop(o) == TestNumber(o, Equal)
DoMinusp(o) == TestNumber(o, Less)
DoPlusp(o) == TestNumber(o, Greater)

\* max and min of a fixnum and a float are floats.
Extremum(o, Op(_, _)) ==
  LET x == Arg1(o)
      w == Value(o)
      types == {x.type, w.type}
      best == IF Op(IntOf(x), IntOf(w)) THEN x ELSE w
  IN  Binary(o, w,
        IF types \subseteq {Type.Fixnum, Type.SingleFloat}
        THEN Return(W(IF types = {Type.Fixnum} THEN Type.Fixnum ELSE Type.SingleFloat, best.data))
        ELSE NumericException(IF x.type \in {Type.Fixnum, Type.SingleFloat} THEN w ELSE x, 2))
DoMax(o) == Extremum(o, Greater)
DoMin(o) == Extremum(o, Less)

---------------------------------------------------------------------------
(* Bits. *)
Logical(o, Op(_, _)) ==
  LET x == Arg1(o)
      w == Value(o)
  IN  Binary(o, w, CASE ~IsFixnum(x) -> NumericException(x, 2)
                     [] ~IsFixnum(w) -> NumericException(w, 2)
                     [] OTHER -> Return(Fixnum(Op(x.data, w.data))))
DoLogand(o) == Logical(o, And)
DoLogior(o) == Logical(o, Ior)
DoLogxor(o) == Logical(o, Xor)

DoLogtest(o, noPop) ==
  LET x == Arg1(o)
      w == Value(o)
  IN  Predicate(o, w, CASE ~IsFixnum(x) -> NumericException(x, 2)
                        [] ~IsFixnum(w) -> NumericException(w, 2)
                        [] OTHER -> Return(Bool(And(x.data, w.data) # 0)), noPop)

\* ash: the machine's right shift takes the count modulo twice the width.
AshOf(a, n) ==
  IF n > 0 THEN a * 2^n ELSE a \div 2^((-n) % (2 * Bits))

DoAsh(o) ==
  LET x == Arg1(o)
      w == Value(o)
  IN  Binary(o, w,
        CASE ~IsFixnum(w) -> NumericException(w, 2)
          [] IsFixnum(w) /\ ~IsFixnum(x) -> NumericException(x, 2)
          [] IsFixnum(w) /\ IsFixnum(x) ->
               CASE IntOf(x) = 0 -> Return(Fixnum(0))
                 [] IntOf(x) # 0 /\ IntOf(w) > Bits -> Exception(2)
                 [] IntOf(x) # 0 /\ IntOf(w) <= Bits ->
                      IF Fits(AshOf(IntOf(x), IntOf(w))) THEN Return(Fixnum(AshOf(IntOf(x), IntOf(w))))
                      ELSE Exception(2))

\* These keep the tag of their first argument and are modulo 2^Bits.
Fixnums(o, w, n, d) ==
  Binary(o, w, IF IsFixnum(Arg1(o)) /\ IsFixnum(w) THEN Return([Arg1(o) EXCEPT !.data = Trunc(d)])
               ELSE Illegal(n))
DoRot(o) ==
  LET n == Unsigned(o).data % Bits
      a == Arg1(o).data
  IN  Fixnums(o, Unsigned(o), 80, a * 2^n + (a * 2^n) \div 2^Bits)
DoLsh(o) ==
  LET n == IntOf(Value(o))
      a == Arg1(o).data
  IN  Fixnums(o, Value(o), 80, CASE Abs(n) >= Bits -> 0
                                 [] n \in 0 .. Bits - 1 -> a * 2^n
                                 [] OTHER -> a \div 2^(-n))
Do32BitPlus(o) == Fixnums(o, Unsigned(o), 80, Arg1(o).data + Unsigned(o).data)
Do32BitDifference(o) == Fixnums(o, Unsigned(o), 80, Arg1(o).data - Unsigned(o).data)

\* Mutant of DoPointerPlus: the sum is not cut to a word.
PointerPlusUnbounded(o) ==
  /\ Begin /\ Deep(o, 1)
  /\ Continue(Replace(Rest(o), [Arg1(o) EXCEPT !.data = @ + Value(o).data]))
DoPointerPlus(o) ==
  /\ Begin /\ Deep(o, 1)
  /\ Continue(Replace(Rest(o), [Arg1(o) EXCEPT !.data = Trunc(@ + Value(o).data)]))

\* ldb: position and size are in the instruction; its exception has one
\* argument and the operand is on the stack.
LdbOf(d, p, size) ==
  LET rotated == d * 2^p + (d * 2^p) \div 2^Bits
  IN  rotated % 2^size
DoLdb(p, size) ==
  /\ Begin /\ SP > LP
  /\ IF IsFixnum(TOS) THEN Continue(Replace(stk, Fixnum(LdbOf(TOS.data, p, size))))
     ELSE LET r == NumericException(TOS, 1) IN trap' = r.trap /\ UNCHANGED <<mem, stk, bar, reg>>

---------------------------------------------------------------------------
(* Double-length steps.  The results replace the arguments. *)
LeastAndMost(n) == <<Trunc(n), (n \div 2^Bits) % 2^Bits>>

DoMultiplyDouble(o) ==
  LET x == Arg1(o)
      w == Value(o)
      p == LeastAndMost(IntOf(x) * IntOf(w))
  IN  /\ Begin /\ Deep(o, 1)
      /\ IF IsFixnum(x) /\ IsFixnum(w)
         THEN Continue(Push(Replace(Rest(o), [x EXCEPT !.data = p[1]]), Fixnum(p[2])))
         ELSE PreTrap(IllegalOperand(80, 0))

DoMultiplyBignumStep(o) ==
  LET x == Arg1(o)
      w == Unsigned(o)
      p == LeastAndMost(x.data * w.data)
  IN  /\ Begin /\ Deep(o, 1)
      /\ IF IsFixnum(x) /\ IsFixnum(w)
         THEN Continue(Push(Replace(Rest(o), [x EXCEPT !.data = p[1]]), [x EXCEPT !.data = p[2]]))
         ELSE PreTrap(IllegalOperand(80, 0))

\* Three fixnums: two on the stack and the operand; both on the stack are
\* replaced, or the upper one is popped and the lower one replaced.
ThreeFixnums(o, w) ==
  LET s == Rest(o) IN IsFixnum(s[Len(s)]) /\ IsFixnum(s[Len(s) - 1]) /\ IsFixnum(w)
Low(o) == LET s == Rest(o) IN s[Len(s) - 1].data
High(o) == LET s == Rest(o) IN s[Len(s)].data
BignumStep(o, w, r) ==
  LET s == Rest(o)
      n == Len(s)
  IN  /\ Begin /\ Deep(o, 2)
      /\ IF ThreeFixnums(o, w)
         THEN Continue([s EXCEPT ![n - 1] = [s[n - 1] EXCEPT !.data = Trunc(r[1])],
                                 ![n] = [s[n - 1] EXCEPT !.data = Trunc(r[2])]])
         ELSE PreTrap(IllegalOperand(76, 0))

AddBignum(x, y, z) == LeastAndMost(x + y + z)
Borrow(n) == IF n < 0 THEN 1 ELSE 0
\* Two subtractions, each of which may borrow.
SubBignum(x, y, z) ==
  LET After(d) == <<Trunc(Trunc(d) - z), Borrow(d) + Borrow(Trunc(d) - z)>>
  IN  After(x - y)
DoAddBignumStep(o) == BignumStep(o, Unsigned(o), AddBignum(Low(o), High(o), Unsigned(o).data))
DoSubBignumStep(o) == BignumStep(o, Unsigned(o), SubBignum(Low(o), High(o), Unsigned(o).data))

DoDivideBignumStep(o) ==
  LET w == Unsigned(o)
      s == Rest(o)
      n == Len(s)
      dividend == Low(o) + 2^Bits * High(o)
      q == dividend \div w.data
  IN  /\ Begin /\ Deep(o, 2)
      /\ CASE IsFixnum(w) /\ w.data = 0 -> PreTrap(IllegalOperand(2, 0))
           [] ThreeFixnums(o, w) /\ w.data # 0 ->
                Continue([s EXCEPT ![n - 1].data = Trunc(q), ![n].data = dividend - q * w.data])
           [] OTHER -> PreTrap(IllegalOperand(76, 0))

DoLshcBignumStep(o) ==
  LET w == Value(o)
      s == Rest(o)
      both == Low(o) + 2^Bits * High(o)
      n == w.data % (2 * Bits)
      shifted == (both % 2^(2 * Bits - n)) * 2^n
  IN  /\ Begin /\ Deep(o, 2)
      /\ IF ThreeFixnums(o, w)
         THEN Continue(Replace(Front(s), [s[Len(s) - 1] EXCEPT !.data = shifted \div 2^Bits]))
         ELSE PreTrap(IllegalOperand(76, 0))

\* Two doubles as four words become one, and whether it trapped: the host
\* raises no floating-point trap.
DoDoubleFloatOp(o) ==
  LET s == Rest(o)
  IN  /\ Begin /\ Deep(o, 4)
      /\ IF IsFixnum(Unsigned(o))
         THEN \E d \in {0, 1} : Continue(SubSeq(s, 1, Len(s) - 4) \o <<Fixnum(d), Fixnum(0), NilWord>>)
         ELSE PreTrap(IllegalOperand(85, 0))
=============================================================================
