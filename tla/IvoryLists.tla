----------------------------- MODULE IvoryLists -----------------------------
(***************************************************************************)
(* Lists: the cdr of a cell is in its cdr code (the next word, nil, or the *)
(* contents of the next word), and a cell may be forwarded.  ifunlist.c,   *)
(* the list instructions of ifuncom1.c, ifuncom2.c and ifunfcal.c, and the *)
(* logic variables of ifunjosh.c.                                          *)
(***************************************************************************)
EXTENDS IvoryMachine

CONSTANT MaxCells    \* bound on the cells a search looks at

CarInternal(w) ==
  CASE w.type \in {Type.List, Type.Locative} -> MemoryReadData(w.data)
    [] w.type = Type.NIL -> Return(NilWord)
    [] OTHER -> ListException(w, 1)

\* The cdr of the cell whose first word is c.word, at c.vma.
CdrByCode(c) ==
  CASE c.word.cdr = Cdr.Next -> Return(W(Type.List, Trunc(c.vma + 1)))
    [] c.word.cdr = Cdr.Normal -> MemoryReadData(Trunc(c.vma + 1))
    [] c.word.cdr = Cdr.Nil -> Return(NilWord)
    [] OTHER -> Raise(IllegalOperand(15, c.vma))

CdrInternal(w) ==
  CASE w.type = Type.List -> Then(MemoryReadCdr(w.data), CdrByCode)
    [] w.type = Type.Locative -> MemoryReadData(w.data)
    [] w.type = Type.NIL -> Return(NilWord)
    [] OTHER -> ListException(w, 1)

\* One read gives car and cdr code, unless the car is forwarded: the cdr code
\* is then found with a cycle of its own.
CarCdr(car, cdr) == [car |-> car.word, cdr |-> cdr.word, trap |-> IF Ok(car) THEN cdr.trap ELSE car.trap]
CdrAfterCar(w, car) == IF car.vma = w.data THEN car ELSE MemoryReadCdr(w.data)
CarCdrInternal(w) ==
  LET After(car) == CarCdr(car, Then(CdrAfterCar(w, car), CdrByCode))
  IN  CASE w.type = Type.List -> After(MemoryReadData(w.data))
        [] w.type = Type.NIL -> CarCdr(Return(NilWord), Return(NilWord))
        [] OTHER -> CarCdr(ListException(w, 1), Return(NilWord))

Pushed(r) == IF Ok(r) THEN Return(Uncdr(r.word)) ELSE r

DoCar(o) == Unary(o, Value(o), Pushed(CarInternal(Value(o))))
DoCdr(o) == Unary(o, Value(o), Pushed(CdrInternal(Value(o))))

\* The operand is replaced and keeps its cdr code.
SetTo(o, r) ==
  LET w == stk[Index(o)]
  IN  Begin /\ IF Ok(r) THEN Continue([stk EXCEPT ![Index(o)] = WithCdr(r.word, w.cdr)])
               ELSE Fail(o, W(Type.Locative, StackVMA(Index(o))), r.trap)
DoSetToCar(o) == SetTo(o, CarInternal(stk[Index(o)]))
DoSetToCdr(o) == SetTo(o, CdrInternal(stk[Index(o)]))

\* Of a locative: the word with its own cdr code goes to both places.
SetToCdrPushCarLocative(o, r) ==
  IF Ok(r) THEN Continue(Push([stk EXCEPT ![Index(o)] = r.word], r.word)) ELSE PreTrap(r.trap)
SetToCdrPushCar(o, w, r) ==
  IF Ok(r) THEN Continue(Push([stk EXCEPT ![Index(o)] = WithCdr(r.cdr, w.cdr)], Uncdr(r.car)))
  ELSE Fail(o, W(Type.Locative, StackVMA(Index(o))), r.trap)

DoSetToCdrPushCar(o) ==
  LET w == stk[Index(o)]
  IN  /\ Begin
      /\ IF w.type = Type.Locative THEN SetToCdrPushCarLocative(o, MemoryReadData(w.data))
         ELSE SetToCdrPushCar(o, w, CarCdrInternal(w))

---------------------------------------------------------------------------
(* rplaca and rplacd: the cell is below the new value. *)
Cell(o) == Rest(o)[Len(Rest(o))]

RplacStore(o, v) ==
  StoreContents(o, Value(o), Front(Rest(o)), MemoryWriteCycle("DataWrite", v), Value(o))

DoRplaca(o) ==
  /\ Begin /\ Deep(o, 1)
  /\ IF Cell(o).type \in {Type.List, Type.Locative} THEN RplacStore(o, Cell(o).data)
     ELSE Fail(o, Value(o), ListException(Cell(o), 2).trap)

\* Only a cell with a cdr word can be changed.
RplacdCell(o, c) ==
  CASE ~Ok(c) -> Fail(o, Value(o), c.trap)
    [] Ok(c) /\ c.word.cdr = Cdr.Normal -> RplacStore(o, Trunc(c.vma + 1))
    [] OTHER -> Fail(o, Value(o), Exception(2).trap)

DoRplacd(o) ==
  /\ Begin /\ Deep(o, 1)
  /\ CASE Cell(o).type = Type.Locative -> RplacStore(o, Cell(o).data)
       [] Cell(o).type = Type.List -> RplacdCell(o, MemoryReadCdr(Cell(o).data))
       [] OTHER -> Fail(o, Value(o), ListException(Cell(o), 2).trap)

---------------------------------------------------------------------------
(* Searches.  Objects that eql does not compare by word are left to Lisp. *)
EqNotEqlObject(x) == x.type \in Type.DoubleFloat .. Type.SpareNumber

\* The first tail of w, no further than MaxCells cells, at which Stop holds;
\* Skip is the tail to go on with.
Search(w, Stop(_), Skip(_)) ==
  LET At(r) == IF ~Ok(r) \/ r.word.type = Type.NIL \/ Stop(r.word) THEN r ELSE Skip(r.word)
      Go[n \in 0 .. MaxCells] == IF n = 0 THEN Return(w) ELSE At(Go[n - 1])
  IN  Go[MaxCells]
CdrOf(w) ==
  LET Remaining(r) == IF Ok(r) THEN Return(Uncdr(r.cdr)) ELSE Raise(r.trap)
  IN  Remaining(CarCdrInternal(w))
CarIs(r, x) == Ok(r) /\ SameObject(r.car, x)
Found(w) == w.type # Type.NIL

\* member: the tail whose car is the object.
MemberOf(x, w) == Search(w, LAMBDA t : CarIs(CarCdrInternal(t), x), CdrOf)

DoMember(o) ==
  Binary(o, Unsigned(o),
         IF EqNotEqlObject(Cell(o)) THEN Exception(2) ELSE MemberOf(Cell(o), Uncdr(Unsigned(o))))

\* assoc: the element whose car is the object; an element that is neither a
\* list nor nil is an error.
ElementKey(r) ==
  CASE ~Ok(r) -> Raise(r.trap)
    [] Ok(r) /\ r.car.type = Type.List -> MemoryReadData(r.car.data)
    [] Ok(r) /\ r.car.type = Type.NIL -> Return(NilWord)
    [] OTHER -> Illegal(14)
KeyOf(t) == ElementKey(CarCdrInternal(t))
KeyIs(r, k, x) == CarIs([r EXCEPT !.car = k.word], x) /\ Ok(k) /\ r.car.type = Type.List
AssocOf(x, w) ==
  LET Stop(t) == KeyIs(CarCdrInternal(t), KeyOf(t), x)
      Skip(t) == IF Ok(KeyOf(t)) THEN CdrOf(t) ELSE Raise(KeyOf(t).trap)
      Element(tail) == IF Ok(tail) /\ Found(tail.word) THEN Pushed(CarInternal(tail.word)) ELSE tail
  IN  Element(Search(w, Stop, Skip))

DoAssoc(o) ==
  Binary(o, Unsigned(o),
         IF EqNotEqlObject(Cell(o)) THEN Exception(2) ELSE AssocOf(Cell(o), Uncdr(Unsigned(o))))

\* rgetf: the value after the key, and the tail that begins with the value.
AfterValue(r) == IF Ok(r) THEN Pushed(CdrInternal(Uncdr(r.cdr))) ELSE Raise(r.trap)
RgetfOf(x, w) == Search(w, LAMBDA t : CarIs(CarCdrInternal(t), x), LAMBDA t : AfterValue(CarCdrInternal(t)))

RgetfValue(o, rest, value) ==
  CASE rest.cdr.type = Type.NIL -> Fail(o, Unsigned(o), Exception(2).trap)
    [] rest.cdr.type # Type.NIL /\ ~Ok(value) -> Fail(o, Unsigned(o), value.trap)
    [] OTHER -> Continue(Push(Replace(Rest(o), Uncdr(value.word)), Uncdr(rest.cdr)))
RgetfFound(o, rest) == RgetfValue(o, rest, CarInternal(Uncdr(rest.cdr)))
RgetfEnd(o, tail) ==
  CASE ~Ok(tail) -> Fail(o, Unsigned(o), tail.trap)
    [] Ok(tail) /\ ~Found(tail.word) -> Continue(Push(Replace(Rest(o), NilWord), NilWord))
    [] OTHER -> RgetfFound(o, CarCdrInternal(tail.word))

DoRgetf(o) ==
  /\ Begin /\ Deep(o, 1)
  /\ IF EqNotEqlObject(Cell(o)) THEN Fail(o, Unsigned(o), Exception(2).trap)
     ELSE RgetfEnd(o, RgetfOf(Cell(o), Uncdr(Unsigned(o))))

---------------------------------------------------------------------------
(* Logic variables. *)
DoDereference(o) ==
  LET w == Value(o)
  IN  Unary(o, w, CASE w.type \in Forwards \cup {Type.ExternalValueCellPointer} -> Pushed(MemoryReadData(w.data))
                    [] w.type = Type.LogicVariable -> Return(W(Type.ExternalValueCellPointer, w.data))
                    [] OTHER -> Return(Uncdr(w)))

\* Not written yet, as the code says.
DoUnify(o) == Begin /\ PreTrap(IllegalOperand(38, 0))

\* The variable is an invisible pointer to itself on the structure stack,
\* whose pointer is BAR 2.  The register is advanced from the word written.
PushGlobalLogicVariable(c) ==
  IF Ok(c) THEN /\ Len(stk) < MaxStack
                /\ stk' = Push(stk, W(Type.ExternalValueCellPointer, bar[2]))
                /\ mem' = HeapWith(c.vma, WithCdr(W(Type.ExternalValueCellPointer, c.vma), c.word.cdr))
                /\ bar' = [bar EXCEPT ![2] = Trunc(c.vma + 1)]
                /\ UNCHANGED <<trap, reg>>
  ELSE PreTrap(c.trap)
DoPushGlobalLogicVariable == Begin /\ PushGlobalLogicVariable(MemoryWriteCycle("DataWrite", bar[2]))

DoLogicTailTest(o) ==
  LET w == Value(o)
  IN  Unary(o, w, CASE w.type \in {Type.List, Type.ListInstance} -> Return(NilWord)
                    [] w.type = Type.ExternalValueCellPointer -> Return(TWord)
                    [] OTHER -> Exception(1))
=============================================================================
