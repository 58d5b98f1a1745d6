----------------------------- MODULE IvoryMoves -----------------------------
(***************************************************************************)
(* Data movement within the stack, tags, and the predicates on types:      *)
(* parts of ifuncom1.c, ifuncom2.c, ifunpred.c, and ifunmove.c.            *)
(***************************************************************************)
EXTENDS IvoryMachine

\* push: the value always gets the cdr code next.
DoPush(o) == Begin /\ Continue(Push(Rest(o), Uncdr(Unsigned(o))))

DoPushImmediateHandler(n) == Begin /\ Continue(Push(stk, Fixnum(n)))

\* pop and movem store all of the top, cdr code included.
DoPop(o) ==
  /\ Begin /\ Deep(o, 1)
  /\ Continue(Front([stk EXCEPT ![Index(o)] = TOS]))

DoMovem(o) == Begin /\ Deep(o, 1) /\ Continue([stk EXCEPT ![Index(o)] = TOS])

DoPushAddress(o) == Begin /\ Continue(Push(stk, W(Type.Locative, StackVMA(Index(o)))))

DoSetSpToAddress(o) == Begin /\ Index(o) >= LP /\ Continue(SubSeq(stk, 1, Index(o)))

DoSetSpToAddressSaveTos(o) ==
  /\ Begin /\ Index(o) >= LP
  /\ Continue(Replace(SubSeq(stk, 1, Index(o)), TOS))

\* A fixnum gives the whole tag, cdr code and type.
DoSetTag(o) ==
  LET w == Unsigned(o)
      arg == Rest(o)[Len(Rest(o))]
  IN  Binary(o, w, IF IsFixnum(w)
                   THEN Return([type |-> w.data % 64, cdr |-> (w.data \div 64) % 4, data |-> arg.data])
                   ELSE Illegal(63))

\* The tag that is pushed has the cdr code above the type.
DoTag(o) == Begin /\ Continue(Push(Rest(o), Fixnum(64 * Unsigned(o).cdr + Unsigned(o).type)))

DoMergeCdrNoPop(o) ==
  Begin /\ Deep(o, 1) /\ Continue([stk EXCEPT ![Index(o)].cdr = TOS.cdr])

DoPushNNils(o) ==
  LET w == Unsigned(o)
  IN  /\ Begin
      /\ IF IsFixnum(w) THEN Continue(Rest(o) \o [i \in 1 .. w.data |-> NilWord])
         ELSE PreTrap(IllegalOperand(63, 0))

\* Relative to SP as it was before the operand was popped.
DoPushAddressSpRelative(o) ==
  LET w == Unsigned(o)
  IN  Unary(o, w, IF IsFixnum(w) THEN Return(W(Type.Locative, Trunc(StackVMA(SP) - w.data - 1)))
                  ELSE Illegal(63))

\* The words from the source to SP move down to the destination, lowest
\* first, and SP with them.
StackBlt(s, from, to) ==
  LET n == Len(s) - from
  IN  [i \in 1 .. to + n |-> IF i < to THEN s[i] ELSE s[from + i - to]]

DoStackBlt(o) ==
  LET rest == Rest(o)
      to == StackIndex(rest[Len(rest)].data)
      from == StackIndex(Unsigned(o).data)
  IN  /\ Begin /\ Deep(o, 1)
      /\ from \in to .. Len(rest) - 1
      /\ IF to >= LP THEN Continue(StackBlt(Front(rest), from, to))
         ELSE to < 1 /\ PreTrap(IllegalOperand(73, 0))

DoStackBltAddress(o) ==
  LET to == StackIndex(TOS.data)
  IN  /\ Begin /\ Deep(o, 1)
      /\ Index(o) \in to .. SP - 1
      /\ IF to >= LP THEN Continue(StackBlt(Front(stk), Index(o), to))
         ELSE to < 1 /\ PreTrap(IllegalOperand(73, 0))

---------------------------------------------------------------------------
DoEq(o, noPop) ==
  LET rest == Rest(o)
  IN  Predicate(o, Unsigned(o), Return(Bool(SameObject(rest[Len(rest)], Unsigned(o)))), noPop)

DoEqImmediateHandler(n, noPop) ==
  Predicate([mode |-> "imm", n |-> n], NilWord,
            Return(Bool(SameObject(TOS, Fixnum(SignedImmediate(n))))), noPop)

\* eql: numbers that are compared by value and not by word are left to Lisp.
EqNotEql == Type.DoubleFloat .. Type.SpareNumber

DoEql(o, noPop) ==
  LET rest == Rest(o)
      w == Value(o)
      x == rest[Len(rest)]
  IN  Predicate(o, w, IF ~SameObject(x, w) /\ x.type = w.type /\ x.type \in EqNotEql
                      THEN Exception(2) ELSE Return(Bool(SameObject(x, w))), noPop)

DoEndp(o) ==
  LET w == Unsigned(o)
  IN  Unary(o, w, CASE w.type = Type.NIL -> Return(TWord)
                    [] w.type \in {Type.List, Type.ListInstance} -> Return(NilWord)
                    [] OTHER -> Illegal(64))

\* The ten bits of the instruction are four types and a field of types.
DoTypeMember(types, noPop) ==
  Predicate([mode |-> "sp", n |-> 0], NilWord, Return(Bool(TOS.type \in types)), noPop)
=============================================================================
