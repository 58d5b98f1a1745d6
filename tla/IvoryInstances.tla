--------------------------- MODULE IvoryInstances ---------------------------
(***************************************************************************)
(* Instance variables (ifuninst.c, DoPushInstanceVariable of ifuncom2.c).  *)
(* A method finds self in FP|3 and, for mapped access, the mapping table   *)
(* of its flavor in FP|2.  An instance may have been moved, so self is     *)
(* followed to its header, once: cdr code 1 of FP|3 says it was.           *)
(***************************************************************************)
EXTENDS IvoryArrays

MapWord == stk[FP + 2]
Self == stk[FP + 3]
InMethod == SP >= FP + 3
Indexed(n) == [mode |-> "imm", n |-> n]

\* The offset of variable n, from the mapping table.
MapEntry(n) ==
  LET EntryAt(h) == IF n >= ShortLength(h.word.data) THEN Illegal(53) ELSE MemoryReadData(h.vma + 1 + n)
  IN  IF MapWord.type # Type.Array THEN Illegal(68) ELSE Then(MemoryReadHeader(MapWord.data), EntryAt)

SelfHeader == MemoryReadHeader(Self.data)
SelfTrap == CASE ~IsInstance(Self) -> IllegalOperand(69, 0)
              [] IsInstance(Self) /\ Self.cdr # 1 -> SelfHeader.trap
              [] OTHER -> NoTrap
SelfBase == IF Self.cdr = 1 THEN Self.data ELSE SelfHeader.vma

\* Self is marked when it was where FP|3 says.
MarkSelf(s) == IF SelfTrap = NoTrap /\ SelfBase = Self.data THEN [s EXCEPT ![FP + 3].cdr = 1] ELSE s

\* A mapped access: Access(v) is what is done once the variable is at v, and
\* arity the arguments of the exception if the table has no offset.
MappedBy(e, n, arity, Access(_)) ==
  CASE ~Ok(e) -> PreTrap(e.trap)
    [] Ok(e) /\ ~IsFixnum(e.word) -> RaiseException(Indexed(n), Fixnum(n), Exception(arity).trap)
    [] Ok(e) /\ IsFixnum(e.word) /\ SelfTrap # NoTrap -> PreTrap(SelfTrap)
    [] OTHER -> Access(Trunc(SelfBase + e.word.data))
MappedAccess(n, arity, Access(_)) == Begin /\ InMethod /\ MappedBy(MapEntry(n), n, arity, Access)

\* The trap of a later cycle leaves self marked.
MarkedTrap(t) == trap' = t /\ stk' = MarkSelf(stk) /\ UNCHANGED <<mem, bar, reg>>
PushVariable(v) ==
  LET Got(r) == IF Ok(r) THEN Continue(Push(MarkSelf(stk), Uncdr(r.word))) ELSE MarkedTrap(r.trap)
  IN  Got(MemoryReadData(v))

StoreVariable(v, s) ==
  LET To(c) == IF Ok(c) THEN Store(s, c.vma, WithCdr(TOS, c.word.cdr)) ELSE MarkedTrap(c.trap)
  IN  To(MemoryWriteCycle("DataWrite", v))

DoPushInstanceVariable(n) == MappedAccess(n, 1, PushVariable)
DoPopInstanceVariable(n) ==
  SP > FP + 4 /\ MappedAccess(n, 2, LAMBDA v : StoreVariable(v, Front(MarkSelf(stk))))
DoMovemInstanceVariable(n) ==
  SP > FP + 4 /\ MappedAccess(n, 2, LAMBDA v : StoreVariable(v, MarkSelf(stk)))
DoPushAddressInstanceVariable(n) ==
  MappedAccess(n, 1, LAMBDA v : Continue(Push(MarkSelf(stk), W(Type.Locative, v))))

---------------------------------------------------------------------------
(* Ordered access: the index is the offset, and self is not followed. *)
Ordered(n, Access(_)) ==
  /\ Begin /\ InMethod
  /\ IF IsInstance(Self) THEN Access(Trunc(Self.data + n)) ELSE PreTrap(IllegalOperand(69, 0))

DoPushInstanceVariableOrdered(n) ==
  LET Got(r) == IF Ok(r) THEN Continue(Push(stk, Uncdr(r.word))) ELSE PreTrap(r.trap)
  IN  Ordered(n, LAMBDA v : Got(MemoryReadData(v)))
StoreOrdered(v, s) ==
  LET To(c) == IF Ok(c) THEN Store(s, c.vma, WithCdr(TOS, c.word.cdr)) ELSE PreTrap(c.trap)
  IN  To(MemoryWriteCycle("DataWrite", v))
DoPopInstanceVariableOrdered(n) ==
  SP > FP + 4 /\ Ordered(n, LAMBDA v : StoreOrdered(v, Front(stk)))
DoMovemInstanceVariableOrdered(n) ==
  SP > FP + 4 /\ Ordered(n, LAMBDA v : StoreOrdered(v, stk))
DoPushAddressInstanceVariableOrdered(n) ==
  Ordered(n, LAMBDA v : Continue(Push(stk, W(Type.Locative, v))))

---------------------------------------------------------------------------
(* Any instance: the header points into the flavor, and the word before    *)
(* that is the size.                                                       *)
LocateSized(i, h, size) ==
  IF ~IsFixnum(size.word) \/ i.data >= Signed(size.word.data) THEN Illegal(49)
  ELSE Return(W(Type.Locative, h.vma + i.data))
LocateArbitrary(o, code) ==
  LET i == Unsigned(o)
      Sized(h) == Then(MemoryReadData(Trunc(h.word.data - 1)), LAMBDA size : LocateSized(i, h, size))
  IN  CASE ~IsInstance(ArrayArg(o)) -> Illegal(code)
        [] IsInstance(ArrayArg(o)) /\ ~IsFixnum(i) -> Illegal(49)
        [] OTHER -> Then(MemoryReadHeader(ArrayArg(o).data), Sized)

DoInstanceRef(o) ==
  LET Read(l) == Then(MemoryReadData(l.word.data), LAMBDA r : Return(Uncdr(r.word)))
  IN  Deep(o, 1) /\ Binary(o, Unsigned(o), Then(LocateArbitrary(o, 3), Read))

DoInstanceLoc(o) == Deep(o, 1) /\ Binary(o, Unsigned(o), LocateArbitrary(o, 3))

DoInstanceSet(o) ==
  LET Set(l) == IF Ok(l) THEN StoreContents(o, Unsigned(o), SubSeq(stk, 1, Len(Rest(o)) - 2),
                                            MemoryWriteCycle("DataWrite", l.word.data), ValueArg(o))
                ELSE Fail(o, Unsigned(o), l.trap)
  IN  Begin /\ Deep(o, 2) /\ Set(LocateArbitrary(o, 4))
=============================================================================
