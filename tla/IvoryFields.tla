----------------------------- MODULE IvoryFields -----------------------------
(***************************************************************************)
(* Fields of words on the stack and in memory (ifunfext.c) and variables   *)
(* of a lexical environment (ifunlexi.c).  The rotation and the size of a  *)
(* field are in the instruction.                                           *)
(***************************************************************************)
EXTENDS IvoryMachine

Popped == [mode |-> "pop", n |-> 0]
Under == stk[SP - 1]

\* These take what a left shift moves out of the word, so a field that wraps
\* round the word loses its upper part.
FieldOf(d, p, size) == (IF p = 0 THEN d ELSE (d * 2^p) \div 2^Bits) % 2^size
Deposit(n, d, p, size) == d + ((n % 2^size) - ((d \div 2^p) % 2^size)) * 2^p

DoCharLdb(p, size) ==
  /\ Begin /\ SP > LP
  /\ IF TOS.type = Type.Character THEN Continue(Replace(stk, W(Type.Fixnum, FieldOf(TOS.data, p, size))))
     ELSE PreTrap(IllegalOperand(28, 0))

\* The byte of memory that holds the tag has the cdr code above the type.
TagOf(w) == 64 * w.cdr + w.type
WithTag(w, t) == [w EXCEPT !.type = t % 64, !.cdr = (t \div 64) % 4]

\* The p- instructions read and write the word at an address as it is.
PLdb(p, size, Part(_)) ==
  /\ Begin /\ SP > LP
  /\ CASE TOS.type = Type.PhysicalAddress -> PreTrap(IllegalOperand(57, StackVMA(SP)))
       [] TOS.type # Type.PhysicalAddress /\ ReadFaults(TOS.data) -> PreTrap(DecodeFault(TOS.data))
       [] OTHER -> Continue(Replace(stk, W(Type.Fixnum, FieldOf(Part(Fetch(TOS.data)), p, size))))
DoPLdb(p, size) == PLdb(p, size, LAMBDA w : w.data)
DoPTagLdb(p, size) == PLdb(p, size, TagOf)

DoDpb(p, size) ==
  /\ Begin /\ SP > LP + 1
  /\ IF IsFixnum(TOS) /\ IsFixnum(Under)
     THEN Continue(Replace(Front(stk), Fixnum(Deposit(Under.data, TOS.data, p, size))))
     ELSE Fail(Popped, TOS, NumericException(IF IsFixnum(TOS) THEN Under ELSE TOS, 2).trap)

DoCharDpb(p, size) ==
  /\ Begin /\ SP > LP + 1
  /\ CASE TOS.type # Type.Character -> Fail(Popped, TOS, SpareException(TOS, 2, 27).trap)
       [] TOS.type = Type.Character /\ ~IsFixnum(Under) -> PreTrap(IllegalOperand(27, 0))
       [] OTHER -> Continue(Replace(Front(stk), W(Type.Character, Trunc(Deposit(Under.data, TOS.data, p, size)))))

\* Both arguments are popped.
PDpb(New(_)) ==
  LET v == TOS.data
      rest == SubSeq(stk, 1, SP - 2)
  IN  /\ Begin /\ SP > LP + 1
      /\ CASE TOS.type = Type.PhysicalAddress -> PreTrap(IllegalOperand(57, StackVMA(SP)))
           [] TOS.type # Type.PhysicalAddress /\ ReadFaults(v) -> PreTrap(DecodeFault(v))
           [] TOS.type # Type.PhysicalAddress /\ ~ReadFaults(v) /\ ~IsFixnum(Under) ->
                PreTrap(IllegalOperand(6, 0))
           [] OTHER -> IF WriteFaults(v) THEN PreTrap(DecodeFault(v)) ELSE Store(rest, v, New(Fetch(v)))
DoPDpb(p, size) == PDpb(LAMBDA w : [w EXCEPT !.data = Trunc(Deposit(Under.data, @, p, size))])
DoPTagDpb(p, size) == PDpb(LAMBDA w : WithTag(w, Deposit(Under.data, TagOf(w), p, size)))

---------------------------------------------------------------------------
(* The operand is the environment, a list or a locative. *)
Environment(w) == w.type \in {Type.List, Type.Locative}

DoPushLexicalVarN(o, n) ==
  LET w == stk[Index(o)]
      r == MemoryReadData(Trunc(w.data + n))
  IN  Unary(o, w, CASE ~Environment(w) -> Illegal(82)
                    [] Environment(w) /\ Ok(r) -> Return(Uncdr(r.word))
                    [] OTHER -> r)

StoreLexicalVar(o, n, pops) ==
  LET w == stk[Index(o)]
      rest == Rest(o)
      x == rest[Len(rest)]
  IN  /\ Begin /\ Deep(o, 1)
      /\ IF Environment(w)
         THEN StoreContents(o, w, IF pops THEN Front(rest) ELSE rest,
                            MemoryWriteCycle("DataWrite", Trunc(w.data + n)), x)
         ELSE PreTrap(IllegalOperand(17, 0))
DoPopLexicalVarN(o, n) == StoreLexicalVar(o, n, TRUE)
DoMovemLexicalVarN(o, n) == StoreLexicalVar(o, n, FALSE)
=============================================================================
