---------------------------- MODULE IvoryBinding ----------------------------
(***************************************************************************)
(* Shallow binding of special variables (ifunbind.c).  A binding is two    *)
(* words of the binding stack: the locative of the variable, whose cdr     *)
(* code keeps the frame's cleanup bit of before, and the old value.        *)
(***************************************************************************)
EXTENDS IvoryMachine

\* Mutant of BindingWords: the bit is set whatever it was.
BindingWordsAlwaysCleanup(w, old) == << [type |-> w.type, cdr |-> 1, data |-> w.data], old >>
\* The words that a bind pushes, raw, above the binding stack pointer.
BindingWords(w, old) ==
  << [type |-> w.type, cdr |-> IF reg.cleanup THEN 1 ELSE 0, data |-> w.data], old >>

\* A store of the first that faults leaves nothing, of the second the first.
SaveBinding(words, After(_)) ==
  LET v == reg.bsp
      m == [mem EXCEPT ![v + 1] = words[1]]
  IN  CASE WriteFaults(v + 1) -> PreTrap(DecodeFault(v + 1))
        [] ~WriteFaults(v + 1) /\ WriteFaults(v + 2) ->
             trap' = DecodeFault(v + 2) /\ mem' = m /\ UNCHANGED <<stk, bar, reg>>
        [] OTHER -> After([m EXCEPT ![v + 2] = words[2]])

Bound == [reg EXCEPT !.bsp = @ + 2, !.cleanup = TRUE]

\* The checks that all binds begin with.
BindCheck(w, old) ==
  CASE w.type # Type.Locative -> IllegalOperand(18, 0)
    [] w.type = Type.Locative /\ reg.bsp >= reg.bsl -> IllegalOperand(19, 0)
    [] OTHER -> old.trap

\* The binding is made before the variable changes, and counts only after.
BindValue(m, s, c, new) ==
  IF ~Ok(c) THEN trap' = c.trap /\ mem' = m /\ UNCHANGED <<stk, bar, reg>>
  ELSE /\ mem' = IF c.vma \in Heap THEN [m EXCEPT ![c.vma] = WithCdr(new, c.word.cdr)] ELSE m
       /\ stk' = StackWith(s, c.vma, WithCdr(new, c.word.cdr))
       /\ reg' = Bound /\ UNCHANGED <<trap, bar>>
DoBindLocativeToValue(o) ==
  LET w == Rest(o)[Len(Rest(o))]
      New(m) == BindValue(m, Front(Rest(o)), Writable(MemoryReadIn(m, stk, "BindWrite", w.data)), Value(o))
      Bind(old) == IF BindCheck(w, old) # NoTrap THEN PreTrap(BindCheck(w, old))
                   ELSE SaveBinding(BindingWords(w, old.word), New)
  IN  Begin /\ Deep(o, 1) /\ Bind(MemoryReadGeneral("BindRead", w.data))

DoBindLocative(o) ==
  LET w == Unsigned(o)
      Keep(m) == mem' = m /\ stk' = Rest(o) /\ reg' = Bound /\ UNCHANGED <<trap, bar>>
      Bind(old) == IF BindCheck(w, old) # NoTrap THEN PreTrap(BindCheck(w, old))
                   ELSE SaveBinding(BindingWords(w, old.word), Keep)
  IN  Begin /\ Bind(MemoryReadGeneral("BindRead", w.data))

---------------------------------------------------------------------------
(* Unbinding one after the other: what was undone stays undone if a later  *)
(* one traps.                                                              *)
Bindings == [mem |-> mem, stk |-> stk, bsp |-> reg.bsp, cleanup |-> reg.cleanup, trap |-> NoTrap]

Unbound(s, where, c, new) ==
  IF ~Ok(c) THEN [s EXCEPT !.trap = c.trap]
  ELSE [s EXCEPT !.mem = IF c.vma \in Heap THEN [@ EXCEPT ![c.vma] = WithCdr(new, c.word.cdr)] ELSE @,
                 !.stk = StackWith(@, c.vma, WithCdr(new, c.word.cdr)),
                 !.bsp = @ - 2,
                 !.cleanup = where.cdr % 2 = 1]
UnbindWords(s, value, where) ==
  CASE ~Ok(value) -> [s EXCEPT !.trap = value.trap]
    [] Ok(value) /\ ~Ok(where) -> [s EXCEPT !.trap = where.trap]
    [] OTHER -> Unbound(s, where.word, Writable(MemoryReadIn(s.mem, s.stk, "BindWrite", where.word.data)),
                        value.word)
UnbindStep(s) ==
  IF s.cleanup THEN UnbindWords(s, MemoryReadIn(s.mem, s.stk, "BindRead", s.bsp),
                                MemoryReadIn(s.mem, s.stk, "BindRead", s.bsp - 1))
  ELSE [s EXCEPT !.trap = IllegalOperand(20, 0)]

\* No more steps than the heap, which the binding stack is in, has pairs of
\* words.
UnbindWhile(More(_, _)) ==
  LET Onward(s, n) == IF s.trap = NoTrap /\ More(s, n) THEN UnbindStep(s) ELSE s
      Go[n \in 0 .. HeapSize \div 2] == IF n = 0 THEN Bindings ELSE Onward(Go[n - 1], n)
  IN  Go[HeapSize \div 2]

\* At the end a preemption that waited for the unbinding is due.
Unbind(o, s) ==
  /\ mem' = s.mem /\ trap' = s.trap /\ UNCHANGED bar
  /\ stk' = IF s.trap = NoTrap /\ o.mode = "pop" THEN Front(s.stk) ELSE s.stk
  /\ reg' = [reg EXCEPT !.bsp = s.bsp, !.cleanup = s.cleanup,
                        !.preempt = IF s.trap = NoTrap /\ @ \div 2 = 1 THEN 3 ELSE @]

DoUnbindN(o) ==
  LET w == Unsigned(o)
      More(s, n) == n <= w.data
  IN  /\ Begin
      /\ IF IsFixnum(w) THEN Unbind(o, UnbindWhile(More)) ELSE PreTrap(IllegalOperand(63, 0))

DoRestoreBindingStack(o) ==
  LET w == Unsigned(o)
      More(s, n) == s.bsp > w.data
  IN  /\ Begin
      /\ IF w.type = Type.Locative THEN Unbind(o, UnbindWhile(More)) ELSE PreTrap(IllegalOperand(66, 0))
=============================================================================
