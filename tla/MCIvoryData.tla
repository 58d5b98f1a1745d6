---------------------------- MODULE MCIvoryData ----------------------------
(* A heap of 28 words for each family of instructions. *)
EXTENDS IvoryData

Cdred(t, c, d) == [type |-> t, cdr |-> c, data |-> d]
Loc(v) == W(Type.Locative, v)
Zero == [v \in Heap |-> Fixnum(0)]
Over(f, g) == [v \in DOMAIN g |-> IF v \in DOMAIN f THEN f[v] ELSE g[v]]
At(v, ws) == [u \in v .. v + Len(ws) - 1 |-> ws[u - v + 1]]

\* (1 9), reached through a forwarded cell; (3 7), with an ordinary cdr; a
\* cell whose contents are elsewhere; an association list of the first two.
ListHeap == Over(At(2, <<Cdred(Type.Fixnum, 0, 1), Cdred(Type.OneQForward, 0, 8),
                         Cdred(Type.Fixnum, 2, 3), Cdred(Type.List, 0, 6),
                         Cdred(Type.Fixnum, 1, 7), Fixnum(0), Cdred(Type.Fixnum, 1, 9),
                         Cdred(Type.ElementForward, 0, 11), Fixnum(0), Cdred(Type.Fixnum, 2, 5), NilWord,
                         Cdred(Type.List, 0, 2), Cdred(Type.List, 1, 4)>>), Zero)

\* A packed array of 6 elements with a leader, an array of objects, one that
\* is inside the first, one only Lisp can decode, an array of characters.
ArrayHeap == Over(At(3, <<Fixnum(1),
                          W(Type.HeaderI, Header(Element.Fixnum, 2, FALSE, 1, 6)), Fixnum(228), Fixnum(5)>>),
             Over(At(8, <<W(Type.HeaderI, Header(Element.Object, 0, FALSE, 0, 2)), TWord, Fixnum(3)>>),
             Over(At(12, <<W(Type.HeaderI, Header(Element.Fixnum, 2, TRUE, 0, 1)),
                           Fixnum(3), Fixnum(1), W(Type.Array, 4)>>),
             Over(At(16, <<W(Type.HeaderI, Header(Element.Fixnum, 0, TRUE, 0, 1)), Fixnum(2), NilWord, Fixnum(9)>>),
             Over(At(20, <<W(Type.HeaderI, Header(Element.Character, 0, FALSE, 0, 1)), Fixnum(1)>>), Zero)))))

\* A mapping table, the size in a flavor, an instance, and one that moved.
InstanceHeap == Over(At(4, <<W(Type.HeaderI, Header(Element.Object, 0, FALSE, 0, 2)), Fixnum(1), NilWord>>),
                Over(At(8, <<Fixnum(3), Fixnum(0)>>),
                Over(At(12, <<W(Type.HeaderI, 9), Fixnum(1), Cdred(Type.Fixnum, 1, 2)>>),
                Over(At(16, <<W(Type.HeaderForward, 20), W(Type.ElementForward, 21), W(Type.ElementForward, 22),
                              Fixnum(0), W(Type.HeaderI, 9), Fixnum(4), Fixnum(5)>>), Zero))))

\* Three variables, the second forwarded; the binding stack is 15 .. 20.
BindingHeap == Over(At(4, <<Cdred(Type.Fixnum, 1, 1), W(Type.OneQForward, 6), Cdred(Type.Fixnum, 2, 2),
                            W(Type.ExternalValueCellPointer, 8), TWord>>), Zero)

MCInitialHeap ==
  [f \in Families |->
     CASE f \in {"lists", "logic", "blocks", "stores", "fields"} -> ListHeap
       [] f \in {"arrays", "registers"} -> ArrayHeap
       [] f = "instances" -> InstanceHeap
       [] f = "binding" -> BindingHeap
       [] OTHER -> Over(At(0, <<Fixnum(1), Fixnum(2)>>), Zero)]

NumberWords == {Fixnum(n) : n \in {0, -1, MostNegative, MostPositive}}
           \cup {W(Type.SingleFloat, 1), W(Type.DoubleFloat, 0), W(Type.Bignum, 0), NilWord}
FixnumWords == {Fixnum(n) : n \in {0, 1, -3, MostPositive}}
ListWords == {W(Type.List, 2), W(Type.List, 3), W(Type.List, 4), W(Type.List, 9), W(Type.List, 13),
              W(Type.ListInstance, 2), Loc(2), NilWord, Fixnum(1)}
LogicWords == {W(Type.LogicVariable, 2), W(Type.ExternalValueCellPointer, 3), W(Type.List, 2), Fixnum(1)}
ArrayWords == {W(Type.Array, v) : v \in {4, 8, 12, 16, 0}} \cup {W(Type.String, 20), W(Type.ArrayInstance, 4)}

MCInitialStacks ==
  [f \in Families |->
     CASE f = "moves" -> {<<Fixnum(1), Cdred(Type.NIL, 1, 0), x, y>> :
                            x \in {Loc(StackVMA(2)), Fixnum(2)}, y \in {Fixnum(1), TWord, W(Type.Bignum, 3)}}
       [] f = "arithmetic" -> {<<NilWord, NilWord, x, y>> : x \in NumberWords, y \in NumberWords}
                              \cup {<<NilWord, NilWord, Fixnum(0), Fixnum(1), Fixnum(2), Fixnum(3), Fixnum(4)>>}
       [] f = "bits" -> {<<NilWord, NilWord, x, y, z>> :
                            x \in FixnumWords \cup {NilWord}, y \in FixnumWords, z \in FixnumWords}
       [] f = "lists" -> {<<NilWord, y, x, y>> : x \in ListWords, y \in ListWords}
       [] f = "logic" -> {<<NilWord, y, x>> : x \in LogicWords, y \in LogicWords}
       [] f = "arrays" -> {<<x, w, y, w>> : x \in {Fixnum(3)}, w \in ArrayWords, y \in {Fixnum(6), W(Type.Character, 6)}}
       [] f = "registers" -> {<<w, NilWord>> : w \in {W(Type.Array, 4), W(Type.Array, 12), W(Type.Array, 16), W(Type.ArrayInstance, 4)}}
       [] f = "blocks" -> {<<NilWord, NilWord, Loc(0), x>> : x \in {Fixnum(1), Fixnum(-3), TWord}}
       [] f = "alu" -> {<<NilWord, NilWord, Fixnum(5), Fixnum(3)>>, <<NilWord, NilWord, Fixnum(-1), Fixnum(-2)>>,
                        <<NilWord, NilWord, TWord, Fixnum(3)>>}
       [] f = "stores" -> {<<NilWord, NilWord, x, y, z>> :
                             x \in {Loc(2), Loc(3), NilWord}, y \in {Fixnum(1), Loc(3), NilWord},
                             z \in {Fixnum(2), W(Type.List, 2), NilWord}}
       [] f = "internal" -> {<<NilWord, NilWord, x>> : x \in {Fixnum(5), NilWord, W(Type.Array, 4)}}
       [] f = "fields" -> {<<NilWord, x, y, z>> :
                             x \in {W(Type.List, 2), Fixnum(1)}, y \in {Fixnum(5), TWord},
                             z \in {Loc(3), Fixnum(9), W(Type.Character, 9), W(Type.PhysicalAddress, 3), NilWord}}
       [] f = "instances" -> {<<NilWord, NilWord, m, i, y, i>> :
                                m \in {W(Type.Array, 4), NilWord},
                                i \in {W(Type.Instance, 12), W(Type.Instance, 16), W(Type.List, 2)},
                                y \in {Fixnum(7)}}
       [] OTHER -> {<<Loc(v), Loc(14), Loc(4), Loc(u)>> : v \in {4, 5, 7}, u \in {4, 5}}
                   \cup {<<Loc(4), NilWord, Fixnum(2)>>}]

Registers0 ==
  [lcarea |-> NilWord, lclength |-> 0, lcaddress |-> 20, scarea |-> NilWord, sclength |-> 0, scaddress |-> 24,
   eventcount |-> 1, ac |-> [s \in 0 .. CacheSlots - 1 |-> EmptyEntry],
   alu |-> [op |-> 0, f |-> 0, cond |-> 0, sense |-> TRUE, load |-> FALSE, size |-> 2, rotate |-> 1],
   latch |-> 0, overflow |-> 0, borrow |-> FALSE, lessthan |-> FALSE, trapmode |-> 0, preempt |-> 0,
   oldspace |-> 0, bsp |-> 14, bsl |-> 18, cleanup |-> FALSE, continuation |-> NilWord]
WithLists(n) == [Registers0 EXCEPT !.lcarea = TWord, !.lclength = n]
WithAlu(op, f, c, s) == [Registers0 EXCEPT !.alu.op = op, !.alu.f = f, !.alu.cond = c, !.alu.sense = s,
                                           !.alu.load = s]

MCInitialRegs ==
  [f \in Families |->
     CASE f = "arithmetic" -> {WithLists(0), WithLists(5)}
       [] f = "alu" -> {WithAlu(op, g, 0, TRUE) : op \in 0 .. 3, g \in 0 .. 15}
       [] f = "blocks" -> {WithAlu(op, 8, c, TRUE) : op \in 1 .. 3, c \in {1, 3, 9}}
                          \cup {WithAlu(0, 6, c, FALSE) : c \in {0, 2, 4, 5, 6, 7, 8, 15}}
       [] f = "stores" -> {[WithLists(3) EXCEPT !.scarea = Loc(2), !.sclength = 2, !.trapmode = t, !.lcarea = a] :
                              t \in {0, 2}, a \in {NilWord, TWord}}
       [] f = "internal" -> {[Registers0 EXCEPT !.preempt = p, !.trapmode = t, !.ac[1] = Entry(4, Decoded(1, 5, 6))] :
                               p \in {0, 2}, t \in {0, 3}}
       [] f = "binding" -> {[Registers0 EXCEPT !.preempt = p] : p \in {0, 2}}
       [] OTHER -> {Registers0}]

MCInitialBars == [f \in Families |-> IF f = "blocks" THEN <<2, 3, 9>> ELSE <<2, 20, 3>>]
MCMaxSteps ==
  [f \in Families |-> CASE f \in {"arithmetic", "bits", "moves", "lists", "alu", "blocks", "stores", "internal", "fields"} -> 2
                        [] f = "binding" -> 4
                        [] f = "registers" -> 4
                        [] OTHER -> 3]
MCFields == {<<0, 4>>, <<Bits - 2, 3>>, <<Bits - 6, 2>>}
MCVariables == 0 .. 2
MCModes == {[cycle |-> c, fixnumOnly |-> x, cdrNext |-> ~x, noIncrement |-> x] : c \in {"DataRead", "Scavenge", "Raw"}, x \in BOOLEAN}
MCPages ==
  [f \in Families |-> CASE f \in {"lists", "logic", "fields"} -> {3, 8}
                        [] f = "arrays" -> {4, 5}
                        [] f = "registers" -> {5}
                        [] f = "blocks" -> {3}
                        [] f = "stores" -> {3, 20}
                        [] f = "instances" -> {4, 8, 20}
                        [] f = "binding" -> {6, 16}
                        [] f = "arithmetic" -> {1, 21}
                        [] OTHER -> {}]
MCNewPlace == [f \in Families |-> 23]
=============================================================================
