----------------------------- MODULE IvoryArrays -----------------------------
(***************************************************************************)
(* One-dimensional array references (ifunarra.c and the array instructions *)
(* of ifuncom1.c and ifuncom2.c).  An array is decoded into an array       *)
(* register: a word with its element type, packing, byte offset and the    *)
(* event count at which it was decoded, the address of its elements and    *)
(* its length.  Registers are kept in a cache indexed by the address of    *)
(* the array, or by the program in three words of its stack.               *)
(***************************************************************************)
EXTENDS IvoryMachine

CONSTANTS
  ByteBits,    \* bits of the word that packed elements share (32)
  CacheSlots   \* entries of the cache (8)

ASSUME ArrayAssumption ==
  /\ ByteBits \in {2^n : n \in 0 .. 3} /\ ByteBits <= Bits
  /\ Bits >= 12
  /\ CacheSlots \in Nat \ {0}

Element == [Fixnum |-> 0, Character |-> 1, Boolean |-> 2, Object |-> 3]

(* Fields of the header and of the register word. *)
ElementType(d) == (d \div 2^(Bits - 2)) % 4
BytePacking(d) == (d \div 2^(Bits - 4)) % 4
LongPrefix(d) == (d \div 2^(Bits - 5)) % 2 = 1
LeaderLength(d) == (d \div 2^(Bits - 7)) % 4
ShortLength(d) == d % 2^(Bits - 7)
Dimensions(d) == d % 8
ByteOffset(d) == (d \div 2^(Bits - 7)) % 8
EventCountOf(d) == d % 2^(Bits - 7)

Header(etype, packing, long, leader, length) ==
  etype * 2^(Bits - 2) + packing * 2^(Bits - 4) + (IF long THEN 2^(Bits - 5) ELSE 0)
    + leader * 2^(Bits - 7) + length

RegisterWord(h, offset) ==
  Trunc((h \div 2^(Bits - 4)) * 2^(Bits - 4) + offset * 2^(Bits - 7) + reg.eventcount)

IsArray(w) == w.type \in {Type.Array, Type.String}
InBounds(i, length) == Signed(i.data) \in 0 .. length - 1

Decoded(arword, locat, length) ==
  [trap |-> NoTrap, exc |-> FALSE, arword |-> arword, locat |-> locat, length |-> length, offset |-> 0]
Undecoded(t) == [Decoded(0, 0, 0) EXCEPT !.trap = t]
Refused(offset) == [Decoded(0, 0, 0) EXCEPT !.exc = TRUE, !.offset = offset]

ShortArray(base, h) == Decoded(RegisterWord(h, 0), base + 1, ShortLength(h))

---------------------------------------------------------------------------
(* An array with a long prefix: length, offset and where its elements are, *)
(* which may be inside another array.                                      *)
Shift(n, s) == IF s > 0 THEN n * 2^s ELSE n \div 2^(-s)
Least(m, n) == IF m <= n THEN m ELSE n

\* The words are read in turn, no further than the first that is not a fixnum.
PrefixWords(length, offset, next) ==
  [length |-> length.word, offset |-> offset.word, next |-> next.word,
   trap |-> CASE ~Ok(length) -> length.trap
              [] Ok(length) /\ ~IsFixnum(length.word) -> NoTrap
              [] Ok(length) /\ IsFixnum(length.word) /\ ~Ok(offset) -> offset.trap
              [] OTHER -> IF IsFixnum(offset.word) THEN next.trap ELSE NoTrap]
LongPrefixWords(base) ==
  PrefixWords(MemoryReadData(base + 1), MemoryReadData(base + 2), MemoryReadData(base + 3))

\* The array that an indirect array of this packing is inside of: the length
\* is cut to what that array has, the offsets add up.
CutLength(scaled, wanted) == Least(IF scaled <= 0 THEN wanted ELSE scaled, wanted)
IndirectShort(s, h, shift) ==
  [s EXCEPT !.state = "done", !.base = h.vma + 1,
            !.length = Least(@ + s.offset, Shift(ShortLength(h.word.data), shift))]
IndirectLong(s, p, shift) ==
  CASE p.trap # NoTrap -> [s EXCEPT !.state = "trap", !.trap = p.trap]
    [] p.trap = NoTrap /\ ~(IsFixnum(p.length) /\ IsFixnum(p.offset)) -> [s EXCEPT !.state = "exc"]
    [] OTHER ->
         CASE p.next.type \in {Type.Locative, Type.Fixnum} ->
                [s EXCEPT !.state = "done", !.base = p.next.data,
                          !.length = CutLength(Shift(p.length.data, shift), @ + s.offset)]
           [] IsArray(p.next) ->
                [s EXCEPT !.base = p.next.data,
                          !.length = CutLength(Shift(p.length.data, shift), @ + s.offset),
                          !.offset = Shift(p.offset.data, shift),
                          !.total = @ + Shift(p.offset.data, shift)]
           [] OTHER -> [s EXCEPT !.state = "exc"]
IndirectStep(s, h, packing) ==
  IF ~Ok(h) THEN [s EXCEPT !.state = "trap", !.trap = h.trap]
  ELSE IF LongPrefix(h.word.data)
       THEN IndirectLong(s, LongPrefixWords(h.vma), packing - BytePacking(h.word.data))
       ELSE IndirectShort(s, h, packing - BytePacking(h.word.data))

Indirect(p, packing) ==
  LET Onward(s) == IF s.state = "go" THEN IndirectStep(s, MemoryReadHeader(s.base), packing) ELSE s
      Go[n \in 0 .. MaxHops] ==
        IF n = 0
        THEN [state |-> "go", trap |-> NoTrap, base |-> p.next.data, length |-> p.length.data,
              offset |-> p.offset.data, total |-> p.offset.data]
        ELSE Onward(Go[n - 1])
  IN  Go[MaxHops]

\* The register of an indirect array: what is left after the offset.
IndirectRegister(h, s) ==
  LET packing == BytePacking(h)
      length == IF s.length < s.total THEN 0 ELSE s.length - s.total
  IN  Decoded(RegisterWord(h, s.total % 2^packing),
              IF length = 0 THEN s.base ELSE s.base + s.total \div 2^packing,
              length)

\* setup1dlongarray
LongIndirect(h, p, s) ==
  CASE s.state = "trap" -> Undecoded(s.trap)
    [] s.state = "done" -> IndirectRegister(h, s)
    [] OTHER -> Refused(p.offset.data)
LongArray(h, p, force) ==
  CASE p.trap # NoTrap -> Undecoded(p.trap)
    [] p.trap = NoTrap /\ ~IsFixnum(p.length) -> Refused(Type.Array)
    [] p.trap = NoTrap /\ IsFixnum(p.length) /\ ~IsFixnum(p.offset) -> Refused(p.offset.data)
    [] OTHER ->
         CASE p.next.type \in {Type.Locative, Type.Fixnum} ->
                Decoded(RegisterWord(h, 0), p.next.data, p.length.data)
           [] IsArray(p.next) /\ (Dimensions(h) = 1 \/ force) ->
                LongIndirect(h, p, Indirect(p, BytePacking(h)))
           [] OTHER -> Refused(p.offset.data)
Setup1DLongArray(base, h, force) == LongArray(h, LongPrefixWords(base), force)

DecodeHeader(h, force, code) ==
  CASE ~Ok(h) -> Undecoded(h.trap)
    [] Ok(h) /\ h.word.type # Type.HeaderI -> Undecoded(IllegalOperand(code, 0))
    [] OTHER -> IF LongPrefix(h.word.data) THEN Setup1DLongArray(h.vma, h.word.data, force)
                ELSE ShortArray(h.vma, h.word.data)
Decode(w, force, code) == DecodeHeader(MemoryReadHeader(w.data), force, code)

---------------------------------------------------------------------------
(* Elements. *)
ByteSize(p) == ByteBits \div 2^p
BytePosition(i, p) == (i % 2^p) * ByteSize(p)
LoadByte(d, i, p) == (d \div 2^BytePosition(i, p)) % 2^ByteSize(p)
\* Mutant of InsertByte: the old bits stay.
InsertByteUnmasked(d, i, p, b) == d + (b - LoadByte(d, i, p)) * 2^BytePosition(i, p)
InsertByte(d, i, p, b) == d + ((b % 2^ByteSize(p)) - LoadByte(d, i, p)) * 2^BytePosition(i, p)

ElementAddress(a, i) ==
  LET p == BytePacking(a.arword)
  IN  IF p = 0 THEN a.locat + i ELSE a.locat + (ByteOffset(a.arword) + i) \div 2^p

\* An unpacked Boolean is true unless the tag is beyond the last one the mask
\* of a data read has: the datum is not looked at.
ArefValue(a, i, w) ==
  LET p == BytePacking(a.arword)
      d == IF p = 0 THEN w.data ELSE LoadByte(w.data, ByteOffset(a.arword) + i, p)
  IN  CASE ElementType(a.arword) = Element.Fixnum -> W(Type.Fixnum, d)
        [] ElementType(a.arword) = Element.Character -> W(Type.Character, d)
        [] ElementType(a.arword) = Element.Boolean ->
             Bool(IF p = 0 THEN w.type <= Type.GCForward ELSE d # 0)
        [] OTHER -> W(w.type, d)

\* The element in heap h.
ArefIn(h, a, i) ==
  LET Read(r) ==
        IF BytePacking(a.arword) # 0 /\ ~IsFixnum(r.word) THEN Raise(IllegalOperand(25, r.vma))
        ELSE Return(ArefValue(a, i, r.word))
  IN  Then(MemoryReadIn(h, stk, "DataRead", ElementAddress(a, i)), Read)
Aref(a, i) == ArefIn(mem, a, i)

\* What a value must be to be an element, and the datum that is stored.
ElementCheck(a, x) ==
  LET p == BytePacking(a.arword)
  IN  CASE ElementType(a.arword) = Element.Character ->
             IF x.type # Type.Character THEN IllegalOperand(29, 0)
             ELSE IF p # 0 /\ x.data >= 2^ByteSize(p) THEN IllegalOperand(62, 0) ELSE NoTrap
        [] ElementType(a.arword) = Element.Fixnum ->
             IF x.type # Type.Fixnum THEN IllegalOperand(33, 0) ELSE NoTrap
        [] OTHER -> NoTrap
ElementDatum(a, x) ==
  IF ElementType(a.arword) # Element.Boolean THEN x.data ELSE IF x.type = Type.NIL THEN 0 ELSE 1

\* The place and the word a store of x into element i makes, or its trap.
IsObject(a) == BytePacking(a.arword) = 0 /\ ElementType(a.arword) = Element.Object
AsetDatum(a, i, x, d) ==
  IF BytePacking(a.arword) = 0 THEN ElementDatum(a, x)
  ELSE InsertByte(d, ByteOffset(a.arword) + i, BytePacking(a.arword), ElementDatum(a, x))
Located(v, w) == [trap |-> NoTrap, vma |-> v, word |-> w]
AsetAt(a, i, x, c) ==
  CASE ~Ok(c) -> c
    [] Ok(c) /\ IsObject(a) -> Located(c.vma, WithCdr(x, c.word.cdr))
    [] Ok(c) /\ ~IsObject(a) ->
         CASE ~IsFixnum(c.word) -> Raise(IllegalOperand(25, c.vma))
           [] IsFixnum(c.word) /\ WriteFaults(c.vma) -> Raise(DecodeFault(c.vma))
           [] OTHER -> Located(c.vma, WithData(c.word, AsetDatum(a, i, x, c.word.data)))
AsetCycle(a, i) ==
  IF IsObject(a) THEN MemoryWriteCycle("DataWrite", a.locat + i)
  ELSE MemoryReadData(a.locat + (ByteOffset(a.arword) + i) \div 2^BytePacking(a.arword))
Aset(a, i, x) ==
  IF ElementCheck(a, x) # NoTrap THEN Raise(ElementCheck(a, x)) ELSE AsetAt(a, i, x, AsetCycle(a, i))

---------------------------------------------------------------------------
(* The cache. *)
Slot(v) == (v \div 4) % CacheSlots
EmptyEntry == [array |-> 0, arword |-> 0, locat |-> 0, length |-> 0]
Entry(v, a) == [array |-> v, arword |-> a.arword, locat |-> a.locat, length |-> a.length]

\* Mutant of Hit: the event count is not compared.
HitStale(e, v) == v # 0 /\ e.array = v
\* A hit is an entry of this array that was made at the present event count.
Hit(e, v) == v # 0 /\ e.array = v /\ EventCountOf(e.arword) = reg.eventcount
CacheHit(w) == Hit(reg.ac[Slot(w.data)], w.data)

\* Out of bounds, the entry is given up.
CacheBounds(s, e) == [trap |-> IllegalOperand(74, 0), ac |-> [reg.ac EXCEPT ![s] = [e EXCEPT !.array = 0]],
                      a |-> e]

\* A short array is entered once its bounds are checked, a long one before.
RegsetOf(w, i, s, long, a) ==
  IF a.trap # NoTrap THEN [trap |-> a.trap, ac |-> reg.ac, a |-> a]
  ELSE IF ~InBounds(i, a.length)
       THEN CacheBounds(s, IF long THEN Entry(w.data, a) ELSE [reg.ac[s] EXCEPT !.array = w.data])
  ELSE [trap |-> NoTrap, ac |-> [reg.ac EXCEPT ![s] = Entry(w.data, a)], a |-> a]
Regset(w, i, code) ==
  RegsetOf(w, i, Slot(w.data), LongPrefix(MemoryReadHeader(w.data).word.data), Decode(w, FALSE, code))

\* Only the tag of an array that is not at address 0 is looked at.
FromCache(i, s, e) ==
  IF InBounds(i, e.length) THEN [trap |-> NoTrap, ac |-> reg.ac, a |-> e] ELSE CacheBounds(s, e)
ArrayRegister(w, i, n, code) ==
  CASE w.data # 0 /\ ~IsArray(w) ->
         [trap |-> ArrayException(w, n, code).trap, ac |-> reg.ac, a |-> reg.ac[Slot(w.data)]]
    [] CacheHit(w) /\ IsArray(w) -> FromCache(i, Slot(w.data), reg.ac[Slot(w.data)])
    [] OTHER -> Regset(w, i, code)

\* A long array that only Lisp can decode.
IsRefused(d) == d.trap = NoTrap /\ d.exc
LongRefused(w) == (w.data = 0 \/ (IsArray(w) /\ ~CacheHit(w))) /\ IsRefused(Decode(w, FALSE, 0))

WithCache(ac) == reg' = [reg EXCEPT !.ac = ac]

---------------------------------------------------------------------------
ArrayArg(o) == Rest(o)[Len(Rest(o))]
ValueArg(o) == Rest(o)[Len(Rest(o)) - 1]

\* aref1exception enters in the cache what it finds above the stack before it
\* looks whether the array was decoded.
Aref1Exception(o) ==
  LET w == ArrayArg(o)
  IN  \E junk \in [arword : {Unsigned(o).data, 0}, locat : {0}, length : {0, 2}] :
        /\ WithCache([reg.ac EXCEPT ![Slot(w.data)] =
             [array |-> w.data, arword |-> junk.arword, locat |-> junk.locat, length |-> junk.length]])
        /\ trap' = Exception(2).trap
        /\ stk' = IF o.mode = "pop" THEN stk ELSE Push(stk, Fixnum(Unsigned(o).data))
        /\ Len(stk') <= MaxStack
        /\ UNCHANGED <<mem, bar>>

\* aset1exception goes on with registers that the decoding has changed: the
\* tag it looks at is the offset of the array.
Aset1Exception(o) ==
  LET Go(d) == Fail(o, Fixnum(ArrayArg(o).type), ArrayException(W(d.offset % 64, 0), 3, 9).trap)
  IN  Go(Decode(ArrayArg(o), FALSE, 9))

\* Out of bounds, or no array: the cache may have changed all the same.
ArrayTrap(o, r) ==
  /\ WithCache(r.ac) /\ UNCHANGED <<mem, bar>>
  /\ trap' = r.trap
  /\ stk' = IF r.trap.kind = "exception" /\ o.mode # "pop" THEN Push(stk, Unsigned(o)) ELSE stk
  /\ Len(stk') <= MaxStack

ArefEnd(o, r, x) ==
  /\ WithCache(r.ac) /\ UNCHANGED <<mem, bar>>
  /\ trap' = x.trap
  /\ stk' = IF Ok(x) THEN Replace(Rest(o), x.word) ELSE stk
ArefWith(o, r) ==
  IF r.trap # NoTrap THEN ArrayTrap(o, r) ELSE ArefEnd(o, r, Aref(r.a, Unsigned(o).data))

DoAref1(o) ==
  /\ Begin /\ Deep(o, 1)
  /\ CASE ~IsFixnum(Unsigned(o)) -> PreTrap(IllegalOperand(8, 0))
       [] IsFixnum(Unsigned(o)) /\ LongRefused(ArrayArg(o)) -> Aref1Exception(o)
       [] OTHER -> ArefWith(o, ArrayRegister(ArrayArg(o), Unsigned(o), 2, 8))

AsetEnd(o, r, x) ==
  /\ WithCache(r.ac) /\ UNCHANGED bar
  /\ trap' = x.trap
  /\ stk' = IF Ok(x) THEN StackWith(SubSeq(stk, 1, Len(Rest(o)) - 2), x.vma, x.word) ELSE stk
  /\ mem' = IF Ok(x) THEN HeapWith(x.vma, x.word) ELSE mem
AsetWith(o, r) ==
  IF r.trap # NoTrap THEN ArrayTrap(o, r) ELSE AsetEnd(o, r, Aset(r.a, Unsigned(o).data, ValueArg(o)))

DoAset1(o) ==
  /\ Begin /\ Deep(o, 2)
  /\ CASE ~IsFixnum(Unsigned(o)) -> PreTrap(IllegalOperand(9, 0))
       [] IsFixnum(Unsigned(o)) /\ LongRefused(ArrayArg(o)) -> Aset1Exception(o)
       [] OTHER -> AsetWith(o, ArrayRegister(ArrayArg(o), Unsigned(o), 3, 9))

---------------------------------------------------------------------------
(* The address of an element. *)
AlocOf(i, h) ==
  CASE h.word.type # Type.HeaderI -> Illegal(8)
    [] h.word.type = Type.HeaderI /\ LongPrefix(h.word.data) -> Exception(2)
    [] OTHER -> IF ~InBounds(i, ShortLength(h.word.data)) THEN Illegal(8)
                ELSE IF ElementType(h.word.data) # Element.Object THEN Illegal(7)
                ELSE Return(W(Type.Locative, h.vma + 1 + i.data))
DoAloc1(o) ==
  LET i == Unsigned(o)
      w == ArrayArg(o)
  IN  Binary(o, i, CASE ~IsFixnum(i) -> Illegal(8)
                     [] IsFixnum(i) /\ ~IsArray(w) -> ArrayException(w, 2, 8)
                     [] OTHER -> Then(MemoryReadHeader(w.data), LAMBDA h : AlocOf(i, h)))

(* Registers on the stack: the array, the register word, where, how long. *)
RegisterWords(w, a) ==
  <<Uncdr(w), W(Type.Fixnum, a.arword), W(Type.Locative, a.locat), W(Type.Fixnum, a.length)>>

SetupWith(o, w, a) ==
  CASE a.trap # NoTrap -> PreTrap(a.trap)
    [] a.trap = NoTrap /\ a.exc -> Fail(o, w, Exception(1).trap)
    [] OTHER -> Continue(Rest(o) \o RegisterWords(w, a))
SetupArray(o, force) ==
  /\ Begin
  /\ IF IsArray(Value(o)) THEN SetupWith(o, Value(o), Decode(Value(o), force, 71))
     ELSE Fail(o, Value(o), ArrayException(Value(o), 1, 71).trap)
DoSetup1DArray(o) == SetupArray(o, FALSE)
DoSetupForce1DArray(o) == SetupArray(o, TRUE)

\* The register at stack index k as it is used now: a change of the event
\* count has it decoded again from the array below it.
FastRegister(k) ==
  [arword |-> stk[k].data, locat |-> stk[k + 1].data, length |-> stk[k + 2].data]

Recomputed(k, a) ==
  CASE a.trap # NoTrap -> [trap |-> a.trap, s |-> stk, a |-> a]
    [] a.trap = NoTrap /\ a.exc -> [trap |-> IllegalOperand(12, 0), s |-> stk, a |-> a]
    [] OTHER -> [trap |-> NoTrap, a |-> a,
                 s |-> [stk EXCEPT ![k].data = a.arword, ![k + 1].data = a.locat, ![k + 2].data = a.length]]
RecomputeArrayRegister(k) ==
  IF IsArray(stk[k - 1]) THEN Recomputed(k, Decode(stk[k - 1], TRUE, 12))
  ELSE [trap |-> ArrayException(stk[k - 1], 2, 12).trap, s |-> stk, a |-> FastRegister(k)]

\* The bounds are checked before the event count is, and again afterwards.
FastArray(k, i) ==
  LET a == FastRegister(k)
      Fast(t) == [trap |-> t, s |-> stk, a |-> a]
      Checked(r) == IF r.trap = NoTrap /\ ~InBounds(i, r.a.length)
                    THEN [r EXCEPT !.trap = IllegalOperand(13, 0)] ELSE r
  IN  CASE ~IsFixnum(i) -> Fast(IllegalOperand(32, 0))
        [] IsFixnum(i) /\ ~InBounds(i, a.length) -> Fast(IllegalOperand(13, 0))
        [] IsFixnum(i) /\ InBounds(i, a.length) /\ EventCountOf(a.arword) = reg.eventcount -> Fast(NoTrap)
        [] OTHER -> Checked(RecomputeArrayRegister(k))

IsRegister(k) == k - 1 >= FP /\ k + 2 < SP

FastTrap(r) == trap' = r.trap /\ stk' = r.s /\ UNCHANGED <<mem, bar, reg>>
FastArefEnd(r, x) == /\ trap' = x.trap
                     /\ stk' = IF Ok(x) THEN Replace(r.s, x.word) ELSE r.s
                     /\ UNCHANGED <<mem, bar, reg>>
FastArefWith(r) == IF r.trap # NoTrap THEN FastTrap(r) ELSE FastArefEnd(r, Aref(r.a, TOS.data))
DoFastAref1(o) == Begin /\ IsRegister(Index(o)) /\ FastArefWith(FastArray(Index(o), TOS))

FastAsetEnd(r, x) ==
  IF Ok(x) THEN Store(SubSeq(r.s, 1, SP - 2), x.vma, x.word) ELSE FastTrap([r EXCEPT !.trap = x.trap])
FastAsetWith(r) == IF r.trap # NoTrap THEN FastTrap(r) ELSE FastAsetEnd(r, Aset(r.a, TOS.data, stk[SP - 1]))
DoFastAset1(o) ==
  Begin /\ IsRegister(Index(o)) /\ Index(o) + 2 < SP - 1 /\ FastAsetWith(FastArray(Index(o), TOS))

---------------------------------------------------------------------------
(* Leaders: the words before the header. *)
LeaderAddress(i, code, h) ==
  IF h.word.type # Type.HeaderI THEN Illegal(code)
  ELSE IF ~InBounds(i, LeaderLength(h.word.data)) THEN Illegal(74)
  ELSE Return(W(Type.Locative, Trunc(h.vma - i.data - 1)))
LeaderElement(w, i, n, code) ==
  CASE ~IsFixnum(i) -> Illegal(code)
    [] IsFixnum(i) /\ ~IsArray(w) -> ArrayException(w, n, code)
    [] OTHER -> Then(MemoryReadHeader(w.data), LAMBDA h : LeaderAddress(i, code, h))

DoArrayLeader(o) ==
  LET Got(x) == Return(Uncdr(x.word))
      Read(e) == Then(MemoryReadData(e.word.data), Got)
  IN  Binary(o, Unsigned(o), Then(LeaderElement(ArrayArg(o), Unsigned(o), 2, 10), Read))

StoreLeader(o, e) ==
  IF ~Ok(e) THEN Fail(o, Unsigned(o), e.trap)
  ELSE StoreContents(o, Unsigned(o), SubSeq(stk, 1, Len(Rest(o)) - 2),
                     MemoryWriteCycle("DataWrite", e.word.data), ValueArg(o))
DoStoreArrayLeader(o) ==
  Begin /\ Deep(o, 2) /\ StoreLeader(o, LeaderElement(ArrayArg(o), Unsigned(o), 3, 11))

DoAlocLeader(o) == Binary(o, Unsigned(o), LeaderElement(ArrayArg(o), Unsigned(o), 2, 10))

---------------------------------------------------------------------------
\* Lisp makes an array longer by one element: it moves leader, header and
\* elements to u, leaves forwarding pointers, and ticks the event count.
ForwardArray(v, u) ==
  LET h == mem[v].data
      n == (ShortLength(h) + 2^BytePacking(h) - 1) \div 2^BytePacking(h)
      l == LeaderLength(h)
  IN  /\ Running /\ steps' = steps + 1
      /\ mem[v].type = Type.HeaderI /\ ~LongPrefix(h) /\ v - l .. u + n + 1 \subseteq Heap
      /\ \A a \in u - l .. u + n + 1 : mem[a] = Fixnum(0)
      /\ mem' = [a \in Heap |->
                   CASE a = v -> W(Type.HeaderForward, u)
                     [] a \in v - l .. v - 1 \cup v + 1 .. v + n ->
                          WithCdr(W(Type.ElementForward, a - v + u), mem[a].cdr)
                     [] a = u -> W(Type.HeaderI, h + 1)
                     [] a \in u - l .. u - 1 \cup u + 1 .. u + n -> mem[a - u + v]
                     [] OTHER -> mem[a]]
      /\ reg' = [reg EXCEPT !.eventcount = @ + 1]
      /\ UNCHANGED <<attr, stk, family, trap, bar>>
=============================================================================
