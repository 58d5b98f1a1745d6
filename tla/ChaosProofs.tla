----------------------------- MODULE ChaosProofs -----------------------------
(***************************************************************************)
(* The rings of the Chaosnet core hold what its packet numbers say, for    *)
(* every size of the rings, windows and number space, every number of      *)
(* connections and every schedule of the network and the peer.             *)
(***************************************************************************)
EXTENDS ChaosStream, SequenceTheorems, WellFoundedInduction, TLAPS

---------------------------------------------------------------------------
(* Induction over the rounds of a loop                                     *)

\* A set with 0 and the successor of each of its numbers has all numbers
LEMMA NatSetInduction ==
  ASSUME NEW S, 0 \in S, \A n \in Nat : n \in S => n + 1 \in S
  PROVE  Nat \subseteq S
<1> SUFFICES ASSUME Nat \ S # {}
             PROVE  FALSE
  OBVIOUS
<1> DEFINE R == OpToRel(<, Nat)
           T == Nat \ S
<1>1. IsWellFoundedOn(R, Nat)
  BY NatLessThanWellFounded
<1>2. \A x, y \in Nat : y < x => <<y, x>> \in R
  BY DEF OpToRel
<1>3. T \subseteq Nat /\ T # {}
  OBVIOUS
<1>4. PICK x \in T : \A y \in T : ~(<<y, x>> \in R)
  <2> HIDE DEF R, T
  <2> QED
    BY <1>1, <1>3, WFMin
<1> HIDE DEF R
<1>5. x # 0
  BY <1>4
<1>6. x - 1 \in Nat /\ x - 1 < x
  BY <1>4, <1>5
<1>7. x - 1 \in S
  BY <1>2, <1>4, <1>6
<1> QED
  BY <1>4, <1>6, <1>7

\* A bounded set of numbers that is not empty has a greatest one
LEMMA MaxExists ==
  ASSUME NEW N \in Nat, NEW S \in SUBSET (0..N), S # {}
  PROVE  Max(S) \in S /\ \A y \in S : Max(S) >= y
<1> DEFINE Has(n) == \E x \in S : x >= n
           I == {n \in Nat : Has(n) => \E x \in S : \A y \in S : x >= y}
           J == {n \in Nat : n <= N => N - n \in I}
<1>1. 0 \in J
  <2>1. ASSUME Has(N)
        PROVE  \E x \in S : \A y \in S : x >= y
    BY <2>1
  <2> QED
    BY <2>1
<1>2. ASSUME NEW n \in Nat, n \in J
      PROVE  n + 1 \in J
  <2> SUFFICES ASSUME n + 1 <= N, Has(N - (n + 1))
               PROVE  \E x \in S : \A y \in S : x >= y
    OBVIOUS
  <2>1. CASE Has(N - n)
    BY <1>2, <2>1
  <2>2. CASE ~Has(N - n)
    BY <2>2
  <2> QED
    BY <2>1, <2>2
<1>3. Nat \subseteq J
  <2> HIDE DEF J
  <2> QED
    BY <1>1, <1>2, NatSetInduction
<1>4. 0 \in I
  <2>1. N \in J
    BY <1>3
  <2>2. N - N = 0
    OBVIOUS
  <2> HIDE DEF I
  <2> QED
    BY <2>1, <2>2
<1>5. \E x \in S : \A y \in S : x >= y
  <2>1. Has(0)
    <3>1. PICK x \in S : TRUE
      OBVIOUS
    <3>2. x \in Nat
      BY <3>1
    <3> QED
      BY <3>1, <3>2
  <2> QED
    BY <1>4, <2>1
<1> QED
  BY <1>5 DEF Max

---------------------------------------------------------------------------
(* Packet numbers                                                          *)

\* Division with remainder, of which there is only one
LEMMA Euclid ==
  ASSUME NEW R \in Nat \ {0}, NEW x \in Int
  PROVE  x \div R \in Int /\ x % R \in 0..(R - 1) /\ x = R * (x \div R) + (x % R)
OBVIOUS

\* Quotient and remainder are determined by the number
LEMMA OneRemainder ==
  ASSUME NEW R \in Nat \ {0}, NEW a \in Int, NEW b \in Int, NEW r \in 0..(R - 1), NEW s \in 0..(R - 1),
         R * a + r = R * b + s
  PROVE  a = b /\ r = s
<1>1. R * (a - b) = s - r
  OBVIOUS
<1>2. CASE a > b
  <2>1. R * (a - b) >= R
    BY <1>2
  <2> QED
    BY <1>1, <2>1
<1>3. CASE a < b
  <2>1. R * (b - a) >= R
    BY <1>3
  <2> QED
    BY <1>1, <2>1
<1> QED
  BY <1>1, <1>2, <1>3

\* A multiple of the modulus does not change the remainder
LEMMA ModShift ==
  ASSUME NEW R \in Nat \ {0}, NEW x \in Int, NEW q \in Int
  PROVE  (x + q * R) % R = x % R
<1> DEFINE y == x + q * R
           a == x \div R + q
           b == y \div R
           r == x % R
           s == y % R
<1>1. /\ y \in Int /\ a \in Int /\ b \in Int /\ r \in 0..(R - 1) /\ s \in 0..(R - 1)
      /\ y = R * b + s
  BY Euclid
<1>2. y = R * a + r
  BY Euclid
<1> HIDE DEF y, a, b, r, s
<1>3. r = s
  BY <1>1, <1>2, OneRemainder
<1> QED
  BY <1>3 DEF r, s, y

\* Numbers closer than a ring are in different slots of it
LEMMA CloseModDiffer ==
  ASSUME NEW R \in Nat \ {0}, NEW x \in Int, NEW y \in Int, x < y, y < x + R
  PROVE  x % R # y % R
<1> SUFFICES ASSUME x % R = y % R
             PROVE  FALSE
  OBVIOUS
<1> DEFINE a == x \div R
           b == y \div R
<1>1. a \in Int /\ b \in Int /\ x = R * a + (x % R) /\ y = R * b + (y % R)
  BY Euclid
<1>2. x % R \in Int
  BY Euclid
<1> HIDE DEF a, b
<1>3. R * (b - a) = y - x
  BY <1>1, <1>2
<1>4. CASE b > a
  <2>1. R * (b - a) >= R
    BY <1>1, <1>4
  <2> QED
    BY <1>3, <2>1
<1>5. CASE b <= a
  <2>1. R * (a - b) >= 0
    BY <1>1, <1>5
  <2> QED
    BY <1>1, <1>3, <2>1
<1> QED
  BY <1>1, <1>4, <1>5

\* The assumptions on the constants, as the proofs use them
LEMMA Sizes ==
  /\ PktSpace \in Nat \ {0} /\ Ring \in Nat \ {0} /\ MaxWindow \in Nat \ {0} /\ LocalWindow \in Nat \ {0}
  /\ MaxWindow < Ring /\ LocalWindow < Ring /\ PktSpace > Ring + Ring
BY RingAssumption

\* Half the number space, which SeqLt compares with, spans a ring
LEMMA Half ==
  /\ PktSpace \div 2 \in Nat /\ PktSpace \div 2 >= Ring
  /\ 2 * (PktSpace \div 2) <= PktSpace /\ PktSpace <= 2 * (PktSpace \div 2) + 1
BY RingAssumption

\* What the operations on numbers compute, without remainders
LEMMA DiffIs ==
  ASSUME NEW a \in Num, NEW b \in Num
  PROVE  /\ SeqDiff(a, b) \in Num
         /\ SeqDiff(a, b) = IF a >= b THEN a - b ELSE (a - b) + PktSpace
BY Sizes DEF SeqDiff, Num

\* Numbers are added without a remainder: they wrap at most once
LEMMA PlusIs ==
  ASSUME NEW a \in Num, NEW i \in 0..PktSpace
  PROVE  /\ (a + i) % PktSpace \in Num
         /\ (a + i) % PktSpace = IF a + i < PktSpace THEN a + i ELSE (a + i) - PktSpace
BY Sizes DEF Num

\* SeqInc counts up and wraps at the end of the space
LEMMA IncIs ==
  ASSUME NEW a \in Num
  PROVE  SeqInc(a) \in Num /\ SeqInc(a) = IF a = PktSpace - 1 THEN 0 ELSE a + 1
<1> DEFINE n == (a + 1) % PktSpace
<1>1. n \in Num /\ n = IF a + 1 < PktSpace THEN a + 1 ELSE (a + 1) - PktSpace
  BY PlusIs, Sizes
<1> HIDE DEF n
<1>2. n \in Num /\ n = IF a = PktSpace - 1 THEN 0 ELSE a + 1
  BY <1>1, Sizes DEF Num
<1> QED
  BY <1>2 DEF n, SeqInc

\* The number before a, and SeqInc undoes it
LEMMA DecIs ==
  ASSUME NEW a \in Num
  PROVE  (a - 1) % PktSpace \in Num /\ SeqInc((a - 1) % PktSpace) = a
BY Sizes DEF SeqInc, Num

\* SeqLt says that b is ahead of a by at most half the space
LEMMA LtIs ==
  ASSUME NEW a \in Num, NEW b \in Num
  PROVE  SeqLt(a, b) <=> SeqDiff(a, b) >= PktSpace \div 2
BY DEF SeqLt

\* A number is its distance after another
LEMMA NumIsAfter ==
  ASSUME NEW a \in Num, NEW b \in Num
  PROVE  (b + SeqDiff(a, b)) % PktSpace = a
<1> DEFINE d == SeqDiff(a, b)
           n == (b + d) % PktSpace
<1>1. d \in Num /\ d = IF a >= b THEN a - b ELSE (a - b) + PktSpace
  BY DiffIs
<1> HIDE DEF d
<1>2. n = IF b + d < PktSpace THEN b + d ELSE (b + d) - PktSpace
  <2>1. d \in 0..PktSpace
    BY <1>1, Sizes DEF Num
  <2> QED
    BY <2>1, PlusIs
<1> HIDE DEF n
<1>3. n = a
  BY <1>1, <1>2, Sizes DEF Num
<1> QED
  BY <1>3 DEF n, d

\* The i-th number after a is i ahead of a
LEMMA DiffOfAfter ==
  ASSUME NEW a \in Num, NEW i \in 0..(PktSpace - 1)
  PROVE  SeqDiff((a + i) % PktSpace, a) = i
<1> DEFINE n == (a + i) % PktSpace
<1>1. n \in Num /\ n = IF a + i < PktSpace THEN a + i ELSE (a + i) - PktSpace
  BY PlusIs, Sizes
<1> HIDE DEF n
<1>2. SeqDiff(n, a) = IF n >= a THEN n - a ELSE (n - a) + PktSpace
  BY <1>1, DiffIs
<1>3. SeqDiff(n, a) = i
  BY <1>1, <1>2, Sizes DEF Num
<1> QED
  BY <1>3 DEF n

\* Distances
LEMMA DiffType ==
  ASSUME NEW a \in Num, NEW b \in Num
  PROVE  SeqDiff(a, b) \in Nat /\ SeqDiff(a, b) < PktSpace /\ SeqDiff(a, a) = 0
<1>1. SeqDiff(a, b) \in Num /\ SeqDiff(a, a) = a - a
  BY DiffIs DEF Num
<1> QED
  BY <1>1, Sizes DEF Num

\* Counting up moves one further ahead
LEMMA DiffInc ==
  ASSUME NEW a \in Num, NEW b \in Num, SeqDiff(a, b) < PktSpace - 1
  PROVE  SeqDiff(SeqInc(a), b) = SeqDiff(a, b) + 1
<1> DEFINE n == SeqInc(a)
<1>1. n \in Num /\ n = IF a = PktSpace - 1 THEN 0 ELSE a + 1
  BY IncIs
<1> HIDE DEF n
<1>2. /\ SeqDiff(a, b) = IF a >= b THEN a - b ELSE (a - b) + PktSpace
      /\ SeqDiff(n, b) = IF n >= b THEN n - b ELSE (n - b) + PktSpace
  BY <1>1, DiffIs
<1>3. SeqDiff(n, b) = SeqDiff(a, b) + 1
  BY <1>1, <1>2, Sizes DEF Num
<1> QED
  BY <1>3 DEF n

\* Distances add up, as long as they do not go round the space
LEMMA DiffAdd ==
  ASSUME NEW a \in Num, NEW b \in Num, NEW c \in Num,
         \/ SeqDiff(b, a) + SeqDiff(c, b) < PktSpace
         \/ SeqDiff(b, a) <= SeqDiff(c, a)
  PROVE  SeqDiff(c, a) = SeqDiff(b, a) + SeqDiff(c, b)
<1>1. /\ SeqDiff(b, a) = IF b >= a THEN b - a ELSE (b - a) + PktSpace
      /\ SeqDiff(c, a) = IF c >= a THEN c - a ELSE (c - a) + PktSpace
      /\ SeqDiff(c, b) = IF c >= b THEN c - b ELSE (c - b) + PktSpace
  BY DiffIs
<1> QED
  BY <1>1, Sizes DEF Num

\* An acknowledgement between two numbers a window apart divides the window
LEMMA Between ==
  ASSUME NEW a \in Num, NEW s \in Num, NEW x \in Num, SeqDiff(s, a) <= MaxWindow,
         SeqLt(a, x), ~SeqLt(s, x)
  PROVE  SeqDiff(s, a) = SeqDiff(x, a) + SeqDiff(s, x) /\ SeqDiff(x, a) > 0
<1> DEFINE H == PktSpace \div 2
           sa == SeqDiff(s, a)
           ax == SeqDiff(a, x)
           xa == SeqDiff(x, a)
           sx == SeqDiff(s, x)
<1>1. /\ sa = IF s >= a THEN s - a ELSE (s - a) + PktSpace
      /\ ax = IF a >= x THEN a - x ELSE (a - x) + PktSpace
      /\ xa = IF x >= a THEN x - a ELSE (x - a) + PktSpace
      /\ sx = IF s >= x THEN s - x ELSE (s - x) + PktSpace
  BY DiffIs
<1>2. ax >= H /\ ~(sx >= H)
  BY LtIs
<1>3. /\ H \in Nat /\ H >= Ring /\ 2 * H <= PktSpace /\ PktSpace <= 2 * H + 1
      /\ PktSpace \in Nat /\ Ring \in Nat /\ MaxWindow \in Nat /\ MaxWindow < Ring
  BY Sizes, Half
<1>4. sa <= MaxWindow
  OBVIOUS
<1> HIDE DEF H, sa, ax, xa, sx
<1> QED
  BY <1>1, <1>2, <1>3, <1>4 DEF Num, sa, xa, sx

\* Numbers after the same one that are closer than the ring have their own slots
LEMMA SlotType ==
  ASSUME NEW n \in Num
  PROVE  SlotOf(n) \in 0..(Ring - 1)
BY Sizes DEF SlotOf, Num

\* Numbers less than a ring apart have slots of their own
LEMMA SlotsDiffer ==
  ASSUME NEW a \in Num, NEW i \in 0..PktSpace, NEW j \in 0..PktSpace, i < j, j < i + Ring
  PROVE  SlotOf((a + i) % PktSpace) # SlotOf((a + j) % PktSpace)
<1>1. PICK q \in Int : PktSpace = q * Ring
  <2>1. PktSpace = Ring * (PktSpace \div Ring) + 0 /\ PktSpace \div Ring \in Int
    BY Sizes, Euclid, RingAssumption
  <2> DEFINE r == PktSpace \div Ring
  <2>2. PktSpace = Ring * r /\ r \in Int
    BY <2>1, Sizes
  <2> HIDE DEF r
  <2> QED
    BY <2>2, Sizes
<1>2. ASSUME NEW x \in Int
      PROVE  (x - PktSpace) % Ring = x % Ring
  <2> DEFINE p == -q
  <2>1. p \in Int /\ x - PktSpace = x + p * Ring
    BY <1>1, Sizes
  <2> HIDE DEF p
  <2>2. (x + p * Ring) % Ring = x % Ring
    BY <2>1, Sizes, ModShift
  <2> QED
    BY <2>1, <2>2
<1>3. ASSUME NEW k \in 0..PktSpace
      PROVE  SlotOf((a + k) % PktSpace) = (a + k) % Ring
  <2>1. CASE a + k < PktSpace
    <3>1. (a + k) % PktSpace = a + k
      BY <2>1, PlusIs
    <3> QED
      BY <3>1 DEF SlotOf
  <2>2. CASE ~(a + k < PktSpace)
    <3>1. (a + k) % PktSpace = (a + k) - PktSpace
      BY <2>2, PlusIs
    <3>2. a + k \in Int
      BY Sizes DEF Num
    <3> QED
      BY <1>2, <3>1, <3>2 DEF SlotOf
  <2> QED
    BY <2>1, <2>2
<1>4. (a + i) % Ring # (a + j) % Ring
  <2> DEFINE x == a + i
             y == a + j
  <2>1. x \in Int /\ y \in Int /\ x < y /\ y < x + Ring
    BY Sizes DEF Num
  <2> HIDE DEF x, y
  <2>2. x % Ring # y % Ring
    BY <2>1, CloseModDiffer, Sizes
  <2> QED
    BY <2>2 DEF x, y
<1> QED
  BY <1>3, <1>4

\* Two numbers within a ring after the same one share no slot
LEMMA SlotIsOne ==
  ASSUME NEW a \in Num, NEW m \in Num, NEW n \in Num, SeqDiff(m, a) < Ring, SeqDiff(n, a) < Ring,
         SlotOf(m) = SlotOf(n)
  PROVE  m = n
<1> DEFINE i == SeqDiff(m, a)
           j == SeqDiff(n, a)
<1>1. i \in 0..PktSpace /\ j \in 0..PktSpace /\ m = (a + i) % PktSpace /\ n = (a + j) % PktSpace
  <2>1. i \in Num /\ j \in Num
    BY DiffIs
  <2>2. m = (a + i) % PktSpace /\ n = (a + j) % PktSpace
    BY NumIsAfter
  <2> HIDE DEF i, j
  <2> QED
    BY <2>1, <2>2, Sizes DEF Num
<1>2. i < Ring /\ j < Ring
  OBVIOUS
<1> HIDE DEF i, j
<1>3. ~(i < j) /\ ~(j < i)
  BY <1>1, <1>2, SlotsDiffer, Sizes
<1> QED
  BY <1>1, <1>3

---------------------------------------------------------------------------
(* What a connection is                                                    *)
Verbs == {"OPN", "CLS", "ANS", "LOS"}
Datum == Int \cup Verbs \cup {"STATUS", "TELNET"}
Data == Seq(Datum)
Pkts == [op : {"none", "RFC", "DAT", "EOF"}, num : Num, data : Data]
Queues == [0..(Ring - 1) -> Pkts]

\* At most a window of packets without acknowledgement, those without receipt
\* in the ring
Sending(sent, acked, receipt, q) ==
  /\ SeqDiff(sent, receipt) <= SeqDiff(sent, acked) /\ SeqDiff(sent, acked) <= MaxWindow
  /\ \A n \in Num : SeqDiff(n, receipt) \in 1..SeqDiff(sent, receipt) => Holds(q, n)

\* What is in the ring is not read and within the window, and what was
\* received in order is in the ring
Queued(read, q) ==
  \A s \in 0..(Ring - 1) :
    q[s].op # "none" => SlotOf(q[s].num) = s /\ SeqDiff(q[s].num, read) \in 1..LocalWindow
Receiving(received, read, q) ==
  /\ SeqDiff(received, read) <= LocalWindow
  /\ \A n \in Num : SeqDiff(n, read) \in 1..SeqDiff(received, read) => Holds(q, n)
  /\ Queued(read, q)

\* conn_send_controlled uses a slot that no packet needs
LEMMA SendOne ==
  ASSUME NEW sent \in Num, NEW acked \in Num, NEW receipt \in Num, NEW q \in Queues, NEW p \in Pkts,
         Sending(sent, acked, receipt, q), SeqDiff(sent, acked) < MaxWindow,
         p.op # "none", p.num = SeqInc(sent)
  PROVE  /\ Sending(SeqInc(sent), acked, receipt, [q EXCEPT ![SlotOf(SeqInc(sent))] = p])
         /\ SeqDiff(SeqInc(sent), acked) = SeqDiff(sent, acked) + 1
<1> DEFINE m == SeqInc(sent)
           r == [q EXCEPT ![SlotOf(m)] = p]
<1>1. m \in Num /\ SlotOf(m) \in 0..(Ring - 1)
  BY IncIs, SlotType
<1>2. /\ SeqDiff(m, acked) = SeqDiff(sent, acked) + 1
      /\ SeqDiff(m, receipt) = SeqDiff(sent, receipt) + 1
  <2>1. SeqDiff(sent, acked) < PktSpace - 1 /\ SeqDiff(sent, receipt) < PktSpace - 1
    BY DiffType, Sizes DEF Sending
  <2> QED
    BY <2>1, DiffInc
<1> HIDE DEF m
<1>3. ASSUME NEW n \in Num, SeqDiff(n, receipt) \in 1..SeqDiff(m, receipt)
      PROVE  Holds(r, n)
  <2>1. CASE n = m
    BY <1>1, <2>1 DEF Holds, Queues, m
  <2>2. CASE n # m
    <3>1. SeqDiff(n, receipt) # SeqDiff(m, receipt)
      BY <1>1, <2>2, NumIsAfter
    <3>2. SeqDiff(n, receipt) \in 1..SeqDiff(sent, receipt)
      BY <1>1, <1>2, <1>3, <3>1, DiffType
    <3>3. Holds(q, n)
      BY <3>2 DEF Sending
    <3>4. SeqDiff(n, receipt) < Ring /\ SeqDiff(m, receipt) < Ring
      BY <1>1, <1>2, <1>3, DiffType, Sizes DEF Sending
    <3>5. SlotOf(n) # SlotOf(m)
      BY <1>1, <2>2, <3>4, SlotIsOne
    <3> QED
      BY <1>1, <3>3, <3>5, SlotType DEF Holds, Queues
  <2> QED
    BY <2>1, <2>2
<1>4. SeqDiff(m, receipt) <= SeqDiff(m, acked) /\ SeqDiff(m, acked) <= MaxWindow
  BY <1>2, DiffType, Sizes DEF Sending
<1> QED
  BY <1>2, <1>3, <1>4 DEF Sending, m

\* A receipt for packets that were sent releases only their slots
LEMMA ReceiptReleases ==
  ASSUME NEW sent \in Num, NEW acked \in Num, NEW receipt \in Num, NEW x \in Num, NEW q \in Queues,
         NEW r \in Queues, Sending(sent, acked, receipt, q), SeqLt(receipt, x), ~SeqLt(sent, x),
         \A s \in 0..(Ring - 1) :
           (\A n \in Num : SeqDiff(n, receipt) \in 1..SeqDiff(x, receipt) => SlotOf(n) # s) => r[s] = q[s]
  PROVE  Sending(sent, acked, x, r)
<1>1. SeqDiff(sent, receipt) <= MaxWindow
  BY DiffType, Sizes DEF Sending
<1>2. SeqDiff(sent, receipt) = SeqDiff(x, receipt) + SeqDiff(sent, x) /\ SeqDiff(x, receipt) > 0
  BY <1>1, Between
<1>3. ASSUME NEW n \in Num, SeqDiff(n, x) \in 1..SeqDiff(sent, x)
      PROVE  Holds(r, n)
  <2>1. SeqDiff(n, receipt) = SeqDiff(x, receipt) + SeqDiff(n, x)
    <3>1. SeqDiff(x, receipt) + SeqDiff(n, x) < PktSpace
      BY <1>1, <1>2, <1>3, DiffType, Sizes
    <3> QED
      BY <3>1, DiffAdd
  <2>2. SeqDiff(n, receipt) \in 1..SeqDiff(sent, receipt)
    BY <1>2, <1>3, <2>1, DiffType
  <2>3. Holds(q, n)
    BY <2>2 DEF Sending
  <2>4. ASSUME NEW m \in Num, SeqDiff(m, receipt) \in 1..SeqDiff(x, receipt)
        PROVE  SlotOf(m) # SlotOf(n)
    <3>1. SeqDiff(m, receipt) < Ring /\ SeqDiff(n, receipt) < Ring
      BY <1>1, <1>2, <2>2, <2>4, DiffType, Sizes
    <3>2. m # n
      BY <1>3, <2>1, <2>4, DiffType
    <3> QED
      BY <3>1, <3>2, SlotIsOne
  <2>5. r[SlotOf(n)] = q[SlotOf(n)]
    BY <2>4, SlotType
  <2> QED
    BY <2>3, <2>5 DEF Holds
<1>4. SeqDiff(sent, x) <= SeqDiff(sent, acked)
  BY <1>2, DiffType DEF Sending
<1> QED
  BY <1>3, <1>4, DiffType DEF Sending

\* conn_queue_input uses a slot that no packet needs
LEMMA QueueOne ==
  ASSUME NEW received \in Num, NEW read \in Num, NEW q \in Queues, NEW p \in Pkts,
         Receiving(received, read, q), SeqLt(received, p.num), SeqDiff(p.num, read) <= LocalWindow
  PROVE  Receiving(received, read, [q EXCEPT ![SlotOf(p.num)] = p])
<1> DEFINE m == p.num
           r == [q EXCEPT ![SlotOf(m)] = p]
<1>1. m \in Num /\ SlotOf(m) \in 0..(Ring - 1)
  BY SlotType DEF Pkts
<1>2. SeqDiff(received, m) >= PktSpace \div 2
  BY <1>1, LtIs
<1>3. SeqDiff(m, read) \in 1..LocalWindow
  <2>1. SeqDiff(m, read) # 0
    <3> SUFFICES ASSUME SeqDiff(m, read) = 0
                 PROVE  FALSE
      OBVIOUS
    <3>1. m = (read + 0) % PktSpace /\ read = (read + 0) % PktSpace
      BY <1>1, NumIsAfter, DiffType
    <3>2. SeqDiff(received, m) = SeqDiff(received, read)
      BY <3>1
    <3> QED
      BY <1>2, <3>2, Sizes, Half, DiffType DEF Receiving
  <2> QED
    BY <1>1, <2>1, DiffType, Sizes
<1> HIDE DEF m
<1>4. ASSUME NEW n \in Num, SeqDiff(n, read) \in 1..SeqDiff(received, read)
      PROVE  Holds(r, n)
  <2>1. Holds(q, n)
    BY <1>4 DEF Receiving
  <2>2. SeqDiff(n, read) < Ring /\ SeqDiff(m, read) < Ring
    BY <1>1, <1>3, <1>4, DiffType, Sizes DEF Receiving
  <2>3. n = m \/ SlotOf(n) # SlotOf(m)
    BY <1>1, <2>2, SlotIsOne
  <2>4. CASE n = m
    <3>1. r[SlotOf(n)] = p
      BY <1>1, <2>4 DEF Queues
    <3>2. r[SlotOf(n)].num = n
      BY <3>1, <2>4 DEF m
    <3>3. q[SlotOf(n)].num = n /\ q[SlotOf(n)].op # "none"
      BY <2>1 DEF Holds
    <3>4. SeqDiff(received, m) < Ring
      <4>1. SeqDiff(m, read) <= SeqDiff(received, read)
        BY <1>1, <1>4, <2>4, DiffType
      <4>2. SeqDiff(received, read) = SeqDiff(m, read) + SeqDiff(received, m)
        BY <1>1, <4>1, DiffAdd
      <4> QED
        BY <1>1, <4>2, DiffType, Sizes DEF Receiving
    <3> QED
      BY <1>1, <1>2, <3>4, Half, Sizes, DiffType
  <2> QED
    BY <1>1, <2>1, <2>3, <2>4, SlotType DEF Holds, Queues
<1>5. Queued(read, r)
  BY <1>1, <1>3 DEF Receiving, Queued, Queues, m
<1> QED
  BY <1>4, <1>5 DEF Receiving, m

\* The in-order mark may move over packets that are in the ring
LEMMA Advance ==
  ASSUME NEW received \in Num, NEW read \in Num, NEW q \in Queues, NEW j \in 0..Ring,
         Receiving(received, read, q),
         \A i \in 1..j : Holds(q, (received + i) % PktSpace)
  PROVE  Receiving((received + j) % PktSpace, read, q)
<1> DEFINE At(i) == (received + i) % PktSpace
           d == SeqDiff(received, read)
<1>1. ASSUME NEW i \in 0..Ring
      PROVE  At(i) \in Num /\ SeqDiff(At(i), read) = d + i
  <2>1. i \in 0..PktSpace /\ i \in 0..(PktSpace - 1)
    BY Sizes
  <2>2. At(i) \in Num /\ SeqDiff(At(i), received) = i
    BY <2>1, PlusIs, DiffOfAfter
  <2> HIDE DEF At
  <2>3. d + SeqDiff(At(i), received) < PktSpace
    BY <2>1, <2>2, Sizes, DiffType DEF Receiving
  <2> QED
    BY <2>2, <2>3, DiffAdd
<1>2. d \in Nat /\ d <= LocalWindow
  BY DiffType DEF Receiving
<1>3. \A i \in 1..j : Holds(q, At(i))
  OBVIOUS
<1> HIDE DEF At, d
<1>4. ASSUME NEW i \in 1..j
      PROVE  d + i <= LocalWindow
  <2>1. i \in 0..Ring
    BY Sizes
  <2>2. q[SlotOf(At(i))].op # "none" /\ q[SlotOf(At(i))].num = At(i) /\ SlotOf(At(i)) \in 0..(Ring - 1)
    BY <1>1, <1>3, <2>1, SlotType DEF Holds
  <2>3. SeqDiff(At(i), read) \in 1..LocalWindow
    BY <2>2 DEF Receiving, Queued
  <2> QED
    BY <1>1, <2>1, <2>3
<1>5. d + j <= LocalWindow
  <2>1. CASE j = 0
    BY <1>2, <2>1, Sizes
  <2>2. CASE j # 0
    BY <1>4, <2>2, Sizes
  <2> QED
    BY <2>1, <2>2
<1>6. ASSUME NEW n \in Num, SeqDiff(n, read) \in 1..(d + j)
      PROVE  Holds(q, n)
  <2>1. CASE SeqDiff(n, read) <= d
    BY <1>6, <2>1 DEF Receiving, d
  <2>2. CASE SeqDiff(n, read) > d
    <3> DEFINE i == SeqDiff(n, read) - d
    <3>1. i \in 1..j /\ i \in 0..Ring
      BY <1>2, <1>6, <2>2, Sizes, DiffType
    <3>2. SeqDiff(At(i), read) = SeqDiff(n, read) /\ At(i) \in Num
      BY <1>1, <1>2, <3>1, DiffType
    <3>3. At(i) = n
      BY <3>2, NumIsAfter
    <3> QED
      BY <1>3, <3>1, <3>3
  <2> QED
    BY <1>2, <2>1, <2>2, DiffType
<1>7. At(j) \in Num /\ SeqDiff(At(j), read) = d + j
  BY <1>1
<1>8. Receiving(At(j), read, q)
  BY <1>5, <1>6, <1>7 DEF Receiving
<1> QED
  BY <1>8 DEF At

\* chaos_recv empties the slot of what it has read
LEMMA ReadOne ==
  ASSUME NEW received \in Num, NEW read \in Num, NEW q \in Queues,
         Receiving(received, read, q), received # read
  PROVE  /\ Holds(q, SeqInc(read))
         /\ Receiving(received, SeqInc(read), [q EXCEPT ![SlotOf(SeqInc(read))] = NoPkt])
<1> DEFINE m == SeqInc(read)
           r == [q EXCEPT ![SlotOf(m)] = NoPkt]
<1>1. m \in Num /\ SlotOf(m) \in 0..(Ring - 1)
  BY IncIs, SlotType
<1>2. SeqDiff(received, read) >= 1
  <2>1. SeqDiff(received, read) # 0
    BY NumIsAfter, DiffType
  <2> QED
    BY <2>1, DiffType
<1>3. SeqDiff(m, read) = 1
  BY DiffInc, DiffType, Sizes
<1> HIDE DEF m
<1>4. ASSUME NEW n \in Num, SeqDiff(n, read) >= 1
      PROVE  SeqDiff(n, m) = SeqDiff(n, read) - 1
  <2>1. SeqDiff(m, read) <= SeqDiff(n, read)
    BY <1>3, <1>4
  <2> QED
    BY <1>1, <1>3, <2>1, DiffAdd, DiffType
<1>5. Holds(q, m)
  BY <1>1, <1>2, <1>3, DiffType DEF Receiving
<1>6. ASSUME NEW n \in Num, SeqDiff(n, m) \in 1..SeqDiff(received, m)
      PROVE  Holds(r, n)
  <2>1. SeqDiff(m, read) + SeqDiff(n, m) < PktSpace
    BY <1>1, <1>2, <1>3, <1>4, <1>6, DiffType, Sizes DEF Receiving
  <2>2. SeqDiff(n, read) = 1 + SeqDiff(n, m)
    BY <1>1, <1>3, <2>1, DiffAdd
  <2>3. SeqDiff(n, read) \in 1..SeqDiff(received, read)
    BY <1>1, <1>2, <1>4, <1>6, <2>2, DiffType
  <2>4. Holds(q, n)
    BY <2>3 DEF Receiving
  <2>5. n # m
    BY <1>1, <1>6, DiffType
  <2>6. SeqDiff(n, read) < Ring /\ SeqDiff(m, read) < Ring
    BY <1>3, <2>3, DiffType, Sizes DEF Receiving
  <2>7. SlotOf(n) # SlotOf(m)
    BY <1>1, <2>5, <2>6, SlotIsOne
  <2> QED
    BY <1>1, <2>4, <2>7, SlotType DEF Holds, Queues
<1>7. ASSUME NEW s \in 0..(Ring - 1), r[s].op # "none"
      PROVE  SlotOf(r[s].num) = s /\ SeqDiff(r[s].num, m) \in 1..LocalWindow
  <2>1. s # SlotOf(m) /\ r[s] = q[s]
    BY <1>1, <1>7 DEF Queues, NoPkt
  <2>2. SlotOf(q[s].num) = s /\ SeqDiff(q[s].num, read) \in 1..LocalWindow /\ q[s].num \in Num
    BY <1>7, <2>1 DEF Receiving, Queued, Queues, Pkts
  <2>3. SeqDiff(q[s].num, read) # 1
    BY <1>1, <1>3, <2>1, <2>2, NumIsAfter
  <2>4. SeqDiff(q[s].num, m) = SeqDiff(q[s].num, read) - 1
    BY <1>4, <2>2
  <2> QED
    BY <2>1, <2>2, <2>3, <2>4, Sizes
<1>8. SeqDiff(received, m) <= LocalWindow
  BY <1>2, <1>4, DiffType, Sizes DEF Receiving
<1> QED
  BY <1>5, <1>6, <1>7, <1>8 DEF Receiving, Queued, m

---------------------------------------------------------------------------
(* What the core is                                                        *)
Ops == {"ARPREQ", "ARPREP", "RFC", "OPN", "DAT", "EOF", "STS", "SNS", "ANS", "CLS", "LOS", "FWD"}
Packets ==
  {m \in [op : Ops, dest : Nat, src : Nat, num : Num, ack : Num, data : Data] :
     m.op \in {"OPN", "STS"} => Len(m.data) = 2 /\ m.data[1] \in Num /\ m.data[2] \in Nat}

Conns ==
  [state : {"FREE", "RFC_SENT", "OPEN", "CLOSED"},
   closeKind : {"NONE", "CLS", "ANS", "LOS", "DONE", "TIMEOUT"},
   localIndex : Nat, remoteIndex : Nat,
   sentNum : Num, ackedNum : Num, receiptNum : Num, remoteWindow : 0..MaxWindow, sendq : Queues,
   eofWanted : BOOLEAN, eofSent : BOOLEAN, eofNum : Num,
   readNum : Num, receivedNum : Num, lastAckSent : Num, rcvq : Queues,
   eofReceived : BOOLEAN, ackDue : BOOLEAN]

\* Its rings are sound, and nothing was received before the answer to the RFC
ConnOK(k) ==
  /\ Sending(k.sentNum, k.ackedNum, k.receiptNum, k.sendq)
  /\ Receiving(k.receivedNum, k.readNum, k.rcvq)
  /\ k.state = "RFC_SENT" => \A s \in 0..(Ring - 1) : k.rcvq[s].op = "none"
Sound == {k \in Conns : ConnOK(k)}

Cores ==
  [conns : [Slots -> Sound], uniquizer : Nat, initialPktNum : Num, arp : BOOLEAN,
   out : Seq(Packets)]

\* What a routine may do that neither opens nor releases a connection
SameUse(c, d) == \A g \in Slots : c.conns[g].state = "FREE" <=> d.conns[g].state = "FREE"

\* What sending does besides: the packet tells what was read
Alike(k, j) == j = [k EXCEPT !.lastAckSent = j.lastAckSent, !.ackDue = j.ackDue]
Touches(c, d, h) ==
  /\ d \in Cores /\ Alike(c.conns[h], d.conns[h]) /\ d.arp = c.arp /\ d.uniquizer = c.uniquizer
  /\ \A g \in Slots \ {h} : d.conns[g] = c.conns[g]

\* There is a slot, and the slots are numbers
LEMMA SlotsType == MaxConns \in Nat \ {0} /\ 0 \in Slots /\ Slots \subseteq Nat
BY SizeAssumption DEF Slots

\* An empty sequence, and sequences of few elements
LEMMA ShortSeqs ==
  ASSUME NEW S
  PROVE  /\ <<>> \in Seq(S) /\ Len(<<>>) = 0
         /\ \A x \in S : <<x>> \in Seq(S) /\ Len(<<x>>) = 1
         /\ \A x, y \in S : <<x, y>> \in Seq(S) /\ Len(<<x, y>>) = 2
OBVIOUS

\* An empty slot of a ring is well formed
LEMMA NoPktType == NoPkt \in Pkts
<1>1. <<>> \in Data
  BY ShortSeqs DEF Data
<1>2. 0 \in Num
  BY Sizes DEF Num
<1> QED
  BY <1>1, <1>2 DEF NoPkt, Pkts

\* A packet put together from its fields is well formed
LEMMA PacketType ==
  ASSUME NEW op \in Ops, NEW dest \in Nat, NEW src \in Nat, NEW num \in Num, NEW ack \in Num,
         NEW data \in Data, op \in {"OPN", "STS"} => Len(data) = 2 /\ data[1] \in Num /\ data[2] \in Nat
  PROVE  Packet(op, dest, src, num, ack, data) \in Packets
BY DEF Packet, Packets

\* The data of an OPN and an STS: a number and a window
LEMMA PairType ==
  ASSUME NEW n \in Num, NEW w \in Nat
  PROVE  <<n, w>> \in Data /\ Len(<<n, w>>) = 2 /\ <<n, w>>[1] = n /\ <<n, w>>[2] = w
BY Sizes DEF Data, Datum, Num

\* The packets of the address resolution are well formed
LEMMA ArpType == ASSUME NEW op \in {"ARPREQ", "ARPREP"} PROVE ArpPacket(op) \in Packets
<1>1. 0 \in Num /\ <<>> \in Data
  BY Sizes, ShortSeqs DEF Num, Data
<1> QED
  BY <1>1, PacketType DEF ArpPacket, Ops

\* A connection that is not in use has empty rings
LEMMA FreeIsSound == FreeConn \in Sound /\ FreeConn.state = "FREE"
<1>1. 0 \in Num /\ 0 \in 0..MaxWindow /\ [s \in 0..(Ring - 1) |-> NoPkt] \in Queues
  BY Sizes, NoPktType DEF Num, Queues
<1>2. FreeConn \in Conns
  BY <1>1 DEF FreeConn, Conns
<1>3. SeqDiff(0, 0) = 0
  BY <1>1, DiffType
<1>4. Sending(0, 0, 0, FreeConn.sendq)
  BY <1>1, <1>3, Sizes DEF Sending
<1>5. Receiving(0, 0, FreeConn.rcvq)
  BY <1>1, <1>3, Sizes DEF Receiving, Queued, FreeConn, NoPkt
<1>6. ConnOK(FreeConn)
  BY <1>4, <1>5 DEF ConnOK, FreeConn
<1> QED
  BY <1>2, <1>6 DEF Sound, FreeConn

\* ChaosCoreInit leaves every slot free
LEMMA CoreInitOK ==
  CoreInit \in Cores /\ CoreInit.out = <<>> /\ \A h \in Slots : CoreInit.conns[h].state = "FREE"
<1>1. <<>> \in Seq(Packets)
  BY ShortSeqs
<1> QED
  BY <1>1, FreeIsSound, SizeAssumption DEF CoreInit, Cores, Slots, Num

\* Replacing a connection
LEMMA SetConn ==
  ASSUME NEW c \in Cores, NEW h \in Slots, NEW k \in Sound
  PROVE  LET d == [c EXCEPT !.conns[h] = k]
         IN /\ d \in Cores /\ d.conns[h] = k /\ d.arp = c.arp /\ d.uniquizer = c.uniquizer
            /\ \A g \in Slots \ {h} : d.conns[g] = c.conns[g]
BY DEF Cores

\* Every connection of a core is sound
LEMMA ConnType ==
  ASSUME NEW c \in Cores, NEW h \in Slots
  PROVE  c.conns[h] \in Sound /\ c.conns[h] \in Conns /\ ConnOK(c.conns[h])
BY DEF Cores, Sound

\* Noting what was acknowledged leaves the rings alone
LEMMA AlikeSound ==
  ASSUME NEW k \in Sound, NEW a \in Num, NEW b \in BOOLEAN
  PROVE  [k EXCEPT !.lastAckSent = a, !.ackDue = b] \in Sound
BY DEF Sound, Conns, ConnOK

\* Alike connections are in the same state
LEMMA AlikeFields ==
  ASSUME NEW k \in Sound, NEW j \in Sound, Alike(k, j)
  PROVE  /\ j.state = k.state /\ j.remoteIndex = k.remoteIndex /\ j.localIndex = k.localIndex
         /\ j.sentNum = k.sentNum /\ j.ackedNum = k.ackedNum /\ j.receiptNum = k.receiptNum
         /\ j.remoteWindow = k.remoteWindow /\ j.readNum = k.readNum /\ j.receivedNum = k.receivedNum
         /\ j.eofWanted = k.eofWanted /\ j.eofSent = k.eofSent /\ j.eofReceived = k.eofReceived
         /\ j.sendq = k.sendq /\ j.rcvq = k.rcvq
BY DEF Alike, Sound, Conns

\* Sending neither opens nor releases a connection
LEMMA TouchesSame ==
  ASSUME NEW c \in Cores, NEW d, NEW h \in Slots, Touches(c, d, h)
  PROVE  SameUse(c, d)
<1>1. d \in Cores
  BY DEF Touches
<1>2. d.conns[h].state = c.conns[h].state
  BY <1>1, ConnType, AlikeFields DEF Touches
<1> QED
  BY <1>2 DEF Touches, SameUse

---------------------------------------------------------------------------
(* Sending                                                                 *)
LEMMA SendRawOK ==
  ASSUME NEW c \in Cores, NEW p \in Packets
  PROVE  /\ SendRaw(c, p) \in Cores /\ SendRaw(c, p).conns = c.conns
         /\ SendRaw(c, p).arp = c.arp /\ SendRaw(c, p).uniquizer = c.uniquizer
<1>1. Framed(c, p) \in Packets
  BY ArpType DEF Framed
<1>2. Append(c.out, Framed(c, p)) \in Seq(Packets)
  BY <1>1, AppendProperties DEF Cores
<1> QED
  BY <1>2 DEF SendRaw, Cores

\* Noting what a packet acknowledges is all that it does
LEMMA AcknowledgingOK ==
  ASSUME NEW c \in Cores, NEW h \in Slots
  PROVE  Touches(c, Acknowledging(c, h), h)
<1> DEFINE k == c.conns[h]
           j == [k EXCEPT !.lastAckSent = k.readNum, !.ackDue = FALSE]
           d == Acknowledging(c, h)
<1>1. k \in Sound /\ k.readNum \in Num
  BY ConnType DEF Conns
<1>2. j \in Sound
  BY <1>1, AlikeSound
<1>3. d = [c EXCEPT !.conns[h] = j]
  BY <1>1 DEF Acknowledging, Cores, Sound, Conns
<1>4. d \in Cores /\ d.conns[h] = j /\ d.arp = c.arp /\ d.uniquizer = c.uniquizer /\ \A g \in Slots \ {h} : d.conns[g] = c.conns[g]
  BY <1>2, <1>3, SetConn
<1>5. Alike(k, j)
  BY <1>1 DEF Alike, Sound, Conns
<1> QED
  BY <1>4, <1>5 DEF Touches

\* Sending an uncontrolled packet leaves the rings alone
LEMMA ConnSendUncOK ==
  ASSUME NEW c \in Cores, NEW h \in Slots, NEW op \in Ops, NEW data \in Data,
         op \in {"OPN", "STS"} => Len(data) = 2 /\ data[1] \in Num /\ data[2] \in Nat
  PROVE  Touches(c, ConnSendUnc(c, h, op, data), h)
<1> DEFINE k == c.conns[h]
           p == Packet(op, k.remoteIndex, k.localIndex, 0, k.readNum, data)
           d == Acknowledging(c, h)
<1>1. 0 \in Num /\ k.remoteIndex \in Nat /\ k.localIndex \in Nat /\ k.readNum \in Num
  BY ConnType, Sizes DEF Conns, Num
<1>2. p \in Packets
  BY <1>1, PacketType
<1>3. Touches(c, d, h)
  BY AcknowledgingOK
<1>4. ConnSendUnc(c, h, op, data) = SendRaw(d, p)
  BY DEF ConnSendUnc
<1> HIDE DEF d, p, k
<1> QED
  BY <1>2, <1>3, <1>4, SendRawOK DEF Touches

\* Sending an STS leaves the rings alone
LEMMA ConnSendStsOK ==
  ASSUME NEW c \in Cores, NEW h \in Slots
  PROVE  Touches(c, ConnSendSts(c, h), h)
<1>1. c.conns[h].receivedNum \in Num
  BY ConnType DEF Conns
<1> QED
  BY <1>1, PairType, Sizes, ConnSendUncOK DEF ConnSendSts, Ops

\* A packet of the send ring goes out well formed
LEMMA OutgoingType ==
  ASSUME NEW k \in Sound, NEW p \in Pkts, p.op # "none"
  PROVE  Outgoing(k, p) \in Packets
<1>1. 0 \in Num /\ k.remoteIndex \in Nat /\ k.localIndex \in Nat /\ k.readNum \in Num
  BY Sizes DEF Sound, Conns, Num
<1>2. p.op \in Ops /\ p.op \notin {"OPN", "STS"} /\ p.num \in Num /\ p.data \in Data
  BY DEF Pkts, Ops
<1> QED
  BY <1>1, <1>2, PacketType DEF Outgoing

\* Transmitting a packet of the send ring leaves the ring alone
LEMMA ConnTransmitOK ==
  ASSUME NEW c \in Cores, NEW h \in Slots, NEW p \in Pkts, p.op # "none"
  PROVE  Touches(c, ConnTransmit(c, h, p), h)
<1> DEFINE d == Acknowledging(c, h)
           m == Outgoing(c.conns[h], p)
<1>1. m \in Packets
  BY ConnType, OutgoingType
<1>2. Touches(c, d, h)
  BY AcknowledgingOK
<1>3. ConnTransmit(c, h, p) = SendRaw(d, m)
  BY DEF ConnTransmit
<1> HIDE DEF d, m
<1> QED
  BY <1>1, <1>2, <1>3, SendRawOK DEF Touches

\* A controlled packet is sent into a window with room
LEMMA ConnSendControlledOK ==
  ASSUME NEW c \in Cores, NEW h \in Slots, NEW op \in {"RFC", "DAT", "EOF"}, NEW data \in Data,
         SeqDiff(c.conns[h].sentNum, c.conns[h].ackedNum) < MaxWindow
  PROVE  LET d == ConnSendControlled(c, h, op, data)
             k == c.conns[h]
             j == d.conns[h]
         IN /\ d \in Cores /\ d.arp = c.arp /\ d.uniquizer = c.uniquizer /\ \A g \in Slots \ {h} : d.conns[g] = c.conns[g]
            /\ j.state = k.state /\ j.remoteWindow = k.remoteWindow /\ j.eofWanted = k.eofWanted
            /\ SeqDiff(j.sentNum, j.ackedNum) = SeqDiff(k.sentNum, k.ackedNum) + 1
            /\ j.sentNum = SeqInc(k.sentNum)
<1> DEFINE k == c.conns[h]
           n == SeqInc(k.sentNum)
           p == [op |-> op, num |-> n, data |-> data]
           j == [k EXCEPT !.sentNum = n, !.sendq[SlotOf(n)] = p]
           e == [c EXCEPT !.conns[h] = j]
           d == ConnTransmit(e, h, p)
<1>1. k \in Sound /\ k \in Conns /\ ConnOK(k)
  BY ConnType
<1>2. k.sentNum \in Num /\ k.ackedNum \in Num /\ k.receiptNum \in Num /\ k.sendq \in Queues
  BY <1>1 DEF Conns
<1>3. n \in Num /\ SlotOf(n) \in 0..(Ring - 1)
  BY <1>2, IncIs, SlotType
<1>4. p \in Pkts /\ p.op # "none" /\ p.num = SeqInc(k.sentNum)
  BY <1>3 DEF Pkts
<1>5. /\ Sending(n, k.ackedNum, k.receiptNum, [k.sendq EXCEPT ![SlotOf(n)] = p])
      /\ SeqDiff(n, k.ackedNum) = SeqDiff(k.sentNum, k.ackedNum) + 1
  <2> HIDE DEF p
  <2> QED
    BY <1>1, <1>2, <1>4, SendOne DEF ConnOK
<1>6. /\ j.sentNum = n /\ j.sendq = [k.sendq EXCEPT ![SlotOf(n)] = p]
      /\ j.state = k.state /\ j.ackedNum = k.ackedNum /\ j.receiptNum = k.receiptNum
      /\ j.receivedNum = k.receivedNum /\ j.readNum = k.readNum /\ j.rcvq = k.rcvq
      /\ j.remoteWindow = k.remoteWindow /\ j.eofWanted = k.eofWanted
  <2> HIDE DEF p, n
  <2> QED
    BY <1>1 DEF Conns
<1>7. j \in Conns
  <2> HIDE DEF p, n
  <2> QED
    BY <1>1, <1>3, <1>4 DEF Conns, Queues
<1>8. j \in Sound
  BY <1>1, <1>5, <1>6, <1>7 DEF Sound, ConnOK
<1>9. ConnSendControlled(c, h, op, data) = d
  <2>1. e = [c EXCEPT !.conns[h].sentNum = n, !.conns[h].sendq[SlotOf(n)] = p]
    <3> HIDE DEF p, n
    <3> QED
      BY <1>1 DEF Cores, Conns
  <2> HIDE DEF e
  <2> QED
    BY <2>1 DEF ConnSendControlled
<1> HIDE DEF j, n, p, k
<1>10. /\ e \in Cores /\ e.conns[h] = j /\ e.arp = c.arp /\ e.uniquizer = c.uniquizer
       /\ \A g \in Slots \ {h} : e.conns[g] = c.conns[g]
  BY <1>8, SetConn
<1> HIDE DEF e
<1>11. Touches(e, d, h)
  BY <1>4, <1>10, ConnTransmitOK
<1> HIDE DEF d
<1>12. /\ d \in Cores /\ d.arp = c.arp /\ d.uniquizer = c.uniquizer /\ d.conns[h] \in Sound /\ Alike(j, d.conns[h])
       /\ \A g \in Slots \ {h} : d.conns[g] = c.conns[g]
  BY <1>10, <1>11, ConnType DEF Touches
<1>13. /\ d.conns[h].state = j.state /\ d.conns[h].sentNum = j.sentNum /\ d.conns[h].ackedNum = j.ackedNum
       /\ d.conns[h].remoteWindow = j.remoteWindow /\ d.conns[h].eofWanted = j.eofWanted
  BY <1>8, <1>12, AlikeFields
<1> QED
  BY <1>5, <1>6, <1>9, <1>12, <1>13 DEF k, n

\* The rounds of FlattenSeq
LEMMA FlattenType ==
  ASSUME NEW S, NEW seqs \in Seq(Seq(S))
  PROVE  FlattenSeq(seqs) \in Seq(S)
<1>1. CASE Len(seqs) = 0
  <2>1. seqs = <<>>
    BY <1>1, EmptySeq
  <2> QED
    BY <1>1, <2>1 DEF FlattenSeq
<1>2. CASE Len(seqs) # 0
  <2> DEFINE Joined(s, i) == s \o seqs[i]
             Is(f, n) == f = [i \in 1..n |-> IF i = 1 THEN seqs[i] ELSE Joined(f[i - 1], i)]
             I == {n \in Nat : \E f : Is(f, n)}
             N == Len(seqs)
             F == CHOOSE f : Is(f, N)
  <2>1. N \in Nat /\ \A i \in 1..N : seqs[i] \in Seq(S)
    BY ElementOfSeq, LenProperties
  <2>2. 0 \in I
    <3>1. Is([i \in 1..0 |-> i], 0)
      OBVIOUS
    <3> QED
      BY <3>1
  <2>3. ASSUME NEW n \in Nat, n \in I
        PROVE  n + 1 \in I
    <3>1. PICK f : Is(f, n)
      BY <2>3
    <3> DEFINE x == IF n = 0 THEN seqs[1] ELSE Joined(f[n], n + 1)
               g == [i \in 1..(n + 1) |-> IF i = n + 1 THEN x ELSE f[i]]
    <3>2. Is(g, n + 1)
      <4> HIDE DEF Joined
      <4> QED
        BY <3>1
    <3> HIDE DEF Is
    <3> QED
      BY <3>2
  <2>4. Nat \subseteq I
    <3> HIDE DEF I
    <3> QED
      BY <2>2, <2>3, NatSetInduction
  <2>5. Is(F, N)
    BY <2>1, <2>4
  <2>6. FlattenSeq(seqs) = F[N]
    BY <1>2 DEF FlattenSeq
  <2> HIDE DEF F
  <2> DEFINE J == {n \in Nat : n + 1 \in 1..N => F[n + 1] \in Seq(S)}
  <2>7. 0 \in J
    BY <2>1, <2>5
  <2>8. ASSUME NEW n \in Nat, n \in J
        PROVE  n + 1 \in J
    <3> SUFFICES ASSUME (n + 1) + 1 \in 1..N
                 PROVE  F[(n + 1) + 1] \in Seq(S)
      OBVIOUS
    <3> DEFINE m == (n + 1) + 1
    <3>1. m \in 1..N /\ m # 1 /\ m - 1 = n + 1
      BY <2>1
    <3>2. F[m] = F[m - 1] \o seqs[m]
      BY <2>5, <3>1
    <3>3. F[m - 1] \in Seq(S) /\ seqs[m] \in Seq(S)
      BY <2>1, <2>8, <3>1
    <3> HIDE DEF m
    <3>4. F[m] \in Seq(S)
      BY <3>2, <3>3, ConcatProperties
    <3> QED
      BY <3>4 DEF m
  <2>9. Nat \subseteq J
    <3> HIDE DEF J
    <3> QED
      BY <2>7, <2>8, NatSetInduction
  <2>10. N - 1 \in Nat /\ (N - 1) + 1 = N /\ N \in 1..N
    BY <1>2, <2>1
  <2> HIDE DEF N
  <2>11. F[N] \in Seq(S)
    BY <2>9, <2>10
  <2> QED
    BY <2>6, <2>11
<1> QED
  BY <1>1, <1>2

\* conn_retransmit
LEMMA AgainType ==
  ASSUME NEW k \in Sound, NEW old
  PROVE  Again(k, old) \in Seq({p \in Pkts : p.op # "none"})
<1> DEFINE P == {p \in Pkts : p.op # "none"}
           u == After(k.receiptNum, k.sentNum)
           If(n) == IF Holds(k.sendq, n) /\ n \in old THEN <<k.sendq[SlotOf(n)]>> ELSE <<>>
           seqs == [i \in DOMAIN u |-> If(u[i])]
           N == SeqDiff(k.sentNum, k.receiptNum)
<1>1. k.receiptNum \in Num /\ k.sentNum \in Num /\ k.sendq \in Queues
  BY DEF Sound, Conns
<1>2. N \in Nat /\ DOMAIN u = 1..N /\ N < PktSpace
  BY <1>1, DiffType DEF After
<1>3. ASSUME NEW i \in 1..N
      PROVE  If(u[i]) \in Seq(P)
  <2>1. u[i] \in Num
    <3>1. i \in 0..PktSpace
      BY <1>2, Sizes
    <3>2. u[i] = (k.receiptNum + i) % PktSpace
      BY <1>1 DEF After
    <3> QED
      BY <1>1, <3>1, <3>2, PlusIs
  <2>2. SlotOf(u[i]) \in 0..(Ring - 1)
    BY <2>1, SlotType
  <2>3. k.sendq[SlotOf(u[i])] \in Pkts
    BY <1>1, <2>2 DEF Queues
  <2> HIDE DEF u
  <2>4. CASE Holds(k.sendq, u[i]) /\ u[i] \in old
    <3>1. k.sendq[SlotOf(u[i])] \in P
      BY <2>3, <2>4 DEF Holds
    <3> HIDE DEF P
    <3> QED
      BY <2>4, <3>1, ShortSeqs
  <2>5. CASE ~(Holds(k.sendq, u[i]) /\ u[i] \in old)
    <3> HIDE DEF P
    <3> QED
      BY <2>5, ShortSeqs
  <2> QED
    BY <2>4, <2>5
<1>4. seqs \in Seq(Seq(P))
  <2> HIDE DEF If, u, P, N
  <2>1. seqs \in [1..N -> Seq(P)]
    BY <1>2, <1>3
  <2> HIDE DEF seqs
  <2> QED
    BY <1>2, <2>1, IsASeq
<1>5. Again(k, old) = FlattenSeq(seqs)
  BY DEF Again
<1> HIDE DEF seqs, P
<1>6. Again(k, old) \in Seq(P)
  BY <1>4, <1>5, FlattenType
<1> QED
  BY <1>6 DEF P

\* Retransmission leaves the rings alone
LEMMA ConnRetransmitOK ==
  ASSUME NEW c \in Cores, NEW h \in Slots, NEW old
  PROVE  Touches(c, ConnRetransmit(c, h, old), h)
<1> DEFINE k == c.conns[h]
           again == Again(k, old)
           frames == [i \in DOMAIN again |-> Framed(c, Outgoing(k, again[i]))]
           e == Acknowledging(c, h)
<1>1. k \in Sound
  BY ConnType
<1>2. Touches(c, e, h)
  BY AcknowledgingOK
<1>3. CASE again = <<>>
  <2>1. ConnRetransmit(c, h, old) = c
    BY <1>3 DEF ConnRetransmit
  <2>2. Alike(k, k)
    BY <1>1 DEF Alike, Sound, Conns
  <2> QED
    BY <2>1, <2>2 DEF Touches
<1>4. CASE again # <<>>
  <2>1. ConnRetransmit(c, h, old) = [e EXCEPT !.out = @ \o frames]
    BY <1>4 DEF ConnRetransmit
  <2>2. again \in Seq({p \in Pkts : p.op # "none"})
    BY <1>1, AgainType
  <2> HIDE DEF again
  <2>3. ASSUME NEW i \in 1..Len(again)
        PROVE  Framed(c, Outgoing(k, again[i])) \in Packets
    <3>1. again[i] \in Pkts /\ again[i].op # "none"
      BY <2>2
    <3>2. Outgoing(k, again[i]) \in Packets
      BY <1>1, <3>1, OutgoingType
    <3> QED
      BY <3>2, ArpType DEF Framed
  <2>4. frames \in Seq(Packets)
    <3>1. DOMAIN again = 1..Len(again) /\ Len(again) \in Nat
      BY <2>2, LenProperties
    <3>2. frames \in [1..Len(again) -> Packets]
      BY <2>3, <3>1
    <3> HIDE DEF frames
    <3> QED
      BY <3>1, <3>2, IsASeq
  <2> HIDE DEF frames, e
  <2>5. e \in Cores
    BY <1>2 DEF Touches
  <2>6. e.out \o frames \in Seq(Packets)
    BY <2>4, <2>5, ConcatProperties DEF Cores
  <2>7. [e EXCEPT !.out = @ \o frames] \in Cores
    BY <2>5, <2>6 DEF Cores
  <2> QED
    BY <1>2, <2>1, <2>5, <2>7 DEF Touches, Cores
<1> QED
  BY <1>3, <1>4

---------------------------------------------------------------------------
(* Acknowledgements                                                        *)

\* Of two numbers not after a third the later one is closer to it
LEMMA LtByDistance ==
  ASSUME NEW s \in Num, NEW a \in Num, NEW b \in Num, ~SeqLt(s, a), ~SeqLt(s, b)
  PROVE  SeqLt(a, b) <=> SeqDiff(s, b) < SeqDiff(s, a)
<1> DEFINE H == PktSpace \div 2
<1>1. /\ SeqDiff(s, a) = IF s >= a THEN s - a ELSE (s - a) + PktSpace
      /\ SeqDiff(s, b) = IF s >= b THEN s - b ELSE (s - b) + PktSpace
      /\ SeqDiff(a, b) = IF a >= b THEN a - b ELSE (a - b) + PktSpace
  BY DiffIs
<1>2. ~(SeqDiff(s, a) >= H) /\ ~(SeqDiff(s, b) >= H) /\ (SeqLt(a, b) <=> SeqDiff(a, b) >= H)
  BY LtIs
<1>3. H \in Nat /\ 2 * H <= PktSpace /\ PktSpace <= 2 * H + 1 /\ PktSpace \in Nat
  BY Sizes, Half
<1> HIDE DEF H
<1> QED
  BY <1>1, <1>2, <1>3 DEF Num

\* A number within a window of another is not before it
LEMMA NearIsNotLater ==
  ASSUME NEW s \in Num, NEW a \in Num, SeqDiff(s, a) <= MaxWindow
  PROVE  ~SeqLt(s, a)
BY LtIs, Half, Sizes, DiffType

\* After lists the numbers from the one following a up to b
LEMMA AfterSet ==
  ASSUME NEW a \in Num, NEW b \in Num
  PROVE  ToSet(After(a, b)) = {n \in Num : SeqDiff(n, a) \in 1..SeqDiff(b, a)}
<1> DEFINE d == SeqDiff(b, a)
           At(i) == (a + i) % PktSpace
<1>1. d \in Nat /\ d < PktSpace
  BY DiffType
<1>2. ASSUME NEW i \in 1..d
      PROVE  At(i) \in Num /\ SeqDiff(At(i), a) = i
  <2>1. i \in 0..PktSpace /\ i \in 0..(PktSpace - 1)
    BY <1>1, Sizes
  <2> QED
    BY <2>1, PlusIs, DiffOfAfter
<1>3. ToSet(After(a, b)) = {At(i) : i \in 1..d}
  <2>1. DOMAIN After(a, b) = 1..d /\ \A i \in 1..d : After(a, b)[i] = At(i)
    BY DEF After
  <2> HIDE DEF d, At
  <2> QED
    BY <2>1 DEF ToSet
<1>4. ASSUME NEW n \in Num, SeqDiff(n, a) \in 1..d
      PROVE  n = At(SeqDiff(n, a))
  BY NumIsAfter
<1> HIDE DEF d, At
<1>5. {At(i) : i \in 1..d} = {n \in Num : SeqDiff(n, a) \in 1..d}
  BY <1>2, <1>4
<1> QED
  BY <1>3, <1>5 DEF d

\* An acknowledgement and a receipt for packets that were sent
LEMMA AckSound ==
  ASSUME NEW k \in Sound, NEW ack \in Num, NEW receipt \in Num,
         ~SeqLt(k.sentNum, ack), ~SeqLt(k.sentNum, receipt)
  PROVE  LET j == Acked(Receipted(k, IF SeqLt(receipt, ack) THEN ack ELSE receipt), ack)
         IN j \in Sound /\ j.state = k.state
<1> DEFINE x == IF SeqLt(receipt, ack) THEN ack ELSE receipt
           r == Receipted(k, x)
           j == Acked(r, ack)
           D(n) == SeqDiff(k.sentNum, n)
<1>1. /\ k \in Conns /\ ConnOK(k) /\ k.sentNum \in Num /\ k.ackedNum \in Num /\ k.receiptNum \in Num
      /\ k.sendq \in Queues
  BY DEF Sound, Conns
<1>2. D(k.receiptNum) <= D(k.ackedNum) /\ D(k.ackedNum) <= MaxWindow
  BY <1>1 DEF ConnOK, Sending
<1>3. ~SeqLt(k.sentNum, k.ackedNum) /\ ~SeqLt(k.sentNum, k.receiptNum)
  <2>1. D(k.receiptNum) <= MaxWindow
    BY <1>1, <1>2, DiffType, Sizes
  <2> QED
    BY <1>1, <1>2, <2>1, NearIsNotLater
<1>4. x \in Num /\ ~SeqLt(k.sentNum, x) /\ D(x) <= D(ack)
  <2>1. SeqLt(receipt, ack) <=> D(ack) < D(receipt)
    BY <1>1, LtByDistance
  <2> QED
    BY <1>1, <2>1, DiffType
<1> HIDE DEF x
<1>5. /\ r \in Sound /\ r.state = k.state /\ r.ackedNum = k.ackedNum /\ r.sentNum = k.sentNum
      /\ D(r.receiptNum) <= D(k.receiptNum) /\ D(r.receiptNum) <= D(x)
  <2>1. CASE SeqLt(k.receiptNum, x)
    <3> DEFINE gone == {SlotOf(n) : n \in ToSet(After(k.receiptNum, x))}
               q == [s \in DOMAIN k.sendq |-> IF s \in gone THEN NoPkt ELSE k.sendq[s]]
    <3>1. r = [k EXCEPT !.receiptNum = x, !.sendq = q]
      BY <2>1 DEF Receipted
    <3>2. q \in Queues
      BY <1>1, NoPktType DEF Queues
    <3>3. gone = {SlotOf(n) : n \in {m \in Num : SeqDiff(m, k.receiptNum) \in 1..SeqDiff(x, k.receiptNum)}}
      BY <1>1, <1>4, AfterSet
    <3>4. ASSUME NEW s \in 0..(Ring - 1),
                 \A n \in Num : SeqDiff(n, k.receiptNum) \in 1..SeqDiff(x, k.receiptNum) => SlotOf(n) # s
          PROVE  q[s] = k.sendq[s]
      BY <1>1, <3>3, <3>4 DEF Queues
    <3> HIDE DEF q
    <3>5. Sending(k.sentNum, k.ackedNum, x, q)
      BY <1>1, <1>4, <2>1, <3>2, <3>4, ReceiptReleases DEF ConnOK
    <3>6. r \in Conns
      BY <1>1, <1>4, <3>1, <3>2 DEF Conns
    <3>7. /\ r.sentNum = k.sentNum /\ r.ackedNum = k.ackedNum /\ r.receiptNum = x /\ r.sendq = q
          /\ r.receivedNum = k.receivedNum /\ r.readNum = k.readNum /\ r.rcvq = k.rcvq /\ r.state = k.state
      BY <1>1, <3>1 DEF Conns
    <3> HIDE DEF r
    <3>8. r \in Sound
      BY <1>1, <3>5, <3>6, <3>7 DEF Sound, ConnOK
    <3>9. D(x) < D(k.receiptNum)
      BY <1>1, <1>3, <1>4, <2>1, LtByDistance
    <3> QED
      BY <1>1, <1>4, <3>7, <3>8, <3>9, DiffType
  <2>2. CASE ~SeqLt(k.receiptNum, x)
    <3>1. r = k
      BY <2>2 DEF Receipted
    <3>2. ~(D(x) < D(k.receiptNum))
      BY <1>1, <1>3, <1>4, <2>2, LtByDistance
    <3> QED
      BY <1>1, <1>4, <3>1, <3>2, DiffType
  <2> QED
    BY <2>1, <2>2
<1>6. r \in Conns /\ ConnOK(r) /\ r.receiptNum \in Num
  BY <1>5 DEF Sound, Conns
<1>7. j \in Sound /\ j.state = k.state
  <2> HIDE DEF r
  <2>1. CASE SeqLt(r.ackedNum, ack)
    <3>1. j = [r EXCEPT !.ackedNum = ack]
      BY <2>1 DEF Acked
    <3>2. D(ack) < D(k.ackedNum)
      BY <1>1, <1>3, <1>5, <2>1, LtByDistance
    <3>3. D(r.receiptNum) <= D(ack) /\ D(ack) <= MaxWindow
      BY <1>1, <1>2, <1>4, <1>5, <1>6, <3>2, DiffType, Sizes
    <3>4. Sending(k.sentNum, ack, r.receiptNum, r.sendq)
      BY <1>5, <1>6, <3>3 DEF ConnOK, Sending
    <3>5. j \in Conns
      BY <1>6, <3>1 DEF Conns
    <3>6. /\ j.sentNum = k.sentNum /\ j.ackedNum = ack /\ j.receiptNum = r.receiptNum /\ j.sendq = r.sendq
          /\ j.receivedNum = r.receivedNum /\ j.readNum = r.readNum /\ j.rcvq = r.rcvq /\ j.state = r.state
      BY <1>5, <1>6, <3>1 DEF Conns
    <3> HIDE DEF j
    <3> QED
      BY <1>5, <1>6, <3>4, <3>5, <3>6 DEF Sound, ConnOK
  <2>2. CASE ~SeqLt(r.ackedNum, ack)
    BY <1>5, <2>2 DEF Acked
  <2> QED
    BY <2>1, <2>2
<1> QED
  BY <1>7 DEF x

\* What a routine on one connection does
Serves(c, d, h) ==
  /\ d \in Cores /\ SameUse(c, d) /\ d.arp = c.arp /\ d.uniquizer = c.uniquizer
  /\ \A g \in Slots \ {h} : d.conns[g] = c.conns[g]

\* What sends only, serves the connection
LEMMA TouchesServes ==
  ASSUME NEW c \in Cores, NEW d, NEW h \in Slots, Touches(c, d, h)
  PROVE  Serves(c, d, h)
BY TouchesSame DEF Touches, Serves

\* Doing nothing serves a connection
LEMMA ServesSelf ==
  ASSUME NEW c \in Cores, NEW h \in Slots
  PROVE  Serves(c, c, h)
BY DEF Serves, SameUse

\* One routine after another serves the connection
LEMMA ServesAgain ==
  ASSUME NEW c, NEW d, NEW e, NEW h, Serves(c, d, h), Serves(d, e, h)
  PROVE  Serves(c, e, h)
BY DEF Serves, SameUse

\* Replacing a connection by a sound one serves it, if it stays in use
LEMMA SetServes ==
  ASSUME NEW c \in Cores, NEW h \in Slots, NEW k \in Sound,
         k.state = "FREE" <=> c.conns[h].state = "FREE"
  PROVE  LET d == [c EXCEPT !.conns[h] = k] IN Serves(c, d, h) /\ d.conns[h] = k
<1> DEFINE d == [c EXCEPT !.conns[h] = k]
<1>1. /\ d \in Cores /\ d.conns[h] = k /\ d.arp = c.arp /\ d.uniquizer = c.uniquizer
      /\ \A g \in Slots \ {h} : d.conns[g] = c.conns[g]
  BY SetConn
<1> HIDE DEF d
<1>2. Serves(c, d, h) /\ d.conns[h] = k
  BY <1>1 DEF Serves, SameUse
<1> QED
  BY <1>2 DEF d

\* Closing a connection keeps its slot in use and its rings sound
LEMMA ConnSetClosedOK ==
  ASSUME NEW c \in Cores, NEW h \in Slots, c.conns[h].state # "FREE",
         NEW kind \in {"CLS", "ANS", "LOS", "DONE", "TIMEOUT"}
  PROVE  Serves(c, ConnSetClosed(c, h, kind), h) /\ ConnSetClosed(c, h, kind).conns[h].state = "CLOSED"
<1> DEFINE k == c.conns[h]
           j == [k EXCEPT !.state = "CLOSED", !.closeKind = kind, !.sendq = FreeConn.sendq,
                          !.receiptNum = k.sentNum, !.ackedNum = k.sentNum, !.ackDue = FALSE]
<1>1. k \in Conns /\ ConnOK(k) /\ k.sentNum \in Num
  BY ConnType DEF Conns
<1>2. FreeConn.sendq \in Queues
  BY FreeIsSound DEF Sound, Conns
<1>3. Sending(k.sentNum, k.sentNum, k.sentNum, FreeConn.sendq)
  BY <1>1, DiffType, Sizes DEF Sending
<1>4. j \in Conns
  BY <1>1, <1>2 DEF Conns
<1>5. /\ j.sentNum = k.sentNum /\ j.ackedNum = k.sentNum /\ j.receiptNum = k.sentNum
      /\ j.sendq = FreeConn.sendq /\ j.receivedNum = k.receivedNum /\ j.readNum = k.readNum
      /\ j.rcvq = k.rcvq /\ j.state = "CLOSED"
  BY <1>1 DEF Conns
<1>6. ConnSetClosed(c, h, kind) = [c EXCEPT !.conns[h] = j]
  BY DEF ConnSetClosed, Cores
<1> HIDE DEF j
<1>7. j \in Sound
  BY <1>1, <1>3, <1>4, <1>5 DEF Sound, ConnOK
<1> QED
  BY <1>5, <1>6, <1>7, SetServes

\* Closing with a CLS to the peer keeps the slot in use
LEMMA ConnCloseClsOK ==
  ASSUME NEW c \in Cores, NEW h \in Slots, c.conns[h].state # "FREE",
         NEW kind \in {"DONE"}
  PROVE  Serves(c, ConnCloseCls(c, h, kind), h)
<1> DEFINE d == ConnSendUnc(c, h, "CLS", <<>>)
<1>1. <<>> \in Data
  BY ShortSeqs DEF Data
<1>2. Touches(c, d, h)
  BY <1>1, ConnSendUncOK DEF Ops
<1>3. Serves(c, d, h)
  BY <1>2, TouchesServes
<1> HIDE DEF d
<1>4. d \in Cores /\ d.conns[h].state # "FREE"
  BY <1>3 DEF Serves, SameUse
<1>5. Serves(d, ConnSetClosed(d, h, kind), h)
  BY <1>4, ConnSetClosedOK
<1> QED
  BY <1>3, <1>5, ServesAgain DEF ConnCloseCls, d

\* conn_maybe_send_eof
LEMMA ConnMaybeSendEofOK ==
  ASSUME NEW c \in Cores, NEW h \in Slots
  PROVE  Serves(c, ConnMaybeSendEof(c, h), h)
<1> DEFINE k == c.conns[h]
           d == ConnSendControlled(c, h, "EOF", <<>>)
           j == [d.conns[h] EXCEPT !.eofSent = TRUE, !.eofNum = SeqInc(k.sentNum)]
<1>1. CASE k.state = "OPEN" /\ k.eofWanted /\ ~k.eofSent /\ ConnWindowAvailable(k) > 0
  <2>1. k \in Conns /\ k.sentNum \in Num /\ k.ackedNum \in Num /\ k.remoteWindow \in 0..MaxWindow
    BY ConnType DEF Conns
  <2>2. SeqDiff(k.sentNum, k.ackedNum) < MaxWindow
    BY <1>1, <2>1, DiffType, Sizes DEF ConnWindowAvailable
  <2>3. <<>> \in Data
    BY ShortSeqs DEF Data
  <2>4. /\ d \in Cores /\ d.arp = c.arp /\ d.uniquizer = c.uniquizer /\ \A g \in Slots \ {h} : d.conns[g] = c.conns[g]
        /\ d.conns[h].state = k.state
    BY <2>2, <2>3, ConnSendControlledOK
  <2>5. ConnMaybeSendEof(c, h) = [d EXCEPT !.conns[h].eofSent = TRUE, !.conns[h].eofNum = SeqInc(k.sentNum)]
    BY <1>1 DEF ConnMaybeSendEof
  <2> HIDE DEF d
  <2>6. Serves(c, d, h)
    BY <2>4 DEF Serves, SameUse
  <2>7. SeqInc(k.sentNum) \in Num
    BY <2>1, IncIs
  <2>8. d.conns[h] \in Sound /\ d.conns[h] \in Conns
    BY <2>4, ConnType
  <2>9. j \in Sound /\ j.state = d.conns[h].state
    BY <2>7, <2>8 DEF Sound, Conns, ConnOK
  <2>10. ConnMaybeSendEof(c, h) = [d EXCEPT !.conns[h] = j]
    <3> HIDE DEF k
    <3> QED
      BY <2>4, <2>5, <2>8 DEF Cores, Conns
  <2> HIDE DEF j
  <2>11. Serves(d, ConnMaybeSendEof(c, h), h)
    BY <2>4, <2>9, <2>10, SetServes
  <2> QED
    BY <2>6, <2>11, ServesAgain
<1>2. CASE ~(k.state = "OPEN" /\ k.eofWanted /\ ~k.eofSent /\ ConnWindowAvailable(k) > 0)
  BY <1>2, ServesSelf DEF ConnMaybeSendEof
<1> QED
  BY <1>1, <1>2

\* The close that waits for its EOF keeps the rings and the slot
LEMMA FinishIfAckedOK ==
  ASSUME NEW c \in Cores, NEW h \in Slots
  PROVE  Serves(c, FinishIfAcked(c, h), h)
BY ConnCloseClsOK, ConnMaybeSendEofOK DEF FinishIfAcked

\* conn_process_ack
LEMMA ConnProcessAckOK ==
  ASSUME NEW c \in Cores, NEW h \in Slots, NEW ack \in Num, NEW receipt \in Num
  PROVE  Serves(c, ConnProcessAck(c, h, ack, receipt), h)
<1> DEFINE k == c.conns[h]
           j == Acked(Receipted(k, IF SeqLt(receipt, ack) THEN ack ELSE receipt), ack)
           d == [c EXCEPT !.conns[h] = j]
<1>1. CASE SeqLt(k.sentNum, ack) \/ SeqLt(k.sentNum, receipt)
  BY <1>1, ServesSelf DEF ConnProcessAck
<1>2. CASE ~(SeqLt(k.sentNum, ack) \/ SeqLt(k.sentNum, receipt))
  <2>1. k \in Sound
    BY ConnType
  <2>2. j \in Sound /\ j.state = k.state
    BY <1>2, <2>1, AckSound
  <2>3. ConnProcessAck(c, h, ack, receipt) = FinishIfAcked(d, h)
    BY <1>2 DEF ConnProcessAck
  <2> HIDE DEF j
  <2>4. Serves(c, d, h)
    BY <2>2, SetServes
  <2> HIDE DEF d
  <2>5. Serves(d, FinishIfAcked(d, h), h)
    BY <2>4, FinishIfAckedOK DEF Serves
  <2> QED
    BY <2>3, <2>4, <2>5, ServesAgain
<1> QED
  BY <1>1, <1>2

---------------------------------------------------------------------------
(* What the user of a connection calls                                     *)

\* A bounded loop: what holds before it and survives every round holds after it
LEMMA LoopInduction ==
  ASSUME NEW N \in Nat, NEW S, 0 \in S, \A n \in 1..N : n - 1 \in S => n \in S
  PROVE  \A n \in 0..N : n \in S
<1> DEFINE T == {n \in Nat : n <= N => n \in S}
<1>1. 0 \in T
  OBVIOUS
<1>2. ASSUME NEW n \in Nat, n \in T
      PROVE  n + 1 \in T
  BY <1>2
<1>3. Nat \subseteq T
  <2> HIDE DEF T
  <2> QED
    BY <1>1, <1>2, NatSetInduction
<1> QED
  BY <1>3

\* chaos_open
LEMMA ChaosOpenOK ==
  ASSUME NEW c \in Cores, NEW h \in Slots, NEW contact \in Data
  PROVE  LET d == ChaosOpen(c, h, contact)
         IN /\ d \in Cores /\ d.conns[h].state = "RFC_SENT"
            /\ \A g \in Slots \ {h} : d.conns[g] = c.conns[g]
<1> DEFINE first == (c.initialPktNum - 1) % PktSpace
           next == (c.uniquizer + 1) % UniqSpace
           k == [FreeConn EXCEPT !.state = "RFC_SENT", !.localIndex = LocalIndex(c, h),
                                 !.remoteWindow = 1, !.sentNum = first,
                                 !.ackedNum = first, !.receiptNum = first]
           uniq == IF next = 0 THEN 1 ELSE next
           num == (c.initialPktNum + NumStride) % PktSpace
           d == [c EXCEPT !.conns[h] = k, !.uniquizer = uniq, !.initialPktNum = num]
<1>1. first \in Num /\ num \in Num /\ uniq \in Nat
  <2>1. c.initialPktNum \in Num /\ c.uniquizer \in Nat
    BY DEF Cores
  <2>2. first \in Num
    BY <2>1, DecIs
  <2>3. num \in Num
    BY <2>1, Sizes, SizeAssumption DEF Num
  <2>4. next \in Nat
    BY <2>1, SizeAssumption
  <2> QED
    BY <2>2, <2>3, <2>4
<1>2. LocalIndex(c, h) \in Nat
  BY SlotsType DEF LocalIndex, Cores
<1>3. ChaosOpen(c, h, contact) = ConnSendControlled(d, h, "RFC", contact)
  BY DEF ChaosOpen
<1> HIDE DEF first, uniq, num
<1>4. FreeConn \in Conns /\ ConnOK(FreeConn) /\ 1 \in 0..MaxWindow
  BY FreeIsSound, Sizes DEF Sound
<1>5. k \in Conns
  BY <1>1, <1>2, <1>4 DEF Conns
<1>6. /\ k.sentNum = first /\ k.ackedNum = first /\ k.receiptNum = first /\ k.sendq = FreeConn.sendq
      /\ k.receivedNum = FreeConn.receivedNum /\ k.readNum = FreeConn.readNum
      /\ k.rcvq = FreeConn.rcvq /\ k.state = "RFC_SENT"
  BY <1>4 DEF Conns
<1> HIDE DEF k
<1>7. Sending(first, first, first, FreeConn.sendq)
  BY <1>1, DiffType, Sizes DEF Sending
<1>8. \A s \in 0..(Ring - 1) : FreeConn.rcvq[s].op = "none"
  BY DEF FreeConn, NoPkt
<1>9. k \in Sound
  BY <1>4, <1>5, <1>6, <1>7, <1>8 DEF Sound, ConnOK
<1>10. d \in Cores /\ d.conns[h] = k /\ \A g \in Slots \ {h} : d.conns[g] = c.conns[g]
  BY <1>1, <1>9 DEF Cores
<1> HIDE DEF d
<1>11. SeqDiff(d.conns[h].sentNum, d.conns[h].ackedNum) < MaxWindow
  BY <1>1, <1>6, <1>10, DiffType, Sizes
<1> QED
  BY <1>3, <1>6, <1>10, <1>11, ConnSendControlledOK

\* What fits a window takes at most that many packets, none of them empty
LEMMA PiecesFit ==
  ASSUME NEW w \in Nat, NEW n \in Nat, n <= w * MaxData
  PROVE  Pieces(n) \in 0..w /\ \A i \in 1..Pieces(n) : (i - 1) * MaxData < n
<1> DEFINE M == MaxData
           q == (n + M - 1) \div M
           r == (n + M - 1) % M
<1>1. M \in Nat \ {0}
  BY SizeAssumption
<1>2. q \in Int /\ r \in 0..(M - 1) /\ n + M - 1 = M * q + r
  BY <1>1, Euclid
<1>3. Pieces(n) = q
  BY DEF Pieces
<1>4. n <= w * M
  OBVIOUS
<1> HIDE DEF q, r, M
<1>5. q >= 0
  <2> SUFFICES ASSUME q <= -1
               PROVE  FALSE
    BY <1>2
  <2>1. M * q <= -M
    BY <1>1, <1>2
  <2> QED
    BY <1>1, <1>2, <2>1
<1>6. q <= w
  <2> SUFFICES ASSUME q >= w + 1
               PROVE  FALSE
    BY <1>2
  <2>1. M * q >= M * (w + 1)
    BY <1>1, <1>2
  <2>2. M * (w + 1) = w * M + M
    BY <1>1
  <2> QED
    BY <1>1, <1>2, <1>4, <2>1, <2>2
<1>7. ASSUME NEW i \in 1..q
      PROVE  (i - 1) * M < n
  <2>1. M * i <= M * q
    BY <1>1, <1>2
  <2>2. (i - 1) * M = M * i - M
    BY <1>1, <1>2
  <2> QED
    BY <1>1, <1>2, <2>1, <2>2
<1> QED
  BY <1>2, <1>3, <1>5, <1>6, <1>7 DEF M

\* Least is the smaller of the two
LEMMA LeastIs ==
  ASSUME NEW a \in Int, NEW b \in Int
  PROVE  Least(a, b) \in {a, b} /\ Least(a, b) <= a /\ Least(a, b) <= b
BY DEF Least

\* Parts of what is sent and received
LEMMA PartType ==
  ASSUME NEW data \in Data, NEW a \in Nat, NEW b \in Nat, a <= b, b <= Len(data)
  PROVE  SubSeq(data, a + 1, b) \in Data /\ Len(SubSeq(data, a + 1, b)) = b - a
<1>1. a + 1 \in 1..(Len(data) + 1) /\ b \in ((a + 1) - 1)..Len(data)
  BY LenProperties DEF Data
<1> QED
  BY <1>1, SubSeqProperties DEF Data

\* A piece of the data is data
LEMMA PieceType ==
  ASSUME NEW data \in Data, NEW n \in 0..Len(data), NEW i \in Nat \ {0}, (i - 1) * MaxData < n
  PROVE  Piece(data, i, n) \in Data
<1> DEFINE a == (i - 1) * MaxData
           b == Least(i * MaxData, n)
<1>1. Len(data) \in Nat
  BY LenProperties DEF Data
<1>2. a \in Nat /\ a <= i * MaxData /\ i * MaxData \in Nat
  BY SizeAssumption
<1>3. b \in Nat /\ a <= b /\ b <= Len(data)
  <2>1. i * MaxData \in Int /\ n \in Int
    BY <1>1, <1>2
  <2>2. b \in {i * MaxData, n} /\ b <= n
    BY <2>1, LeastIs
  <2>3. a < n
    OBVIOUS
  <2> HIDE DEF a, b
  <2> QED
    BY <1>1, <1>2, <2>2, <2>3
<1>4. Piece(data, i, n) = SubSeq(data, a + 1, b)
  BY DEF Piece
<1> HIDE DEF a, b
<1> QED
  BY <1>2, <1>3, <1>4, PartType

\* The rounds of chaos_send
LEMMA SendPiecesIs ==
  ASSUME NEW c, NEW h, NEW data, NEW n, Pieces(n) \in Nat
  PROVE  LET sent == SendPieces(c, h, data, n)
         IN /\ sent[0] = c
            /\ \A i \in 1..Pieces(n) : sent[i] = ConnSendControlled(sent[i - 1], h, "DAT", Piece(data, i, n))
<1> DEFINE N == Pieces(n)
           Step(d, i) == ConnSendControlled(d, h, "DAT", Piece(data, i, n))
           Is(f, m) == f = [i \in 0..m |-> IF i = 0 THEN c ELSE Step(f[i - 1], i)]
           S == {m \in Nat : \E f : Is(f, m)}
           F == CHOOSE f : Is(f, N)
<1>1. 0 \in S
  <2>1. Is([i \in 0..0 |-> c], 0)
    OBVIOUS
  <2> QED
    BY <2>1
<1>2. ASSUME NEW m \in Nat, m \in S
      PROVE  m + 1 \in S
  <2>1. PICK f : Is(f, m)
    BY <1>2
  <2> DEFINE g == [i \in 0..(m + 1) |-> IF i = m + 1 THEN Step(f[m], m + 1) ELSE f[i]]
  <2>2. Is(g, m + 1)
    <3> HIDE DEF Step
    <3> QED
      BY <2>1
  <2> HIDE DEF Is
  <2> QED
    BY <2>2
<1>3. Nat \subseteq S
  <2> HIDE DEF S
  <2> QED
    BY <1>1, <1>2, NatSetInduction
<1>4. N \in Nat
  OBVIOUS
<1>5. SendPieces(c, h, data, n) = F
  BY DEF SendPieces
<1> HIDE DEF N, Step
<1>6. Is(F, N)
  BY <1>3, <1>4
<1> HIDE DEF F
<1>7. F[0] = c /\ \A i \in 1..N : F[i] = Step(F[i - 1], i)
  BY <1>4, <1>6
<1> QED
  BY <1>5, <1>7 DEF N, Step

\* chaos_send
LEMMA ChaosSendOK ==
  ASSUME NEW c \in Cores, NEW h \in Slots, NEW data \in Data
  PROVE  /\ Serves(c, ChaosSend(c, h, data), h)
         /\ ChaosAccepts(c, h, data) \in 0..Len(data)
         /\ ChaosSend(c, h, data).conns[h].state = c.conns[h].state
<1> DEFINE k == c.conns[h]
           w == ConnWindowAvailable(k)
           d0 == SeqDiff(k.sentNum, k.ackedNum)
           room == ChaosSendRoom(c, h)
           n == ChaosAccepts(c, h, data)
           N == Pieces(n)
           F == SendPieces(c, h, data, n)
<1>1. k \in Sound /\ k \in Conns /\ k.sentNum \in Num /\ k.ackedNum \in Num /\ k.remoteWindow \in 0..MaxWindow
  BY ConnType DEF Conns
<1>2. d0 \in Nat /\ w = k.remoteWindow - d0 /\ w \in Int
  BY <1>1, DiffType, Sizes DEF ConnWindowAvailable
<1>3. Len(data) \in Nat
  BY LenProperties DEF Data
<1> DEFINE v == IF CanSend(k) /\ w > 0 THEN w ELSE 0
<1>4. v \in Nat /\ room = v * MaxData /\ (v # 0 => d0 + v <= MaxWindow) /\ room \in Nat
  <2> HIDE DEF w, d0
  <2>1. v \in Nat /\ (v # 0 => d0 + v <= MaxWindow)
    BY <1>1, <1>2, Sizes
  <2>2. CASE CanSend(k) /\ w > 0
    BY <1>2, <2>1, <2>2, SizeAssumption DEF ChaosSendRoom, w
  <2>3. CASE ~(CanSend(k) /\ w > 0)
    BY <2>1, <2>3, SizeAssumption DEF ChaosSendRoom, w
  <2> QED
    BY <2>1, <2>2, <2>3
<1>5. n \in 0..Len(data) /\ n <= v * MaxData
  <2>1. n = Least(Len(data), room)
    BY DEF ChaosAccepts
  <2> HIDE DEF room, n, v
  <2>2. n \in {Len(data), room} /\ n <= Len(data) /\ n <= room
    BY <1>3, <1>4, <2>1, LeastIs
  <2> QED
    BY <1>3, <1>4, <2>2
<1>6. ChaosSend(c, h, data) = F[N]
  BY DEF ChaosSend
<1> HIDE DEF n, v
<1>7. N \in 0..v /\ \A i \in 1..N : (i - 1) * MaxData < n
  BY <1>3, <1>4, <1>5, PiecesFit
<1>8. F[0] = c /\ \A i \in 1..N : F[i] = ConnSendControlled(F[i - 1], h, "DAT", Piece(data, i, n))
  BY <1>4, <1>7, SendPiecesIs
<1> HIDE DEF F, N
<1> DEFINE Good(i) == /\ Serves(c, F[i], h) /\ F[i].conns[h].state = k.state
                      /\ SeqDiff(F[i].conns[h].sentNum, F[i].conns[h].ackedNum) = d0 + i
           S == {i \in Nat : Good(i)}
<1>9. 0 \in S
  BY <1>2, <1>8, ServesSelf
<1>10. ASSUME NEW i \in 1..N, i - 1 \in S
       PROVE  i \in S
  <2> DEFINE e == F[i - 1]
             p == Piece(data, i, n)
             d == ConnSendControlled(e, h, "DAT", p)
  <2>1. i \in Nat /\ i <= v /\ i \in Nat \ {0} /\ v # 0
    BY <1>4, <1>7
  <2>2. /\ Serves(c, e, h) /\ e.conns[h].state = k.state
        /\ SeqDiff(e.conns[h].sentNum, e.conns[h].ackedNum) = d0 + (i - 1)
    BY <1>10
  <2>3. e \in Cores
    BY <2>2 DEF Serves
  <2>4. d0 + (i - 1) < MaxWindow
    <3> HIDE DEF d0
    <3> QED
      BY <1>2, <1>4, <2>1, Sizes
  <2>5. p \in Data
    BY <1>5, <1>7, <2>1, PieceType
  <2>6. F[i] = d
    BY <1>8
  <2> HIDE DEF e, p, d0
  <2>7. SeqDiff(e.conns[h].sentNum, e.conns[h].ackedNum) < MaxWindow
    BY <2>2, <2>4
  <2>8. /\ d \in Cores /\ d.arp = e.arp /\ d.uniquizer = e.uniquizer /\ \A g \in Slots \ {h} : d.conns[g] = e.conns[g]
        /\ d.conns[h].state = e.conns[h].state
        /\ SeqDiff(d.conns[h].sentNum, d.conns[h].ackedNum) = (d0 + (i - 1)) + 1
    BY <2>2, <2>3, <2>5, <2>7, ConnSendControlledOK
  <2> HIDE DEF d
  <2>9. Serves(e, d, h)
    BY <2>8 DEF Serves, SameUse
  <2>10. Serves(c, d, h)
    BY <2>2, <2>9, ServesAgain
  <2> QED
    BY <1>2, <2>1, <2>2, <2>6, <2>8, <2>10 DEF d0
<1>11. \A i \in 0..N : i \in S
  <2>1. N \in Nat
    BY <1>4, <1>7
  <2> HIDE DEF S
  <2> QED
    BY <1>9, <1>10, <2>1, LoopInduction
<1>12. Good(N)
  BY <1>4, <1>7, <1>11
<1> QED
  BY <1>5, <1>6, <1>12 DEF n

\* chaos_finish
LEMMA ChaosFinishOK ==
  ASSUME NEW c \in Cores, NEW h \in Slots
  PROVE  Serves(c, ChaosFinish(c, h), h)
<1> DEFINE j == [c.conns[h] EXCEPT !.eofWanted = TRUE]
           d == [c EXCEPT !.conns[h] = j]
<1>1. c.conns[h] \in Sound
  BY ConnType
<1>2. j \in Sound /\ j.state = c.conns[h].state
  BY <1>1 DEF Sound, Conns, ConnOK
<1>3. d = [c EXCEPT !.conns[h].eofWanted = TRUE]
  BY DEF Cores
<1> HIDE DEF j
<1>4. Serves(c, d, h)
  BY <1>2, SetServes
<1> HIDE DEF d
<1>5. Serves(d, ConnMaybeSendEof(d, h), h)
  BY <1>4, ConnMaybeSendEofOK DEF Serves
<1>6. Serves(c, ConnMaybeSendEof(d, h), h)
  BY <1>4, <1>5, ServesAgain
<1> QED
  BY <1>3, <1>6, ServesSelf DEF ChaosFinish

\* Only the numbers in the ring matter for what was received
LEMMA SameMarks ==
  ASSUME NEW received \in Num, NEW read \in Num, NEW q \in Queues, NEW r \in Queues,
         Receiving(received, read, q),
         \A s \in 0..(Ring - 1) : r[s].op = q[s].op /\ r[s].num = q[s].num
  PROVE  Receiving(received, read, r)
<1>1. ASSUME NEW n \in Num, Holds(q, n)
      PROVE  Holds(r, n)
  BY <1>1, SlotType DEF Holds
<1> QED
  BY <1>1 DEF Receiving, Queued

\* What a round of chaos_recv may leave
Reading(a, k, max) ==
  /\ a \in [k : Sound, got : Data, stop : BOOLEAN] /\ Len(a.got) <= max
  /\ a.k.state = k.state /\ a.k.receivedNum = k.receivedNum

\* The number under which the next packet is read
LEMMA NextRead ==
  ASSUME NEW k \in Sound, NEW i \in 1..SeqDiff(k.receivedNum, k.readNum)
  PROVE  LET r == (k.readNum + (i - 1)) % PktSpace
         IN r \in Num /\ r # k.receivedNum /\ (k.readNum + i) % PktSpace = SeqInc(r)
<1> DEFINE a == k.readNum
           r == (a + (i - 1)) % PktSpace
           n == (a + i) % PktSpace
<1>1. a \in Num /\ k.receivedNum \in Num
  BY DEF Sound, Conns
<1>2. SeqDiff(k.receivedNum, a) \in Nat /\ SeqDiff(k.receivedNum, a) < PktSpace
  BY <1>1, DiffType
<1>3. i \in 0..PktSpace /\ i - 1 \in 0..PktSpace /\ i - 1 \in 0..(PktSpace - 1)
  BY <1>2, Sizes
<1>4. r \in Num /\ r = IF a + (i - 1) < PktSpace THEN a + (i - 1) ELSE (a + (i - 1)) - PktSpace
  BY <1>1, <1>3, PlusIs
<1>5. n \in Num /\ n = IF a + i < PktSpace THEN a + i ELSE (a + i) - PktSpace
  BY <1>1, <1>3, PlusIs
<1>6. SeqDiff(r, a) = i - 1
  BY <1>1, <1>3, DiffOfAfter
<1> HIDE DEF r, n
<1>7. SeqInc(r) = IF r = PktSpace - 1 THEN 0 ELSE r + 1
  BY <1>4, IncIs
<1>8. n = SeqInc(r)
  <2> HIDE DEF a
  <2> QED
    BY <1>1, <1>3, <1>4, <1>5, <1>7, Sizes DEF Num
<1>9. r # k.receivedNum
  BY <1>2, <1>6
<1> QED
  BY <1>4, <1>8, <1>9 DEF r, n, a

\* One round of ConnRecv: it reads on without a gap, or it stops
LEMMA RecvPacketOK ==
  ASSUME NEW k \in Sound, NEW max \in Nat, NEW a, Reading(a, k, max),
         NEW r \in Num, r # k.receivedNum,
         a.stop \/ Len(a.got) >= max \/ a.k.eofReceived \/ a.k.readNum = r
  PROVE  LET b == RecvPacket(a, SeqInc(r), max)
         IN /\ Reading(b, k, max)
            /\ b.stop \/ Len(b.got) >= max \/ b.k.eofReceived \/ b.k.readNum = SeqInc(r)
<1> DEFINE n == SeqInc(r)
           s == SlotOf(n)
           q == a.k.rcvq
           p == q[s]
           take == Least(Len(p.data), max - Len(a.got))
           rest == SubSeq(p.data, take + 1, Len(p.data))
           read == [a.k EXCEPT !.rcvq[s] = NoPkt, !.readNum = n]
           eof == [read EXCEPT !.eofReceived = TRUE]
           part == [a.k EXCEPT !.rcvq[s].data = rest]
           b == RecvPacket(a, n, max)
<1>1. /\ a \in [k : Sound, got : Data, stop : BOOLEAN] /\ Len(a.got) <= max /\ Len(a.got) \in Nat
      /\ a.k \in Sound /\ a.k \in Conns /\ ConnOK(a.k) /\ a.got \in Data
  BY LenProperties DEF Reading, Sound, Data
<1>2. /\ a.k.state = k.state /\ a.k.receivedNum = k.receivedNum /\ q \in Queues
      /\ a.k.readNum \in Num /\ a.k.receivedNum \in Num
  BY <1>1 DEF Reading, Conns
<1>3. n \in Num /\ s \in 0..(Ring - 1)
  BY IncIs, SlotType
<1>4. p \in Pkts /\ p.data \in Data /\ Len(p.data) \in Nat
  BY <1>2, <1>3, LenProperties DEF Queues, Pkts, Data
<1>5. /\ take \in Nat /\ take <= Len(p.data) /\ take <= max - Len(a.got)
      /\ (take = Len(p.data) \/ take = max - Len(a.got))
  <2>1. Len(p.data) \in Int /\ max - Len(a.got) \in Nat
    BY <1>1, <1>4
  <2>2. take \in {Len(p.data), max - Len(a.got)} /\ take <= Len(p.data) /\ take <= max - Len(a.got)
    BY <2>1, LeastIs
  <2> HIDE DEF take, p
  <2> QED
    BY <1>4, <2>1, <2>2
<1>6. CASE a.stop \/ Len(a.got) >= max \/ a.k.eofReceived
  <2>1. b = a
    BY <1>6 DEF RecvPacket
  <2> QED
    BY <1>6, <2>1
<1>7. CASE ~(a.stop \/ Len(a.got) >= max \/ a.k.eofReceived)
  <2>1. a.k.readNum = r
    BY <1>7
  <2>2. /\ Holds(q, n) /\ Receiving(a.k.receivedNum, n, [q EXCEPT ![s] = NoPkt])
    BY <1>1, <1>2, <2>1, ReadOne DEF ConnOK
  <2>3. a.k.state # "RFC_SENT"
    BY <1>1, <1>3, <2>2 DEF ConnOK, Holds
  <2>4. b = IF p.op = "EOF" THEN [a EXCEPT !.k = eof]
            ELSE IF rest # <<>> THEN [k |-> part, got |-> a.got \o SubSeq(p.data, 1, take), stop |-> TRUE]
            ELSE [a EXCEPT !.k = read, !.got = a.got \o p.data]
    BY <1>1, <1>7 DEF RecvPacket
  <2>5. /\ rest \in Data /\ Len(rest) = Len(p.data) - take
        /\ SubSeq(p.data, 1, take) \in Data /\ Len(SubSeq(p.data, 1, take)) = take
    <3>1. take <= Len(p.data) /\ Len(p.data) <= Len(p.data)
      BY <1>4, <1>5
    <3>2. 0 <= take /\ 0 + 1 = 1
      BY <1>5
    <3> HIDE DEF take, p
    <3>3. rest \in Data /\ Len(rest) = Len(p.data) - take
      BY <1>4, <1>5, <3>1, PartType
    <3>4. SubSeq(p.data, 0 + 1, take) \in Data /\ Len(SubSeq(p.data, 0 + 1, take)) = take - 0
      BY <1>4, <1>5, <3>2, PartType
    <3> QED
      BY <1>5, <3>3, <3>4
  <2>6. ASSUME NEW x \in Data
        PROVE  a.got \o x \in Data /\ Len(a.got \o x) = Len(a.got) + Len(x)
    BY <1>1, ConcatProperties DEF Data
  <2> HIDE DEF take, rest, n
  <2>7. /\ read \in Sound /\ read.state = k.state /\ read.receivedNum = k.receivedNum /\ read.readNum = n
    <3>1. read \in Conns
      BY <1>1, <1>2, <1>3, NoPktType DEF Conns, Queues
    <3>2. /\ read.readNum = n /\ read.rcvq = [q EXCEPT ![s] = NoPkt] /\ read.receivedNum = a.k.receivedNum
          /\ read.state = a.k.state /\ read.sentNum = a.k.sentNum /\ read.ackedNum = a.k.ackedNum
          /\ read.receiptNum = a.k.receiptNum /\ read.sendq = a.k.sendq
      BY <1>1 DEF Conns
    <3> HIDE DEF read
    <3> QED
      BY <1>1, <1>2, <2>2, <2>3, <3>1, <3>2 DEF Sound, ConnOK
  <2>8. /\ eof \in Sound /\ eof.state = k.state /\ eof.receivedNum = k.receivedNum /\ eof.eofReceived
    <3> HIDE DEF read
    <3> QED
      BY <2>7 DEF Sound, Conns, ConnOK
  <2>9. /\ part \in Sound /\ part.state = k.state /\ part.receivedNum = k.receivedNum
    <3> DEFINE r2 == [q EXCEPT ![s].data = rest]
    <3>1. r2 \in Queues /\ \A t \in 0..(Ring - 1) : r2[t].op = q[t].op /\ r2[t].num = q[t].num
      BY <1>2, <1>3, <1>4, <2>5 DEF Queues, Pkts
    <3>2. part = [a.k EXCEPT !.rcvq = r2]
      BY <1>1 DEF Conns
    <3> HIDE DEF r2
    <3>3. Receiving(a.k.receivedNum, a.k.readNum, r2)
      BY <1>1, <1>2, <3>1, SameMarks DEF ConnOK
    <3>4. part \in Conns
      BY <1>1, <3>1, <3>2 DEF Conns
    <3>5. /\ part.readNum = a.k.readNum /\ part.rcvq = r2 /\ part.receivedNum = a.k.receivedNum
          /\ part.state = a.k.state /\ part.sentNum = a.k.sentNum /\ part.ackedNum = a.k.ackedNum
          /\ part.receiptNum = a.k.receiptNum /\ part.sendq = a.k.sendq
      BY <1>1, <3>2 DEF Conns
    <3> HIDE DEF part
    <3> QED
      BY <1>1, <1>2, <2>3, <3>3, <3>4, <3>5 DEF Sound, ConnOK
  <2> HIDE DEF read, eof, part, b, s
  <2>10. CASE p.op = "EOF"
    <3>1. b = [a EXCEPT !.k = eof]
      BY <2>4, <2>10
    <3> QED
      BY <1>1, <2>8, <3>1 DEF Reading, b, n
  <2>11. CASE p.op # "EOF" /\ rest # <<>>
    <3>1. b = [k |-> part, got |-> a.got \o SubSeq(p.data, 1, take), stop |-> TRUE]
      BY <2>4, <2>11
    <3>2. b.got \in Data /\ Len(b.got) = Len(a.got) + take
      BY <2>5, <2>6, <3>1
    <3>3. Len(b.got) <= max
      BY <1>1, <1>5, <3>2
    <3>4. b \in [k : Sound, got : Data, stop : BOOLEAN] /\ b.k = part /\ b.stop
      BY <2>9, <3>1, <3>2
    <3> QED
      BY <2>9, <3>3, <3>4 DEF Reading, b, n
  <2>12. CASE p.op # "EOF" /\ ~(rest # <<>>)
    <3>1. b = [a EXCEPT !.k = read, !.got = a.got \o p.data]
      BY <2>4, <2>12
    <3>2. Len(p.data) = take
      <4>1. Len(rest) = 0
        BY <2>12, ShortSeqs
      <4> QED
        BY <1>4, <1>5, <2>5, <4>1
    <3>3. b.got \in Data /\ Len(b.got) = Len(a.got) + Len(p.data) /\ b.k = read /\ b.stop = a.stop
      BY <1>1, <1>4, <2>6, <3>1
    <3>4. Len(b.got) <= max
      BY <1>1, <1>5, <3>2, <3>3
    <3>5. b \in [k : Sound, got : Data, stop : BOOLEAN]
      BY <1>1, <2>7, <3>1, <3>3
    <3> QED
      BY <2>7, <3>3, <3>4, <3>5 DEF Reading, b, n
  <2> QED
    BY <2>10, <2>11, <2>12
<1> QED
  BY <1>6, <1>7

\* The rounds of chaos_recv
LEMMA RecvRoundsIs ==
  ASSUME NEW k \in Sound, NEW max
  PROVE  LET recv == RecvRounds(k, max)
         IN /\ recv[0] = [k |-> k, got |-> <<>>, stop |-> FALSE]
            /\ \A i \in 1..SeqDiff(k.receivedNum, k.readNum) :
                 recv[i] = RecvPacket(recv[i - 1], (k.readNum + i) % PktSpace, max)
<1> DEFINE N == SeqDiff(k.receivedNum, k.readNum)
           a == [k |-> k, got |-> <<>>, stop |-> FALSE]
           Step(d, i) == RecvPacket(d, (k.readNum + i) % PktSpace, max)
           Is(f, m) == f = [i \in 0..m |-> IF i = 0 THEN a ELSE Step(f[i - 1], i)]
           S == {m \in Nat : \E f : Is(f, m)}
           F == CHOOSE f : Is(f, N)
<1>1. N \in Nat
  BY DiffType DEF Sound, Conns
<1>2. RecvRounds(k, max) = F
  BY DEF RecvRounds
<1> HIDE DEF N, Step, a
<1>3. 0 \in S
  <2>1. Is([i \in 0..0 |-> a], 0)
    OBVIOUS
  <2> QED
    BY <2>1
<1>4. ASSUME NEW m \in Nat, m \in S
      PROVE  m + 1 \in S
  <2>1. PICK f : Is(f, m)
    BY <1>4
  <2> DEFINE g == [i \in 0..(m + 1) |-> IF i = m + 1 THEN Step(f[m], m + 1) ELSE f[i]]
  <2>2. Is(g, m + 1)
    BY <2>1
  <2> HIDE DEF Is
  <2> QED
    BY <2>2
<1>5. Nat \subseteq S
  <2> HIDE DEF S
  <2> QED
    BY <1>3, <1>4, NatSetInduction
<1>6. Is(F, N)
  BY <1>1, <1>5
<1> HIDE DEF F
<1>7. F[0] = a /\ \A i \in 1..N : F[i] = Step(F[i - 1], i)
  BY <1>1, <1>6
<1> QED
  BY <1>2, <1>7 DEF N, Step, a

\* chaos_recv, up to its last statements
LEMMA ReceivedOK ==
  ASSUME NEW k \in Sound, NEW max \in Nat
  PROVE  Reading(Received(k, max), k, max)
<1> DEFINE N == SeqDiff(k.receivedNum, k.readNum)
           F == RecvRounds(k, max)
           At(i) == (k.readNum + i) % PktSpace
           Good(i) == /\ Reading(F[i], k, max)
                      /\ F[i].stop \/ Len(F[i].got) >= max \/ F[i].k.eofReceived \/ F[i].k.readNum = At(i)
           S == {i \in Nat : Good(i)}
<1>1. N \in Nat /\ k.readNum \in Num
  BY DiffType DEF Sound, Conns
<1>2. /\ F[0] = [k |-> k, got |-> <<>>, stop |-> FALSE]
      /\ \A i \in 1..N : F[i] = RecvPacket(F[i - 1], At(i), max)
  BY RecvRoundsIs
<1>3. ASSUME NEW i \in 1..N
      PROVE  At(i - 1) \in Num /\ At(i - 1) # k.receivedNum /\ At(i) = SeqInc(At(i - 1))
  BY NextRead
<1>4. At(0) = k.readNum
  BY <1>1, PlusIs, Sizes DEF Num
<1>5. Received(k, max) = F[N]
  BY DEF Received
<1> HIDE DEF F, At, N
<1>6. 0 \in S
  <2>1. <<>> \in Data /\ Len(<<>>) = 0
    BY ShortSeqs DEF Data
  <2>2. F[0].k = k /\ F[0].got = <<>> /\ F[0].stop = FALSE
    BY <1>2
  <2>3. F[0] \in [k : Sound, got : Data, stop : BOOLEAN]
    BY <1>2, <2>1
  <2>4. Reading(F[0], k, max)
    BY <2>1, <2>2, <2>3 DEF Reading
  <2> QED
    BY <1>4, <2>2, <2>4
<1>7. ASSUME NEW i \in 1..N, i - 1 \in S
      PROVE  i \in S
  <2>1. i \in Nat /\ Good(i - 1)
    BY <1>1, <1>7
  <2>2. F[i] = RecvPacket(F[i - 1], SeqInc(At(i - 1)), max)
    BY <1>2, <1>3
  <2>3. At(i - 1) \in Num /\ At(i - 1) # k.receivedNum /\ At(i) = SeqInc(At(i - 1))
    BY <1>3
  <2>4. Good(i)
    BY <2>1, <2>2, <2>3, RecvPacketOK
  <2> QED
    BY <2>1, <2>4
<1>8. \A i \in 0..N : i \in S
  <2> HIDE DEF S
  <2> QED
    BY <1>1, <1>6, <1>7, LoopInduction
<1> QED
  BY <1>1, <1>5, <1>8

\* The end of chaos_recv
LEMMA TellWindowOK ==
  ASSUME NEW c \in Cores, NEW h \in Slots, NEW k \in Sound, k.state = c.conns[h].state
  PROVE  Serves(c, TellWindow(c, h, k), h)
<1> DEFINE d == [c EXCEPT !.conns[h] = k]
           j == [k EXCEPT !.ackDue = TRUE]
           e == [d EXCEPT !.conns[h].ackDue = TRUE]
<1>1. Serves(c, d, h) /\ d.conns[h] = k /\ d \in Cores
  BY SetServes, SetConn
<1>2. TellWindow(c, h, k) \in {d, ConnSendSts(d, h), e}
  BY DEF TellWindow
<1> HIDE DEF d
<1>3. Serves(d, ConnSendSts(d, h), h)
  BY <1>1, ConnSendStsOK, TouchesServes
<1>4. Serves(d, e, h)
  <2>1. j \in Sound /\ j.state = k.state
    BY DEF Sound, Conns, ConnOK
  <2>2. e = [d EXCEPT !.conns[h] = j]
    BY <1>1 DEF Cores
  <2> HIDE DEF e, j
  <2> QED
    BY <1>1, <2>1, <2>2, SetServes
<1> HIDE DEF e
<1> QED
  BY <1>1, <1>2, <1>3, <1>4, ServesAgain

\* chaos_release
LEMMA ChaosReleaseOK ==
  ASSUME NEW c \in Cores, NEW h \in Slots
  PROVE  LET d == ChaosRelease(c, h)
         IN /\ d \in Cores /\ d.conns[h].state = "FREE"
            /\ \A g \in Slots \ {h} : d.conns[g] = c.conns[g]
<1> DEFINE e == IF c.conns[h].state = "OPEN" THEN ConnSendUnc(c, h, "CLS", <<>>) ELSE c
           d == [e EXCEPT !.conns[h] = FreeConn]
<1>1. <<>> \in Data
  BY ShortSeqs DEF Data
<1>2. Touches(c, ConnSendUnc(c, h, "CLS", <<>>), h)
  BY <1>1, ConnSendUncOK DEF Ops
<1>3. e \in Cores /\ \A g \in Slots \ {h} : e.conns[g] = c.conns[g]
  BY <1>2 DEF Touches
<1>4. ChaosRelease(c, h) = d
  BY DEF ChaosRelease
<1> HIDE DEF e
<1>5. d \in Cores /\ d.conns[h] = FreeConn /\ \A g \in Slots \ {h} : d.conns[g] = e.conns[g]
  BY <1>3, FreeIsSound, SetConn
<1> QED
  BY <1>3, <1>4, <1>5, FreeIsSound

---------------------------------------------------------------------------
(* Input                                                                   *)

\* The in-order mark
LEMMA AdvanceReceivedOK ==
  ASSUME NEW k \in Sound
  PROVE  AdvanceReceived(k) \in Sound /\ AdvanceReceived(k).state = k.state
<1> DEFINE S == {i \in 0..Ring : Contiguous(k, i)}
           i == Max(S)
           n == (k.receivedNum + i) % PktSpace
           j == AdvanceReceived(k)
<1>1. /\ k \in Conns /\ ConnOK(k) /\ k.receivedNum \in Num /\ k.readNum \in Num /\ k.rcvq \in Queues
  BY DEF Sound, Conns
<1>2. 0 \in S
  BY Sizes DEF Contiguous
<1>3. i \in S
  <2>1. S \in SUBSET (0..Ring) /\ S # {} /\ Ring \in Nat
    BY <1>2, Sizes
  <2> HIDE DEF S
  <2> QED
    BY <2>1, MaxExists
<1>4. j = [k EXCEPT !.receivedNum = n]
  BY DEF AdvanceReceived
<1> HIDE DEF i
<1>5. i \in 0..Ring /\ \A m \in 1..i : Holds(k.rcvq, (k.receivedNum + m) % PktSpace)
  BY <1>3 DEF Contiguous
<1>6. Receiving(n, k.readNum, k.rcvq)
  BY <1>1, <1>5, Advance DEF ConnOK
<1>7. n \in Num
  BY <1>1, <1>5, PlusIs, Sizes
<1> HIDE DEF n, j
<1>8. j \in Conns
  BY <1>1, <1>4, <1>7 DEF Conns
<1>9. /\ j.receivedNum = n /\ j.readNum = k.readNum /\ j.rcvq = k.rcvq /\ j.state = k.state
      /\ j.sentNum = k.sentNum /\ j.ackedNum = k.ackedNum /\ j.receiptNum = k.receiptNum
      /\ j.sendq = k.sendq
  BY <1>1, <1>4 DEF Conns
<1>10. j \in Sound /\ j.state = k.state
  BY <1>1, <1>6, <1>8, <1>9 DEF Sound, ConnOK
<1> QED
  BY <1>10 DEF j

\* conn_queue_input
LEMMA ConnQueueInputOK ==
  ASSUME NEW c \in Cores, NEW h \in Slots, NEW m \in Packets, m.op \in {"DAT", "EOF"},
         c.conns[h].state = "OPEN"
  PROVE  Serves(c, ConnQueueInput(c, h, m), h)
<1> DEFINE k == c.conns[h]
           p == [op |-> m.op, num |-> m.num, data |-> m.data]
           q == [k.rcvq EXCEPT ![SlotOf(m.num)] = p]
           j == [k EXCEPT !.rcvq[SlotOf(m.num)] = p]
           a == AdvanceReceived(j)
           d == [c EXCEPT !.conns[h] = a]
<1>1. /\ k \in Conns /\ ConnOK(k) /\ k.receivedNum \in Num /\ k.readNum \in Num /\ k.rcvq \in Queues
  BY ConnType DEF Conns
<1>2. m.num \in Num /\ m.data \in Data /\ SlotOf(m.num) \in 0..(Ring - 1)
  BY SlotType DEF Packets
<1>3. p \in Pkts /\ p.num = m.num
  BY <1>2 DEF Pkts
<1>4. CASE ~Acceptable(c, h, m)
  <2>1. ConnQueueInput(c, h, m) = ConnSendSts(c, h)
    BY <1>4 DEF ConnQueueInput
  <2> QED
    BY <2>1, ConnSendStsOK, TouchesServes
<1>5. CASE Acceptable(c, h, m)
  <2>1. SeqLt(k.receivedNum, m.num) /\ SeqDiff(m.num, k.readNum) <= LocalWindow
    BY <1>5 DEF Acceptable
  <2> HIDE DEF p
  <2>2. Receiving(k.receivedNum, k.readNum, q)
    BY <1>1, <1>3, <2>1, QueueOne DEF ConnOK
  <2>3. j \in Conns
    BY <1>1, <1>2, <1>3 DEF Conns, Queues
  <2>4. /\ j.receivedNum = k.receivedNum /\ j.readNum = k.readNum /\ j.rcvq = q /\ j.state = k.state
        /\ j.sentNum = k.sentNum /\ j.ackedNum = k.ackedNum /\ j.receiptNum = k.receiptNum
        /\ j.sendq = k.sendq
    BY <1>1 DEF Conns
  <2>5. ConnQueueInput(c, h, m) \in {d, ConnSendSts(d, h)}
    BY <1>5 DEF ConnQueueInput, p
  <2> HIDE DEF j, q
  <2>6. j \in Sound
    BY <1>1, <2>2, <2>3, <2>4 DEF Sound, ConnOK
  <2>7. a \in Sound /\ a.state = k.state
    BY <2>4, <2>6, AdvanceReceivedOK
  <2> HIDE DEF a
  <2>8. Serves(c, d, h) /\ d \in Cores
    BY <2>7, SetServes DEF Serves
  <2> HIDE DEF d
  <2>9. Serves(d, ConnSendSts(d, h), h)
    BY <2>8, ConnSendStsOK, TouchesServes
  <2> QED
    BY <2>5, <2>8, <2>9, ServesAgain
<1> QED
  BY <1>4, <1>5

\* handle_rfc and send_los_reply change no connection
LEMMA RepliesOK ==
  ASSUME NEW c \in Cores, NEW m \in Packets
  PROVE  /\ HandleRfc(c, m) \in Cores /\ HandleRfc(c, m).conns = c.conns
         /\ SendLosReply(c, m) \in Cores /\ SendLosReply(c, m).conns = c.conns
         /\ HandleRfc(c, m).uniquizer = c.uniquizer /\ SendLosReply(c, m).uniquizer = c.uniquizer
<1> DEFINE op == IF m.data = <<"STATUS">> THEN "ANS" ELSE "CLS"
<1>1. m.src \in Nat /\ m.dest \in Nat /\ m.num \in Num /\ 0 \in Num /\ 0 \in Nat /\ <<>> \in Data
  BY Sizes, ShortSeqs DEF Packets, Num, Data
<1>2. op \in Ops /\ op \notin {"OPN", "STS"} /\ "LOS" \in Ops
  BY DEF Ops
<1>3. HandleRfc(c, m) = SendRaw(c, Packet(op, m.src, 0, 0, m.num, <<>>))
  BY DEF HandleRfc
<1> HIDE DEF op
<1>4. /\ Packet(op, m.src, 0, 0, m.num, <<>>) \in Packets
      /\ Packet("LOS", m.src, m.dest, 0, 0, <<>>) \in Packets
  BY <1>1, <1>2, PacketType
<1> QED
  BY <1>3, <1>4, SendRawOK DEF SendLosReply

\* Whatever a routine on the whole core does, the same connections are in use
Keeps(c, d) == d \in Cores /\ SameUse(c, d) /\ d.uniquizer = c.uniquizer

\* Doing nothing, serving a connection and sending keep what is in use; so does one after another
LEMMA KeepsRules ==
  /\ \A c \in Cores : Keeps(c, c)
  /\ \A c, d : \A h \in Slots : Serves(c, d, h) => Keeps(c, d)
  /\ \A c, d : c \in Cores /\ d \in Cores /\ d.conns = c.conns /\ d.uniquizer = c.uniquizer => Keeps(c, d)
  /\ \A c, d, e : Keeps(c, d) /\ Keeps(d, e) => Keeps(c, e)
BY DEF Keeps, Serves, SameUse

\* The rounds of arp_learn
LEMMA RelearnedIs ==
  ASSUME NEW c
  PROVE  LET learnt == Relearned(c)
         IN /\ learnt[0] = [c EXCEPT !.arp = TRUE]
            /\ \A i \in 1..MaxConns : learnt[i] = Relearn(learnt[i - 1], i - 1)
<1> DEFINE a == [c EXCEPT !.arp = TRUE]
           Is(f, m) == f = [i \in 0..m |-> IF i = 0 THEN a ELSE Relearn(f[i - 1], i - 1)]
           S == {m \in Nat : \E f : Is(f, m)}
           F == CHOOSE f : Is(f, MaxConns)
<1>1. MaxConns \in Nat
  BY SizeAssumption
<1>2. Relearned(c) = F
  BY DEF Relearned
<1> HIDE DEF a
<1>3. 0 \in S
  <2>1. Is([i \in 0..0 |-> a], 0)
    OBVIOUS
  <2> QED
    BY <2>1
<1>4. ASSUME NEW m \in Nat, m \in S
      PROVE  m + 1 \in S
  <2>1. PICK f : Is(f, m)
    BY <1>4
  <2> DEFINE g == [i \in 0..(m + 1) |-> IF i = m + 1 THEN Relearn(f[m], m) ELSE f[i]]
  <2>2. Is(g, m + 1)
    BY <2>1
  <2> HIDE DEF Is
  <2> QED
    BY <2>2
<1>5. Nat \subseteq S
  <2> HIDE DEF S
  <2> QED
    BY <1>3, <1>4, NatSetInduction
<1>6. Is(F, MaxConns)
  BY <1>1, <1>5
<1> HIDE DEF F
<1>7. F[0] = a /\ \A i \in 1..MaxConns : F[i] = Relearn(F[i - 1], i - 1)
  BY <1>1, <1>6
<1> QED
  BY <1>2, <1>7 DEF a

\* arp_learn
LEMMA ArpLearnOK ==
  ASSUME NEW c \in Cores
  PROVE  Keeps(c, ArpLearn(c))
<1>1. CASE c.arp
  BY <1>1, KeepsRules DEF ArpLearn
<1>2. CASE ~c.arp
  <2> DEFINE F == Relearned(c)
             a == [c EXCEPT !.arp = TRUE]
             S == {i \in Nat : Keeps(c, F[i])}
  <2>1. F[0] = a /\ \A i \in 1..MaxConns : F[i] = Relearn(F[i - 1], i - 1)
    BY RelearnedIs
  <2>2. a \in Cores /\ a.conns = c.conns /\ a.uniquizer = c.uniquizer
    BY DEF Cores
  <2> HIDE DEF F, a
  <2>3. 0 \in S
    BY <2>1, <2>2, KeepsRules
  <2>4. ASSUME NEW i \in 1..MaxConns, i - 1 \in S
        PROVE  i \in S
    <3> DEFINE d == F[i - 1]
    <3>1. i \in Nat /\ i - 1 \in Slots /\ Keeps(c, d) /\ d \in Cores
      BY <2>4, SlotsType DEF Slots, Keeps
    <3>2. F[i] = Relearn(d, i - 1)
      BY <2>1
    <3> HIDE DEF d
    <3>3. Serves(d, ConnRetransmit(d, i - 1, Unreceipted(d.conns[i - 1])), i - 1)
      BY <3>1, ConnRetransmitOK, TouchesServes
    <3>4. Keeps(d, Relearn(d, i - 1))
      BY <3>1, <3>3, KeepsRules DEF Relearn
    <3>5. Keeps(c, F[i])
      BY <3>1, <3>2, <3>4, KeepsRules
    <3> QED
      BY <3>1, <3>5
  <2>5. \A i \in 0..MaxConns : i \in S
    <3>1. MaxConns \in Nat
      BY SlotsType
    <3> HIDE DEF S
    <3> QED
      BY <2>3, <2>4, <3>1, LoopInduction
  <2>6. Keeps(c, F[MaxConns])
    BY <2>5, SlotsType
  <2> QED
    BY <1>2, <2>6 DEF ArpLearn, F
<1> QED
  BY <1>1, <1>2

\* A window as the peer offers it
LEMMA WindowType ==
  ASSUME NEW w \in Nat
  PROVE  Least(w, MaxWindow) \in 0..MaxWindow
BY Sizes DEF Least

\* Taking a window from the peer keeps the rings sound: it is capped at MaxWindow
LEMMA WithWindowOK ==
  ASSUME NEW c \in Cores, NEW h \in Slots, NEW w \in Nat
  PROVE  Serves(c, WithWindow(c, h, w), h) /\ WithWindow(c, h, w) \in Cores
<1> DEFINE v == Least(w, MaxWindow)
           j == [c.conns[h] EXCEPT !.remoteWindow = v]
<1>1. c.conns[h] \in Sound /\ v \in 0..MaxWindow
  BY ConnType, WindowType
<1>2. WithWindow(c, h, w) = [c EXCEPT !.conns[h] = j]
  BY DEF WithWindow, Cores
<1> HIDE DEF v
<1>3. j \in Sound /\ j.state = c.conns[h].state
  BY <1>1 DEF Sound, Conns, ConnOK
<1> HIDE DEF j
<1> QED
  BY <1>2, <1>3, SetServes DEF Serves

\* The answer to an RFC: everything received before it is forgotten
Opened(k, src, n, w) ==
  [k EXCEPT !.remoteIndex = src, !.readNum = n, !.receivedNum = n, !.lastAckSent = n,
            !.remoteWindow = Least(w, MaxWindow), !.state = "OPEN"]
\* The OPN starts the receive ring at its number, with nothing received
LEMMA OpenedOK ==
  ASSUME NEW k \in Sound, k.state = "RFC_SENT", NEW src \in Nat, NEW n \in Num, NEW w \in Nat
  PROVE  Opened(k, src, n, w) \in Sound /\ Opened(k, src, n, w).state = "OPEN"
<1> DEFINE v == Least(w, MaxWindow)
           j == [k EXCEPT !.remoteIndex = src, !.readNum = n, !.receivedNum = n, !.lastAckSent = n,
                          !.remoteWindow = v, !.state = "OPEN"]
<1>1. v \in 0..MaxWindow
  BY WindowType
<1>2. k \in Conns /\ ConnOK(k) /\ k.rcvq \in Queues
  BY DEF Sound, Conns
<1> HIDE DEF v
<1>3. j \in Conns
  BY <1>1, <1>2 DEF Conns
<1>4. /\ j.receivedNum = n /\ j.readNum = n /\ j.rcvq = k.rcvq /\ j.state = "OPEN"
      /\ j.sentNum = k.sentNum /\ j.ackedNum = k.ackedNum /\ j.receiptNum = k.receiptNum
      /\ j.sendq = k.sendq
  BY <1>2 DEF Conns
<1>5. Receiving(n, n, k.rcvq)
  BY <1>2, DiffType, Sizes DEF ConnOK, Receiving, Queued
<1> HIDE DEF j
<1>6. j \in Sound /\ j.state = "OPEN"
  BY <1>2, <1>3, <1>4, <1>5 DEF Sound, ConnOK
<1> QED
  BY <1>6 DEF j, v, Opened

\* An answer to the RFC keeps the rings sound
LEMMA InputUnopenedOK ==
  ASSUME NEW c \in Cores, NEW h \in Slots, NEW m \in Packets, c.conns[h].state = "RFC_SENT"
  PROVE  Serves(c, InputUnopened(c, h, m), h)
<1>1. CASE m.op = "OPN"
  <2> DEFINE k == Opened(c.conns[h], m.src, m.num, m.data[2])
             d == [c EXCEPT !.conns[h] = k]
             e == ConnProcessAck(d, h, m.ack, m.data[1])
  <2>1. m.src \in Nat /\ m.num \in Num /\ m.ack \in Num /\ m.data[1] \in Num /\ m.data[2] \in Nat
    BY <1>1 DEF Packets
  <2>2. k \in Sound /\ k.state = "OPEN"
    BY <2>1, ConnType, OpenedOK
  <2>3. InputUnopened(c, h, m) = ConnSendSts(e, h)
    BY <1>1 DEF InputUnopened, Replies, Opened
  <2> HIDE DEF k
  <2>4. Serves(c, d, h) /\ d \in Cores
    BY <2>2, SetServes DEF Serves
  <2> HIDE DEF d
  <2>5. Serves(d, e, h) /\ e \in Cores
    BY <2>1, <2>4, ConnProcessAckOK DEF Serves
  <2> HIDE DEF e
  <2>6. Serves(e, ConnSendSts(e, h), h)
    BY <2>5, ConnSendStsOK, TouchesServes
  <2>7. Serves(c, e, h)
    BY <2>4, <2>5, ServesAgain
  <2> QED
    BY <2>3, <2>6, <2>7, ServesAgain
<1>2. CASE m.op = "FWD"
  <2>1. InputUnopened(c, h, m) = ConnSetClosed(c, h, "LOS")
    BY <1>2 DEF InputUnopened, Replies
  <2> QED
    BY <2>1, ConnSetClosedOK
<1>3. CASE m.op \in Replies \ {"FWD"}
  <2>1. InputUnopened(c, h, m) = ConnSetClosed(c, h, m.op) /\ m.op \in {"ANS", "CLS", "LOS"}
    BY <1>3 DEF InputUnopened, Replies
  <2> QED
    BY <2>1, ConnSetClosedOK
<1>4. CASE m.op # "OPN" /\ m.op \notin Replies
  <2>1. InputUnopened(c, h, m) = c
    BY <1>4 DEF InputUnopened, Replies
  <2> QED
    BY <2>1, ServesSelf
<1> QED
  BY <1>1, <1>2, <1>3, <1>4 DEF Replies

\* What follows only on a connection that is still open
LEMMA IfOpenOK ==
  ASSUME NEW c, NEW d, NEW e, NEW h, Serves(c, d, h), d.conns[h].state = "OPEN" => Serves(d, e, h)
  PROVE  Serves(c, IfOpen(d, h, e), h)
BY ServesAgain DEF IfOpen

\* A packet for an open connection keeps its rings sound and its slot in use
LEMMA InputOpenOK ==
  ASSUME NEW c \in Cores, NEW h \in Slots, NEW m \in Packets, NEW old, c.conns[h].state = "OPEN"
  PROVE  Serves(c, InputOpen(c, h, m, old), h)
<1> DEFINE acked == ConnProcessAck(c, h, m.ack, m.ack)
           told == WithWindow(c, h, m.data[2])
           sts == ConnProcessAck(told, h, m.ack, m.data[1])
<1>1. m.ack \in Num
  BY DEF Packets
<1>2. Serves(c, acked, h) /\ acked \in Cores
  BY <1>1, ConnProcessAckOK DEF Serves
<1>3. CASE m.op \in {"DAT", "EOF"}
  <2>1. InputOpen(c, h, m, old) = IfOpen(acked, h, ConnQueueInput(acked, h, m))
    BY <1>3 DEF InputOpen
  <2> HIDE DEF acked
  <2>2. acked.conns[h].state = "OPEN" => Serves(acked, ConnQueueInput(acked, h, m), h)
    BY <1>2, <1>3, ConnQueueInputOK
  <2> QED
    BY <1>2, <2>1, <2>2, IfOpenOK
<1>4. CASE m.op = "STS"
  <2>1. InputOpen(c, h, m, old) = IfOpen(sts, h, ConnRetransmit(sts, h, old))
    BY <1>4 DEF InputOpen
  <2>2. m.data[1] \in Num /\ m.data[2] \in Nat
    BY <1>4 DEF Packets
  <2>3. Serves(c, told, h) /\ told \in Cores
    BY <2>2, WithWindowOK
  <2> HIDE DEF told
  <2>4. Serves(told, sts, h) /\ sts \in Cores
    BY <1>1, <2>2, <2>3, ConnProcessAckOK DEF Serves
  <2> HIDE DEF sts
  <2>5. Serves(c, sts, h)
    BY <2>3, <2>4, ServesAgain
  <2>6. Serves(sts, ConnRetransmit(sts, h, old), h)
    BY <2>4, ConnRetransmitOK, TouchesServes
  <2> QED
    BY <2>1, <2>5, <2>6, IfOpenOK
<1>5. CASE m.op = "SNS"
  <2>1. InputOpen(c, h, m, old) = IfOpen(acked, h, ConnSendSts(acked, h))
    BY <1>5 DEF InputOpen
  <2> HIDE DEF acked
  <2>2. Serves(acked, ConnSendSts(acked, h), h)
    BY <1>2, ConnSendStsOK, TouchesServes
  <2> QED
    BY <1>2, <2>1, <2>2, IfOpenOK
<1>6. CASE m.op = "OPN"
  <2>1. InputOpen(c, h, m, old) = ConnSendSts(c, h)
    BY <1>6 DEF InputOpen
  <2> QED
    BY <2>1, ConnSendStsOK, TouchesServes
<1>7. CASE m.op \in {"CLS", "LOS"}
  <2>1. InputOpen(c, h, m, old) = ConnSetClosed(c, h, m.op)
    BY <1>7 DEF InputOpen
  <2> QED
    BY <1>7, <2>1, ConnSetClosedOK
<1>8. CASE m.op \notin {"DAT", "EOF", "STS", "SNS", "OPN", "CLS", "LOS"}
  <2>1. InputOpen(c, h, m, old) = c
    BY <1>8 DEF InputOpen
  <2> QED
    BY <2>1, ServesSelf
<1> QED
  BY <1>3, <1>4, <1>5, <1>6, <1>7, <1>8

\* handle_chaos
LEMMA HandleChaosOK ==
  ASSUME NEW c \in Cores, NEW m \in Packets, NEW old
  PROVE  Keeps(c, HandleChaos(c, m, old))
<1> DEFINE h == m.dest % MaxConns
<1>1. h \in Slots
  BY SlotsType DEF Packets, Slots
<1>2. Keeps(c, HandleRfc(c, m)) /\ Keeps(c, SendLosReply(c, m)) /\ Keeps(c, c)
  BY RepliesOK, KeepsRules
<1>3. HandleChaos(c, m, old) \in {HandleRfc(c, m), SendLosReply(c, m), c, HandleConn(c, h, m, old)}
  BY DEF HandleChaos
<1> HIDE DEF h
<1>4. Keeps(c, HandleConn(c, h, m, old))
  <2>1. CASE c.conns[h].state = "RFC_SENT"
    <3>1. HandleConn(c, h, m, old) = InputUnopened(c, h, m)
      BY <2>1 DEF HandleConn
    <3> QED
      BY <1>1, <2>1, <3>1, InputUnopenedOK, KeepsRules
  <2>2. CASE c.conns[h].state = "OPEN"
    <3>1. HandleConn(c, h, m, old) = InputOpen(c, h, m, old)
      BY <2>2 DEF HandleConn
    <3> QED
      BY <1>1, <2>2, <3>1, InputOpenOK, KeepsRules
  <2>3. CASE c.conns[h].state \notin {"RFC_SENT", "OPEN"}
    <3>1. HandleConn(c, h, m, old) \in {c, SendLosReply(c, m)}
      BY <2>3 DEF HandleConn
    <3> QED
      BY <1>2, <3>1
  <2> QED
    BY <2>1, <2>2, <2>3
<1> QED
  BY <1>2, <1>3, <1>4

\* chaos_core_input
LEMMA ChaosCoreInputOK ==
  ASSUME NEW c \in Cores, NEW m \in Packets, NEW old
  PROVE  Keeps(c, ChaosCoreInput(c, m, old))
<1> DEFINE d == ArpLearn(c)
           e == [d EXCEPT !.out = Append(@, ArpPacket("ARPREP"))]
<1>1. Keeps(c, d) /\ d \in Cores
  BY ArpLearnOK DEF Keeps
<1>2. ChaosCoreInput(c, m, old) \in {e, d, HandleChaos(d, m, old)}
  BY DEF ChaosCoreInput
<1> HIDE DEF d
<1>3. Keeps(d, e)
  <2>1. Append(d.out, ArpPacket("ARPREP")) \in Seq(Packets)
    BY <1>1, ArpType, AppendProperties DEF Cores
  <2>2. e \in Cores /\ e.conns = d.conns /\ e.uniquizer = d.uniquizer
    BY <1>1, <2>1 DEF Cores
  <2> HIDE DEF e
  <2> QED
    BY <1>1, <2>2, KeepsRules
<1>4. Keeps(d, HandleChaos(d, m, old))
  BY <1>1, HandleChaosOK
<1> HIDE DEF e
<1> QED
  BY <1>1, <1>2, <1>3, <1>4, KeepsRules

---------------------------------------------------------------------------
(* Timers                                                                  *)
LEMMA TickConnOK ==
  ASSUME NEW c \in Cores, NEW h \in Slots, NEW old, NEW probe, NEW lonely
  PROVE  Keeps(c, TickConn(c, h, old, probe, lonely))
<1> DEFINE sent == ConnRetransmit(c, h, old)
           told == IF sent.conns[h].ackDue THEN ConnSendSts(sent, h) ELSE sent
           sns == ConnSendUnc(told, h, "SNS", <<>>)
<1>1. Keeps(c, sent) /\ sent \in Cores
  BY ConnRetransmitOK, TouchesServes, KeepsRules DEF Keeps
<1>2. TickConn(c, h, old, probe, lonely) \in {sent, told, sns}
  BY DEF TickConn, ProbeIfWaiting
<1> HIDE DEF sent
<1>3. Keeps(sent, ConnSendSts(sent, h))
  BY <1>1, ConnSendStsOK, TouchesServes, KeepsRules
<1>4. Keeps(c, told) /\ told \in Cores
  BY <1>1, <1>3, KeepsRules DEF Keeps
<1> HIDE DEF told
<1>5. <<>> \in Data /\ "SNS" \in Ops
  BY ShortSeqs DEF Data, Ops
<1>6. Keeps(told, sns)
  BY <1>4, <1>5, ConnSendUncOK, TouchesServes, KeepsRules
<1> HIDE DEF sns
<1> QED
  BY <1>1, <1>2, <1>4, <1>6, KeepsRules

\* chaos_core_tick
LEMMA TimersOK ==
  ASSUME NEW c \in Cores, NEW h \in Slots
  PROVE  \A d \in Ticks(c, h) \cup GivesUp(c, h) \cup Finishes(c, h) : Keeps(c, d)
<1>1. ASSUME NEW d \in Ticks(c, h)
      PROVE  Keeps(c, d)
  <2>1. d = c \/ \E old, probe, lonely : d = TickConn(c, h, old, probe, lonely)
    <3>1. CASE c.conns[h].state = "RFC_SENT"
      <4>1. Ticks(c, h) = {TickConn(c, h, old, FALSE, FALSE) : old \in Ages(c)}
        BY <3>1 DEF Ticks
      <4> QED
        BY <1>1, <4>1
    <3>2. CASE c.conns[h].state = "OPEN"
      BY <1>1, <3>2 DEF Ticks
    <3>3. CASE c.conns[h].state # "RFC_SENT" /\ c.conns[h].state # "OPEN"
      <4> DEFINE A == {TickConn(c, h, old, FALSE, FALSE) : old \in Ages(c)}
                 B == {TickConn(c, h, old, probe, lonely) : old \in Ages(c), probe, lonely \in BOOLEAN}
                 s == c.conns[h].state
      <4>1. Ticks(c, h) = {c}
        <5>1. Ticks(c, h) = CASE s = "RFC_SENT" -> A [] s = "OPEN" -> B [] OTHER -> {c}
          BY DEF Ticks
        <5>2. s # "RFC_SENT" /\ s # "OPEN"
          BY <3>3
        <5> HIDE DEF A, B, s
        <5> QED
          BY <5>1, <5>2
      <4> QED
        BY <1>1, <4>1
    <3> QED
      BY <3>1, <3>2, <3>3
  <2> QED
    BY <2>1, TickConnOK, KeepsRules
<1>2. ASSUME NEW d \in GivesUp(c, h)
      PROVE  Keeps(c, d)
  <2>1. c.conns[h].state # "FREE" /\ d = ConnSetClosed(c, h, "TIMEOUT")
    BY <1>2 DEF GivesUp, TickGiveUp
  <2> QED
    BY <2>1, ConnSetClosedOK, KeepsRules
<1>3. ASSUME NEW d \in Finishes(c, h)
      PROVE  Keeps(c, d)
  <2>1. c.conns[h].state # "FREE" /\ d = ConnCloseCls(c, h, "DONE")
    BY <1>3 DEF Finishes, TickFinish
  <2> QED
    BY <2>1, ConnCloseClsOK, KeepsRules
<1> QED
  BY <1>1, <1>2, <1>3

---------------------------------------------------------------------------
(* The stream server                                                       *)
Clients ==
  [state : {"FREE", "LINE", "WAIT_OPN", "STREAM", "DRAIN"}, conn : Slots \cup {NoConn},
   in : Data, out : Data, sockEof : BOOLEAN, finished : BOOLEAN, wrShut : BOOLEAN]
Socks ==
  [session : Nat, line : {"none", "RFC", "bad"}, pending : Data,
   shut : BOOLEAN, gone : BOOLEAN, got : Data]
Servers == [c : Cores, k : Clients, t : Socks]

\* The client refers to the connection in use, exactly while it waits for an
\* answer or streams; nothing is written to it before; its line is read once
Owns(c, k) == \A g \in Slots : c.conns[g].state # "FREE" <=> k.conn = g
ClientOK(k, line) ==
  /\ Len(k.in) <= InBuf /\ Len(k.out) <= OutBuf
  /\ k.state \in {"WAIT_OPN", "STREAM"} <=> k.conn # NoConn
  /\ k.state \in {"FREE", "LINE", "WAIT_OPN"} => k.out = <<>>
  /\ line # "none" => k.state \in {"FREE", "LINE"}
Sane(s) == s \in Servers /\ Owns(s.c, s.k) /\ ClientOK(s.k, s.t.line)

\* The buffers of a client have room
LEMMA BufSizes == InBuf \in Nat \ {0} /\ OutBuf \in Nat \ {0}
BY StreamAssumption

\* A client without a connection names no slot
LEMMA NoConnType == NoConn \notin Slots
BY SlotsType DEF NoConn

\* Parts of a buffer, and what is beyond its end
LEMMA NothingBeyond ==
  ASSUME NEW data \in Data, NEW a \in Nat, NEW b \in Nat, a > b
  PROVE  SubSeq(data, a, b) = <<>>
BY DEF Data

\* Data after data
LEMMA JoinType ==
  ASSUME NEW a \in Data, NEW b \in Data
  PROVE  a \o b \in Data /\ Len(a \o b) = Len(a) + Len(b) /\ Len(a) \in Nat /\ Len(b) \in Nat
BY ConcatProperties, LenProperties DEF Data

\* Data and one more
LEMMA AppendType ==
  ASSUME NEW a \in Data, NEW x \in Datum
  PROVE  Append(a, x) \in Data /\ Len(Append(a, x)) = Len(a) + 1 /\ Len(a) \in Nat
BY AppendProperties, LenProperties DEF Data

\* No data is data
LEMMA EmptyType == <<>> \in Data /\ Len(<<>>) = 0
BY ShortSeqs DEF Data

\* What is left of a buffer of which n bytes are taken
LEMMA RestType ==
  ASSUME NEW data \in Data, NEW n \in Nat
  PROVE  /\ SubSeq(data, n + 1, Len(data)) \in Data
         /\ Len(SubSeq(data, n + 1, Len(data))) <= Len(data)
         /\ SubSeq(data, 1, Least(n, Len(data))) \in Data
<1>1. Len(data) \in Nat
  BY LenProperties DEF Data
<1>2. CASE n <= Len(data)
  <2>1. /\ SubSeq(data, n + 1, Len(data)) \in Data
        /\ Len(SubSeq(data, n + 1, Len(data))) = Len(data) - n
    BY <1>1, <1>2, PartType
  <2>2. SubSeq(data, 0 + 1, n) \in Data /\ 0 + 1 = 1
    BY <1>1, <1>2, PartType
  <2>3. Least(n, Len(data)) = n
    BY <1>2 DEF Least
  <2> QED
    BY <1>1, <2>1, <2>2, <2>3
<1>3. CASE ~(n <= Len(data))
  <2>1. SubSeq(data, n + 1, Len(data)) = <<>>
    BY <1>1, <1>3, NothingBeyond
  <2>2. Least(n, Len(data)) = Len(data)
    BY <1>3 DEF Least
  <2>3. SubSeq(data, 0 + 1, Len(data)) \in Data /\ 0 + 1 = 1
    BY <1>1, PartType
  <2> DEFINE left == SubSeq(data, n + 1, Len(data))
             took == SubSeq(data, 1, Least(n, Len(data)))
  <2>4. took \in Data
    BY <2>2, <2>3
  <2>5. left = <<>>
    BY <2>1
  <2> HIDE DEF left, took
  <2>6. left \in Data /\ Len(left) <= Len(data)
    BY <1>1, <2>5, EmptyType
  <2> QED
    BY <2>4, <2>6 DEF left, took
<1> QED
  BY <1>2, <1>3

\* The core may do what leaves the connections in use
LEMMA SaneCore ==
  ASSUME NEW s, Sane(s), NEW d, Keeps(s.c, d)
  PROVE  Sane([s EXCEPT !.c = d])
<1> DEFINE r == [s EXCEPT !.c = d]
<1>1. s \in Servers /\ d \in Cores
  BY DEF Sane, Keeps
<1>2. r \in Servers /\ r.c = d /\ r.k = s.k /\ r.t = s.t
  BY <1>1 DEF Servers
<1> HIDE DEF r
<1>3. Owns(d, s.k)
  BY DEF Sane, Owns, Keeps, SameUse
<1>4. Sane(r)
  BY <1>2, <1>3 DEF Sane
<1> QED
  BY <1>4 DEF r

\* A client that is not connected is well formed
LEMMA FreeClientType == FreeClient \in Clients /\ \A line : ClientOK(FreeClient, line)
BY EmptyType, BufSizes DEF FreeClient, Clients, ClientOK

\* client_close
LEMMA ClientCloseOK ==
  ASSUME NEW s, Sane(s)
  PROVE  Sane(ClientClose(s)) /\ ClientClose(s).t = s.t
<1> DEFINE d == IF s.k.conn = NoConn THEN s.c ELSE ChaosRelease(s.c, s.k.conn)
           r == ClientClose(s)
<1>1. s \in Servers /\ s.c \in Cores /\ s.k.conn \in Slots \cup {NoConn} /\ Owns(s.c, s.k)
  BY DEF Sane, Servers, Clients
<1>2. d \in Cores /\ \A g \in Slots : d.conns[g].state = "FREE"
  <2>1. CASE s.k.conn = NoConn
    BY <1>1, <2>1, NoConnType DEF Owns
  <2>2. CASE s.k.conn # NoConn
    BY <1>1, <2>2, ChaosReleaseOK DEF Owns
  <2> QED
    BY <2>1, <2>2
<1>3. r = [s EXCEPT !.c = d, !.k = FreeClient]
  BY DEF ClientClose
<1> HIDE DEF d, r
<1>4. r \in Servers /\ r.c = d /\ r.k = FreeClient /\ r.t = s.t
  BY <1>1, <1>2, <1>3, FreeClientType DEF Servers
<1>5. Owns(d, FreeClient)
  BY <1>2, NoConnType DEF Owns, FreeClient
<1>6. Sane(r) /\ r.t = s.t
  BY <1>4, <1>5, FreeClientType DEF Sane
<1> QED
  BY <1>6 DEF r

\* client_write
LEMMA ClientWriteOK ==
  ASSUME NEW s, Sane(s), NEW n \in Nat
  PROVE  /\ Sane(ClientWrite(s, n)) /\ ClientWrite(s, n).c = s.c /\ ClientWrite(s, n).k.conn = s.k.conn
         /\ ClientWrite(s, n).k.state = s.k.state
<1> DEFINE out == s.k.out
           took == SubSeq(out, 1, Least(n, Len(out)))
           left == SubSeq(out, n + 1, Len(out))
           j == [s.k EXCEPT !.out = left]
           u == [s.t EXCEPT !.got = @ \o took]
           r == ClientWrite(s, n)
<1>1. s \in Servers /\ s.c \in Cores /\ s.k \in Clients /\ s.t \in Socks /\ out \in Data /\ s.t.got \in Data
  BY DEF Sane, Servers, Clients, Socks
<1>2. Owns(s.c, s.k) /\ ClientOK(s.k, s.t.line)
  BY DEF Sane
<1>3. took \in Data /\ left \in Data /\ Len(left) <= Len(out) /\ Len(left) \in Nat /\ Len(out) \in Nat
  BY <1>1, RestType, JoinType
<1>4. s.t.got \o took \in Data
  BY <1>1, <1>3, JoinType
<1>5. out = <<>> => left = <<>>
  BY <1>1, EmptyType, NothingBeyond
<1>6. r = [s EXCEPT !.t = u, !.k = j]
  BY <1>1 DEF ClientWrite, Servers, Clients, Socks
<1> HIDE DEF took, left, r
<1>7. j \in Clients /\ j.out = left /\ j.in = s.k.in /\ j.conn = s.k.conn /\ j.state = s.k.state
  BY <1>1, <1>3 DEF Clients
<1>8. u \in Socks /\ u.line = s.t.line
  BY <1>1, <1>4 DEF Socks
<1> HIDE DEF j, u
<1>9. r \in Servers /\ r.c = s.c /\ r.k = j /\ r.t = u
  BY <1>1, <1>6, <1>7, <1>8 DEF Servers
<1>10. Len(left) <= OutBuf
  BY <1>2, <1>3, BufSizes DEF ClientOK
<1>11. ClientOK(j, u.line)
  BY <1>2, <1>5, <1>7, <1>8, <1>10 DEF ClientOK
<1>12. Owns(s.c, j)
  BY <1>2, <1>7 DEF Owns
<1> QED
  BY <1>7, <1>9, <1>11, <1>12 DEF Sane, r

\* client_read
LEMMA ReadBytesOK ==
  ASSUME NEW s, Sane(s)
  PROVE  /\ Sane(ReadBytes(s)) /\ ReadBytes(s).c = s.c /\ ReadBytes(s).k.state = s.k.state
         /\ ReadBytes(s).t.line = s.t.line /\ ReadBytes(s).k.conn = s.k.conn
<1> DEFINE room == InBuf - Len(s.k.in)
           n == Least(Len(s.t.pending), room)
           took == SubSeq(s.t.pending, 1, n)
           left == SubSeq(s.t.pending, n + 1, Len(s.t.pending))
           j == [s.k EXCEPT !.in = @ \o took]
           u == [s.t EXCEPT !.pending = left]
           r == ReadBytes(s)
<1>1. /\ s \in Servers /\ s.c \in Cores /\ s.k \in Clients /\ s.t \in Socks
      /\ s.k.in \in Data /\ s.t.pending \in Data
  BY DEF Sane, Servers, Clients, Socks
<1>2. Owns(s.c, s.k) /\ ClientOK(s.k, s.t.line)
  BY DEF Sane
<1>3. Len(s.k.in) \in Nat /\ Len(s.t.pending) \in Nat /\ Len(s.k.in) <= InBuf
  BY <1>1, <1>2, JoinType DEF ClientOK
<1>4. room \in Nat
  BY <1>3, BufSizes
<1>5. n \in Nat /\ n <= room /\ n <= Len(s.t.pending)
  <2>1. n \in {Len(s.t.pending), room} /\ n <= Len(s.t.pending) /\ n <= room
    BY <1>3, <1>4, LeastIs
  <2> HIDE DEF n, room
  <2> QED
    BY <1>3, <1>4, <2>1
<1>6. r = [s EXCEPT !.k = j, !.t = u]
  BY <1>1 DEF ReadBytes, Servers, Clients, Socks
<1> HIDE DEF n, r
<1>7. took \in Data /\ Len(took) = n /\ left \in Data
  <2>1. SubSeq(s.t.pending, 0 + 1, n) \in Data /\ Len(SubSeq(s.t.pending, 0 + 1, n)) = n - 0
    <3>1. 0 \in Nat /\ 0 <= n
      BY <1>5
    <3> QED
      BY <1>1, <1>5, <3>1, PartType
  <2>2. 0 + 1 = 1 /\ n - 0 = n
    BY <1>5
  <2> QED
    BY <1>1, <1>5, <2>1, <2>2, RestType
<1> HIDE DEF took, left
<1>8. s.k.in \o took \in Data /\ Len(s.k.in \o took) <= InBuf
  <2>1. s.k.in \o took \in Data /\ Len(s.k.in \o took) = Len(s.k.in) + n
    BY <1>1, <1>7, JoinType
  <2> QED
    BY <1>3, <1>5, <2>1, BufSizes
<1>9. /\ j \in Clients /\ j.in = s.k.in \o took /\ j.out = s.k.out /\ j.conn = s.k.conn
      /\ j.state = s.k.state
  BY <1>1, <1>8 DEF Clients
<1>10. u \in Socks /\ u.line = s.t.line
  BY <1>1, <1>7 DEF Socks
<1> HIDE DEF j, u
<1>11. r \in Servers /\ r.c = s.c /\ r.k = j /\ r.t = u
  BY <1>1, <1>6, <1>9, <1>10 DEF Servers
<1>12. ClientOK(j, u.line)
  BY <1>2, <1>8, <1>9, <1>10 DEF ClientOK
<1>13. Owns(s.c, j)
  BY <1>2, <1>9 DEF Owns
<1> QED
  BY <1>9, <1>10, <1>11, <1>12, <1>13 DEF Sane, r

\* A free slot is found when there is one
LEMMA NewSlotType ==
  ASSUME NEW c \in Cores, FreeSlots(c) # {}
  PROVE  NewSlot(c) \in Slots /\ c.conns[NewSlot(c)].state = "FREE"
<1> DEFINE S == FreeSlots(c)
           N == MaxConns - 1
           T == {N - h : h \in S}
<1>1. S \subseteq 0..N /\ S # {} /\ N \in Nat
  BY SlotsType DEF FreeSlots, Cores, Slots
<1>2. \E h \in S : \A g \in S : h <= g
  <2>1. T \in SUBSET (0..N) /\ T # {}
    BY <1>1
  <2> HIDE DEF T
  <2>2. Max(T) \in T /\ \A y \in T : Max(T) >= y
    BY <1>1, <2>1, MaxExists
  <2>3. PICK h \in S : Max(T) = N - h
    BY <2>2 DEF T
  <2>4. ASSUME NEW g \in S
        PROVE  h <= g
    <3>1. N - g \in T
      BY DEF T
    <3>2. N - h >= N - g
      BY <2>2, <2>3, <3>1
    <3> HIDE DEF S
    <3> QED
      BY <1>1, <2>3, <3>2
  <2> QED
    BY <2>4
<1>3. NewSlot(c) \in S
  BY <1>2 DEF NewSlot
<1> QED
  BY <1>1, <1>3 DEF FreeSlots, Slots

\* fail_client, for a client that was written nothing yet
LEMMA FailClientOK ==
  ASSUME NEW k \in Clients, k.out = <<>>, k.conn = NoConn, Len(k.in) <= InBuf, NEW verb \in Verbs
  PROVE  /\ FailClient(k, verb) \in Clients /\ FailClient(k, verb).conn = NoConn
         /\ ClientOK(FailClient(k, verb), "none")
<1> DEFINE out == Append(k.out, verb)
           j == FailClient(k, verb)
<1>1. verb \in Datum
  BY DEF Datum
<1>2. out \in Data /\ Len(out) = 0 + 1
  BY <1>1, AppendType, EmptyType
<1>3. j = [k EXCEPT !.out = out, !.state = "DRAIN"]
  BY DEF FailClient
<1> HIDE DEF out, j
<1>4. j \in Clients /\ j.out = out /\ j.state = "DRAIN" /\ j.in = k.in /\ j.conn = k.conn
  BY <1>2, <1>3 DEF Clients
<1>5. Len(out) <= OutBuf
  BY <1>2, BufSizes
<1> QED
  BY <1>4, <1>5 DEF ClientOK, j

\* handle_request
LEMMA ReadLineOK ==
  ASSUME NEW s, Sane(s), s.k.state = "LINE"
  PROVE  Sane(ReadLine(s))
<1> DEFINE b == ReadBytes(s)
           h == NewSlot(b.c)
           d == ChaosOpen(b.c, h, <<b.t.session>>)
           j == [b.k EXCEPT !.conn = h, !.state = "WAIT_OPN"]
           f == FailClient(b.k, "LOS")
           u == [b.t EXCEPT !.line = "none"]
           refused == [b EXCEPT !.k = f, !.t = u]
           asked == [b EXCEPT !.c = d, !.k = j, !.t = u]
<1>1. Sane(b) /\ b.k.state = "LINE"
  BY ReadBytesOK
<1>2. ReadLine(s) = [HandleRequest(b) EXCEPT !.t.line = "none"]
  BY DEF ReadLine
<1> HIDE DEF b
<1>3. /\ b \in Servers /\ b.c \in Cores /\ b.k \in Clients /\ b.t \in Socks /\ b.t.session \in Nat
      /\ Owns(b.c, b.k) /\ ClientOK(b.k, b.t.line)
  BY <1>1 DEF Sane, Servers, Socks
<1>4. b.k.out = <<>> /\ b.k.conn = NoConn /\ Len(b.k.in) <= InBuf
  BY <1>1, <1>3 DEF ClientOK
<1>5. u \in Socks /\ u.line = "none"
  BY <1>3 DEF Socks
<1>6. Sane(refused)
  <2>1. f \in Clients /\ f.conn = NoConn /\ ClientOK(f, "none")
    BY <1>3, <1>4, FailClientOK DEF Verbs
  <2> HIDE DEF f, u
  <2>2. refused \in Servers /\ refused.c = b.c /\ refused.k = f /\ refused.t = u
    BY <1>3, <1>5, <2>1 DEF Servers
  <2>3. Owns(b.c, f)
    BY <1>3, <1>4, <2>1 DEF Owns
  <2> HIDE DEF refused
  <2> QED
    BY <1>5, <2>1, <2>2, <2>3 DEF Sane
<1>7. FreeSlots(b.c) # {} => Sane(asked)
  <2> SUFFICES ASSUME FreeSlots(b.c) # {}
               PROVE  Sane(asked)
    OBVIOUS
  <2>1. h \in Slots
    BY <1>3, NewSlotType
  <2>2. <<b.t.session>> \in Data
    BY <1>3, ShortSeqs DEF Data, Datum
  <2> HIDE DEF h
  <2>3. /\ d \in Cores /\ d.conns[h].state = "RFC_SENT"
        /\ \A g \in Slots \ {h} : d.conns[g] = b.c.conns[g]
    BY <1>3, <2>1, <2>2, ChaosOpenOK
  <2>4. j \in Clients /\ j.conn = h /\ j.state = "WAIT_OPN" /\ j.in = b.k.in /\ j.out = b.k.out
    BY <1>3, <2>1 DEF Clients
  <2> HIDE DEF d, j, u
  <2>5. asked \in Servers /\ asked.c = d /\ asked.k = j /\ asked.t = u
    BY <1>3, <1>5, <2>3, <2>4 DEF Servers
  <2>6. Owns(d, j)
    BY <1>3, <1>4, <2>1, <2>3, <2>4, NoConnType DEF Owns
  <2>7. ClientOK(j, "none")
    BY <1>3, <1>4, <2>1, <2>4, NoConnType, EmptyType, BufSizes DEF ClientOK
  <2> HIDE DEF asked
  <2> QED
    BY <1>5, <2>5, <2>6, <2>7 DEF Sane
<1>8. CASE b.t.line = "bad" \/ FreeSlots(b.c) = {}
  <2>1. HandleRequest(b) = [b EXCEPT !.k = f]
    BY <1>8 DEF HandleRequest
  <2>2. ReadLine(s) = refused
    <3> HIDE DEF f
    <3> QED
      BY <1>2, <1>3, <2>1 DEF Servers, Socks
  <2> QED
    BY <1>6, <2>2
<1>9. CASE ~(b.t.line = "bad" \/ FreeSlots(b.c) = {})
  <2>1. HandleRequest(b) = [b EXCEPT !.c = d, !.k.conn = h, !.k.state = "WAIT_OPN"]
    BY <1>9 DEF HandleRequest
  <2>2. ReadLine(s) = asked
    <3> HIDE DEF d, h
    <3> QED
      BY <1>2, <1>3, <2>1 DEF Servers, Socks, Clients
  <2> QED
    BY <1>7, <1>9, <2>2
<1> QED
  BY <1>8, <1>9

\* End of file from the client's socket
LEMMA ReadEofOK ==
  ASSUME NEW s, Sane(s)
  PROVE  Sane(ReadEof(s))
<1> DEFINE j == [s.k EXCEPT !.sockEof = TRUE]
           r == [s EXCEPT !.k.sockEof = TRUE]
<1>1. s \in Servers /\ s.k \in Clients /\ Owns(s.c, s.k) /\ ClientOK(s.k, s.t.line)
  BY DEF Sane, Servers
<1>2. /\ j \in Clients /\ j.in = s.k.in /\ j.out = s.k.out /\ j.conn = s.k.conn /\ j.state = s.k.state
  BY <1>1 DEF Clients
<1>3. r = [s EXCEPT !.k = j]
  BY <1>1 DEF Servers, Clients
<1> HIDE DEF j, r
<1>4. r \in Servers /\ r.c = s.c /\ r.k = j /\ r.t = s.t
  BY <1>1, <1>2, <1>3 DEF Servers
<1>5. Sane(r)
  BY <1>1, <1>2, <1>4 DEF Sane, Owns, ClientOK
<1>6. ReadEof(s) \in {ClientClose(s), r}
  BY DEF ReadEof, r
<1> QED
  BY <1>5, <1>6, ClientCloseOK

\* A read from the client's socket, however much it returns
LEMMA ReadsOK ==
  ASSUME NEW s, Sane(s), NEW r \in Reads(s)
  PROVE  Sane(r)
<1>1. \/ s.t.line # "none" /\ PollIn(s.c, s.k) /\ r = ReadLine(s)
      \/ r = ReadBytes(s) \/ r = ReadEof(s) \/ r = ClientClose(s)
  BY DEF Reads
<1>2. ASSUME s.t.line # "none", PollIn(s.c, s.k)
      PROVE  s.k.state = "LINE"
  BY <1>2 DEF Sane, ClientOK, PollIn
<1> QED
  BY <1>1, <1>2, ReadLineOK, ReadBytesOK, ReadEofOK, ClientCloseOK

\* client_service, from the socket to the connection
LEMMA PushedOK ==
  ASSUME NEW s, Sane(s), s.k.state = "STREAM"
  PROVE  Sane(Pushed(s)) /\ Pushed(s).k.state = "STREAM"
<1> DEFINE h == s.k.conn
           n == ChaosAccepts(s.c, h, s.k.in)
           d == ChaosSend(s.c, h, s.k.in)
           left == SubSeq(s.k.in, n + 1, Len(s.k.in))
           j == [s.k EXCEPT !.in = left]
           r == Pushed(s)
<1>1. /\ s \in Servers /\ s.c \in Cores /\ s.k \in Clients /\ s.t \in Socks /\ s.k.in \in Data
      /\ Owns(s.c, s.k) /\ ClientOK(s.k, s.t.line)
  BY DEF Sane, Servers, Clients
<1>2. h \in Slots
  BY <1>1 DEF ClientOK, Clients
<1>3. Serves(s.c, d, h) /\ n \in 0..Len(s.k.in) /\ Len(s.k.in) \in Nat
  BY <1>1, <1>2, ChaosSendOK, JoinType
<1>4. left \in Data /\ Len(left) <= Len(s.k.in) /\ Len(left) \in Nat
  <2>1. n \in Nat
    BY <1>3
  <2> HIDE DEF n
  <2>2. left \in Data /\ Len(left) <= Len(s.k.in)
    BY <1>1, <2>1, RestType
  <2> HIDE DEF left
  <2>3. Len(left) \in Nat
    BY <2>2, JoinType
  <2> QED
    BY <2>2, <2>3
<1>5. r = [s EXCEPT !.c = d, !.k = j]
  BY <1>1 DEF Pushed, Servers, Clients
<1> HIDE DEF d, left, r, n
<1>6. d \in Cores /\ SameUse(s.c, d)
  BY <1>3 DEF Serves
<1>7. /\ j \in Clients /\ j.in = left /\ j.out = s.k.out /\ j.conn = s.k.conn /\ j.state = s.k.state
  BY <1>1, <1>4 DEF Clients
<1> HIDE DEF j, h
<1>8. r \in Servers /\ r.c = d /\ r.k = j /\ r.t = s.t
  BY <1>1, <1>5, <1>6, <1>7 DEF Servers
<1>9. Len(left) <= InBuf
  BY <1>1, <1>3, <1>4, BufSizes DEF ClientOK
<1>10. Owns(d, j) /\ ClientOK(j, s.t.line)
  BY <1>1, <1>6, <1>7, <1>9 DEF Owns, SameUse, ClientOK
<1> QED
  BY <1>7, <1>8, <1>10 DEF Sane, r

\* Asking for the EOF once the client has finished writing
LEMMA FinishedOK ==
  ASSUME NEW s, Sane(s), s.k.state = "STREAM"
  PROVE  Sane(Finished(s)) /\ Finished(s).k.state = "STREAM"
<1> DEFINE h == s.k.conn
           d == ChaosFinish(s.c, h)
           j == [s.k EXCEPT !.finished = TRUE]
           r == [s EXCEPT !.c = d, !.k.finished = TRUE]
<1>1. /\ s \in Servers /\ s.c \in Cores /\ s.k \in Clients /\ s.t \in Socks
      /\ Owns(s.c, s.k) /\ ClientOK(s.k, s.t.line)
  BY DEF Sane, Servers, Clients
<1>2. h \in Slots
  BY <1>1 DEF ClientOK, Clients
<1>3. d \in Cores /\ SameUse(s.c, d)
  BY <1>1, <1>2, ChaosFinishOK DEF Serves
<1>4. Finished(s) \in {s, r}
  BY DEF Finished
<1> HIDE DEF d
<1>5. r = [s EXCEPT !.c = d, !.k = j]
  BY <1>1 DEF Servers, Clients
<1>6. /\ j \in Clients /\ j.in = s.k.in /\ j.out = s.k.out /\ j.conn = s.k.conn /\ j.state = s.k.state
  BY <1>1 DEF Clients
<1> HIDE DEF j, r, h
<1>7. r \in Servers /\ r.c = d /\ r.k = j /\ r.t = s.t
  BY <1>1, <1>3, <1>5, <1>6 DEF Servers
<1>8. Owns(d, j) /\ ClientOK(j, s.t.line)
  BY <1>1, <1>3, <1>6 DEF Owns, SameUse, ClientOK
<1>9. Sane(r) /\ r.k.state = "STREAM"
  BY <1>6, <1>7, <1>8 DEF Sane
<1> QED
  BY <1>4, <1>9

\* From the connection to the output buffer
LEMMA PulledOK ==
  ASSUME NEW s, Sane(s), s.k.state = "STREAM"
  PROVE  Sane(Pulled(s)) /\ Pulled(s).k.state = "STREAM"
<1> DEFINE h == s.k.conn
           max == OutBuf - Len(s.k.out)
           a == Received(s.c.conns[h], max)
           d == TellWindow(s.c, h, a.k)
           out == s.k.out \o a.got
           j == [s.k EXCEPT !.out = out]
           r == PulledAs(s, a)
<1>1. /\ s \in Servers /\ s.c \in Cores /\ s.k \in Clients /\ s.t \in Socks /\ s.k.out \in Data
      /\ Owns(s.c, s.k) /\ ClientOK(s.k, s.t.line)
  BY DEF Sane, Servers, Clients
<1>2. h \in Slots
  BY <1>1 DEF ClientOK, Clients
<1>3. CASE ~(Len(s.k.out) < OutBuf)
  BY <1>3 DEF Pulled
<1>4. CASE Len(s.k.out) < OutBuf
  <2>1. Len(s.k.out) \in Nat /\ max \in Nat
    BY <1>1, <1>4, BufSizes, JoinType
  <2>2. Reading(a, s.c.conns[h], max)
    BY <1>1, <1>2, <2>1, ConnType, ReceivedOK
  <2>3. Pulled(s) = r
    BY <1>4 DEF Pulled
  <2>4. r = [s EXCEPT !.c = d, !.k = j]
    BY <1>1 DEF PulledAs, Servers, Clients
  <2> HIDE DEF a, r
  <2>5. a.k \in Sound /\ a.k.state = s.c.conns[h].state /\ a.got \in Data /\ Len(a.got) <= max
    BY <2>2 DEF Reading
  <2>6. d \in Cores /\ SameUse(s.c, d)
    BY <1>1, <1>2, <2>5, TellWindowOK DEF Serves
  <2>7. out \in Data /\ Len(out) <= OutBuf
    <3>1. out \in Data /\ Len(out) = Len(s.k.out) + Len(a.got) /\ Len(a.got) \in Nat
      BY <1>1, <2>5, JoinType
    <3>2. Len(a.got) <= OutBuf - Len(s.k.out)
      BY <2>5
    <3>3. out \in Data
      BY <3>1
    <3> DEFINE x == Len(s.k.out)
               y == Len(a.got)
               z == Len(out)
    <3>4. x \in Nat /\ y \in Nat /\ z = x + y /\ y <= OutBuf - x
      BY <2>1, <3>1, <3>2
    <3> HIDE DEF x, y, z
    <3>5. z <= OutBuf
      BY <3>4, BufSizes
    <3> QED
      BY <3>3, <3>5 DEF z
  <2> HIDE DEF out, d
  <2>8. /\ j \in Clients /\ j.in = s.k.in /\ j.out = out /\ j.conn = s.k.conn /\ j.state = s.k.state
    BY <1>1, <2>7 DEF Clients
  <2> HIDE DEF j, h
  <2>9. r \in Servers /\ r.c = d /\ r.k = j /\ r.t = s.t
    BY <1>1, <2>4, <2>6, <2>8 DEF Servers
  <2>10. Owns(d, j) /\ ClientOK(j, s.t.line)
    BY <1>1, <2>6, <2>7, <2>8 DEF Owns, SameUse, ClientOK
  <2> QED
    BY <2>3, <2>8, <2>9, <2>10 DEF Sane
<1> QED
  BY <1>3, <1>4

\* Shutting the client's socket when the stream has been read
LEMMA ShutWhenReadOK ==
  ASSUME NEW s, Sane(s)
  PROVE  Sane(ShutWhenRead(s))
<1> DEFINE j == [s.k EXCEPT !.wrShut = TRUE]
           r == [s EXCEPT !.k.wrShut = TRUE]
<1>1. s \in Servers /\ s.k \in Clients /\ Owns(s.c, s.k) /\ ClientOK(s.k, s.t.line)
  BY DEF Sane, Servers
<1>2. /\ j \in Clients /\ j.in = s.k.in /\ j.out = s.k.out /\ j.conn = s.k.conn /\ j.state = s.k.state
  BY <1>1 DEF Clients
<1>3. r = [s EXCEPT !.k = j]
  BY <1>1 DEF Servers, Clients
<1>4. ShutWhenRead(s) \in {s, r}
  BY DEF ShutWhenRead
<1> HIDE DEF j, r
<1>5. r \in Servers /\ r.c = s.c /\ r.k = j /\ r.t = s.t
  BY <1>1, <1>2, <1>3 DEF Servers
<1>6. Sane(r)
  BY <1>1, <1>2, <1>5 DEF Sane, Owns, ClientOK
<1> QED
  BY <1>4, <1>6

\* A round of a client that streams
LEMMA ServeStreamOK ==
  ASSUME NEW s, Sane(s), s.k.state = "STREAM", NEW n \in Nat
  PROVE  Sane(ServeStream(s, n))
<1> DEFINE a == Pushed(s)
           b == Finished(a)
           d == Pulled(b)
           e == ClientWrite(d, n)
           f == ShutWhenRead(e)
<1>1. ServeStream(s, n) = IF WriteFails(d) THEN ClientClose(d) ELSE CloseWhenRead(f)
  BY DEF ServeStream, StreamOut
<1>2. Sane(a) /\ a.k.state = "STREAM"
  BY PushedOK
<1> HIDE DEF a
<1>3. Sane(b) /\ b.k.state = "STREAM"
  BY <1>2, FinishedOK
<1> HIDE DEF b
<1>4. Sane(d)
  BY <1>3, PulledOK
<1> HIDE DEF d
<1>5. Sane(e)
  BY <1>4, ClientWriteOK
<1> HIDE DEF e
<1>6. Sane(f)
  BY <1>5, ShutWhenReadOK
<1> HIDE DEF f
<1>7. Sane(CloseWhenRead(f))
  BY <1>6, ClientCloseOK DEF CloseWhenRead
<1> QED
  BY <1>1, <1>4, <1>7, ClientCloseOK

\* A round of a client that drains
LEMMA ServeDrainOK ==
  ASSUME NEW s, Sane(s), NEW n \in Nat
  PROVE  Sane(ServeDrain(s, n))
<1>1. Sane(ClientWrite(s, n))
  BY ClientWriteOK
<1>2. Sane(DrainOut(ClientWrite(s, n)))
  BY <1>1, ClientCloseOK DEF DrainOut
<1> QED
  BY <1>2, ClientCloseOK DEF ServeDrain

\* A connection that was not opened
LEMMA ServeRefusedOK ==
  ASSUME NEW s, Sane(s), s.k.state = "WAIT_OPN", NEW n \in Nat
  PROVE  Sane(ServeRefused(s, n))
<1> DEFINE h == s.k.conn
           verb == Verb(s.c.conns[h].closeKind)
           d == ChaosRelease(s.c, h)
           k == [s.k EXCEPT !.conn = NoConn]
           j == FailClient(k, verb)
           r == [s EXCEPT !.c = d, !.k = j]
<1>1. /\ s \in Servers /\ s.c \in Cores /\ s.k \in Clients /\ s.t \in Socks /\ s.k.out = <<>>
      /\ Owns(s.c, s.k) /\ ClientOK(s.k, s.t.line)
  BY DEF Sane, Servers, Clients, ClientOK
<1>2. h \in Slots /\ s.t.line = "none" /\ Len(s.k.in) <= InBuf
  BY <1>1 DEF ClientOK, Clients
<1>3. verb \in Verbs
  BY DEF Verb, Verbs
<1>4. /\ d \in Cores /\ d.conns[h].state = "FREE"
      /\ \A g \in Slots \ {h} : d.conns[g] = s.c.conns[g]
  BY <1>1, <1>2, ChaosReleaseOK
<1>5. k \in Clients /\ k.out = <<>> /\ k.conn = NoConn /\ k.in = s.k.in
  BY <1>1 DEF Clients
<1>6. ServeRefused(s, n) = ServeDrain(r, n)
  BY DEF ServeRefused
<1> HIDE DEF d, verb, k
<1>7. j \in Clients /\ j.conn = NoConn /\ ClientOK(j, "none")
  BY <1>2, <1>3, <1>5, FailClientOK
<1> HIDE DEF j
<1>8. r \in Servers /\ r.c = d /\ r.k = j /\ r.t = s.t
  BY <1>1, <1>4, <1>7 DEF Servers
<1>9. Owns(d, j)
  BY <1>1, <1>2, <1>4, <1>7, NoConnType DEF Owns
<1> HIDE DEF r, h
<1>10. Sane(r)
  BY <1>2, <1>7, <1>8, <1>9 DEF Sane
<1> QED
  BY <1>6, <1>10, ServeDrainOK

\* client_service
LEMMA ClientServiceOK ==
  ASSUME NEW s, Sane(s), NEW n \in Nat
  PROVE  Sane(ClientService(s, n))
<1> DEFINE j == [s.k EXCEPT !.out = Append(@, "OPN"), !.state = "STREAM"]
           r == [s EXCEPT !.k = j]
<1>1. ASSUME s.k.state = "WAIT_OPN"
      PROVE  Sane(r) /\ r.k.state = "STREAM"
  <2>1. /\ s \in Servers /\ s.c \in Cores /\ s.k \in Clients /\ s.t \in Socks /\ s.k.out = <<>>
        /\ Owns(s.c, s.k) /\ ClientOK(s.k, s.t.line)
    BY <1>1 DEF Sane, Servers, Clients, ClientOK
  <2>2. Append(s.k.out, "OPN") \in Data /\ Len(Append(s.k.out, "OPN")) = 0 + 1
    BY <2>1, AppendType, EmptyType DEF Datum, Verbs
  <2>3. /\ j \in Clients /\ j.in = s.k.in /\ j.out = Append(s.k.out, "OPN") /\ j.conn = s.k.conn
        /\ j.state = "STREAM"
    BY <2>1, <2>2 DEF Clients
  <2> HIDE DEF j
  <2>5. r \in Servers /\ r.c = s.c /\ r.k = j /\ r.t = s.t
    BY <2>1, <2>3 DEF Servers
  <2>6. Len(j.out) <= OutBuf
    BY <2>2, <2>3, BufSizes
  <2>7. Owns(s.c, j) /\ ClientOK(j, s.t.line)
    BY <1>1, <2>1, <2>3, <2>6 DEF Owns, ClientOK
  <2> QED
    BY <2>3, <2>5, <2>7 DEF Sane
<1>2. CASE s.k.state = "WAIT_OPN"
  <2> DEFINE a == ServeStream(r, n)
             b == ServeRefused(s, n)
             state == s.c.conns[s.k.conn].state
             x == CASE state = "OPEN" -> a [] state = "CLOSED" -> b [] OTHER -> s
  <2>1. ClientService(s, n) \in {a, b, s}
    <3>1. ClientService(s, n) = x
      <4>1. r = [s EXCEPT !.k.out = Append(@, "OPN"), !.k.state = "STREAM"]
        BY DEF Sane, Servers, Clients
      <4> HIDE DEF r
      <4> QED
        BY <1>2, <4>1 DEF ClientService
    <3> HIDE DEF a, b, state
    <3> QED
      BY <3>1
  <2> HIDE DEF r
  <2> QED
    BY <1>1, <1>2, <2>1, ServeStreamOK, ServeRefusedOK
<1>3. CASE s.k.state = "STREAM"
  <2>1. ClientService(s, n) = ServeStream(s, n)
    BY <1>3 DEF ClientService
  <2> QED
    BY <1>3, <2>1, ServeStreamOK
<1>4. CASE s.k.state \notin {"WAIT_OPN", "STREAM"}
  <2>1. ClientService(s, n) \in {ServeDrain(s, n), s}
    BY <1>4 DEF ClientService
  <2> QED
    BY <2>1, ServeDrainOK
<1> QED
  BY <1>2, <1>3, <1>4

\* The frames of one round
LEMMA InputsIs ==
  ASSUME NEW c, NEW frames \in Seq(Packets), NEW old
  PROVE  LET after == Inputs(c, frames, old)
         IN /\ after[0] = c
            /\ \A i \in 1..Len(frames) : after[i] = ChaosCoreInput(after[i - 1], frames[i], old)
<1> DEFINE N == Len(frames)
           Step(d, i) == ChaosCoreInput(d, frames[i], old)
           Is(f, m) == f = [i \in 0..m |-> IF i = 0 THEN c ELSE Step(f[i - 1], i)]
           S == {m \in Nat : \E f : Is(f, m)}
           F == CHOOSE f : Is(f, N)
<1>1. N \in Nat
  BY LenProperties
<1>2. Inputs(c, frames, old) = F
  BY DEF Inputs
<1> HIDE DEF N, Step
<1>3. 0 \in S
  <2>1. Is([i \in 0..0 |-> c], 0)
    OBVIOUS
  <2> QED
    BY <2>1
<1>4. ASSUME NEW m \in Nat, m \in S
      PROVE  m + 1 \in S
  <2>1. PICK f : Is(f, m)
    BY <1>4
  <2> DEFINE g == [i \in 0..(m + 1) |-> IF i = m + 1 THEN Step(f[m], m + 1) ELSE f[i]]
  <2>2. Is(g, m + 1)
    BY <2>1
  <2> HIDE DEF Is
  <2> QED
    BY <2>2
<1>5. Nat \subseteq S
  <2> HIDE DEF S
  <2> QED
    BY <1>3, <1>4, NatSetInduction
<1>6. Is(F, N)
  BY <1>1, <1>5
<1> HIDE DEF F
<1>7. F[0] = c /\ \A i \in 1..N : F[i] = Step(F[i - 1], i)
  BY <1>1, <1>6
<1> QED
  BY <1>2, <1>7 DEF N, Step

\* Any number of packets handled in turn
LEMMA InputsOK ==
  ASSUME NEW c \in Cores, NEW frames \in Seq(Packets), NEW old
  PROVE  Keeps(c, Inputs(c, frames, old)[Len(frames)])
<1> DEFINE F == Inputs(c, frames, old)
           N == Len(frames)
           S == {i \in Nat : Keeps(c, F[i])}
<1>1. N \in Nat /\ \A i \in 1..N : frames[i] \in Packets
  BY LenProperties, ElementOfSeq
<1>2. F[0] = c /\ \A i \in 1..N : F[i] = ChaosCoreInput(F[i - 1], frames[i], old)
  BY InputsIs
<1> HIDE DEF F, N
<1>3. 0 \in S
  BY <1>2, KeepsRules
<1>4. ASSUME NEW i \in 1..N, i - 1 \in S
      PROVE  i \in S
  <2>1. i \in Nat /\ Keeps(c, F[i - 1]) /\ F[i - 1] \in Cores /\ frames[i] \in Packets
    BY <1>1, <1>4 DEF Keeps
  <2>2. F[i] = ChaosCoreInput(F[i - 1], frames[i], old)
    BY <1>2
  <2>3. Keeps(F[i - 1], F[i])
    BY <2>1, <2>2, ChaosCoreInputOK
  <2>4. Keeps(c, F[i])
    BY <2>1, <2>3, KeepsRules
  <2> QED
    BY <2>1, <2>4
<1>5. \A i \in 0..N : i \in S
  <2> HIDE DEF S
  <2> QED
    BY <1>1, <1>3, <1>4, LoopInduction
<1>6. Keeps(c, F[N])
  BY <1>1, <1>5
<1> QED
  BY <1>6 DEF F, N

---------------------------------------------------------------------------
(* The peer, as far as its packets go                                      *)
PeerOK(p) ==
  p \in [state : {p.state}, remote : Nat, contact : {p.contact}, sentNum : Num, ackedNum : Num,
         receiptNum : Num, readNum : Num, receivedNum : Num, rcvq : {p.rcvq}, got : {p.got},
         eofRead : {p.eofRead}, eofSent : {p.eofSent}, wrote : Nat]
PeersOK(ps) == (\E S : ps \in Seq(S)) /\ \A i \in DOMAIN ps : PeerOK(ps[i])

\* The peer's constants, as the proofs use them
LEMMA PeerSizes == PeerWindow \in Nat /\ PeerFirst \in Num /\ PacketBytes \in Nat \ {0} /\ 0 \in Num
BY PeerAssumption, Sizes DEF Num

\* The peers are numbered from 1
LEMMA PeersDomain ==
  ASSUME NEW ps, PeersOK(ps)
  PROVE  Len(ps) \in Nat /\ DOMAIN ps = 1..Len(ps)
<1>1. PICK S : ps \in Seq(S)
  BY DEF PeersOK
<1> QED
  BY <1>1, LenProperties

\* Changing one peer
LEMMA PeersExcept ==
  ASSUME NEW ps, PeersOK(ps), NEW i \in DOMAIN ps, NEW q, PeerOK(q)
  PROVE  PeersOK([ps EXCEPT ![i] = q])
<1> DEFINE r == [ps EXCEPT ![i] = q]
<1>1. PICK S : ps \in Seq(S)
  BY DEF PeersOK
<1>2. Len(ps) \in Nat /\ DOMAIN ps = 1..Len(ps) /\ \A j \in 1..Len(ps) : ps[j] \in S
  BY <1>1, LenProperties, ElementOfSeq
<1>3. r \in [1..Len(ps) -> S \cup {q}]
  BY <1>2
<1>4. \A j \in 1..Len(ps) : PeerOK(r[j])
  BY <1>2 DEF PeersOK
<1> HIDE DEF r
<1>5. r \in Seq(S \cup {q}) /\ DOMAIN r = 1..Len(ps)
  BY <1>2, <1>3, IsASeq
<1>6. PeersOK(r)
  BY <1>4, <1>5 DEF PeersOK
<1> QED
  BY <1>6 DEF r

\* One more peer
LEMMA PeersAppend ==
  ASSUME NEW ps, PeersOK(ps), NEW q, PeerOK(q)
  PROVE  PeersOK(Append(ps, q))
<1> DEFINE r == Append(ps, q)
<1>1. PICK S : ps \in Seq(S)
  BY DEF PeersOK
<1> DEFINE T == S \cup {q}
<1>2. Len(ps) \in Nat /\ DOMAIN ps = 1..Len(ps) /\ \A j \in 1..Len(ps) : ps[j] \in S
  BY <1>1, LenProperties, ElementOfSeq
<1>3. ps \in Seq(T)
  <2>1. ps \in [1..Len(ps) -> T]
    BY <1>1, <1>2
  <2> HIDE DEF T
  <2> QED
    BY <1>2, <2>1, IsASeq
<1>4. q \in T
  OBVIOUS
<1> HIDE DEF T
<1>5. /\ r \in Seq(T) /\ Len(r) = Len(ps) + 1 /\ r[Len(ps) + 1] = q
      /\ \A j \in 1..Len(ps) : r[j] = ps[j]
  BY <1>3, <1>4, AppendProperties
<1> HIDE DEF r
<1>6. DOMAIN r = 1..(Len(ps) + 1)
  BY <1>5, LenProperties
<1>7. ASSUME NEW j \in 1..(Len(ps) + 1)
      PROVE  PeerOK(r[j])
  <2>1. CASE j = Len(ps) + 1
    BY <1>5, <2>1
  <2>2. CASE j # Len(ps) + 1
    <3>1. j \in 1..Len(ps)
      BY <1>2, <2>2
    <3> QED
      BY <1>2, <1>5, <3>1 DEF PeersOK
  <2> QED
    BY <2>1, <2>2
<1>8. PeersOK(r)
  BY <1>5, <1>6, <1>7 DEF PeersOK
<1> QED
  BY <1>8 DEF r

\* The numbers a peer keeps
LEMMA PeerFields ==
  ASSUME NEW p, PeerOK(p)
  PROVE  /\ p.remote \in Nat /\ p.sentNum \in Num /\ p.ackedNum \in Num /\ p.receiptNum \in Num
         /\ p.readNum \in Num /\ p.receivedNum \in Num /\ p.wrote \in Nat
BY DEF PeerOK

\* A packet of the peer is well formed
LEMMA PeerPacketType ==
  ASSUME NEW i \in Nat, NEW p, PeerOK(p), NEW op \in Ops, NEW num \in Num, NEW data \in Data,
         op \in {"OPN", "STS"} => Len(data) = 2 /\ data[1] \in Num /\ data[2] \in Nat
  PROVE  PeerPacket(i, p, op, num, data) \in Packets
BY PeerFields, PacketType DEF PeerPacket

\* An STS of the peer is well formed
LEMMA PeerStsType ==
  ASSUME NEW i \in Nat, NEW p, PeerOK(p)
  PROVE  PeerSts(i, p) \in Packets
BY PeerFields, PeerSizes, PairType, PeerPacketType DEF PeerSts, Ops

\* What a peer writes is data
LEMMA PeerBytesType ==
  ASSUME NEW i \in Nat, NEW n \in Nat
  PROVE  PeerBytes(i, n) \in Data
<1>1. ASSUME NEW j \in 1..PacketBytes
      PROVE  PeerByte(i, (n - 1) * PacketBytes + j) \in Int
  BY PeerSizes DEF PeerByte
<1>2. PeerBytes(i, n) \in [1..PacketBytes -> Datum]
  BY <1>1 DEF PeerBytes, Datum
<1> QED
  BY <1>2, PeerSizes, IsASeq DEF Data

\* A packet the peer sends again is well formed
LEMMA PeerControlledType ==
  ASSUME NEW i \in Nat, NEW p, PeerOK(p), NEW n \in Num
  PROVE  PeerControlled(i, p, n) \in Packets
<1> DEFINE d == SeqDiff(n, PeerFirst)
           pair == <<p.receivedNum, PeerWindow>>
<1>1. d \in Nat
  BY PeerSizes, DiffType
<1>2. pair \in Data /\ Len(pair) = 2 /\ pair[1] \in Num /\ pair[2] \in Nat
  BY PeerFields, PeerSizes, PairType
<1>3. PeerControlled(i, p, n) \in
        {PeerPacket(i, p, "OPN", n, pair), PeerPacket(i, p, "DAT", n, PeerBytes(i, d)),
         PeerPacket(i, p, "EOF", n, <<>>)}
  BY DEF PeerControlled
<1> HIDE DEF pair, d
<1>4. PeerPacket(i, p, "OPN", n, pair) \in Packets
  BY <1>2, PeerPacketType DEF Ops
<1>5. PeerPacket(i, p, "DAT", n, PeerBytes(i, d)) \in Packets
  BY <1>1, PeerBytesType, PeerPacketType DEF Ops
<1>6. PeerPacket(i, p, "EOF", n, <<>>) \in Packets
  BY EmptyType, PeerPacketType DEF Ops
<1> QED
  BY <1>3, <1>4, <1>5, <1>6

\* A peer that closes
LEMMA PeerClosedOK ==
  ASSUME NEW p, PeerOK(p)
  PROVE  PeerOK(PeerClosed(p))
BY PeerSizes DEF PeerOK, PeerClosed

\* A peer that learns what was acknowledged
LEMMA PeerAckedOK ==
  ASSUME NEW p, PeerOK(p), NEW ack \in Num, NEW receipt \in Num
  PROVE  PeerOK(PeerAcked(p, ack, receipt))
<1> DEFINE a == IF SeqLt(p.ackedNum, ack) THEN ack ELSE p.ackedNum
           r == IF SeqLt(p.receiptNum, receipt) THEN receipt ELSE p.receiptNum
<1>1. a \in Num /\ r \in Num
  BY PeerFields
<1>2. PeerAcked(p, ack, receipt) = [p EXCEPT !.ackedNum = a, !.receiptNum = r]
  BY DEF PeerAcked, PeerOK
<1> HIDE DEF a, r
<1> QED
  BY <1>1, <1>2 DEF PeerOK

\* A peer that queues a packet it received
LEMMA PeerQueuedOK ==
  ASSUME NEW p, PeerOK(p), NEW m
  PROVE  PeerOK(PeerQueued(p, m))
<1> DEFINE q == IF SeqLt(p.receivedNum, m.num) /\ SeqDiff(m.num, p.readNum) <= PeerWindow
                  THEN p.rcvq \cup {[op |-> m.op, num |-> m.num, data |-> m.data]} ELSE p.rcvq
           have(n) == \E x \in q : x.num = n
           S == {n \in 0..PeerWindow : \A j \in 1..n : have((p.receivedNum + j) % PktSpace)}
           last == Max(S)
           n == (p.receivedNum + last) % PktSpace
<1>1. last \in Nat
  <2>1. 0 \in S
    BY PeerSizes
  <2>2. S \in SUBSET (0..PeerWindow)
    OBVIOUS
  <2> HIDE DEF S
  <2>3. last \in S
    BY <2>1, <2>2, PeerSizes, MaxExists
  <2> HIDE DEF last
  <2> QED
    BY <2>2, <2>3, PeerSizes
<1>2. PeerQueued(p, m) = [p EXCEPT !.rcvq = q, !.receivedNum = n]
  BY DEF PeerQueued
<1> HIDE DEF last, q
<1>3. n \in Num
  <2>1. p.receivedNum + last \in Int
    BY <1>1, PeerFields, Sizes DEF Num
  <2> QED
    BY <2>1, Sizes, Euclid DEF Num
<1> HIDE DEF n
<1> QED
  BY <1>2, <1>3 DEF PeerOK

\* What the steps of the peer are about: its connections, and packets to chaosd
PeerGood == PeersOK(peers) /\ toCore \in Seq(Packets)

\* A peer that changes and sends
LEMMA PeerStepOK ==
  ASSUME PeerGood, NEW i \in DOMAIN peers, NEW p, PeerOK(p), NEW out \in Seq(Packets), PeerStep(i, p, out)
  PROVE  PeerGood'
<1>1. i \in Nat
  BY PeersDomain DEF PeerGood
<1> DEFINE cls == PeerPacket(i, p, "CLS", 0, <<>>)
<1>2. cls \in Packets
  BY <1>1, EmptyType, PeerSizes, PeerPacketType DEF Ops
<1>3. PeersOK([peers EXCEPT ![i] = PeerClosed(p)]) /\ PeersOK([peers EXCEPT ![i] = p])
  BY PeerClosedOK, PeersExcept DEF PeerGood
<1>4. \/ peers' = [peers EXCEPT ![i] = PeerClosed(p)] /\ toCore' = Append(toCore, cls)
      \/ peers' = [peers EXCEPT ![i] = p] /\ toCore' = toCore \o out
  BY DEF PeerStep
<1> HIDE DEF cls
<1>5. Append(toCore, cls) \in Seq(Packets) /\ toCore \o out \in Seq(Packets)
  BY <1>2, AppendProperties, ConcatProperties DEF PeerGood
<1> QED
  BY <1>3, <1>4, <1>5 DEF PeerGood

\* A packet sent without a connection
LEMMA PeerAnswersOK ==
  ASSUME PeerGood, NEW m \in Packets, PeerAnswers(m)
  PROVE  PeerGood'
BY AppendProperties DEF PeerGood, PeerAnswers, PeersOK

\* A step the peer takes no part in
LEMMA PeerIdle ==
  ASSUME PeerGood, UNCHANGED <<peers, toCore>>
  PROVE  PeerGood'
BY DEF PeerGood, PeersOK

\* The peer an RFC makes
LEMMA NewPeerOK ==
  ASSUME NEW m \in Packets
  PROVE  PeerOK(Peer(m))
<1> DEFINE before == (PeerFirst - 1) % PktSpace
<1>1. before \in Num
  BY PeerSizes, DecIs
<1>2. m.src \in Nat /\ m.num \in Num
  BY DEF Packets
<1> HIDE DEF before
<1> QED
  BY <1>1, <1>2, PeerSizes DEF Peer, PeerOK, before

\* The peer's answers to an RFC
LEMMA PeerRfcOK ==
  ASSUME PeerGood, NEW m \in Packets, PeerRfc(m)
  PROVE  PeerGood'
<1> DEFINE p == Peer(m)
           opn == PeerControlled(Len(peers) + 1, p, PeerFirst)
<1>1. PeerOK(p) /\ m.src \in Nat /\ m.num \in Num
  BY NewPeerOK DEF Packets
<1> HIDE DEF p
<1>2. Len(peers) + 1 \in Nat
  BY PeersDomain DEF PeerGood
<1>3. opn \in Packets
  BY <1>1, <1>2, PeerSizes, PeerControlledType
<1>4. ASSUME NEW op \in {"CLS", "ANS"}
      PROVE  Packet(op, m.src, 0, 0, m.num, <<>>) \in Packets
  BY <1>1, EmptyType, PeerSizes, PacketType DEF Ops
<1>5. \/ peers' = Append(peers, p) /\ toCore' = Append(toCore, opn)
      \/ \E op \in {"CLS", "ANS"} : PeerAnswers(Packet(op, m.src, 0, 0, m.num, <<>>))
      \/ UNCHANGED <<peers, toCore>>
  BY DEF PeerRfc, p
<1> HIDE DEF opn
<1>6. ASSUME peers' = Append(peers, p), toCore' = Append(toCore, opn)
      PROVE  PeerGood'
  BY <1>1, <1>3, <1>6, PeersAppend, AppendProperties DEF PeerGood
<1> QED
  BY <1>4, <1>5, <1>6, PeerAnswersOK, PeerIdle

\* The peer's answers to a packet of a connection
LEMMA PeerConnectedOK ==
  ASSUME PeerGood, NEW m \in Packets, NEW i \in DOMAIN peers, PeerConnected(i, m)
  PROVE  PeerGood'
<1> DEFINE p == peers[i]
           acked == PeerAcked(p, m.ack, m.ack)
           q == PeerQueued(acked, m)
           out == IF m.num = q.receivedNum THEN <<>> ELSE <<PeerSts(i, q)>>
<1>1. PeerOK(p) /\ i \in Nat /\ m.ack \in Num
  BY PeersDomain DEF PeerGood, PeersOK, Packets
<1>2. PeerOK(acked)
  BY <1>1, PeerAckedOK
<1> HIDE DEF p
<1>3. CASE m.op \in {"DAT", "EOF"}
  <2>1. PeerStep(i, q, out)
    BY <1>3 DEF PeerConnected, p
  <2> HIDE DEF acked
  <2>2. PeerOK(q)
    BY <1>2, PeerQueuedOK
  <2> HIDE DEF q
  <2>3. out \in Seq(Packets)
    BY <1>1, <2>2, PeerStsType, ShortSeqs
  <2> HIDE DEF out
  <2> QED
    BY <2>1, <2>2, <2>3, PeerStepOK
<1>4. CASE m.op = "STS"
  <2>1. PeerStep(i, PeerAcked(p, m.ack, m.data[1]), <<>>)
    BY <1>4 DEF PeerConnected, p
  <2>2. m.data[1] \in Num
    BY <1>4 DEF Packets
  <2>3. PeerOK(PeerAcked(p, m.ack, m.data[1])) /\ <<>> \in Seq(Packets)
    BY <1>1, <2>2, PeerAckedOK, ShortSeqs
  <2> QED
    BY <2>1, <2>3, PeerStepOK
<1>5. CASE m.op = "SNS"
  <2>1. PeerStep(i, acked, <<PeerSts(i, acked)>>)
    BY <1>5 DEF PeerConnected, p
  <2> HIDE DEF acked
  <2>2. <<PeerSts(i, acked)>> \in Seq(Packets)
    BY <1>1, <1>2, PeerStsType, ShortSeqs
  <2> QED
    BY <1>2, <2>1, <2>2, PeerStepOK
<1>6. CASE m.op \notin {"DAT", "EOF", "STS", "SNS"}
  <2>1. PeerStep(i, PeerClosed(p), <<>>)
    BY <1>6 DEF PeerConnected, p
  <2>2. PeerOK(PeerClosed(p)) /\ <<>> \in Seq(Packets)
    BY <1>1, PeerClosedOK, ShortSeqs
  <2> QED
    BY <2>1, <2>2, PeerStepOK
<1> QED
  BY <1>3, <1>4, <1>5, <1>6

\* Whatever arrives, the peer stays well formed
LEMMA PeerHandlesOK ==
  ASSUME PeerGood, NEW m \in Packets, PeerHandles(m)
  PROVE  PeerGood'
<1>1. m.src \in Nat /\ m.dest \in Nat
  BY DEF Packets
<1>2. Packet("LOS", m.src, m.dest, 0, 0, <<>>) \in Packets
  BY <1>1, EmptyType, PeerSizes, PacketType DEF Ops
<1>3. ArpPacket("ARPREP") \in Packets
  BY ArpType
<1>4. \/ UNCHANGED <<peers, toCore>> \/ PeerAnswers(ArpPacket("ARPREP")) \/ PeerRfc(m)
      \/ m.dest \in DOMAIN peers /\ PeerConnected(m.dest, m)
      \/ PeerAnswers(Packet("LOS", m.src, m.dest, 0, 0, <<>>))
  BY DEF PeerHandles, PeerUnconnected
<1> QED
  BY <1>2, <1>3, <1>4, PeerAnswersOK, PeerIdle, PeerRfcOK, PeerConnectedOK

\* The peer's program reads
LEMMA PeerReadOK ==
  ASSUME PeerGood, NEW i \in DOMAIN peers, PeerRead(i)
  PROVE  PeerGood'
<1> DEFINE p == peers[i]
           n == SeqInc(p.readNum)
           read == CHOOSE x \in p.rcvq : x.num = n
           q == [p EXCEPT !.readNum = n, !.rcvq = @ \ {read}, !.got = @ \o read.data,
                          !.eofRead = read.op = "EOF"]
<1>1. PeerOK(p) /\ i \in Nat
  BY PeersDomain DEF PeerGood, PeersOK
<1>2. PeerStep(i, q, <<PeerSts(i, q)>>)
  BY DEF PeerRead
<1>3. n \in Num
  BY <1>1, PeerFields, IncIs
<1> HIDE DEF p, n, read
<1>4. PeerOK(q)
  BY <1>1, <1>3 DEF PeerOK
<1> HIDE DEF q
<1>5. <<PeerSts(i, q)>> \in Seq(Packets)
  BY <1>1, <1>4, PeerStsType, ShortSeqs
<1> QED
  BY <1>2, <1>4, <1>5, PeerStepOK

\* The peer's program writes, or finishes
LEMMA PeerSendsOK ==
  ASSUME PeerGood, NEW i \in DOMAIN peers, PeerWrite(i) \/ PeerFinish(i)
  PROVE  PeerGood'
<1> DEFINE p == peers[i]
           n == SeqInc(p.sentNum)
           w == [p EXCEPT !.wrote = @ + 1, !.sentNum = SeqInc(@)]
           f == [p EXCEPT !.eofSent = TRUE, !.sentNum = SeqInc(@)]
<1>1. PeerOK(p) /\ i \in Nat
  BY PeersDomain DEF PeerGood, PeersOK
<1>2. \E q \in {w, f} : PeerStep(i, q, <<PeerControlled(i, q, q.sentNum)>>)
  BY DEF PeerWrite, PeerFinish
<1>3. n \in Num /\ p.wrote + 1 \in Nat
  BY <1>1, PeerFields, IncIs
<1>4. w = [p EXCEPT !.wrote = @ + 1, !.sentNum = n] /\ f = [p EXCEPT !.eofSent = TRUE, !.sentNum = n]
  OBVIOUS
<1> HIDE DEF p, n, w, f
<1>5. PeerOK(w) /\ PeerOK(f)
  BY <1>1, <1>3, <1>4 DEF PeerOK
<1>6. PICK q \in {w, f} : PeerStep(i, q, <<PeerControlled(i, q, q.sentNum)>>)
  BY <1>2
<1>7. PeerOK(q)
  BY <1>5, <1>6
<1>8. <<PeerControlled(i, q, q.sentNum)>> \in Seq(Packets)
  BY <1>1, <1>7, PeerFields, PeerControlledType, ShortSeqs
<1> QED
  BY <1>6, <1>7, <1>8, PeerStepOK

\* What the peer sends again is well formed
LEMMA PeerAgainType ==
  ASSUME NEW i \in Nat, NEW p, PeerOK(p)
  PROVE  PeerAgain(i, p) \in Seq(Packets)
<1> DEFINE again == After(p.receiptNum, p.sentNum)
           N == SeqDiff(p.sentNum, p.receiptNum)
           seq == [j \in DOMAIN again |-> PeerControlled(i, p, again[j])]
           sns == PeerPacket(i, p, "SNS", 0, <<>>)
<1>1. N \in Nat /\ N < PktSpace /\ DOMAIN again = 1..N /\ p.receiptNum \in Num
  BY PeerFields, DiffType DEF After
<1>2. ASSUME NEW j \in 1..N
      PROVE  again[j] \in Num
  <2>1. again[j] = (p.receiptNum + j) % PktSpace /\ j \in 0..PktSpace
    BY <1>1, Sizes DEF After
  <2> QED
    BY <1>1, <2>1, PlusIs
<1> HIDE DEF again, N
<1>3. seq \in [1..N -> Packets]
  BY <1>1, <1>2, PeerControlledType
<1>4. sns \in Packets
  BY EmptyType, PeerSizes, PeerPacketType DEF Ops
<1>5. PeerAgain(i, p) = Append(seq, sns)
  BY DEF PeerAgain, again
<1> HIDE DEF seq, sns
<1>6. seq \in Seq(Packets)
  BY <1>1, <1>3, IsASeq
<1> QED
  BY <1>4, <1>5, <1>6, AppendProperties

\* The peer's retransmission
LEMMA PeerTickOK ==
  ASSUME PeerGood, PeerTick
  PROVE  PeerGood'
<1> DEFINE seqs == [i \in DOMAIN peers |-> IF PeerOpen(i) THEN PeerAgain(i, peers[i]) ELSE <<>>]
<1>1. Len(peers) \in Nat /\ DOMAIN peers = 1..Len(peers)
  BY PeersDomain DEF PeerGood
<1>2. ASSUME NEW i \in DOMAIN peers
      PROVE  (IF PeerOpen(i) THEN PeerAgain(i, peers[i]) ELSE <<>>) \in Seq(Packets)
  <2>1. PeerOK(peers[i]) /\ i \in Nat
    BY <1>1 DEF PeerGood, PeersOK
  <2> QED
    BY <2>1, PeerAgainType, ShortSeqs
<1>3. seqs \in [1..Len(peers) -> Seq(Packets)]
  BY <1>1, <1>2
<1>4. toCore' = FlattenSeq(seqs) /\ peers' = peers
  BY DEF PeerTick
<1> HIDE DEF seqs
<1>5. seqs \in Seq(Seq(Packets))
  BY <1>1, <1>3, IsASeq
<1>6. FlattenSeq(seqs) \in Seq(Packets)
  BY <1>5, FlattenType
<1> QED
  BY <1>4, <1>6 DEF PeerGood, PeersOK

\* The peer asks with an SNS
LEMMA PeerAsksOK ==
  ASSUME PeerGood, scope \in Scopes, PeerAsks
  PROVE  PeerGood'
<1>1. scope.peers + 1 \in Nat
  BY ScopesAssumption
<1>2. PICK contact \in {"STATUS", "TELNET"} :
        toCore' = <<Packet("RFC", 0, scope.peers + 1, PeerFirst, 0, <<contact>>)>>
  BY DEF PeerAsks
<1>3. <<contact>> \in Data
  BY ShortSeqs DEF Data, Datum
<1>4. Packet("RFC", 0, scope.peers + 1, PeerFirst, 0, <<contact>>) \in Packets
  BY <1>1, <1>3, PeerSizes, PacketType DEF Ops
<1>5. toCore' \in Seq(Packets)
  BY <1>2, <1>4, ShortSeqs
<1>6. peers' = peers
  BY DEF PeerAsks
<1> QED
  BY <1>5, <1>6 DEF PeerGood, PeersOK

\* The peer forgets its connections
LEMMA PeerDiesOK ==
  ASSUME PeerGood, PeerDies
  PROVE  PeerGood'
<1> DEFINE ps == [i \in DOMAIN peers |-> PeerClosed(peers[i])]
           S == {PeerClosed(peers[i]) : i \in DOMAIN peers}
<1>1. Len(peers) \in Nat /\ DOMAIN peers = 1..Len(peers)
  BY PeersDomain DEF PeerGood
<1>2. ps \in [1..Len(peers) -> S] /\ DOMAIN ps = DOMAIN peers
  BY <1>1
<1>3. \A i \in DOMAIN peers : PeerOK(ps[i])
  BY PeerClosedOK DEF PeerGood, PeersOK
<1>4. peers' = ps /\ toCore' = toCore
  BY DEF PeerDies, netVars
<1> HIDE DEF ps, S
<1>5. ps \in Seq(S)
  BY <1>1, <1>2, IsASeq
<1>6. PeersOK(ps)
  BY <1>2, <1>3, <1>5 DEF PeersOK
<1> QED
  BY <1>4, <1>6 DEF PeerGood

---------------------------------------------------------------------------
(* The whole                                                               *)

\* The inductive invariant
ChaosInv ==
  /\ Sane(Now)
  /\ toPeer \in Seq(Packets) /\ late \in SUBSET ({"peer", "core"} \X Packets)
  /\ PeerGood
  /\ scope \in Scopes /\ faults \in 0..scope.faults

\* The record of the server is the variables
LEMMA NowParts == Now.c = core /\ Now.k = client /\ Now.t = sock
BY DEF Now

\* The daemon starts in order
LEMMA InitOK == Init => ChaosInv
<1> SUFFICES ASSUME Init
             PROVE  ChaosInv
  OBVIOUS
<1>1. NoSocket \in Socks /\ NoSocket.line = "none"
  BY EmptyType DEF NoSocket, Socks
<1>2. Now = [c |-> CoreInit, k |-> FreeClient, t |-> NoSocket]
  BY DEF Init, Now
<1>3. Now \in Servers
  BY <1>1, <1>2, CoreInitOK, FreeClientType DEF Servers
<1>4. Owns(CoreInit, FreeClient)
  BY CoreInitOK, NoConnType DEF Owns, FreeClient
<1>5. Sane(Now)
  BY <1>2, <1>3, <1>4, FreeClientType DEF Sane
<1>6. PeerGood
  <2>1. <<>> \in Seq({}) /\ DOMAIN <<>> = {} /\ <<>> \in Seq(Packets)
    OBVIOUS
  <2> QED
    BY <2>1 DEF PeerGood, PeersOK, Init
<1>7. faults \in 0..scope.faults
  BY ScopesAssumption DEF Init
<1> QED
  BY <1>5, <1>6, <1>7, ShortSeqs DEF ChaosInv, Init

\* A round of the main loop ends with client_service
LEMMA RoundOK ==
  ASSUME NEW s, Sane(s), toPeer \in Seq(Packets), Round(s)
  PROVE  Sane(Now)' /\ (toPeer \in Seq(Packets))' /\ UNCHANGED <<peers, faults>>
<1>1. PICK n \in {0, OutBuf + 1} : Commit(ClientService(s, n))
  BY DEF Round
<1> DEFINE r == ClientService(s, n)
           d == [r.c EXCEPT !.out = <<>>]
<1>2. n \in Nat
  BY BufSizes
<1>3. Sane(r)
  BY <1>2, ClientServiceOK
<1>4. core' = d /\ toPeer' = toPeer \o r.c.out /\ client' = r.k /\ sock' = r.t
  BY <1>1 DEF Commit
<1> HIDE DEF r
<1>5. r \in Servers /\ r.c \in Cores /\ r.c.out \in Seq(Packets)
  BY <1>3 DEF Sane, Servers, Cores
<1>6. d \in Cores /\ d.conns = r.c.conns /\ d.uniquizer = r.c.uniquizer
  BY <1>5, ShortSeqs DEF Cores
<1> HIDE DEF d
<1>7. Keeps(r.c, d)
  BY <1>5, <1>6, KeepsRules
<1>8. Sane([r EXCEPT !.c = d])
  BY <1>3, <1>7, SaneCore
<1>9. Now' = [r EXCEPT !.c = d]
  BY <1>4, <1>5 DEF Now, Servers
<1>10. toPeer \o r.c.out \in Seq(Packets)
  BY <1>5, ConcatProperties
<1> QED
  BY <1>4, <1>8, <1>9, <1>10 DEF Round

\* A round in which the core has done something first
LEMMA RoundCoreOK ==
  ASSUME ChaosInv, NEW d, Keeps(core, d), Round([Now EXCEPT !.c = d])
  PROVE  Sane(Now)' /\ (toPeer \in Seq(Packets))' /\ UNCHANGED <<peers, faults>>
<1>1. Sane([Now EXCEPT !.c = d])
  BY SaneCore, NowParts DEF ChaosInv
<1> QED
  BY <1>1, RoundOK DEF ChaosInv

\* What the network does to a packet
LEMMA FaultyOK ==
  ASSUME ChaosInv, NEW to \in {"peer", "core"}, NEW m \in Packets, Faulty(to, m), scope' = scope
  PROVE  (late \in SUBSET ({"peer", "core"} \X Packets))' /\ (faults \in 0..scope.faults)'
<1>1. scope.faults \in Nat
  BY ScopesAssumption DEF ChaosInv
<1>2. faults < scope.faults /\ faults' = faults + 1 /\ late' = late \cup {<<to, m>>}
  BY DEF Faulty
<1>3. faults \in 0..scope.faults /\ late \in SUBSET ({"peer", "core"} \X Packets)
  BY DEF ChaosInv
<1> QED
  BY <1>1, <1>2, <1>3

\* The first packet of a queue, and the others
LEMMA HeadIn ==
  ASSUME NEW q \in Seq(Packets), q # <<>>
  PROVE  Head(q) \in Packets /\ Tail(q) \in Seq(Packets)
BY HeadTailProperties

\* The network delays or repeats a packet
LEMMA DelayOK ==
  ASSUME ChaosInv, CoreOnly(Delay) \/ CoreOnly(Duplicate), scope' = scope
  PROVE  ChaosInv'
<1>1. toPeer \in Seq(Packets) /\ toCore \in Seq(Packets)
  BY DEF ChaosInv, PeerGood
<1>2. Sane(Now)' /\ PeersOK(peers)'
  BY DEF CoreOnly, Delay, Duplicate, ChaosInv, PeerGood, PeersOK, Now
<1>3. \E to \in {"peer", "core"}, m \in Packets : Faulty(to, m)
  BY <1>1, HeadIn DEF CoreOnly, Delay, Duplicate
<1>4. (toPeer \in Seq(Packets))' /\ (toCore \in Seq(Packets))'
  BY <1>1, HeadIn DEF CoreOnly, Delay, Duplicate
<1>5. (late \in SUBSET ({"peer", "core"} \X Packets))' /\ (faults \in 0..scope.faults)'
  BY <1>3, FaultyOK
<1> QED
  BY <1>2, <1>4, <1>5 DEF ChaosInv, PeerGood

\* Input
LEMMA RoundInputOK ==
  ASSUME ChaosInv, RoundInput, scope' = scope
  PROVE  ChaosInv'
<1>1. PICK n \in {1, Len(toCore)}, old \in Ages(core) :
        /\ Round([Now EXCEPT !.c = Inputs(core, SubSeq(toCore, 1, n), old)[n]])
        /\ toCore' = SubSeq(toCore, n + 1, Len(toCore))
  BY DEF RoundInput
<1>2. toCore \in Seq(Packets) /\ toCore # <<>> /\ core \in Cores
  BY NowParts DEF RoundInput, ChaosInv, PeerGood, Sane, Servers
<1>3. Len(toCore) \in Nat /\ Len(toCore) # 0
  BY <1>2, LenProperties, EmptySeq
<1>4. n \in Nat /\ 1 <= n /\ n <= Len(toCore)
  BY <1>1, <1>3
<1> DEFINE frames == SubSeq(toCore, 1, n)
           rest == SubSeq(toCore, n + 1, Len(toCore))
<1>5. frames \in Seq(Packets) /\ Len(frames) = n /\ rest \in Seq(Packets)
  <2>1. 1 \in 1..(Len(toCore) + 1) /\ n \in (1 - 1)..Len(toCore)
    BY <1>3, <1>4
  <2>2. n + 1 \in 1..(Len(toCore) + 1) /\ Len(toCore) \in ((n + 1) - 1)..Len(toCore)
    BY <1>3, <1>4
  <2>3. frames \in Seq(Packets) /\ Len(frames) = IF 1 <= n THEN (n - 1) + 1 ELSE 0
    BY <1>2, <2>1, SubSeqProperties
  <2>4. rest \in Seq(Packets)
    BY <1>2, <2>2, SubSeqProperties
  <2> HIDE DEF frames, rest
  <2> QED
    BY <1>4, <2>3, <2>4
<1> DEFINE d == Inputs(core, frames, old)[n]
<1>6. Round([Now EXCEPT !.c = d]) /\ toCore' = rest
  BY <1>1
<1> HIDE DEF frames, rest
<1>7. Keeps(core, d)
  BY <1>2, <1>5, InputsOK
<1> HIDE DEF d
<1>8. Sane(Now)' /\ (toPeer \in Seq(Packets))' /\ UNCHANGED <<peers, faults>>
  BY <1>6, <1>7, RoundCoreOK
<1>9. late' = late
  BY DEF RoundInput
<1> QED
  BY <1>5, <1>6, <1>8, <1>9 DEF ChaosInv, PeerGood, PeersOK

\* A round in which a late packet arrives
LEMMA RoundLateOK ==
  ASSUME ChaosInv, RoundLate, scope' = scope
  PROVE  ChaosInv'
<1>1. PICK e \in late, old \in Ages(core) :
        late' = late \ {e} /\ Round([Now EXCEPT !.c = ChaosCoreInput(core, e[2], old)])
  BY DEF RoundLate
<1>2. core \in Cores /\ e[2] \in Packets
  BY NowParts DEF ChaosInv, Sane, Servers
<1>3. Keeps(core, ChaosCoreInput(core, e[2], old))
  BY <1>2, ChaosCoreInputOK
<1>4. Sane(Now)' /\ (toPeer \in Seq(Packets))' /\ UNCHANGED <<peers, faults>>
  BY <1>1, <1>3, RoundCoreOK
<1>5. toCore' = toCore
  BY DEF RoundLate
<1>6. (late \in SUBSET ({"peer", "core"} \X Packets))'
  BY <1>1 DEF ChaosInv
<1> QED
  BY <1>4, <1>5, <1>6 DEF ChaosInv, PeerGood, PeersOK

\* The other rounds
LEMMA RoundsOK ==
  ASSUME ChaosInv, scope' = scope,
         RoundRead \/ RoundWrite \/ \E h \in Slots : RoundTick(h) \/ RoundGiveUp(h) \/ RoundFinish(h)
  PROVE  ChaosInv'
<1>1. toCore' = toCore /\ late' = late
  BY DEF RoundRead, RoundWrite, RoundTick, RoundGiveUp, RoundFinish
<1>2. core \in Cores /\ Sane(Now) /\ toPeer \in Seq(Packets)
  BY NowParts DEF ChaosInv, Sane, Servers
<1>3. Sane(Now)' /\ (toPeer \in Seq(Packets))' /\ UNCHANGED <<peers, faults>>
  <2>1. CASE RoundRead
    BY <1>2, <2>1, ReadsOK, RoundOK DEF RoundRead
  <2>2. CASE RoundWrite
    BY <1>2, <2>2, RoundOK DEF RoundWrite
  <2>3. CASE \E h \in Slots : RoundTick(h) \/ RoundGiveUp(h) \/ RoundFinish(h)
    <3>1. PICK h \in Slots : RoundTick(h) \/ RoundGiveUp(h) \/ RoundFinish(h)
      BY <2>3
    <3>2. \E d \in Ticks(core, h) \cup GivesUp(core, h) \cup Finishes(core, h) : Round([Now EXCEPT !.c = d])
      BY <3>1 DEF RoundTick, RoundGiveUp, RoundFinish
    <3>3. PICK d \in Ticks(core, h) \cup GivesUp(core, h) \cup Finishes(core, h) :
            Round([Now EXCEPT !.c = d])
      BY <3>2
    <3>4. Keeps(core, d)
      BY <1>2, <3>1, <3>3, TimersOK
    <3> QED
      BY <3>3, <3>4, RoundCoreOK
  <2> QED
    BY <2>1, <2>2, <2>3
<1> QED
  BY <1>1, <1>3 DEF ChaosInv, PeerGood, PeersOK

\* The peer's steps leave chaosd alone
LEMMA PeerNextOK ==
  ASSUME ChaosInv, PeerNext \/ PeerOnly(PeerInTime), scope' = scope
  PROVE  ChaosInv'
<1>1. Sane(Now)' /\ faults' = faults
  <2>1. core' = core /\ client' = client /\ sock' = sock /\ faults' = faults
    BY DEF PeerNext, PeerOnly, PeerInTime, PeerLate, PeerRead, PeerWrite, PeerFinish, PeerTick, PeerAsks,
           PeerDies, PeerLocal, netVars
  <2> QED
    BY <2>1 DEF ChaosInv, Now
<1>2. PeerGood /\ toPeer \in Seq(Packets) /\ late \in SUBSET ({"peer", "core"} \X Packets) /\ scope \in Scopes
  BY DEF ChaosInv
<1>3. CASE PeerInTime
  <2>1. Head(toPeer) \in Packets /\ Tail(toPeer) \in Seq(Packets)
    BY <1>2, <1>3, HeadIn DEF PeerInTime
  <2>2. PeerGood'
    BY <1>2, <1>3, <2>1, PeerHandlesOK DEF PeerInTime
  <2> QED
    BY <1>1, <1>3, <2>1, <2>2 DEF ChaosInv, PeerInTime
<1>4. CASE PeerLate
  <2>1. PICK e \in late : PeerHandles(e[2]) /\ late' = late \ {e}
    BY <1>4 DEF PeerLate
  <2>2. e[2] \in Packets /\ (late \in SUBSET ({"peer", "core"} \X Packets))'
    BY <1>2, <2>1
  <2>3. PeerGood'
    BY <1>2, <2>1, <2>2, PeerHandlesOK
  <2> QED
    BY <1>1, <1>4, <2>2, <2>3 DEF ChaosInv, PeerLate
<1>5. CASE PeerTick \/ PeerAsks \/ PeerDies
           \/ \E i \in DOMAIN peers : PeerRead(i) \/ PeerWrite(i) \/ PeerFinish(i)
  <2>1. PeerGood'
    BY <1>2, <1>5, PeerTickOK, PeerAsksOK, PeerDiesOK, PeerReadOK, PeerSendsOK
  <2>2. toPeer' = toPeer /\ late' = late
    BY <1>5 DEF PeerRead, PeerWrite, PeerFinish, PeerTick, PeerAsks, PeerDies, PeerLocal, netVars
  <2> QED
    BY <1>1, <2>1, <2>2 DEF ChaosInv
<1> QED
  BY <1>3, <1>4, <1>5 DEF PeerNext, PeerOnly

\* The client program
LEMMA ClientNextOK ==
  ASSUME ChaosInv, ClientNext, scope' = scope
  PROVE  ChaosInv'
<1>1. /\ core' = core /\ toPeer' = toPeer /\ toCore' = toCore /\ late' = late /\ faults' = faults
      /\ peers' = peers
  BY DEF ClientNext, StreamAdopt, ClientShuts, ClientLeaves, CoreUnchanged, netVars
<1>2. /\ core \in Cores /\ client \in Clients /\ sock \in Socks /\ Owns(core, client)
      /\ ClientOK(client, sock.line) /\ scope \in Scopes
  BY NowParts DEF ChaosInv, Sane, Servers
<1>3. Sane(Now)'
  <2>1. CASE StreamAdopt
    <3> DEFINE n == scope.sessions[sock.session + 1]
               bytes == ClientWrote(sock.session + 1, n)
               k == [FreeClient EXCEPT !.state = "LINE"]
    <3>1. PICK r \in Requests :
            sock' = [NoSocket EXCEPT !.session = sock.session + 1, !.line = r, !.pending = bytes]
      BY <2>1 DEF StreamAdopt
    <3>2. client.state = "FREE" /\ client' = k /\ sock.session < Len(scope.sessions)
      BY <2>1 DEF StreamAdopt
    <3>3. sock.session + 1 \in Nat /\ n \in Nat /\ r \in {"RFC", "bad"}
      BY <1>2, <3>2, ScopesAssumption, StreamAssumption DEF Socks
    <3>4. bytes \in Data
      <4>1. ASSUME NEW j \in 1..n
            PROVE  ClientByte(sock.session + 1, j) \in Int
        BY <3>3 DEF ClientByte
      <4>2. bytes \in [1..n -> Datum]
        BY <4>1 DEF ClientWrote, Datum
      <4> HIDE DEF bytes
      <4> QED
        BY <3>3, <4>2, IsASeq DEF Data
    <3> HIDE DEF bytes
    <3>5. sock' \in Socks
      BY <3>1, <3>3, <3>4, EmptyType DEF NoSocket, Socks
    <3>6. k \in Clients /\ k.conn = NoConn /\ k.state = "LINE" /\ k.in = <<>> /\ k.out = <<>>
      BY EmptyType DEF FreeClient, Clients
    <3> HIDE DEF k
    <3>7. ClientOK(k, sock'.line)
      BY <3>6, EmptyType, BufSizes DEF ClientOK
    <3>8. Owns(core, k)
      BY <1>2, <3>2, <3>6 DEF Owns, ClientOK
    <3>9. [c |-> core, k |-> k, t |-> sock'] \in Servers
      BY <1>2, <3>5, <3>6 DEF Servers
    <3> QED
      BY <1>1, <3>2, <3>7, <3>8, <3>9 DEF Sane, Now
  <2>2. CASE ClientShuts \/ ClientLeaves
    <3>1. sock' \in Socks /\ sock'.line = sock.line /\ client' = client
      BY <1>2, <2>2 DEF ClientShuts, ClientLeaves, Socks
    <3>2. [c |-> core, k |-> client, t |-> sock'] \in Servers
      BY <1>2, <3>1 DEF Servers
    <3> QED
      BY <1>1, <1>2, <3>1, <3>2 DEF Sane, Now
  <2> QED
    BY <2>1, <2>2 DEF ClientNext
<1> QED
  BY <1>1, <1>3 DEF ChaosInv, PeerGood, PeersOK

\* Every step keeps the invariant
LEMMA NextOK == ChaosInv /\ [Next]_vars => ChaosInv'
<1> SUFFICES ASSUME ChaosInv, [Next]_vars
             PROVE  ChaosInv'
  OBVIOUS
<1>1. CASE UNCHANGED vars
  BY <1>1 DEF vars, netVars, ChaosInv, Now, PeerGood, PeersOK
<1>2. CASE Next
  <2>1. scope' = scope
    BY <1>2 DEF Next
  <2>2. \/ CoreOnly(Delay) \/ CoreOnly(Duplicate) \/ RoundInput \/ PeerOnly(PeerInTime)
        \/ RoundRead \/ RoundWrite \/ RoundLate
        \/ (\E h \in Slots : RoundTick(h) \/ RoundGiveUp(h) \/ RoundFinish(h))
        \/ PeerNext \/ ClientNext
    BY <1>2 DEF Next, DeliveryNext, ChaosdNext
  <2> QED
    BY <2>1, <2>2, DelayOK, RoundInputOK, RoundLateOK, RoundsOK, PeerNextOK, ClientNextOK
<1> QED
  BY <1>1, <1>2

\* Every state of every behaviour: what the rings, buffers and packets are, and
\* who uses which connection.
THEOREM ChaosInvariant == Spec => []ChaosInv
<1>1. Init => ChaosInv
  BY InitOK
<1>2. ChaosInv /\ [Next]_vars => ChaosInv'
  BY NextOK
<1> QED
  BY <1>1, <1>2, PTL DEF Spec

\* What the invariant says of one connection
LEMMA ConnsOK ==
  ASSUME ChaosInv, NEW h \in Slots
  PROVE  core.conns[h] \in Sound /\ core.conns[h] \in Conns /\ ConnOK(core.conns[h])
<1>1. core \in Cores
  BY NowParts DEF ChaosInv, Sane, Servers
<1> QED
  BY <1>1, ConnType

\* Numbers stay within 16 bits and no more packets are on their way than the
\* limit on windows allows (conn_process_ack, conn_window_available); the
\* client's buffers hold what is put into them (client_read, client_service).
THEOREM ChaosTypeCorrect == Spec => []TypeOK
<1>1. ChaosInv => TypeOK
  <2> SUFFICES ASSUME ChaosInv
               PROVE  TypeOK
    OBVIOUS
  <2>1. ASSUME NEW h \in Slots
        PROVE  LET k == core.conns[h]
               IN /\ k.state \in {"FREE", "RFC_SENT", "OPEN", "CLOSED"}
                  /\ {k.sentNum, k.ackedNum, k.receiptNum, k.readNum, k.receivedNum} \subseteq Num
                  /\ k.remoteWindow \in 0..MaxWindow /\ SeqDiff(k.sentNum, k.ackedNum) \in 0..MaxWindow
    <3> DEFINE k == core.conns[h]
    <3>1. k \in Conns /\ ConnOK(k)
      BY ConnsOK
    <3> HIDE DEF k
    <3>2. /\ k.state \in {"FREE", "RFC_SENT", "OPEN", "CLOSED"} /\ k.remoteWindow \in 0..MaxWindow
          /\ k.sentNum \in Num /\ k.ackedNum \in Num /\ k.receiptNum \in Num /\ k.readNum \in Num
          /\ k.receivedNum \in Num
      BY <3>1 DEF Conns
    <3>3. SeqDiff(k.sentNum, k.ackedNum) \in 0..MaxWindow
      BY <3>1, <3>2, DiffType, Sizes DEF ConnOK, Sending
    <3> QED
      BY <3>2, <3>3 DEF k
  <2>2. client \in Clients /\ ClientOK(client, sock.line)
    BY NowParts DEF ChaosInv, Sane, Servers
  <2>3. ASSUME NEW q \in Seq(Packets), NEW m \in ToSet(q)
        PROVE  {m.num, m.ack} \subseteq Num
    <3>1. m \in Packets
      BY ElementOfSeq, LenProperties DEF ToSet
    <3> QED
      BY <3>1 DEF Packets
  <2>4. toPeer \in Seq(Packets) /\ toCore \in Seq(Packets) /\ faults \in 0..scope.faults
    BY DEF ChaosInv, PeerGood
  <2>5. \A m \in ToSet(toPeer) \cup ToSet(toCore) : {m.num, m.ack} \subseteq Num
    BY <2>3, <2>4
  <2>6. client.state \in {"FREE", "LINE", "WAIT_OPN", "STREAM", "DRAIN"}
        /\ Len(client.in) <= InBuf /\ Len(client.out) <= OutBuf
    BY <2>2 DEF Clients, ClientOK
  <2> QED
    BY <2>1, <2>4, <2>5, <2>6 DEF TypeOK
<1> QED
  BY <1>1, ChaosInvariant, PTL

\* Whatever acknowledgements and packets arrive, in whatever order, and however
\* late, the rings hold every packet that has to be sent again and every one
\* that waits to be read (conn_send_controlled, conn_process_ack,
\* conn_queue_input, chaos_recv).
THEOREM RingsAlwaysHold == Spec => []RingsHold
<1>1. ChaosInv => RingsHold
  <2> SUFFICES ASSUME ChaosInv, NEW h \in Slots
               PROVE  LET k == core.conns[h]
                      IN /\ \A n \in Unreceipted(k) : Holds(k.sendq, n)
                         /\ \A n \in ToSet(After(k.readNum, k.receivedNum)) : Holds(k.rcvq, n)
    BY DEF RingsHold
  <2> DEFINE k == core.conns[h]
  <2>1. k \in Conns /\ ConnOK(k)
    BY ConnsOK
  <2> HIDE DEF k
  <2>2. k.sentNum \in Num /\ k.receiptNum \in Num /\ k.readNum \in Num /\ k.receivedNum \in Num
    BY <2>1 DEF Conns
  <2>3. Unreceipted(k) = {n \in Num : SeqDiff(n, k.receiptNum) \in 1..SeqDiff(k.sentNum, k.receiptNum)}
    BY <2>2, AfterSet DEF Unreceipted
  <2>4. ToSet(After(k.readNum, k.receivedNum)) =
          {n \in Num : SeqDiff(n, k.readNum) \in 1..SeqDiff(k.receivedNum, k.readNum)}
    BY <2>2, AfterSet
  <2> QED
    BY <2>1, <2>3, <2>4 DEF ConnOK, Sending, Receiving, k
<1> QED
  BY <1>1, ChaosInvariant, PTL

\* A connection slot is in use exactly as long as the client refers to it,
\* whichever way a session ends (client_close, chaos_release).
THEOREM NoSlotLeaks == Spec => []SlotsAreOwned
<1>1. ChaosInv => SlotsAreOwned
  <2> SUFFICES ASSUME ChaosInv
               PROVE  SlotsAreOwned
    OBVIOUS
  <2>1. Owns(core, client) /\ client.conn \in Slots \cup {NoConn}
    BY NowParts DEF ChaosInv, Sane, Servers, Clients
  <2> QED
    BY <2>1, NoConnType DEF SlotsAreOwned, Owns
<1> QED
  BY <1>1, ChaosInvariant, PTL

====
