------------------------------ MODULE ChaosCore ------------------------------
(***************************************************************************)
(* The Chaosnet NCP of chaosd (chaosd/chaos-core.c): connections with      *)
(* packet numbers, windows, receipts, retransmission and time-outs, over a *)
(* network that delays, repeats, reorders and loses packets.               *)
(*                                                                         *)
(* A routine of the code is an operator that takes the state of the core   *)
(* and returns the new one; its field out collects the frames the routine  *)
(* hands to the emit callback.  Milliseconds are left out: which timers    *)
(* have run out is chosen where the code compares times.                   *)
(***************************************************************************)
EXTENDS Integers, FiniteSets, SequencesExt

CONSTANTS
  PktSpace,       \* packet numbers: 2^16
  Ring,           \* CHAOS_RING
  MaxWindow,      \* CHAOS_MAX_WINDOW
  LocalWindow,    \* core.localWindow, the option -w
  MaxData,        \* CHAOS_MAX_DATA, in bytes
  MaxConns,       \* CHAOS_MAX_CONNS
  UniqSpace,      \* 2^11 uniquizers
  InitialPktNum,  \* the packet number of the first RFC
  NumStride,      \* the distance between the first numbers of two connections
  Scopes          \* bounds of an instance: faults (packets that are delayed, lost
                  \* or repeated), peers and packets (connections the peer makes,
                  \* packets it writes on each), sessions (clients, one after
                  \* the other: the bytes each writes), dies (the peer may)

ASSUME RingAssumption ==
  /\ PktSpace \in Nat /\ Ring \in Nat /\ MaxWindow \in Nat \ {0} /\ LocalWindow \in Nat
  /\ Ring > MaxWindow /\ LocalWindow \in 1..(Ring \div 2)
  /\ PktSpace % Ring = 0 /\ PktSpace > 2 * Ring
ASSUME SizeAssumption ==
  /\ MaxData \in Nat \ {0} /\ MaxConns \in Nat \ {0} /\ UniqSpace \in Nat /\ UniqSpace > 2
  /\ InitialPktNum \in 0..(PktSpace - 1) /\ NumStride \in Nat
ASSUME ScopesAssumption ==
  Scopes \subseteq [faults : Nat, peers : Nat, packets : Nat, sessions : Seq(Nat), dies : BOOLEAN]

VARIABLES
  core,     \* the ChaosCore structure
  toPeer,   \* packets on their way to the peer
  toCore,   \* packets on their way to chaosd
  late,     \* packets the network holds back, for any time or for ever
  faults,   \* how often it has done so
  scope,    \* the bounds of this behaviour, one of Scopes
  alive     \* whether the peer's host runs

netVars == <<toPeer, toCore, late, faults>>

---------------------------------------------------------------------------
(* Packet numbers.                                                         *)
Num == 0..(PktSpace - 1)
SeqDiff(a, b) == (a - b) % PktSpace
\* Mutant of SeqInc: it does not wrap.
SeqIncUnbounded(a) == a + 1
SeqInc(a) == (a + 1) % PktSpace
\* Mutant of SeqLt: the numbers are compared as they are.
SeqLtUnsigned(a, b) == a < b
SeqLt(a, b) == SeqDiff(a, b) >= PktSpace \div 2

\* The numbers after a, through b.
After(a, b) == [i \in 1..SeqDiff(b, a) |-> (a + i) % PktSpace]
SlotOf(n) == n % Ring

NoPkt == [op |-> "none", num |-> 0, data |-> <<>>]

\* The packet numbered n is in the ring q.
Holds(q, n) == q[SlotOf(n)].op # "none" /\ q[SlotOf(n)].num = n

Packet(op, dest, src, num, ack, data) ==
  [op |-> op, dest |-> dest, src |-> src, num |-> num, ack |-> ack, data |-> data]
ArpPacket(op) == Packet(op, 0, 0, 0, 0, <<>>)

FreeConn ==
  [state |-> "FREE", closeKind |-> "NONE", localIndex |-> 0, remoteIndex |-> 0,
   sentNum |-> 0, ackedNum |-> 0, receiptNum |-> 0, remoteWindow |-> 0,
   sendq |-> [s \in 0..(Ring - 1) |-> NoPkt],
   eofWanted |-> FALSE, eofSent |-> FALSE, eofNum |-> 0,
   readNum |-> 0, receivedNum |-> 0, lastAckSent |-> 0,
   rcvq |-> [s \in 0..(Ring - 1) |-> NoPkt],
   eofReceived |-> FALSE, ackDue |-> FALSE]

CoreInit ==
  [conns |-> [h \in 0..(MaxConns - 1) |-> FreeConn], uniquizer |-> 1,
   initialPktNum |-> InitialPktNum, arp |-> FALSE, out |-> <<>>]

\* Without the peer's Ethernet address a frame is dropped and ARP asks for it.
Framed(c, p) == IF c.arp THEN p ELSE ArpPacket("ARPREQ")
SendRaw(c, p) == [c EXCEPT !.out = Append(@, Framed(c, p))]

\* Every packet of a connection carries what its user has read.
Acknowledging(c, h) ==
  [c EXCEPT !.conns[h].lastAckSent = c.conns[h].readNum, !.conns[h].ackDue = FALSE]

ConnSendUnc(c, h, op, data) ==
  LET k == c.conns[h]
  IN SendRaw(Acknowledging(c, h), Packet(op, k.remoteIndex, k.localIndex, 0, k.readNum, data))

ConnSendSts(c, h) == ConnSendUnc(c, h, "STS", <<c.conns[h].receivedNum, LocalWindow>>)

\* A controlled packet of the connection as it goes out now.
Outgoing(k, p) ==
  LET rfc == p.op = "RFC"
  IN Packet(p.op, IF rfc THEN 0 ELSE k.remoteIndex, k.localIndex, p.num,
            IF rfc THEN 0 ELSE k.readNum, p.data)

ConnTransmit(c, h, p) == SendRaw(Acknowledging(c, h), Outgoing(c.conns[h], p))

ConnSendControlled(c, h, op, data) ==
  LET n == SeqInc(c.conns[h].sentNum)
      p == [op |-> op, num |-> n, data |-> data]
  IN ConnTransmit([c EXCEPT !.conns[h].sentNum = n, !.conns[h].sendq[SlotOf(n)] = p], h, p)

Unreceipted(k) == ToSet(After(k.receiptNum, k.sentNum))

\* Mutant of ConnRetransmit: nothing is sent again.
RetransmitNothing(c, h, old) == c
\* The packets that are due, in the order of their numbers.
Again(k, old) ==
  LET unreceipted == After(k.receiptNum, k.sentNum)
      If(n) == IF Holds(k.sendq, n) /\ n \in old THEN <<k.sendq[SlotOf(n)]>> ELSE <<>>
  IN FlattenSeq([i \in DOMAIN unreceipted |-> If(unreceipted[i])])
\* Retransmits those of the packets without receipt that are old enough.
ConnRetransmit(c, h, old) ==
  LET k == c.conns[h]
      again == Again(k, old)
  IN IF again = <<>> THEN c
     ELSE [Acknowledging(c, h) EXCEPT
             !.out = @ \o [i \in DOMAIN again |-> Framed(c, Outgoing(k, again[i]))]]

ConnSetClosed(c, h, kind) ==
  [c EXCEPT !.conns[h] =
     [@ EXCEPT !.state = "CLOSED", !.closeKind = kind, !.sendq = FreeConn.sendq,
               !.receiptNum = c.conns[h].sentNum, !.ackedNum = c.conns[h].sentNum,
               !.ackDue = FALSE]]

ConnCloseCls(c, h, kind) == ConnSetClosed(ConnSendUnc(c, h, "CLS", <<>>), h, kind)

ConnWindowAvailable(k) == k.remoteWindow - SeqDiff(k.sentNum, k.ackedNum)

ConnMaybeSendEof(c, h) ==
  LET k == c.conns[h]
  IN IF k.state = "OPEN" /\ k.eofWanted /\ ~k.eofSent /\ ConnWindowAvailable(k) > 0
       THEN [ConnSendControlled(c, h, "EOF", <<>>) EXCEPT
               !.conns[h].eofSent = TRUE, !.conns[h].eofNum = SeqInc(k.sentNum)]
       ELSE c

\* Mutant of Receipted: an old receipt is taken.
ReceiptedStale(k, receipt) ==
  [k EXCEPT !.receiptNum = receipt,
            !.sendq = [s \in DOMAIN @ |->
                         IF s \in {SlotOf(n) : n \in ToSet(After(k.receiptNum, receipt))} THEN NoPkt ELSE @[s]]]
Receipted(k, receipt) ==
  IF SeqLt(k.receiptNum, receipt)
    THEN [k EXCEPT !.receiptNum = receipt,
                   !.sendq = [s \in DOMAIN @ |->
                                IF s \in {SlotOf(n) : n \in ToSet(After(k.receiptNum, receipt))}
                                  THEN NoPkt ELSE @[s]]]
    ELSE k

Acked(k, ack) == IF SeqLt(k.ackedNum, ack) THEN [k EXCEPT !.ackedNum = ack] ELSE k

\* Mutant of FinishIfAcked: the receipt is enough.
FinishOnReceipt(c, h) ==
  IF c.conns[h].eofSent /\ ~SeqLt(c.conns[h].receiptNum, c.conns[h].eofNum) /\ c.conns[h].state = "OPEN"
    THEN ConnCloseCls(c, h, "DONE") ELSE ConnMaybeSendEof(c, h)
\* The end of conn_process_ack, when the acknowledgement has been noted.
FinishIfAcked(c, h) ==
  IF c.conns[h].eofSent /\ ~SeqLt(c.conns[h].ackedNum, c.conns[h].eofNum) /\ c.conns[h].state = "OPEN"
    THEN ConnCloseCls(c, h, "DONE") ELSE ConnMaybeSendEof(c, h)

ConnProcessAck(c, h, ack, receipt) ==
  LET k == c.conns[h]
  IN IF SeqLt(k.sentNum, ack) \/ SeqLt(k.sentNum, receipt) THEN c
     ELSE FinishIfAcked(
            [c EXCEPT !.conns[h] = Acked(Receipted(k, IF SeqLt(receipt, ack) THEN ack ELSE receipt), ack)],
            h)

---------------------------------------------------------------------------
(* What the user of a connection calls.                                    *)
FreeSlots(c) == {h \in DOMAIN c.conns : c.conns[h].state = "FREE"}
NewSlot(c) == CHOOSE h \in FreeSlots(c) : \A g \in FreeSlots(c) : h <= g
LocalIndex(c, h) == c.uniquizer * MaxConns + h

ChaosOpen(c, h, contact) ==
  LET first == (c.initialPktNum - 1) % PktSpace
      next == (c.uniquizer + 1) % UniqSpace
  IN ConnSendControlled(
       [c EXCEPT !.conns[h] = [FreeConn EXCEPT !.state = "RFC_SENT", !.localIndex = LocalIndex(c, h),
                                               !.remoteWindow = 1, !.sentNum = first,
                                               !.ackedNum = first, !.receiptNum = first],
                 !.uniquizer = IF next = 0 THEN 1 ELSE next,
                 !.initialPktNum = (@ + NumStride) % PktSpace],
       h, "RFC", contact)

CanSend(k) == k.state = "OPEN" /\ ~k.eofWanted
ChaosSendRoom(c, h) ==
  IF CanSend(c.conns[h]) /\ ConnWindowAvailable(c.conns[h]) > 0
    THEN ConnWindowAvailable(c.conns[h]) * MaxData ELSE 0

Least(a, b) == IF a <= b THEN a ELSE b

\* The number of bytes chaos_send accepts, and the core when it has sent them.
ChaosAccepts(c, h, data) == Least(Len(data), ChaosSendRoom(c, h))
Piece(data, i, n) == SubSeq(data, (i - 1) * MaxData + 1, Least(i * MaxData, n))
Pieces(n) == (n + MaxData - 1) \div MaxData
SendPieces(c, h, data, n) ==
  LET sent[i \in 0..Pieces(n)] ==
        IF i = 0 THEN c ELSE ConnSendControlled(sent[i - 1], h, "DAT", Piece(data, i, n))
  IN sent
ChaosSend(c, h, data) ==
  LET n == ChaosAccepts(c, h, data) IN SendPieces(c, h, data, n)[Pieces(n)]

ChaosFinish(c, h) ==
  IF CanSend(c.conns[h]) THEN ConnMaybeSendEof([c EXCEPT !.conns[h].eofWanted = TRUE], h) ELSE c

ChaosRecvReady(k) == k.readNum # k.receivedNum /\ ~k.eofReceived

\* Mutant of RecvPacket: a packet read in part is read again from its start.
RecvRepeats(a, n, max) ==
  LET p == a.k.rcvq[SlotOf(n)]
      take == Least(Len(p.data), max - Len(a.got))
  IN IF a.stop \/ Len(a.got) >= max \/ a.k.eofReceived THEN a
     ELSE [k |-> IF take < Len(p.data) THEN a.k ELSE [a.k EXCEPT !.readNum = n],
           got |-> a.got \o SubSeq(p.data, 1, take), stop |-> take < Len(p.data)]
\* One round of chaos_recv's loop, on the packet numbered n.
RecvPacket(a, n, max) ==
  LET p == a.k.rcvq[SlotOf(n)]
      take == Least(Len(p.data), max - Len(a.got))
      rest == SubSeq(p.data, take + 1, Len(p.data))
      read == [a.k EXCEPT !.rcvq[SlotOf(n)] = NoPkt, !.readNum = n]
  IN IF a.stop \/ Len(a.got) >= max \/ a.k.eofReceived THEN a
     ELSE IF p.op = "EOF" THEN [a EXCEPT !.k = [read EXCEPT !.eofReceived = TRUE]]
     ELSE IF rest # <<>>
       THEN [k |-> [a.k EXCEPT !.rcvq[SlotOf(n)].data = rest],
             got |-> a.got \o SubSeq(p.data, 1, take), stop |-> TRUE]
     ELSE [a EXCEPT !.k = read, !.got = @ \o p.data]

RecvRounds(k, max) ==
  LET recv[i \in 0..SeqDiff(k.receivedNum, k.readNum)] ==
        IF i = 0 THEN [k |-> k, got |-> <<>>, stop |-> FALSE]
        ELSE RecvPacket(recv[i - 1], (k.readNum + i) % PktSpace, max)
  IN recv
Received(k, max) == RecvRounds(k, max)[SeqDiff(k.receivedNum, k.readNum)]

\* The end of chaos_recv: the window has opened when something was read.
TellWindow(c, h, k) ==
  LET d == [c EXCEPT !.conns[h] = k]
  IN IF k.readNum = c.conns[h].readNum \/ k.state # "OPEN" THEN d
     ELSE IF SeqDiff(k.readNum, k.lastAckSent) >= (LocalWindow + 1) \div 2 \/ k.eofReceived
       THEN ConnSendSts(d, h)
     ELSE [d EXCEPT !.conns[h].ackDue = TRUE]

ChaosRelease(c, h) ==
  [(IF c.conns[h].state = "OPEN" THEN ConnSendUnc(c, h, "CLS", <<>>) ELSE c)
     EXCEPT !.conns[h] = FreeConn]

---------------------------------------------------------------------------
(* Input.                                                                  *)
\* The in-order mark moves over everything that is contiguous, up to an EOF.
Contiguous(k, i) ==
  LET Next(j) == (k.receivedNum + j) % PktSpace
  IN /\ \A j \in 1..i : Holds(k.rcvq, Next(j))
     /\ \A j \in 1..(i - 1) : k.rcvq[SlotOf(Next(j))].op # "EOF"
AdvanceReceived(k) ==
  [k EXCEPT !.receivedNum = (@ + Max({i \in 0..Ring : Contiguous(k, i)})) % PktSpace]

Acceptable(c, h, m) ==
  LET k == c.conns[h]
  IN /\ SeqLt(k.receivedNum, m.num)
     /\ SeqDiff(m.num, k.readNum) <= LocalWindow
     /\ ~Holds(k.rcvq, m.num)

ConnQueueInput(c, h, m) ==
  LET k == AdvanceReceived(
             [c.conns[h] EXCEPT !.rcvq[SlotOf(m.num)] = [op |-> m.op, num |-> m.num, data |-> m.data]])
      d == [c EXCEPT !.conns[h] = k]
  IN IF ~Acceptable(c, h, m) THEN ConnSendSts(c, h)
     ELSE IF SeqLt(k.receivedNum, m.num) THEN ConnSendSts(d, h) ELSE d

\* An RFC from outside is answered or refused; no connection is made.
HandleRfc(c, m) ==
  SendRaw(c, Packet(IF m.data = <<"STATUS">> THEN "ANS" ELSE "CLS", m.src, 0, 0, m.num, <<>>))

\* Mutant of SendLosReply: no answer.
NoLosReply(c, m) == c
SendLosReply(c, m) == SendRaw(c, Packet("LOS", m.src, m.dest, 0, 0, <<>>))

Replies == {"ANS", "CLS", "FWD", "LOS"}

\* What was dropped for want of the peer's address goes out when it is known.
Relearn(c, h) ==
  IF c.conns[h].state \in {"RFC_SENT", "OPEN"}
    THEN ConnRetransmit(c, h, Unreceipted(c.conns[h])) ELSE c
Relearned(c) ==
  LET learnt[h \in 0..MaxConns] ==
        IF h = 0 THEN [c EXCEPT !.arp = TRUE] ELSE Relearn(learnt[h - 1], h - 1)
  IN learnt
ArpLearn(c) == IF c.arp THEN c ELSE Relearned(c)[MaxConns]

Connects(k, m) ==
  /\ k.state # "FREE" /\ k.localIndex = m.dest
  /\ k.state = "RFC_SENT" \/ k.remoteIndex = m.src

InputUnopened(c, h, m) ==
  LET k == [c.conns[h] EXCEPT !.remoteIndex = m.src, !.readNum = m.num, !.receivedNum = m.num,
                              !.lastAckSent = m.num, !.remoteWindow = Least(m.data[2], MaxWindow),
                              !.state = "OPEN"]
  IN CASE m.op = "OPN" ->
            ConnSendSts(ConnProcessAck([c EXCEPT !.conns[h] = k], h, m.ack, m.data[1]), h)
       [] m.op = "FWD" -> ConnSetClosed(c, h, "LOS")
       [] m.op \in Replies \ {"FWD"} -> ConnSetClosed(c, h, m.op)
       [] OTHER -> c

WithWindow(c, h, w) == [c EXCEPT !.conns[h].remoteWindow = Least(w, MaxWindow)]
IfOpen(c, h, d) == IF c.conns[h].state = "OPEN" THEN d ELSE c

InputOpen(c, h, m, old) ==
  LET acked == ConnProcessAck(c, h, m.ack, m.ack)
      sts == ConnProcessAck(WithWindow(c, h, m.data[2]), h, m.ack, m.data[1])
  IN CASE m.op \in {"DAT", "EOF"} -> IfOpen(acked, h, ConnQueueInput(acked, h, m))
       [] m.op = "STS" -> IfOpen(sts, h, ConnRetransmit(sts, h, old))
       [] m.op = "SNS" -> IfOpen(acked, h, ConnSendSts(acked, h))
       [] m.op = "OPN" -> ConnSendSts(c, h)
       [] m.op \in {"CLS", "LOS"} -> ConnSetClosed(c, h, m.op)
       [] OTHER -> c

HandleConn(c, h, m, old) ==
  CASE c.conns[h].state = "RFC_SENT" -> InputUnopened(c, h, m)
    [] c.conns[h].state = "OPEN" -> InputOpen(c, h, m, old)
    [] OTHER -> IF m.op \in Replies \cup {"STS"} THEN c ELSE SendLosReply(c, m)

HandleChaos(c, m, old) ==
  LET h == m.dest % MaxConns
  IN IF m.op = "RFC" THEN HandleRfc(c, m)
     ELSE IF Connects(c.conns[h], m) THEN HandleConn(c, h, m, old)
     ELSE IF m.op \in Replies THEN c ELSE SendLosReply(c, m)

ChaosCoreInput(c, m, old) ==
  CASE m.op = "ARPREQ" -> [ArpLearn(c) EXCEPT !.out = Append(@, ArpPacket("ARPREP"))]
    [] m.op = "ARPREP" -> ArpLearn(c)
    [] OTHER -> HandleChaos(ArpLearn(c), m, old)

---------------------------------------------------------------------------
(* Timers.  Of a connection in chaos_core_tick: giving up an RFC or a dead *)
(* host, giving up an EOF, and the rest.                                   *)
\* An EOF given up closes with CLOSE_DONE, as one that was acknowledged does.
TickGiveUp(c, h) == ConnSetClosed(c, h, "TIMEOUT")
TickFinish(c, h) == ConnCloseCls(c, h, "DONE")

ProbeIfWaiting(c, h, lonely) ==
  IF c.conns[h].ackedNum # c.conns[h].sentNum \/ c.conns[h].remoteWindow = 0 \/ lonely
    THEN ConnSendUnc(c, h, "SNS", <<>>) ELSE c

\* What of a tick's timers has run out: the age of packets, the probe's interval.
TickConn(c, h, old, probe, lonely) ==
  LET sent == ConnRetransmit(c, h, old)
      told == IF sent.conns[h].ackDue THEN ConnSendSts(sent, h) ELSE sent
  IN IF c.conns[h].state = "RFC_SENT" THEN sent
     ELSE IF probe THEN ProbeIfWaiting(told, h, lonely) ELSE told

---------------------------------------------------------------------------
(* The network.  A packet in toPeer or toCore arrives in order and before  *)
(* any timer runs out; one that takes longer, or is overtaken, is late,    *)
(* and one that is lost is late for ever.                                  *)
NetworkQuiet == toPeer = <<>> /\ toCore = <<>>

\* None or all of a connection's packets are old enough to be sent again.
Ages(c) == UNION {{{}, Unreceipted(c.conns[h])} : h \in DOMAIN c.conns}

\* What a tick does with a connection, for every choice of the timers.  An
\* answer that comes in time keeps chaosd from giving up.
Silent == ~alive \/ late # {}
GivesUp(c, h) ==
  IF Silent /\ c.conns[h].state \in {"RFC_SENT", "OPEN"} THEN {TickGiveUp(c, h)} ELSE {}
Finishes(c, h) ==
  IF c.conns[h].state = "OPEN" /\ c.conns[h].eofWanted THEN {TickFinish(c, h)} ELSE {}
Ticks(c, h) ==
  CASE c.conns[h].state = "RFC_SENT" -> {TickConn(c, h, old, FALSE, FALSE) : old \in Ages(c)}
    [] c.conns[h].state = "OPEN" ->
         {TickConn(c, h, old, probe, lonely) : old \in Ages(c), probe, lonely \in BOOLEAN}
    [] OTHER -> {c}
\* Every timer of every connection has run out.
FullTicks(c) ==
  FoldLeft(LAMBDA d, h :
             IF d.conns[h].state \in {"RFC_SENT", "OPEN"}
               THEN TickConn(d, h, Unreceipted(d.conns[h]), TRUE, TRUE) ELSE d,
           c, [i \in 1..MaxConns |-> i - 1])

Faulty(to, m) == faults < scope.faults /\ faults' = faults + 1 /\ late' = late \cup {<<to, m>>}
Delay ==
  /\ \/ toPeer # <<>> /\ Faulty("peer", Head(toPeer)) /\ toPeer' = Tail(toPeer) /\ UNCHANGED toCore
     \/ /\ toPeer = <<>> /\ toCore # <<>> /\ Faulty("core", Head(toCore))
        /\ toCore' = Tail(toCore) /\ UNCHANGED toPeer
  /\ UNCHANGED core
Duplicate ==
  /\ \/ toPeer # <<>> /\ Faulty("peer", Head(toPeer))
     \/ toPeer = <<>> /\ toCore # <<>> /\ Faulty("core", Head(toCore))
  /\ UNCHANGED <<core, toPeer, toCore>>
===========================================================================
