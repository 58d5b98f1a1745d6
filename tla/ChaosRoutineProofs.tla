-------------------------- MODULE ChaosRoutineProofs --------------------------
(***************************************************************************)
(* What the routines of the core keep.  A property of connections is given *)
(* as a set of connections for every slot, one of packets as a set of      *)
(* packets.  If these sets are closed under the few steps that change a    *)
(* connection or send a packet, every routine that is made of such steps   *)
(* stays inside them.                                                      *)
(***************************************************************************)
EXTENDS ChaosProofs

\* Every connection is in the set of its slot, and what was sent is in G
Inside(c, K, G) == c \in Cores /\ (\A h \in Slots : c.conns[h] \in K[h]) /\ c.out \in Seq(G)

(* The steps of a connection. *)
Ended(k, kind) ==
  [k EXCEPT !.state = "CLOSED", !.closeKind = kind, !.sendq = FreeConn.sendq,
            !.receiptNum = k.sentNum, !.ackedNum = k.sentNum, !.ackDue = FALSE]
EofPkt(k) == [op |-> "EOF", num |-> SeqInc(k.sentNum), data |-> <<>>]
WithEof(k) ==
  [k EXCEPT !.sentNum = SeqInc(k.sentNum), !.sendq = [@ EXCEPT ![SlotOf(SeqInc(k.sentNum))] = EofPkt(k)],
            !.eofSent = TRUE, !.eofNum = SeqInc(k.sentNum)]
AckedBy(k, ack, receipt) == Acked(Receipted(k, IF SeqLt(receipt, ack) THEN ack ELSE receipt), ack)
QueuedBy(k, m) ==
  AdvanceReceived([k EXCEPT !.rcvq[SlotOf(m.num)] = [op |-> m.op, num |-> m.num, data |-> m.data]])
Windowed(k, w) == [k EXCEPT !.remoteWindow = Least(w, MaxWindow)]

Answered(k) == Packet("STS", k.remoteIndex, k.localIndex, 0, k.readNum, <<k.receivedNum, LocalWindow>>)
Bare(k, op) == Packet(op, k.remoteIndex, k.localIndex, 0, k.readNum, <<>>)

(* The sets are closed under the steps that need no packet. *)
Noting(K) == \A h \in Slots : \A k \in K[h] : \A j \in Sound : Alike(k, j) => j \in K[h]
Telling(K, G) ==
  \A h \in Slots : \A k \in K[h] \cap Sound :
    k.state = "OPEN" \/ k.remoteIndex # 0 =>
      Answered(k) \in G /\ \A op \in {"SNS", "CLS"} : Bare(k, op) \in G
Repeating(K, G) ==
  \A h \in Slots : \A k \in K[h] \cap Sound : k.state \in {"RFC_SENT", "OPEN"} =>
    \A n \in Num : Holds(k.sendq, n) => Outgoing(k, k.sendq[SlotOf(n)]) \in G
CloseKinds == {"CLS", "ANS", "LOS", "DONE", "TIMEOUT"}
Ending(K) ==
  \A h \in Slots : \A k \in K[h] \cap Sound : \A kind \in CloseKinds :
    k.state \in {"RFC_SENT", "OPEN"} => Ended(k, kind) \in K[h]
EndsStream(k) == k.state = "OPEN" /\ k.eofWanted /\ ~k.eofSent /\ ConnWindowAvailable(k) > 0
Finishing(K, G) ==
  \A h \in Slots : \A k \in K[h] \cap Sound : EndsStream(k) => WithEof(k) \in K[h] /\ Outgoing(k, EofPkt(k)) \in G
Arps(G) == \A op \in {"ARPREQ", "ARPREP"} : ArpPacket(op) \in G
Closed(K, G) ==
  /\ G \subseteq Packets /\ Arps(G) /\ (\A h \in Slots : K[h] \subseteq Conns)
  /\ Noting(K) /\ Telling(K, G) /\ Repeating(K, G) /\ Ending(K) /\ Finishing(K, G)

---------------------------------------------------------------------------
(* Sending                                                                 *)

\* A routine that only sends stays inside, if its packets do
LEMMA TouchesInside ==
  ASSUME NEW c, NEW d, NEW h \in Slots, NEW K, NEW G, Inside(c, K, G), Noting(K),
         Touches(c, d, h), d.out \in Seq(G)
  PROVE  Inside(d, K, G) /\ d.conns[h].state = c.conns[h].state
<1>1. c \in Cores /\ d \in Cores
  BY DEF Inside, Touches
<1>2. c.conns[h] \in Sound /\ d.conns[h] \in Sound
  BY <1>1, ConnType
<1>3. Alike(c.conns[h], d.conns[h])
  BY DEF Touches
<1>4. d.conns[h] \in K[h]
  BY <1>2, <1>3 DEF Inside, Noting
<1>5. d.conns[h].state = c.conns[h].state
  BY <1>2, <1>3, AlikeFields
<1>6. \A g \in Slots : d.conns[g] \in K[g]
  BY <1>4 DEF Inside, Touches
<1> QED
  BY <1>1, <1>5, <1>6 DEF Inside

\* A frame that goes out is the packet or asks for the address
LEMMA SendRawInside ==
  ASSUME NEW c \in Cores, NEW G, G \subseteq Packets, Arps(G), c.out \in Seq(G), NEW p \in G
  PROVE  SendRaw(c, p).out \in Seq(G)
<1>1. Framed(c, p) \in G
  BY DEF Framed, Arps
<1>2. Append(c.out, Framed(c, p)) \in Seq(G)
  BY <1>1, AppendProperties
<1>3. SendRaw(c, p).out = Append(c.out, Framed(c, p))
  BY DEF SendRaw, Cores
<1> QED
  BY <1>2, <1>3

\* What a packet acknowledges is noted before it goes out
LEMMA AcknowledgingOut ==
  ASSUME NEW c \in Cores, NEW h \in Slots
  PROVE  Acknowledging(c, h).out = c.out
BY DEF Acknowledging, Cores

\* conn_send_unc
LEMMA ConnSendUncInside ==
  ASSUME NEW c, NEW h \in Slots, NEW K, NEW G, Inside(c, K, G), Closed(K, G),
         NEW op \in Ops, NEW data \in Data,
         op \in {"OPN", "STS"} => Len(data) = 2 /\ data[1] \in Num /\ data[2] \in Nat,
         Packet(op, c.conns[h].remoteIndex, c.conns[h].localIndex, 0, c.conns[h].readNum, data) \in G
  PROVE  /\ Inside(ConnSendUnc(c, h, op, data), K, G)
         /\ ConnSendUnc(c, h, op, data).conns[h].state = c.conns[h].state
<1> DEFINE k == c.conns[h]
           p == Packet(op, k.remoteIndex, k.localIndex, 0, k.readNum, data)
           d == Acknowledging(c, h)
           e == ConnSendUnc(c, h, op, data)
<1>1. c \in Cores /\ Noting(K) /\ G \subseteq Packets /\ Arps(G) /\ c.out \in Seq(G) /\ p \in G
  BY DEF Inside, Closed
<1>2. Touches(c, e, h)
  BY <1>1, ConnSendUncOK
<1>3. d \in Cores /\ d.out = c.out
  BY <1>1, AcknowledgingOK, AcknowledgingOut DEF Touches
<1>4. e = SendRaw(d, p)
  BY DEF ConnSendUnc
<1> HIDE DEF d, p
<1>5. e.out \in Seq(G)
  BY <1>1, <1>3, <1>4, SendRawInside
<1> HIDE DEF e
<1>6. Inside(e, K, G) /\ e.conns[h].state = c.conns[h].state
  BY <1>1, <1>2, <1>5, TouchesInside
<1> QED
  BY <1>6 DEF e

\* What a connection tells of itself
LEMMA TellInside ==
  ASSUME NEW c, NEW h \in Slots, NEW K, NEW G, Inside(c, K, G), Closed(K, G),
         c.conns[h].state = "OPEN" \/ c.conns[h].remoteIndex # 0
  PROVE  /\ Inside(ConnSendSts(c, h), K, G) /\ ConnSendSts(c, h).conns[h].state = c.conns[h].state
         /\ \A op \in {"SNS", "CLS"} :
              /\ Inside(ConnSendUnc(c, h, op, <<>>), K, G)
              /\ ConnSendUnc(c, h, op, <<>>).conns[h].state = c.conns[h].state
<1> DEFINE k == c.conns[h]
<1>1. k \in Conns /\ k.receivedNum \in Num /\ k \in K[h] /\ k \in Sound
  BY ConnType DEF Inside, Conns
<1>2. Answered(k) \in G /\ \A op \in {"SNS", "CLS"} : Bare(k, op) \in G
  BY <1>1 DEF Closed, Telling
<1>3. <<>> \in Data
  BY ShortSeqs DEF Data
<1>4. LocalWindow \in Nat
  BY Sizes
<1>5. /\ <<k.receivedNum, LocalWindow>> \in Data /\ Len(<<k.receivedNum, LocalWindow>>) = 2
      /\ <<k.receivedNum, LocalWindow>>[1] \in Num /\ <<k.receivedNum, LocalWindow>>[2] \in Nat
  BY <1>1, <1>4, PairType
<1>6. Inside(ConnSendSts(c, h), K, G) /\ ConnSendSts(c, h).conns[h].state = k.state
  BY <1>2, <1>5, ConnSendUncInside DEF ConnSendSts, Answered, Ops
<1>7. ASSUME NEW op \in {"SNS", "CLS"}
      PROVE  /\ Inside(ConnSendUnc(c, h, op, <<>>), K, G)
             /\ ConnSendUnc(c, h, op, <<>>).conns[h].state = k.state
  <2>1. op \in Ops /\ op \notin {"OPN", "STS"} /\ Bare(k, op) \in G
    BY <1>2 DEF Ops
  <2> QED
    BY <1>3, <2>1, ConnSendUncInside DEF Bare
<1> QED
  BY <1>6, <1>7

\* The packets of conn_retransmit are in the send ring
LEMMA AgainHeld ==
  ASSUME NEW k \in Sound, NEW old
  PROVE  Again(k, old) \in Seq({p \in Pkts : \E n \in Num : Holds(k.sendq, n) /\ p = k.sendq[SlotOf(n)]})
<1> DEFINE P == {p \in Pkts : \E n \in Num : Holds(k.sendq, n) /\ p = k.sendq[SlotOf(n)]}
           u == After(k.receiptNum, k.sentNum)
           If(n) == IF Holds(k.sendq, n) /\ n \in old THEN <<k.sendq[SlotOf(n)]>> ELSE <<>>
           seqs == [i \in DOMAIN u |-> If(u[i])]
           N == SeqDiff(k.sentNum, k.receiptNum)
<1>1. k.receiptNum \in Num /\ k.sentNum \in Num /\ k.sendq \in Queues
  BY DEF Sound, Conns
<1>2. N \in Nat /\ DOMAIN u = 1..N /\ N < PktSpace
  BY <1>1, DiffType DEF After
<1>3. ASSUME NEW i \in 1..N
      PROVE  If(u[i]) \in Seq(P)
  <2>1. u[i] \in Num
    <3>1. i \in 0..PktSpace
      BY <1>2, Sizes
    <3>2. u[i] = (k.receiptNum + i) % PktSpace
      BY <1>1 DEF After
    <3> QED
      BY <1>1, <3>1, <3>2, PlusIs
  <2>2. SlotOf(u[i]) \in 0..(Ring - 1)
    BY <2>1, SlotType
  <2>3. k.sendq[SlotOf(u[i])] \in Pkts
    BY <1>1, <2>2 DEF Queues
  <2> HIDE DEF u
  <2>4. CASE Holds(k.sendq, u[i]) /\ u[i] \in old
    <3>1. k.sendq[SlotOf(u[i])] \in P
      BY <2>1, <2>3, <2>4
    <3> HIDE DEF P
    <3> QED
      BY <2>4, <3>1, ShortSeqs
  <2>5. CASE ~(Holds(k.sendq, u[i]) /\ u[i] \in old)
    <3> HIDE DEF P
    <3> QED
      BY <2>5, ShortSeqs
  <2> QED
    BY <2>4, <2>5
<1>4. seqs \in Seq(Seq(P))
  <2> HIDE DEF If, u, P, N
  <2>1. seqs \in [1..N -> Seq(P)]
    BY <1>2, <1>3
  <2> HIDE DEF seqs
  <2> QED
    BY <1>2, <2>1, IsASeq
<1>5. Again(k, old) = FlattenSeq(seqs)
  BY DEF Again
<1> HIDE DEF seqs, P
<1>6. Again(k, old) \in Seq(P)
  BY <1>4, <1>5, FlattenType
<1> QED
  BY <1>6 DEF P

\* conn_retransmit
LEMMA ConnRetransmitInside ==
  ASSUME NEW c, NEW h \in Slots, NEW K, NEW G, Inside(c, K, G), Closed(K, G), NEW old,
         c.conns[h].state \in {"RFC_SENT", "OPEN"}
  PROVE  /\ Inside(ConnRetransmit(c, h, old), K, G)
         /\ ConnRetransmit(c, h, old).conns[h].state = c.conns[h].state
<1> DEFINE k == c.conns[h]
           again == Again(k, old)
           frames == [i \in DOMAIN again |-> Framed(c, Outgoing(k, again[i]))]
           e == Acknowledging(c, h)
           d == ConnRetransmit(c, h, old)
<1>1. c \in Cores /\ k \in Sound /\ k \in K[h] /\ c.out \in Seq(G) /\ Noting(K) /\ Arps(G)
  BY ConnType DEF Inside, Closed
<1>2. Touches(c, d, h)
  BY <1>1, ConnRetransmitOK
<1>3. CASE again = <<>>
  <2>1. d = c
    BY <1>3 DEF ConnRetransmit
  <2> QED
    BY <2>1
<1>4. CASE again # <<>>
  <2>1. d = [e EXCEPT !.out = @ \o frames]
    BY <1>4 DEF ConnRetransmit
  <2>2. again \in Seq({p \in Pkts : \E n \in Num : Holds(k.sendq, n) /\ p = k.sendq[SlotOf(n)]})
    BY <1>1, AgainHeld
  <2> HIDE DEF again
  <2>3. ASSUME NEW i \in 1..Len(again)
        PROVE  Framed(c, Outgoing(k, again[i])) \in G
    <3>1. \E n \in Num : Holds(k.sendq, n) /\ again[i] = k.sendq[SlotOf(n)]
      BY <2>2
    <3>2. Outgoing(k, again[i]) \in G
      BY <1>1, <3>1 DEF Closed, Repeating
    <3> QED
      BY <1>1, <3>2 DEF Framed, Arps
  <2>4. frames \in Seq(G)
    <3>1. DOMAIN again = 1..Len(again) /\ Len(again) \in Nat
      BY <2>2, LenProperties
    <3>2. frames \in [1..Len(again) -> G]
      BY <2>3, <3>1
    <3> HIDE DEF frames
    <3> QED
      BY <3>1, <3>2, IsASeq
  <2>5. e \in Cores /\ e.out = c.out
    BY <1>1, AcknowledgingOK, AcknowledgingOut DEF Touches
  <2> HIDE DEF frames, e, d
  <2>6. e.out \o frames \in Seq(G)
    BY <1>1, <2>4, <2>5, ConcatProperties
  <2>7. d.out \in Seq(G)
    BY <2>1, <2>5, <2>6 DEF Cores
  <2> QED
    BY <1>1, <1>2, <2>7, TouchesInside DEF d
<1> QED
  BY <1>3, <1>4

---------------------------------------------------------------------------
(* Closing, the EOF, and acknowledgements                                  *)

\* A connection is replaced by another one of its set
LEMMA SetInside ==
  ASSUME NEW c, NEW h \in Slots, NEW K, NEW G, Inside(c, K, G), NEW k \in Sound, k \in K[h]
  PROVE  LET d == [c EXCEPT !.conns[h] = k]
         IN Inside(d, K, G) /\ d.conns[h] = k /\ d.out = c.out
<1> DEFINE d == [c EXCEPT !.conns[h] = k]
<1>1. c \in Cores
  BY DEF Inside
<1>2. d \in Cores /\ d.conns[h] = k /\ \A g \in Slots \ {h} : d.conns[g] = c.conns[g]
  BY <1>1, SetConn
<1>3. d.out = c.out
  BY <1>1 DEF Cores
<1> HIDE DEF d
<1>4. Inside(d, K, G) /\ d.conns[h] = k /\ d.out = c.out
  BY <1>2, <1>3 DEF Inside
<1> QED
  BY <1>4 DEF d

\* conn_set_closed
LEMMA ConnSetClosedInside ==
  ASSUME NEW c, NEW h \in Slots, NEW K, NEW G, Inside(c, K, G), Closed(K, G), NEW kind \in CloseKinds,
         c.conns[h].state \in {"RFC_SENT", "OPEN"}
  PROVE  Inside(ConnSetClosed(c, h, kind), K, G)
<1> DEFINE d == ConnSetClosed(c, h, kind)
           k == Ended(c.conns[h], kind)
<1>1. c \in Cores /\ c.conns[h] \in K[h]
  BY DEF Inside
<1>2. d = [c EXCEPT !.conns[h] = k]
  BY <1>1 DEF ConnSetClosed, Ended, Cores
<1>3. d \in Cores
  BY <1>1, ConnSetClosedOK DEF CloseKinds, Serves
<1>4. d.conns[h] = k
  BY <1>1, <1>2 DEF Cores
<1>5. k \in Sound
  BY <1>3, <1>4, ConnType
<1>6. k \in K[h]
  BY <1>1, ConnType DEF Closed, Ending
<1> HIDE DEF k
<1> QED
  BY <1>2, <1>5, <1>6, SetInside

\* conn_close_cls
LEMMA ConnCloseClsInside ==
  ASSUME NEW c, NEW h \in Slots, NEW K, NEW G, Inside(c, K, G), Closed(K, G),
         NEW kind \in CloseKinds, c.conns[h].state = "OPEN"
  PROVE  Inside(ConnCloseCls(c, h, kind), K, G)
<1> DEFINE d == ConnSendUnc(c, h, "CLS", <<>>)
<1>1. Inside(d, K, G) /\ d.conns[h].state = "OPEN"
  BY TellInside
<1>2. ConnCloseCls(c, h, kind) = ConnSetClosed(d, h, kind)
  BY DEF ConnCloseCls
<1> HIDE DEF d
<1> QED
  BY <1>1, <1>2, ConnSetClosedInside

\* conn_send_controlled: the packet is in the ring, its number the last one
Controlled(k, op, data) ==
  [k EXCEPT !.sentNum = SeqInc(k.sentNum),
            !.sendq = [@ EXCEPT ![SlotOf(SeqInc(k.sentNum))] =
                         [op |-> op, num |-> SeqInc(k.sentNum), data |-> data]]]
LEMMA ConnSendControlledIs ==
  ASSUME NEW c \in Cores, NEW h \in Slots, NEW op \in {"RFC", "DAT", "EOF"}, NEW data \in Data,
         SeqDiff(c.conns[h].sentNum, c.conns[h].ackedNum) < MaxWindow,
         NEW G, G \subseteq Packets, Arps(G), c.out \in Seq(G),
         Outgoing(c.conns[h], [op |-> op, num |-> SeqInc(c.conns[h].sentNum), data |-> data]) \in G
  PROVE  LET d == ConnSendControlled(c, h, op, data)
         IN /\ d \in Cores /\ d.conns[h] \in Sound /\ Alike(Controlled(c.conns[h], op, data), d.conns[h])
            /\ \A g \in Slots \ {h} : d.conns[g] = c.conns[g]
            /\ d.out \in Seq(G)
            /\ d.uniquizer = c.uniquizer /\ d.initialPktNum = c.initialPktNum
<1> DEFINE k == c.conns[h]
           n == SeqInc(k.sentNum)
           p == [op |-> op, num |-> n, data |-> data]
           j == Controlled(k, op, data)
           e == [c EXCEPT !.conns[h] = j]
           f == Acknowledging(e, h)
           d == ConnSendControlled(c, h, op, data)
<1>1. k \in Sound /\ k \in Conns
  BY ConnType
<1>2. k.sentNum \in Num /\ n \in Num /\ SlotOf(n) \in 0..(Ring - 1) /\ k.sendq \in Queues
  BY <1>1, IncIs, SlotType DEF Conns
<1>3. e = [c EXCEPT !.conns[h].sentNum = n, !.conns[h].sendq[SlotOf(n)] = p]
  <2> HIDE DEF p, n
  <2> QED
    BY <1>1 DEF Cores, Conns, Controlled, p, n
<1>4. d = SendRaw(f, Outgoing(e.conns[h], p))
  BY <1>3 DEF ConnSendControlled, ConnTransmit
<1>5. e.conns[h] = j /\ e.out = c.out /\ e.conns \in [Slots -> {j} \cup Sound] /\ e.arp = c.arp
      /\ (\A g \in Slots \ {h} : e.conns[g] = c.conns[g])
      /\ e.uniquizer = c.uniquizer /\ e.initialPktNum = c.initialPktNum
  <2> HIDE DEF j
  <2> QED
    BY DEF Cores
<1>6. Outgoing(j, p) = Outgoing(k, p)
  <2> HIDE DEF p
  <2>1. j.remoteIndex = k.remoteIndex /\ j.localIndex = k.localIndex /\ j.readNum = k.readNum
    BY <1>1 DEF Controlled, Conns
  <2> HIDE DEF j
  <2> QED
    BY <2>1 DEF Outgoing
<1>7. /\ d \in Cores /\ \A g \in Slots \ {h} : d.conns[g] = c.conns[g]
  BY ConnSendControlledOK
<1>8. Outgoing(k, p) \in G
  OBVIOUS
<1>9. j \in Conns
  <2>1. p \in Pkts
    BY <1>2 DEF Pkts
  <2> HIDE DEF p, n
  <2> QED
    BY <1>1, <1>2, <2>1 DEF Conns, Controlled, Queues, p, n
<1>10. f.conns[h] = [j EXCEPT !.lastAckSent = j.readNum, !.ackDue = FALSE]
       /\ f.out = c.out /\ f.arp = c.arp /\ f.uniquizer = c.uniquizer /\ f.initialPktNum = c.initialPktNum
  <2>1. e \in [conns : [Slots -> {j} \cup Sound], uniquizer : Nat, initialPktNum : Num, arp : BOOLEAN,
               out : Seq(Packets)]
    <3> HIDE DEF j
    <3> QED
      BY DEF Cores
  <2> HIDE DEF e, j
  <2> QED
    BY <1>5, <1>9, <2>1 DEF Acknowledging, Conns
<1>11. Alike(j, f.conns[h])
  <2> HIDE DEF j, f
  <2> QED
    BY <1>9, <1>10 DEF Alike, Conns
<1>12. d.conns = f.conns /\ d.out = Append(f.out, Framed(f, Outgoing(j, p)))
       /\ d.uniquizer = f.uniquizer /\ d.initialPktNum = f.initialPktNum
  <2>1. f \in [conns : {f.conns}, uniquizer : Nat, initialPktNum : Num, arp : BOOLEAN, out : Seq(Packets)]
    BY DEF Acknowledging, Cores
  <2> HIDE DEF f, j, p
  <2> QED
    BY <1>4, <1>5, <2>1 DEF SendRaw
<1>13. Framed(f, Outgoing(j, p)) \in G
  <2> HIDE DEF f, p, j
  <2> QED
    BY <1>6, <1>8 DEF Framed, Arps
<1>14. d.out \in Seq(G)
  <2> HIDE DEF f, p, j, d
  <2> QED
    BY <1>10, <1>12, <1>13, AppendProperties
<1>15. d.conns[h] \in Sound /\ Alike(j, d.conns[h])
  <2> HIDE DEF f, p, j, d
  <2> QED
    BY <1>7, <1>11, <1>12, ConnType
<1> QED
  BY <1>7, <1>10, <1>12, <1>14, <1>15

\* conn_maybe_send_eof
LEMMA ConnMaybeSendEofInside ==
  ASSUME NEW c, NEW h \in Slots, NEW K, NEW G, Inside(c, K, G), Closed(K, G)
  PROVE  Inside(ConnMaybeSendEof(c, h), K, G)
<1> DEFINE k == c.conns[h]
           d == ConnSendControlled(c, h, "EOF", <<>>)
           n == SeqInc(k.sentNum)
           i == d.conns[h]
           j == [i EXCEPT !.eofSent = TRUE, !.eofNum = n]
           e == ConnMaybeSendEof(c, h)
<1>1. c \in Cores /\ c.out \in Seq(G) /\ k \in Sound /\ k \in Conns /\ k \in K[h]
      /\ G \subseteq Packets /\ Arps(G)
  BY ConnType DEF Inside, Closed
<1>2. CASE EndsStream(k)
  <2>1. WithEof(k) \in K[h] /\ Outgoing(k, EofPkt(k)) \in G
    BY <1>1, <1>2 DEF Closed, Finishing
  <2>2. SeqDiff(k.sentNum, k.ackedNum) < MaxWindow
    <3>1. k.sentNum \in Num /\ k.ackedNum \in Num /\ k.remoteWindow \in 0..MaxWindow
      BY <1>1 DEF Conns
    <3> QED
      BY <1>2, <3>1, DiffType, Sizes DEF EndsStream, ConnWindowAvailable
  <2>3. <<>> \in Data
    BY ShortSeqs DEF Data
  <2>4. /\ d \in Cores /\ i \in Sound /\ Alike(Controlled(k, "EOF", <<>>), i)
        /\ (\A g \in Slots \ {h} : d.conns[g] = c.conns[g]) /\ d.out \in Seq(G)
    BY <1>1, <2>1, <2>2, <2>3, ConnSendControlledIs DEF EofPkt
  <2>5. e = [d EXCEPT !.conns[h].eofSent = TRUE, !.conns[h].eofNum = n]
    BY <1>2 DEF ConnMaybeSendEof, EndsStream
  <2>6. n \in Num
    BY <1>1, IncIs DEF Conns
  <2> HIDE DEF d, n
  <2>7. i \in Conns /\ ConnOK(i)
    BY <2>4 DEF Sound
  <2>8. e = [d EXCEPT !.conns[h] = j]
    BY <2>4, <2>5, <2>7 DEF Cores, Conns
  <2>9. Alike(WithEof(k), j)
    <3>1. i = [Controlled(k, "EOF", <<>>) EXCEPT !.lastAckSent = i.lastAckSent, !.ackDue = i.ackDue]
      BY <2>4 DEF Alike
    <3>2. Controlled(k, "EOF", <<>>) = [k EXCEPT !.sentNum = n, !.sendq = [@ EXCEPT ![SlotOf(n)] = EofPkt(k)]]
      BY DEF Controlled, EofPkt, n
    <3>3. WithEof(k) = [k EXCEPT !.sentNum = n, !.sendq = [@ EXCEPT ![SlotOf(n)] = EofPkt(k)],
                                 !.eofSent = TRUE, !.eofNum = n]
      BY DEF WithEof, n
    <3> DEFINE q == [k.sendq EXCEPT ![SlotOf(n)] = EofPkt(k)]
    <3>4. i = [k EXCEPT !.sentNum = n, !.sendq = q, !.lastAckSent = i.lastAckSent, !.ackDue = i.ackDue]
      <4> HIDE DEF i, k
      <4> QED
        BY <1>1, <3>1, <3>2 DEF Conns
    <3>5. j.lastAckSent = i.lastAckSent /\ j.ackDue = i.ackDue
      <4> HIDE DEF i
      <4> QED
        BY <2>7 DEF Conns
    <3>6. j = [k EXCEPT !.sentNum = n, !.sendq = q, !.lastAckSent = i.lastAckSent, !.ackDue = i.ackDue,
                        !.eofSent = TRUE, !.eofNum = n]
      <4> HIDE DEF i, k, q
      <4> QED
        BY <1>1, <3>4 DEF Conns
    <3>7. WithEof(k) = [k EXCEPT !.sentNum = n, !.sendq = q, !.eofSent = TRUE, !.eofNum = n]
      BY <1>1, <3>3 DEF Conns
    <3> HIDE DEF i, k, q, j
    <3> QED
      BY <1>1, <3>5, <3>6, <3>7 DEF Alike, Conns
  <2>10. j \in Sound
    <3> HIDE DEF i
    <3> QED
      BY <2>6, <2>7 DEF Sound, Conns, ConnOK
  <2>11. j \in K[h]
    <3> HIDE DEF j, k
    <3> QED
      BY <2>1, <2>9, <2>10 DEF Closed, Noting
  <2> DEFINE f == [d EXCEPT !.conns[h] = j]
  <2>12. f \in Cores /\ f.conns[h] = j /\ f.out = d.out /\ \A g \in Slots \ {h} : f.conns[g] = d.conns[g]
    <3> HIDE DEF j
    <3> QED
      BY <2>4, <2>10, SetConn DEF Cores
  <2> HIDE DEF f, j, i
  <2>13. Inside(f, K, G)
    BY <2>4, <2>11, <2>12 DEF Inside
  <2> QED
    BY <2>8, <2>13 DEF f
<1>3. CASE ~EndsStream(k)
  BY <1>3 DEF ConnMaybeSendEof, EndsStream
<1> QED
  BY <1>2, <1>3

\* The end of conn_process_ack
LEMMA FinishIfAckedInside ==
  ASSUME NEW c, NEW h \in Slots, NEW K, NEW G, Inside(c, K, G), Closed(K, G)
  PROVE  Inside(FinishIfAcked(c, h), K, G)
BY ConnCloseClsInside, ConnMaybeSendEofInside DEF FinishIfAcked, CloseKinds

\* What an acknowledgement does to a connection stays inside
Acking(K, h, ack, receipt) ==
  \A k \in K[h] \cap Sound : k.state = "OPEN" /\ ~SeqLt(k.sentNum, ack) /\ ~SeqLt(k.sentNum, receipt) =>
    AckedBy(k, ack, receipt) \in K[h]

\* conn_process_ack
LEMMA ConnProcessAckInside ==
  ASSUME NEW c, NEW h \in Slots, NEW K, NEW G, Inside(c, K, G), Closed(K, G),
         NEW ack \in Num, NEW receipt \in Num, c.conns[h].state = "OPEN", Acking(K, h, ack, receipt)
  PROVE  Inside(ConnProcessAck(c, h, ack, receipt), K, G)
<1> DEFINE k == c.conns[h]
           j == AckedBy(k, ack, receipt)
           d == [c EXCEPT !.conns[h] = j]
<1>1. k \in Sound /\ k \in K[h]
  BY ConnType DEF Inside
<1>2. CASE SeqLt(k.sentNum, ack) \/ SeqLt(k.sentNum, receipt)
  BY <1>2 DEF ConnProcessAck
<1>3. CASE ~(SeqLt(k.sentNum, ack) \/ SeqLt(k.sentNum, receipt))
  <2>1. j \in Sound
    BY <1>1, <1>3, AckSound DEF AckedBy
  <2>2. j \in K[h]
    BY <1>1, <1>3 DEF Acking
  <2>3. ConnProcessAck(c, h, ack, receipt) = FinishIfAcked(d, h)
    BY <1>3 DEF ConnProcessAck, AckedBy
  <2> HIDE DEF j
  <2>4. Inside(d, K, G)
    BY <2>1, <2>2, SetInside
  <2> HIDE DEF d
  <2> QED
    BY <2>3, <2>4, FinishIfAckedInside
<1> QED
  BY <1>2, <1>3

---------------------------------------------------------------------------
(* Input                                                                   *)

\* What a packet that is queued does to a connection stays inside
CanQueue(k, m) ==
  SeqLt(k.receivedNum, m.num) /\ SeqDiff(m.num, k.readNum) <= LocalWindow /\ ~Holds(k.rcvq, m.num)
Queueing(K, h, m) == \A k \in K[h] \cap Sound : k.state = "OPEN" /\ CanQueue(k, m) => QueuedBy(k, m) \in K[h]

\* A packet in the receive ring, and the mark moved
LEMMA QueuedBySound ==
  ASSUME NEW k \in Sound, k.state = "OPEN", NEW m \in Packets, m.op \in {"DAT", "EOF"}, CanQueue(k, m)
  PROVE  QueuedBy(k, m) \in Sound /\ QueuedBy(k, m).state = k.state
<1> DEFINE p == [op |-> m.op, num |-> m.num, data |-> m.data]
           q == [k.rcvq EXCEPT ![SlotOf(m.num)] = p]
           j == [k EXCEPT !.rcvq[SlotOf(m.num)] = p]
<1>1. /\ k \in Conns /\ ConnOK(k) /\ k.receivedNum \in Num /\ k.readNum \in Num /\ k.rcvq \in Queues
  BY DEF Sound, Conns
<1>2. m.num \in Num /\ m.data \in Data /\ SlotOf(m.num) \in 0..(Ring - 1)
  BY SlotType DEF Packets
<1>3. p \in Pkts /\ p.num = m.num
  BY <1>2 DEF Pkts
<1>4. QueuedBy(k, m) = AdvanceReceived(j)
  BY DEF QueuedBy
<1> HIDE DEF p
<1>5. Receiving(k.receivedNum, k.readNum, q)
  BY <1>1, <1>3, QueueOne DEF ConnOK, CanQueue
<1>6. j \in Conns
  BY <1>1, <1>2, <1>3 DEF Conns, Queues
<1>7. /\ j.receivedNum = k.receivedNum /\ j.readNum = k.readNum /\ j.rcvq = q /\ j.state = k.state
      /\ j.sentNum = k.sentNum /\ j.ackedNum = k.ackedNum /\ j.receiptNum = k.receiptNum
      /\ j.sendq = k.sendq
  BY <1>1 DEF Conns
<1> HIDE DEF j, q
<1>8. j \in Sound
  BY <1>1, <1>5, <1>6, <1>7 DEF Sound, ConnOK
<1> QED
  BY <1>4, <1>7, <1>8, AdvanceReceivedOK

\* conn_queue_input
LEMMA ConnQueueInputInside ==
  ASSUME NEW c, NEW h \in Slots, NEW K, NEW G, Inside(c, K, G), Closed(K, G),
         NEW m \in Packets, m.op \in {"DAT", "EOF"}, c.conns[h].state = "OPEN", Queueing(K, h, m)
  PROVE  Inside(ConnQueueInput(c, h, m), K, G)
<1> DEFINE k == c.conns[h]
           j == QueuedBy(k, m)
           d == [c EXCEPT !.conns[h] = j]
<1>1. k \in Sound /\ k \in K[h]
  BY ConnType DEF Inside
<1>2. CASE ~CanQueue(k, m)
  <2>1. ConnQueueInput(c, h, m) = ConnSendSts(c, h)
    BY <1>2 DEF ConnQueueInput, Acceptable, CanQueue
  <2> QED
    BY <2>1, TellInside
<1>3. CASE CanQueue(k, m)
  <2>1. j \in Sound /\ j.state = "OPEN" /\ j \in K[h]
    BY <1>1, <1>3, QueuedBySound DEF Queueing
  <2>2. ConnQueueInput(c, h, m) \in {d, ConnSendSts(d, h)}
    BY <1>3 DEF ConnQueueInput, Acceptable, CanQueue, QueuedBy
  <2> HIDE DEF j
  <2>3. Inside(d, K, G) /\ d.conns[h] = j
    BY <2>1, SetInside
  <2> HIDE DEF d
  <2>4. Inside(ConnSendSts(d, h), K, G)
    BY <2>1, <2>3, TellInside
  <2> QED
    BY <2>2, <2>3, <2>4
<1> QED
  BY <1>2, <1>3

(* What a packet may do: the answers to it, and its effect on a connection *)
(* that takes it.                                                          *)
Answers(m, G) ==
  /\ \A op \in {"ANS", "CLS"} : Packet(op, m.src, 0, 0, m.num, <<>>) \in G
  /\ Packet("LOS", m.src, m.dest, 0, 0, <<>>) \in G
Opening(K, h, m) ==
  \A k \in K[h] \cap Sound : k.state = "RFC_SENT" /\ k.localIndex = m.dest /\ m.op = "OPN" =>
    m.src # 0 /\ Opened(k, m.src, m.num, m.data[2]) \in K[h]
Windowing(K, h, m) ==
  \A k \in K[h] \cap Sound : k.state = "OPEN" /\ m.op = "STS" => Windowed(k, m.data[2]) \in K[h]
Acknowledges(K, h, m) ==
  /\ m.op \in {"DAT", "EOF", "SNS"} => Acking(K, h, m.ack, m.ack)
  /\ m.op \in {"OPN", "STS"} => Acking(K, h, m.ack, m.data[1])
Taking(K, h, m) ==
  Acknowledges(K, h, m) /\ Windowing(K, h, m) /\ (m.op \in {"DAT", "EOF"} => Queueing(K, h, m))

\* The connections of slot h that are with the sender of m
Narrow(K, h, m) ==
  [g \in Slots |-> IF g = h THEN {k \in K[g] : k.localIndex = m.dest /\ k.remoteIndex = m.src} ELSE K[g]]
Hearing(K, G, m) ==
  m \in Packets /\ Answers(m, G) /\ \A h \in Slots : Opening(K, h, m) /\ Taking(Narrow(K, h, m), h, m)

\* Who a connection is with changes only when it is opened
LEMMA NarrowClosed ==
  ASSUME NEW K, NEW G, Closed(K, G), NEW h \in Slots, NEW m
  PROVE  Closed(Narrow(K, h, m), G)
<1> DEFINE L == Narrow(K, h, m)
<1>1. ASSUME NEW g \in Slots, NEW k \in L[g]
      PROVE  k \in K[g] /\ k \in Conns
  BY <1>1 DEF Narrow, Closed
<1>2. ASSUME NEW g \in Slots, NEW k \in L[g], NEW j \in K[g],
             j.localIndex = k.localIndex, j.remoteIndex = k.remoteIndex
      PROVE  j \in L[g]
  BY <1>2 DEF Narrow
<1>3. ASSUME NEW g \in Slots
      PROVE  L[g] \subseteq Conns
  BY <1>1
<1> HIDE DEF L
<1>4. Noting(L)
  <2> SUFFICES ASSUME NEW g \in Slots, NEW k \in L[g], NEW j \in Sound, Alike(k, j)
               PROVE  j \in L[g]
    BY DEF Noting
  <2>1. k \in K[g] /\ k \in Conns
    BY <1>1
  <2>2. j \in K[g]
    BY <2>1 DEF Closed, Noting
  <2>3. j.localIndex = k.localIndex /\ j.remoteIndex = k.remoteIndex
    BY <2>1 DEF Alike, Conns
  <2> QED
    BY <1>2, <2>2, <2>3
<1>5. Telling(L, G) /\ Repeating(L, G)
  BY <1>1 DEF Closed, Telling, Repeating
<1>6. Ending(L)
  <2> SUFFICES ASSUME NEW g \in Slots, NEW k \in L[g] \cap Sound, NEW kind \in CloseKinds,
                      k.state \in {"RFC_SENT", "OPEN"}
               PROVE  Ended(k, kind) \in L[g]
    BY DEF Ending
  <2>1. k \in K[g] /\ k \in Conns
    BY <1>1
  <2>2. Ended(k, kind) \in K[g]
    BY <2>1 DEF Closed, Ending
  <2>3. Ended(k, kind).localIndex = k.localIndex /\ Ended(k, kind).remoteIndex = k.remoteIndex
    BY <2>1 DEF Ended, Conns
  <2> QED
    BY <1>2, <2>2, <2>3
<1>7. Finishing(L, G)
  <2> SUFFICES ASSUME NEW g \in Slots, NEW k \in L[g] \cap Sound, EndsStream(k)
               PROVE  WithEof(k) \in L[g] /\ Outgoing(k, EofPkt(k)) \in G
    BY DEF Finishing
  <2>1. k \in K[g] /\ k \in Conns
    BY <1>1
  <2>2. WithEof(k) \in K[g] /\ Outgoing(k, EofPkt(k)) \in G
    BY <2>1 DEF Closed, Finishing
  <2>3. WithEof(k).localIndex = k.localIndex /\ WithEof(k).remoteIndex = k.remoteIndex
    BY <2>1 DEF WithEof, Conns
  <2> QED
    BY <1>2, <2>2, <2>3
<1>8. Closed(L, G)
  BY <1>3, <1>4, <1>5, <1>6, <1>7 DEF Closed
<1> QED
  BY <1>8 DEF L

\* A core whose connection is with the sender is inside the narrower sets
LEMMA NarrowInside ==
  ASSUME NEW c, NEW K, NEW G, NEW h \in Slots, NEW m,
         Inside(c, K, G), c.conns[h].localIndex = m.dest, c.conns[h].remoteIndex = m.src
  PROVE  Inside(c, Narrow(K, h, m), G)
BY DEF Inside, Narrow

\* ... and what is inside those is inside the wider ones
LEMMA WideInside ==
  ASSUME NEW K, NEW h \in Slots, NEW m, NEW L, L = Narrow(K, h, m), NEW c, NEW G, Inside(c, L, G)
  PROVE  Inside(c, K, G) /\ c.conns[h].remoteIndex = m.src
BY DEF Inside, Narrow

\* handle_rfc and send_los_reply
LEMMA RepliesInside ==
  ASSUME NEW c, NEW K, NEW G, Inside(c, K, G), Closed(K, G), NEW m \in Packets, Answers(m, G)
  PROVE  Inside(HandleRfc(c, m), K, G) /\ Inside(SendLosReply(c, m), K, G)
<1> DEFINE op == IF m.data = <<"STATUS">> THEN "ANS" ELSE "CLS"
           p == Packet(op, m.src, 0, 0, m.num, <<>>)
           q == Packet("LOS", m.src, m.dest, 0, 0, <<>>)
<1>1. p \in G /\ q \in G /\ c \in Cores /\ c.out \in Seq(G) /\ G \subseteq Packets /\ Arps(G)
  BY DEF Answers, Inside, Closed
<1>2. HandleRfc(c, m) = SendRaw(c, p) /\ SendLosReply(c, m) = SendRaw(c, q)
  BY DEF HandleRfc, SendLosReply
<1>3. /\ HandleRfc(c, m) \in Cores /\ HandleRfc(c, m).conns = c.conns
      /\ SendLosReply(c, m) \in Cores /\ SendLosReply(c, m).conns = c.conns
  BY <1>1, RepliesOK
<1> HIDE DEF p, q
<1>4. SendRaw(c, p).out \in Seq(G) /\ SendRaw(c, q).out \in Seq(G)
  BY <1>1, SendRawInside
<1> QED
  BY <1>2, <1>3, <1>4 DEF Inside

\* arp_learn
LEMMA ArpLearnInside ==
  ASSUME NEW c, NEW K, NEW G, Inside(c, K, G), Closed(K, G)
  PROVE  Inside(ArpLearn(c), K, G)
<1>1. CASE c.arp
  BY <1>1 DEF ArpLearn
<1>2. CASE ~c.arp
  <2> DEFINE F == Relearned(c)
             a == [c EXCEPT !.arp = TRUE]
             S == {i \in Nat : Inside(F[i], K, G)}
  <2>1. F[0] = a /\ \A i \in 1..MaxConns : F[i] = Relearn(F[i - 1], i - 1)
    BY RelearnedIs
  <2>2. a \in Cores /\ a.conns = c.conns /\ a.out = c.out
    BY DEF Cores, Inside
  <2> HIDE DEF F, a
  <2>3. 0 \in S
    BY <2>1, <2>2 DEF Inside
  <2>4. ASSUME NEW i \in 1..MaxConns, i - 1 \in S
        PROVE  i \in S
    <3> DEFINE d == F[i - 1]
    <3>1. i \in Nat /\ i - 1 \in Slots /\ Inside(d, K, G)
      BY <2>4, SlotsType DEF Slots
    <3>2. F[i] = Relearn(d, i - 1)
      BY <2>1
    <3> HIDE DEF d
    <3>3. Inside(Relearn(d, i - 1), K, G)
      BY <3>1, ConnRetransmitInside DEF Relearn
    <3> QED
      BY <3>1, <3>2, <3>3
  <2>5. \A i \in 0..MaxConns : i \in S
    <3>1. MaxConns \in Nat
      BY SlotsType
    <3> HIDE DEF S
    <3> QED
      BY <2>3, <2>4, <3>1, LoopInduction
  <2>6. Inside(F[MaxConns], K, G)
    BY <2>5, SlotsType
  <2> QED
    BY <1>2, <2>6 DEF ArpLearn, F
<1> QED
  BY <1>1, <1>2

\* An answer to the RFC
LEMMA InputUnopenedInside ==
  ASSUME NEW c, NEW h \in Slots, NEW K, NEW G, Inside(c, K, G), Closed(K, G), NEW m, Hearing(K, G, m),
         c.conns[h].state = "RFC_SENT", c.conns[h].localIndex = m.dest
  PROVE  Inside(InputUnopened(c, h, m), K, G)
<1>1. m \in Packets /\ c \in Cores /\ c.conns[h] \in Sound /\ c.conns[h] \in Conns /\ c.conns[h] \in K[h]
  BY ConnType DEF Hearing, Inside
<1>2. CASE m.op = "OPN"
  <2> DEFINE k == Opened(c.conns[h], m.src, m.num, m.data[2])
             d == [c EXCEPT !.conns[h] = k]
             e == ConnProcessAck(d, h, m.ack, m.data[1])
             L == Narrow(K, h, m)
  <2>1. m.src \in Nat /\ m.num \in Num /\ m.ack \in Num /\ m.data[1] \in Num /\ m.data[2] \in Nat
    BY <1>1, <1>2 DEF Packets
  <2>2. k \in Sound /\ k.state = "OPEN"
    BY <1>1, <2>1, OpenedOK
  <2>3. InputUnopened(c, h, m) = ConnSendSts(e, h)
    BY <1>2 DEF InputUnopened, Replies, Opened
  <2>4. m.src # 0 /\ k \in K[h]
    BY <1>1, <1>2 DEF Hearing, Opening
  <2>5. k.remoteIndex = m.src /\ k.localIndex = m.dest
    BY <1>1 DEF Opened, Conns
  <2>6. Closed(L, G) /\ Acking(L, h, m.ack, m.data[1])
    BY <1>2, NarrowClosed DEF Hearing, Taking, Acknowledges
  <2> HIDE DEF k, L
  <2>7. Inside(d, K, G) /\ d.conns[h] = k
    BY <2>2, <2>4, SetInside
  <2> HIDE DEF d
  <2>8. Inside(d, L, G)
    BY <2>5, <2>7, NarrowInside DEF L
  <2>9. Inside(e, L, G)
    BY <2>1, <2>2, <2>6, <2>7, <2>8, ConnProcessAckInside
  <2> HIDE DEF e
  <2>10. e.conns[h].remoteIndex = m.src
    <3>1. L = Narrow(K, h, m)
      BY DEF L
    <3> QED
      BY <2>9, <3>1, WideInside
  <2>11. Inside(ConnSendSts(e, h), L, G)
    BY <2>4, <2>6, <2>9, <2>10, TellInside
  <2>12. L = Narrow(K, h, m)
    BY DEF L
  <2> QED
    BY <2>3, <2>11, <2>12, WideInside
<1>3. CASE m.op = "FWD"
  <2>1. InputUnopened(c, h, m) = ConnSetClosed(c, h, "LOS")
    BY <1>3 DEF InputUnopened, Replies
  <2> QED
    BY <2>1, ConnSetClosedInside DEF CloseKinds
<1>4. CASE m.op \in Replies \ {"FWD"}
  <2>1. InputUnopened(c, h, m) = ConnSetClosed(c, h, m.op) /\ m.op \in {"ANS", "CLS", "LOS"}
    BY <1>4 DEF InputUnopened, Replies
  <2>2. m.op \in CloseKinds
    BY <2>1 DEF CloseKinds
  <2> QED
    BY <2>1, <2>2, ConnSetClosedInside
<1>5. CASE m.op # "OPN" /\ m.op \notin Replies
  BY <1>5 DEF InputUnopened, Replies
<1> QED
  BY <1>2, <1>3, <1>4, <1>5 DEF Replies

\* A packet for an open connection, which takes what comes
LEMMA InputOpenInside ==
  ASSUME NEW c, NEW h \in Slots, NEW K, NEW G, Inside(c, K, G), Closed(K, G), NEW m \in Packets,
         Taking(K, h, m), NEW old, c.conns[h].state = "OPEN"
  PROVE  Inside(InputOpen(c, h, m, old), K, G)
<1> DEFINE acked == ConnProcessAck(c, h, m.ack, m.ack)
           told == WithWindow(c, h, m.data[2])
           sts == ConnProcessAck(told, h, m.ack, m.data[1])
<1>1. m.ack \in Num
  BY DEF Packets
<1>2. m.op \in {"DAT", "EOF", "SNS"} => Inside(acked, K, G)
  BY <1>1, ConnProcessAckInside DEF Taking, Acknowledges
<1>3. CASE m.op \in {"DAT", "EOF"}
  <2>1. InputOpen(c, h, m, old) = IfOpen(acked, h, ConnQueueInput(acked, h, m))
    BY <1>3 DEF InputOpen
  <2>2. Inside(acked, K, G)
    BY <1>2, <1>3
  <2> HIDE DEF acked
  <2>3. acked.conns[h].state = "OPEN" => Inside(ConnQueueInput(acked, h, m), K, G)
    BY <1>3, <2>2, ConnQueueInputInside DEF Taking
  <2> QED
    BY <2>1, <2>2, <2>3 DEF IfOpen
<1>4. CASE m.op = "STS"
  <2> DEFINE j == Windowed(c.conns[h], m.data[2])
  <2>1. InputOpen(c, h, m, old) = IfOpen(sts, h, ConnRetransmit(sts, h, old))
    BY <1>4 DEF InputOpen
  <2>2. m.data[1] \in Num /\ m.data[2] \in Nat
    BY <1>4 DEF Packets
  <2>3. c \in Cores /\ c.conns[h] \in Sound /\ c.conns[h] \in Conns /\ c.conns[h] \in K[h]
    BY ConnType DEF Inside
  <2>4. told = [c EXCEPT !.conns[h] = j] /\ told \in Cores
    BY <2>2, <2>3, WithWindowOK DEF WithWindow, Windowed, Cores
  <2>5. j.state = "OPEN"
    BY <2>3 DEF Windowed, Conns
  <2>6. told.conns[h] = j
    BY <2>3, <2>4 DEF Cores
  <2>7. j \in Sound /\ j \in K[h]
    BY <1>4, <2>3, <2>4, <2>6, ConnType DEF Taking, Windowing
  <2> HIDE DEF told, j
  <2>8. Inside(told, K, G)
    BY <2>4, <2>7, SetInside
  <2>9. Inside(sts, K, G)
    BY <1>1, <1>4, <2>2, <2>5, <2>6, <2>8, ConnProcessAckInside DEF Taking, Acknowledges
  <2> HIDE DEF sts
  <2> QED
    BY <2>1, <2>9, ConnRetransmitInside DEF IfOpen
<1>5. CASE m.op = "SNS"
  <2>1. InputOpen(c, h, m, old) = IfOpen(acked, h, ConnSendSts(acked, h))
    BY <1>5 DEF InputOpen
  <2>2. Inside(acked, K, G)
    BY <1>2, <1>5
  <2> HIDE DEF acked
  <2> QED
    BY <2>1, <2>2, TellInside DEF IfOpen
<1>6. CASE m.op = "OPN"
  <2>1. InputOpen(c, h, m, old) = ConnSendSts(c, h)
    BY <1>6 DEF InputOpen
  <2> QED
    BY <2>1, TellInside
<1>7. CASE m.op \in {"CLS", "LOS"}
  <2>1. InputOpen(c, h, m, old) = ConnSetClosed(c, h, m.op)
    BY <1>7 DEF InputOpen
  <2> QED
    BY <1>7, <2>1, ConnSetClosedInside DEF CloseKinds
<1>8. CASE m.op \notin {"DAT", "EOF", "STS", "SNS", "OPN", "CLS", "LOS"}
  BY <1>8 DEF InputOpen
<1> QED
  BY <1>3, <1>4, <1>5, <1>6, <1>7, <1>8

\* handle_chaos
LEMMA HandleChaosInside ==
  ASSUME NEW c, NEW K, NEW G, Inside(c, K, G), Closed(K, G), NEW m, Hearing(K, G, m), NEW old
  PROVE  Inside(HandleChaos(c, m, old), K, G)
<1> DEFINE h == m.dest % MaxConns
<1>1. m \in Packets /\ h \in Slots /\ Answers(m, G)
  BY SlotsType DEF Hearing, Packets, Slots
<1>2. Inside(HandleRfc(c, m), K, G) /\ Inside(SendLosReply(c, m), K, G)
  BY <1>1, RepliesInside
<1>3. \/ HandleChaos(c, m, old) \in {HandleRfc(c, m), SendLosReply(c, m), c}
      \/ Connects(c.conns[h], m) /\ HandleChaos(c, m, old) = HandleConn(c, h, m, old)
  BY DEF HandleChaos
<1> HIDE DEF h
<1>4. ASSUME Connects(c.conns[h], m)
      PROVE  Inside(HandleConn(c, h, m, old), K, G)
  <2>1. /\ c.conns[h].localIndex = m.dest
        /\ c.conns[h].state = "RFC_SENT" \/ c.conns[h].remoteIndex = m.src
    BY <1>4 DEF Connects
  <2>2. CASE c.conns[h].state = "RFC_SENT"
    <3>1. HandleConn(c, h, m, old) = InputUnopened(c, h, m)
      BY <2>2 DEF HandleConn
    <3> QED
      BY <1>1, <2>1, <2>2, <3>1, InputUnopenedInside
  <2>3. CASE c.conns[h].state = "OPEN"
    <3> DEFINE L == Narrow(K, h, m)
    <3>1. HandleConn(c, h, m, old) = InputOpen(c, h, m, old)
      BY <2>3 DEF HandleConn
    <3>2. Closed(L, G) /\ Inside(c, L, G) /\ Taking(L, h, m)
      BY <1>1, <2>1, <2>3, NarrowClosed, NarrowInside DEF Hearing
    <3> HIDE DEF L
    <3>3. Inside(InputOpen(c, h, m, old), L, G)
      BY <1>1, <2>3, <3>2, InputOpenInside
    <3>4. L = Narrow(K, h, m)
      BY DEF L
    <3> QED
      BY <1>1, <3>1, <3>3, <3>4, WideInside
  <2>4. CASE c.conns[h].state \notin {"RFC_SENT", "OPEN"}
    <3>1. HandleConn(c, h, m, old) \in {c, SendLosReply(c, m)}
      BY <2>4 DEF HandleConn
    <3> QED
      BY <1>2, <3>1
  <2> QED
    BY <2>2, <2>3, <2>4
<1> QED
  BY <1>2, <1>3, <1>4

\* chaos_core_input
LEMMA ChaosCoreInputInside ==
  ASSUME NEW c, NEW K, NEW G, Inside(c, K, G), Closed(K, G), NEW m, Hearing(K, G, m), NEW old
  PROVE  Inside(ChaosCoreInput(c, m, old), K, G)
<1> DEFINE d == ArpLearn(c)
           e == [d EXCEPT !.out = Append(@, ArpPacket("ARPREP"))]
<1>1. Inside(d, K, G)
  BY ArpLearnInside
<1>2. ChaosCoreInput(c, m, old) \in {e, d, HandleChaos(d, m, old)}
  BY DEF ChaosCoreInput
<1> HIDE DEF d
<1>3. Inside(e, K, G)
  <2>1. d \in Cores /\ d.out \in Seq(G) /\ ArpPacket("ARPREP") \in G /\ G \subseteq Packets
    BY <1>1 DEF Inside, Closed, Arps
  <2> DEFINE out == Append(d.out, ArpPacket("ARPREP"))
  <2>2. out \in Seq(G) /\ out \in Seq(Packets)
    BY <2>1, AppendProperties DEF Cores
  <2> HIDE DEF out
  <2>3. e \in Cores /\ e.conns = d.conns /\ e.out = out
    BY <2>1, <2>2 DEF Cores, out
  <2> HIDE DEF e
  <2> QED
    BY <1>1, <2>2, <2>3 DEF Inside
<1>4. Inside(HandleChaos(d, m, old), K, G)
  BY <1>1, HandleChaosInside
<1> HIDE DEF e
<1> QED
  BY <1>1, <1>2, <1>3, <1>4

\* The frames of a round, one after the other
LEMMA InputsInside ==
  ASSUME NEW c, NEW K, NEW G, Inside(c, K, G), Closed(K, G), NEW frames \in Seq(Packets),
         \A i \in 1..Len(frames) : Hearing(K, G, frames[i]), NEW old
  PROVE  Inside(Inputs(c, frames, old)[Len(frames)], K, G)
<1> DEFINE F == Inputs(c, frames, old)
           N == Len(frames)
           S == {i \in Nat : Inside(F[i], K, G)}
<1>1. N \in Nat
  BY LenProperties
<1>2. F[0] = c /\ \A i \in 1..N : F[i] = ChaosCoreInput(F[i - 1], frames[i], old)
  BY InputsIs
<1> HIDE DEF F
<1>3. 0 \in S
  BY <1>2
<1>4. ASSUME NEW i \in 1..N, i - 1 \in S
      PROVE  i \in S
  <2>1. i \in Nat /\ Inside(F[i - 1], K, G) /\ Hearing(K, G, frames[i])
    BY <1>1, <1>4
  <2>2. Inside(F[i], K, G)
    BY <1>2, <2>1, ChaosCoreInputInside
  <2> QED
    BY <2>1, <2>2
<1>5. \A i \in 0..N : i \in S
  <2> HIDE DEF S, N
  <2> QED
    BY <1>1, <1>3, <1>4, LoopInduction
<1> QED
  BY <1>1, <1>5 DEF F

---------------------------------------------------------------------------
(* Timers                                                                  *)

\* The rest of chaos_core_tick on a connection
LEMMA TickConnInside ==
  ASSUME NEW c, NEW h \in Slots, NEW K, NEW G, Inside(c, K, G), Closed(K, G),
         NEW old, NEW probe, NEW lonely, c.conns[h].state \in {"RFC_SENT", "OPEN"}
  PROVE  Inside(TickConn(c, h, old, probe, lonely), K, G)
<1> DEFINE sent == ConnRetransmit(c, h, old)
           told == IF sent.conns[h].ackDue THEN ConnSendSts(sent, h) ELSE sent
           sns == ConnSendUnc(told, h, "SNS", <<>>)
<1>1. Inside(sent, K, G) /\ sent.conns[h].state = c.conns[h].state
  BY ConnRetransmitInside
<1>2. CASE c.conns[h].state = "RFC_SENT"
  BY <1>1, <1>2 DEF TickConn
<1>3. CASE c.conns[h].state = "OPEN"
  <2>1. TickConn(c, h, old, probe, lonely) \in {told, sns}
    BY <1>3 DEF TickConn, ProbeIfWaiting
  <2> HIDE DEF sent
  <2>2. Inside(told, K, G) /\ told.conns[h].state = "OPEN"
    BY <1>1, <1>3, TellInside
  <2> HIDE DEF told
  <2>3. Inside(sns, K, G)
    BY <2>2, TellInside
  <2> HIDE DEF sns
  <2> QED
    BY <2>1, <2>2, <2>3
<1> QED
  BY <1>2, <1>3

\* chaos_core_tick
LEMMA TimersInside ==
  ASSUME NEW c, NEW h \in Slots, NEW K, NEW G, Inside(c, K, G), Closed(K, G),
         NEW d \in Ticks(c, h) \cup GivesUp(c, h) \cup Finishes(c, h)
  PROVE  Inside(d, K, G)
<1>1. CASE d \in Ticks(c, h)
  <2> DEFINE A == {TickConn(c, h, old, FALSE, FALSE) : old \in Ages(c)}
             B == {TickConn(c, h, old, probe, lonely) : old \in Ages(c), probe, lonely \in BOOLEAN}
             s == c.conns[h].state
  <2>1. Ticks(c, h) = CASE s = "RFC_SENT" -> A [] s = "OPEN" -> B [] OTHER -> {c}
    BY DEF Ticks
  <2>2. \/ s = "RFC_SENT" /\ Ticks(c, h) = A
        \/ s = "OPEN" /\ Ticks(c, h) = B
        \/ Ticks(c, h) = {c}
    <3> HIDE DEF A, B, s
    <3> QED
      BY <2>1
  <2>3. CASE s = "RFC_SENT" /\ Ticks(c, h) = A
    <3>1. PICK old, probe, lonely : d = TickConn(c, h, old, probe, lonely)
      BY <1>1, <2>3
    <3>2. c.conns[h].state \in {"RFC_SENT", "OPEN"}
      BY <2>3
    <3> QED
      BY <3>1, <3>2, TickConnInside
  <2>4. CASE s = "OPEN" /\ Ticks(c, h) = B
    <3>1. PICK old, probe, lonely : d = TickConn(c, h, old, probe, lonely)
      BY <1>1, <2>4
    <3>2. c.conns[h].state \in {"RFC_SENT", "OPEN"}
      BY <2>4
    <3> QED
      BY <3>1, <3>2, TickConnInside
  <2> HIDE DEF A, B, s
  <2> QED
    BY <1>1, <2>2, <2>3, <2>4
<1>2. CASE d \in GivesUp(c, h)
  <2>1. c.conns[h].state \in {"RFC_SENT", "OPEN"} /\ d = ConnSetClosed(c, h, "TIMEOUT")
    BY <1>2 DEF GivesUp, TickGiveUp
  <2> QED
    BY <2>1, ConnSetClosedInside DEF CloseKinds
<1>3. CASE d \in Finishes(c, h)
  <2>1. c.conns[h].state = "OPEN" /\ d = ConnCloseCls(c, h, "DONE")
    BY <1>3 DEF Finishes, TickFinish
  <2> QED
    BY <2>1, ConnCloseClsInside DEF CloseKinds
<1> QED
  BY <1>1, <1>2, <1>3

---------------------------------------------------------------------------
(* What the user of a connection calls                                     *)

\* Data and the wish to end stay inside
Carrying(K, G) ==
  \A h \in Slots : \A k \in K[h] \cap Sound : \A data \in Data :
    k.state = "OPEN" /\ SeqDiff(k.sentNum, k.ackedNum) < MaxWindow =>
      /\ Controlled(k, "DAT", data) \in K[h]
      /\ Outgoing(k, [op |-> "DAT", num |-> SeqInc(k.sentNum), data |-> data]) \in G
Wanting(K) == \A h \in Slots : \A k \in K[h] \cap Sound : k.state = "OPEN" => [k EXCEPT !.eofWanted = TRUE] \in K[h]

\* How many packets chaos_send sends
LEMMA SendsFit ==
  ASSUME NEW c \in Cores, NEW h \in Slots, NEW data \in Data
  PROVE  LET n == ChaosAccepts(c, h, data)
         IN /\ n \in 0..Len(data) /\ Pieces(n) \in Nat
            /\ \A i \in 1..Pieces(n) :
                 /\ c.conns[h].state = "OPEN" /\ Piece(data, i, n) \in Data
                 /\ SeqDiff(c.conns[h].sentNum, c.conns[h].ackedNum) + i <= MaxWindow
<1> DEFINE k == c.conns[h]
           w == ConnWindowAvailable(k)
           d0 == SeqDiff(k.sentNum, k.ackedNum)
           room == ChaosSendRoom(c, h)
           n == ChaosAccepts(c, h, data)
           v == IF CanSend(k) /\ w > 0 THEN w ELSE 0
<1>1. k.sentNum \in Num /\ k.ackedNum \in Num /\ k.remoteWindow \in 0..MaxWindow
  BY ConnType DEF Conns
<1>2. d0 \in Nat /\ w = k.remoteWindow - d0 /\ w \in Int
  BY <1>1, DiffType, Sizes DEF ConnWindowAvailable
<1>3. Len(data) \in Nat
  BY LenProperties DEF Data
<1>4. v \in Nat /\ room = v * MaxData /\ (v # 0 => d0 + v <= MaxWindow /\ k.state = "OPEN") /\ room \in Nat
  <2> HIDE DEF w, d0
  <2>1. v \in Nat /\ (v # 0 => d0 + v <= MaxWindow /\ k.state = "OPEN")
    BY <1>1, <1>2, Sizes DEF CanSend
  <2>2. room = v * MaxData
    BY SizeAssumption DEF ChaosSendRoom, w
  <2> QED
    BY <2>1, <2>2, SizeAssumption
<1>5. n \in 0..Len(data) /\ n <= v * MaxData
  <2>1. n = Least(Len(data), room)
    BY DEF ChaosAccepts
  <2> HIDE DEF room, n, v
  <2>2. n \in {Len(data), room} /\ n <= Len(data) /\ n <= room
    BY <1>3, <1>4, <2>1, LeastIs
  <2> QED
    BY <1>3, <1>4, <2>2
<1> HIDE DEF n, v
<1>6. Pieces(n) \in 0..v /\ \A i \in 1..Pieces(n) : (i - 1) * MaxData < n
  BY <1>3, <1>4, <1>5, PiecesFit
<1>7. ASSUME NEW i \in 1..Pieces(n)
      PROVE  k.state = "OPEN" /\ Piece(data, i, n) \in Data /\ d0 + i <= MaxWindow
  <2>1. i \in Nat \ {0} /\ i <= v /\ v # 0
    BY <1>4, <1>6
  <2>2. Piece(data, i, n) \in Data
    BY <1>5, <1>6, <2>1, PieceType
  <2> HIDE DEF d0
  <2> QED
    BY <1>2, <1>4, <2>1, <2>2, Sizes
<1>8. Pieces(n) \in Nat
  BY <1>4, <1>6
<1> QED
  BY <1>5, <1>7, <1>8 DEF n

\* chaos_send
LEMMA ChaosSendInside ==
  ASSUME NEW c, NEW h \in Slots, NEW K, NEW G, Inside(c, K, G), Closed(K, G), Carrying(K, G), NEW data \in Data
  PROVE  Inside(ChaosSend(c, h, data), K, G)
<1> DEFINE k == c.conns[h]
           d0 == SeqDiff(k.sentNum, k.ackedNum)
           n == ChaosAccepts(c, h, data)
           N == Pieces(n)
           F == SendPieces(c, h, data, n)
<1>1. c \in Cores /\ k.sentNum \in Num /\ k.ackedNum \in Num
  BY ConnType DEF Inside, Conns
<1>2. N \in Nat /\ \A i \in 1..N : k.state = "OPEN" /\ Piece(data, i, n) \in Data /\ d0 + i <= MaxWindow
  BY <1>1, SendsFit
<1>3. ChaosSend(c, h, data) = F[N]
  BY DEF ChaosSend
<1> HIDE DEF n
<1>4. F[0] = c /\ \A i \in 1..N : F[i] = ConnSendControlled(F[i - 1], h, "DAT", Piece(data, i, n))
  BY <1>2, SendPiecesIs
<1>5. d0 \in Nat
  BY <1>1, DiffType
<1> HIDE DEF F, N
<1> DEFINE Good(i) == /\ Inside(F[i], K, G) /\ F[i].conns[h].state = k.state
                      /\ SeqDiff(F[i].conns[h].sentNum, F[i].conns[h].ackedNum) = d0 + i
           S == {i \in Nat : Good(i)}
<1>6. 0 \in S
  BY <1>4, <1>5
<1>7. ASSUME NEW i \in 1..N, i - 1 \in S
      PROVE  i \in S
  <2> DEFINE e == F[i - 1]
             p == Piece(data, i, n)
             d == ConnSendControlled(e, h, "DAT", p)
             j == e.conns[h]
  <2>1. i \in Nat /\ Inside(e, K, G) /\ j.state = "OPEN" /\ SeqDiff(j.sentNum, j.ackedNum) = d0 + (i - 1)
        /\ p \in Data /\ d0 + i <= MaxWindow /\ k.state = "OPEN"
    BY <1>2, <1>7
  <2>2. F[i] = d
    BY <1>4
  <2> HIDE DEF d0, e, p
  <2>3. SeqDiff(j.sentNum, j.ackedNum) < MaxWindow
    BY <1>5, <2>1, Sizes
  <2>4. e \in Cores /\ e.out \in Seq(G) /\ j \in K[h] /\ j \in Sound /\ G \subseteq Packets /\ Arps(G) /\ Noting(K)
        /\ \A g \in Slots : e.conns[g] \in K[g]
    BY <2>1, ConnType DEF Inside, Closed
  <2>5. /\ Controlled(j, "DAT", p) \in K[h]
        /\ Outgoing(j, [op |-> "DAT", num |-> SeqInc(j.sentNum), data |-> p]) \in G
    BY <2>1, <2>3, <2>4 DEF Carrying
  <2>6. /\ d \in Cores /\ d.conns[h] \in Sound /\ Alike(Controlled(j, "DAT", p), d.conns[h])
        /\ (\A g \in Slots \ {h} : d.conns[g] = e.conns[g]) /\ d.out \in Seq(G)
    BY <2>1, <2>3, <2>4, <2>5, ConnSendControlledIs
  <2>7. d.conns[h].state = j.state /\ SeqDiff(d.conns[h].sentNum, d.conns[h].ackedNum) = (d0 + (i - 1)) + 1
    BY <2>1, <2>3, <2>4, ConnSendControlledOK
  <2> HIDE DEF d
  <2>8. d.conns[h] \in K[h]
    BY <2>4, <2>5, <2>6 DEF Noting
  <2>9. Inside(d, K, G)
    BY <2>4, <2>6, <2>8 DEF Inside
  <2>10. (d0 + (i - 1)) + 1 = d0 + i
    BY <1>5, <2>1
  <2> QED
    BY <2>1, <2>2, <2>7, <2>9, <2>10 DEF d0
<1>8. \A i \in 0..N : i \in S
  <2> HIDE DEF S
  <2> QED
    BY <1>2, <1>6, <1>7, LoopInduction
<1>9. Good(N)
  BY <1>2, <1>8
<1> QED
  BY <1>3, <1>9

\* chaos_finish
LEMMA ChaosFinishInside ==
  ASSUME NEW c, NEW h \in Slots, NEW K, NEW G, Inside(c, K, G), Closed(K, G), Wanting(K)
  PROVE  Inside(ChaosFinish(c, h), K, G)
<1> DEFINE k == c.conns[h]
           j == [k EXCEPT !.eofWanted = TRUE]
           d == [c EXCEPT !.conns[h] = j]
<1>1. c \in Cores /\ k \in Sound /\ k \in K[h]
  BY ConnType DEF Inside
<1>2. CASE ~CanSend(k)
  BY <1>2 DEF ChaosFinish
<1>3. CASE CanSend(k)
  <2>1. j \in Sound /\ j \in K[h]
    BY <1>1, <1>3 DEF Wanting, CanSend, Sound, Conns, ConnOK
  <2>2. ChaosFinish(c, h) = ConnMaybeSendEof(d, h)
    BY <1>1, <1>3 DEF ChaosFinish, Cores
  <2> HIDE DEF j
  <2>3. Inside(d, K, G)
    BY <2>1, SetInside
  <2> HIDE DEF d
  <2> QED
    BY <2>2, <2>3, ConnMaybeSendEofInside
<1> QED
  BY <1>2, <1>3

\* chaos_release
LEMMA ChaosReleaseInside ==
  ASSUME NEW c, NEW h \in Slots, NEW K, NEW G, Inside(c, K, G), Closed(K, G), FreeConn \in K[h]
  PROVE  Inside(ChaosRelease(c, h), K, G) /\ ChaosRelease(c, h).uniquizer = c.uniquizer
<1> DEFINE e == IF c.conns[h].state = "OPEN" THEN ConnSendUnc(c, h, "CLS", <<>>) ELSE c
           d == [e EXCEPT !.conns[h] = FreeConn]
<1>1. c \in Cores /\ <<>> \in Data /\ "CLS" \in Ops
  BY EmptyType DEF Inside, Ops
<1>2. Touches(c, ConnSendUnc(c, h, "CLS", <<>>), h)
  BY <1>1, ConnSendUncOK
<1>3. c.conns[h].state = "OPEN" => Inside(ConnSendUnc(c, h, "CLS", <<>>), K, G)
  BY TellInside
<1>4. Inside(e, K, G) /\ e.uniquizer = c.uniquizer
  BY <1>2, <1>3 DEF Touches
<1>5. ChaosRelease(c, h) = d
  BY DEF ChaosRelease
<1> HIDE DEF e
<1>6. Inside(d, K, G)
  BY <1>4, FreeIsSound, SetInside
<1>7. d.uniquizer = e.uniquizer
  BY <1>4, FreeIsSound, SetConn DEF Inside
<1> QED
  BY <1>4, <1>5, <1>6, <1>7

====
