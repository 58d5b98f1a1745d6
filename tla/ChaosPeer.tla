------------------------------ MODULE ChaosPeer ------------------------------
(***************************************************************************)
(* The other end: the NCP of the guest (Lisp, outside this repository) and *)
(* the servers that use it, as chaos-core.c relies on them and as the      *)
(* automatic peer of chaosd-test.c imitates them.                          *)
(***************************************************************************)
EXTENDS ChaosCore

CONSTANTS
  PeerWindow,      \* the window the peer offers
  PeerFirst,       \* the packet number of its OPN
  PacketBytes      \* bytes in each of its packets

ASSUME PeerAssumption ==
  /\ PeerWindow \in Nat \ {0} /\ PeerFirst \in 0..(PktSpace - 1)
  /\ PacketBytes \in Nat \ {0}

VARIABLES
  peers    \* the peer's connections, oldest first; the position is the index

Peer(m) ==
  [state |-> "OPEN", remote |-> m.src, contact |-> m.data, sentNum |-> PeerFirst,
   ackedNum |-> (PeerFirst - 1) % PktSpace, receiptNum |-> (PeerFirst - 1) % PktSpace,
   readNum |-> m.num, receivedNum |-> m.num, rcvq |-> {}, got |-> <<>>,
   eofRead |-> FALSE, eofSent |-> FALSE, wrote |-> 0]

\* Of a closed connection only what its user did is of interest.
PeerClosed(p) ==
  [p EXCEPT !.state = "CLOSED", !.sentNum = 0, !.ackedNum = 0, !.receiptNum = 0, !.readNum = 0,
            !.receivedNum = 0, !.rcvq = {}, !.eofSent = FALSE]

\* The bytes a server writes: they name their connection and their place.
PeerByte(i, n) == 100 * i + n
PeerBytes(i, n) == [j \in 1..PacketBytes |-> PeerByte(i, (n - 1) * PacketBytes + j)]
PeerWrote(i) == [n \in 1..(peers[i].wrote * PacketBytes) |-> PeerByte(i, n)]

PeerPacket(i, p, op, num, data) == Packet(op, p.remote, i, num, p.readNum, data)
PeerSts(i, p) == PeerPacket(i, p, "STS", 0, <<p.receivedNum, PeerWindow>>)

\* The controlled packet with number n, as it was or is again sent.
PeerControlled(i, p, n) ==
  LET d == SeqDiff(n, PeerFirst)
  IN IF d = 0 THEN PeerPacket(i, p, "OPN", n, <<p.receivedNum, PeerWindow>>)
     ELSE IF d <= p.wrote THEN PeerPacket(i, p, "DAT", n, PeerBytes(i, d))
     ELSE PeerPacket(i, p, "EOF", n, <<>>)

PeerAcked(p, ack, receipt) ==
  [p EXCEPT !.ackedNum = IF SeqLt(@, ack) THEN ack ELSE @,
            !.receiptNum = IF SeqLt(@, receipt) THEN receipt ELSE @]

PeerQueued(p, m) ==
  LET q == IF SeqLt(p.receivedNum, m.num) /\ SeqDiff(m.num, p.readNum) <= PeerWindow
             THEN p.rcvq \cup {[op |-> m.op, num |-> m.num, data |-> m.data]} ELSE p.rcvq
      have(n) == \E x \in q : x.num = n
      last == Max({n \in 0..PeerWindow : \A j \in 1..n : have((p.receivedNum + j) % PktSpace)})
  IN [p EXCEPT !.rcvq = q, !.receivedNum = (@ + last) % PktSpace]

\* A finished server's connection ends with CLS when its EOF is acknowledged.
PeerDone(p) == p.eofSent /\ p.ackedNum = p.sentNum
PeerStep(i, p, out) ==
  IF PeerDone(p) /\ p.state = "OPEN"
    THEN /\ peers' = [peers EXCEPT ![i] = PeerClosed(p)]
         /\ toCore' = Append(toCore, PeerPacket(i, p, "CLS", 0, <<>>))
    ELSE peers' = [peers EXCEPT ![i] = p] /\ toCore' = toCore \o out

PeerAnswers(m) ==
  /\ toCore' = Append(toCore, m)
  /\ UNCHANGED peers

PeerRfc(m) ==
  \/ /\ \A i \in DOMAIN peers : peers[i].remote # m.src \/ peers[i].state # "OPEN"
     /\ \/ /\ Len(peers) < scope.peers
           /\ peers' = Append(peers, Peer(m))
           /\ toCore' = Append(toCore, PeerControlled(Len(peers) + 1, Peer(m), PeerFirst))
        \/ \E op \in {"CLS", "ANS"} : PeerAnswers(Packet(op, m.src, 0, 0, m.num, <<>>))
  \/ /\ \E i \in DOMAIN peers : peers[i].remote = m.src /\ peers[i].state = "OPEN"
     /\ UNCHANGED <<peers, toCore>>

PeerConnected(i, m) ==
  LET p == peers[i]
      acked == PeerAcked(p, m.ack, m.ack)
  IN CASE m.op \in {"DAT", "EOF"} ->
            LET q == PeerQueued(acked, m)
            IN PeerStep(i, q, IF m.num = q.receivedNum THEN <<>> ELSE <<PeerSts(i, q)>>)
       [] m.op = "STS" -> PeerStep(i, PeerAcked(p, m.ack, m.data[1]), <<>>)
       [] m.op = "SNS" -> PeerStep(i, acked, <<PeerSts(i, acked)>>)
       [] OTHER -> PeerStep(i, PeerClosed(p), <<>>)

\* A packet for chaosd's own STATUS server or for no connection.
PeerUnconnected(m) ==
  IF m.op \in Replies THEN UNCHANGED <<peers, toCore>>
  ELSE PeerAnswers(Packet("LOS", m.src, m.dest, 0, 0, <<>>))

PeerHandles(m) ==
  IF ~alive \/ m.op = "ARPREP" THEN UNCHANGED <<peers, toCore>>
  ELSE IF m.op = "ARPREQ" THEN PeerAnswers(ArpPacket("ARPREP"))
  ELSE IF m.op = "RFC" THEN PeerRfc(m)
  ELSE IF m.dest \in DOMAIN peers /\ peers[m.dest].state = "OPEN" /\ peers[m.dest].remote = m.src
    THEN PeerConnected(m.dest, m)
  ELSE PeerUnconnected(m)

PeerInTime ==
  /\ toPeer # <<>> /\ PeerHandles(Head(toPeer)) /\ toPeer' = Tail(toPeer)
  /\ UNCHANGED <<core, late, faults, alive>>
PeerLate ==
  /\ \E e \in late : e[1] = "peer" /\ PeerHandles(e[2]) /\ late' = late \ {e}
  /\ UNCHANGED <<core, toPeer, faults, alive>>

PeerOpen(i) == alive /\ peers[i].state = "OPEN"
PeerLocal == UNCHANGED <<core, toPeer, late, faults, alive>>

\* The server reads a packet.
PeerRead(i) ==
  LET p == peers[i]
      n == SeqInc(p.readNum)
      read == CHOOSE x \in p.rcvq : x.num = n
      q == [p EXCEPT !.readNum = n, !.rcvq = @ \ {read}, !.got = @ \o read.data,
                     !.eofRead = read.op = "EOF"]
  IN PeerOpen(i) /\ p.readNum # p.receivedNum /\ PeerStep(i, q, <<PeerSts(i, q)>>) /\ PeerLocal

CanWrite(p) == ~p.eofSent /\ SeqDiff(p.sentNum, p.ackedNum) < LocalWindow

PeerWrite(i) ==
  LET p == peers[i]
      q == [p EXCEPT !.wrote = @ + 1, !.sentNum = SeqInc(@)]
  IN /\ PeerOpen(i) /\ CanWrite(p) /\ p.wrote < scope.packets
     /\ PeerStep(i, q, <<PeerControlled(i, q, q.sentNum)>>) /\ PeerLocal

PeerFinish(i) ==
  LET p == peers[i]
      q == [p EXCEPT !.eofSent = TRUE, !.sentNum = SeqInc(@)]
  IN PeerOpen(i) /\ CanWrite(p) /\ PeerStep(i, q, <<PeerControlled(i, q, q.sentNum)>>) /\ PeerLocal

\* Its timers, on every connection: what has no receipt again, and a probe.
PeerAgain(i, p) ==
  LET again == After(p.receiptNum, p.sentNum)
  IN Append([j \in DOMAIN again |-> PeerControlled(i, p, again[j])], PeerPacket(i, p, "SNS", 0, <<>>))
PeerTick ==
  /\ NetworkQuiet /\ \E i \in DOMAIN peers : PeerOpen(i)
  /\ toCore' = FlattenSeq([i \in DOMAIN peers |-> IF PeerOpen(i) THEN PeerAgain(i, peers[i]) ELSE <<>>])
  /\ UNCHANGED peers /\ PeerLocal

\* It asks chaosd itself (here: before chaosd has heard of it).
PeerAsks ==
  /\ alive /\ NetworkQuiet /\ ~core.arp /\ late = {}
  /\ \E contact \in {"STATUS", "TELNET"} :
       toCore' = <<Packet("RFC", 0, scope.peers + 1, PeerFirst, 0, <<contact>>)>>
  /\ UNCHANGED peers /\ PeerLocal

PeerDies ==
  /\ scope.dies /\ alive /\ alive' = FALSE
  /\ peers' = [i \in DOMAIN peers |-> PeerClosed(peers[i])]
  /\ UNCHANGED <<core, netVars>>
===========================================================================
