------------------------- MODULE ChaosDeliveryProofs -------------------------
(***************************************************************************)
(* What a client gets of its connection: the bytes the peer wrote on it,   *)
(* from the first, in order and none twice, and all that were received     *)
(* before its socket is closed.  A packet may be late for any time, so     *)
(* this holds as long as no number and no index is used for two things:    *)
(* the peer writes fewer packets than there are numbers, and there are     *)
(* fewer sessions than uniquizers.                                         *)
(***************************************************************************)
EXTENDS ChaosRoutineProofs

NumbersLast == \A s \in Scopes : s.packets + LocalWindow + 1 < PktSpace
SessionsLast == \A s \in Scopes : Len(s.sessions) + 1 < UniqSpace

(* How far a number is in the peer's stream: 0 is its OPN. *)
Place(n) == SeqDiff(n, PeerFirst)
\* The peer writes no more, the last packet it has or will have sent
Final(p) == p.eofSent \/ p.state # "OPEN"
Reach(p) == IF Final(p) THEN p.wrote + 1 ELSE p.wrote
LastSent(p) == IF p.eofSent THEN p.wrote + 1 ELSE p.wrote

(* Bytes of the peer's stream *)
At(j) == j * PacketBytes
Most(a, b) == IF a >= b THEN a ELSE b
Holding(data, i, a, b) == Len(data) = b - a /\ \A j \in 1..(b - a) : data[j] = PeerByte(i, a + j)

\* What was read are n bytes: a packet in the receive ring of a connection with peer i
Fits(p, i, q, n) ==
  \/ p.op = "none"
  \/ /\ p.op = "DAT" /\ Place(p.num) \in 1..q.wrote
     /\ Holding(p.data, i, Most(n, At(Place(p.num) - 1)), At(Place(p.num)))
  \/ p.op = "EOF" /\ Place(p.num) = q.wrote + 1 /\ Final(q)

\* A connection is where its numbers say in the stream of its peer
Follows(k, i, q, n) ==
  /\ Place(k.readNum) <= Place(k.receivedNum) /\ Place(k.receivedNum) <= Reach(q)
  /\ \A s \in 0..(Ring - 1) : Fits(k.rcvq[s], i, q, n)
  /\ k.eofReceived => Place(k.readNum) = q.wrote + 1
  /\ At(Least(Place(k.readNum), q.wrote)) <= n
  /\ n <= At(Least(Place(k.readNum) + 1, Least(Place(k.receivedNum), q.wrote)))

(***************************************************************************)
(* What the rest of the system is, as a connection sees it: the peer's     *)
(* connections, the indices in use and those not yet used, the session,    *)
(* the peer's index it must have, the bytes read, and a number it has      *)
(* received.                                                               *)
(***************************************************************************)
ViewOK(v) ==
  /\ PeersOK(v.ps)
  /\ \A i \in DOMAIN v.ps :
       /\ v.ps[i].wrote + LocalWindow + 1 < PktSpace /\ v.ps[i].remote < v.top
       /\ v.ps[i].remote \in v.mine => v.ps[i].contact = <<v.ses>>
  /\ v.top \in Nat /\ v.ses \in Nat /\ v.n \in Nat /\ v.low \in Nat
  /\ \A x \in v.mine : x \in Nat /\ x < v.top
  /\ (v.who = Nat /\ v.n = 0 /\ v.low = 0) \/ 0 \notin v.who

Asking(q, ses) == \A s \in 0..(Ring - 1) : q[s].op = "RFC" => q[s].data = <<ses>>
Unopened(k) ==
  /\ k.remoteIndex = 0 /\ k.state \in {"RFC_SENT", "CLOSED"} /\ ~k.eofReceived
  /\ \A s \in 0..(Ring - 1) : k.sendq[s].op \in {"none", "RFC"} /\ k.rcvq[s].op = "none"
Joined(k, v) ==
  /\ k.remoteIndex \in DOMAIN v.ps /\ k.state \in {"OPEN", "CLOSED"}
  /\ v.ps[k.remoteIndex].remote = k.localIndex
  /\ Follows(k, k.remoteIndex, v.ps[k.remoteIndex], v.n) /\ v.low <= Place(k.receivedNum)
Known(k, v) ==
  \/ k.state = "FREE" /\ k.remoteIndex = 0
  \/ /\ k.state # "FREE" /\ k.localIndex \in v.mine /\ k.remoteIndex \in v.who
     /\ Asking(k.sendq, v.ses) /\ (Unopened(k) \/ Joined(k, v))
Kept(v) == [h \in Slots |-> {k \in Conns : Known(k, v)}]

\* A packet that chaosd may have sent
ForPeer(m, v) ==
  /\ m.op = "RFC" => m.src < v.top /\ (m.src \in v.mine => m.data = <<v.ses>>)
  /\ m.op \in {"DAT", "EOF", "STS", "SNS"} =>
       m.dest \in DOMAIN v.ps /\ Place(m.ack) <= Reach(v.ps[m.dest])
  /\ m.op = "STS" => Place(m.data[1]) <= Reach(v.ps[m.dest])
Sent(v) == {m \in Packets : ForPeer(m, v)}

\* A packet that the peer may have sent
FromPeer(m, ps) ==
  /\ m.op = "OPN" => m.src \in DOMAIN ps /\ m.num = PeerFirst /\ m.dest = ps[m.src].remote
  /\ m.op = "DAT" => /\ m.src \in DOMAIN ps /\ Place(m.num) \in 1..ps[m.src].wrote
                     /\ Holding(m.data, m.src, At(Place(m.num) - 1), At(Place(m.num)))
  /\ m.op = "EOF" => /\ m.src \in DOMAIN ps /\ Place(m.num) = ps[m.src].wrote + 1
                     /\ Final(ps[m.src])

---------------------------------------------------------------------------
(* Places in the stream                                                    *)

\* Bytes before a packet
LEMMA AtIs ==
  /\ At(0) = 0
  /\ \A j \in Nat : At(j) \in Nat /\ At(j + 1) = At(j) + PacketBytes
<1>1. PacketBytes \in Nat
  BY PeerSizes
<1> QED
  BY <1>1 DEF At

\* Packets in order
LEMMA AtGrows ==
  ASSUME NEW a \in Nat, NEW b \in Nat, a <= b
  PROVE  At(a) <= At(b) /\ At(a) \in Nat /\ At(b) \in Nat
<1>1. PacketBytes \in Nat
  BY PeerSizes
<1>2. PICK d \in Nat : b = a + d
  BY DEF At
<1>3. b * PacketBytes = a * PacketBytes + d * PacketBytes /\ d * PacketBytes \in Nat /\ a * PacketBytes \in Nat
  BY <1>1, <1>2
<1> QED
  BY <1>3 DEF At

\* A place is a number
LEMMA PlaceType ==
  ASSUME NEW n \in Num
  PROVE  Place(n) \in Nat /\ Place(n) < PktSpace
BY DiffType, PeerSizes DEF Place

\* The place of what is not far behind
LEMMA PlaceAfter ==
  ASSUME NEW a \in Num, NEW b \in Num, Place(a) + SeqDiff(b, a) < PktSpace
  PROVE  Place(b) = Place(a) + SeqDiff(b, a)
BY DiffAdd, PeerSizes DEF Place

\* The places of a peer
LEMMA ReachType ==
  ASSUME NEW p, PeerOK(p)
  PROVE  /\ p.wrote \in Nat /\ Reach(p) \in p.wrote..(p.wrote + 1) /\ LastSent(p) \in p.wrote..(p.wrote + 1)
         /\ Reach(p) = p.wrote + 1 <=> Final(p)
<1>1. p.wrote \in Nat
  BY PeerFields
<1> QED
  BY <1>1 DEF Reach, LastSent

---------------------------------------------------------------------------
(* The sets are closed under the steps of the core                         *)

\* The view's parts
LEMMA ViewPeers ==
  ASSUME NEW v, ViewOK(v)
  PROVE  /\ Len(v.ps) \in Nat /\ DOMAIN v.ps = 1..Len(v.ps) /\ 0 \notin DOMAIN v.ps
         /\ \A i \in DOMAIN v.ps :
              /\ PeerOK(v.ps[i]) /\ v.ps[i].wrote \in Nat /\ Reach(v.ps[i]) \in Nat
              /\ Reach(v.ps[i]) <= v.ps[i].wrote + 1 /\ v.ps[i].wrote <= Reach(v.ps[i])
              /\ v.ps[i].wrote + LocalWindow + 1 < PktSpace
<1>1. PeersOK(v.ps)
  BY DEF ViewOK
<1>2. Len(v.ps) \in Nat /\ DOMAIN v.ps = 1..Len(v.ps)
  BY <1>1, PeersDomain
<1>3. ASSUME NEW i \in DOMAIN v.ps
      PROVE  /\ PeerOK(v.ps[i]) /\ v.ps[i].wrote \in Nat /\ Reach(v.ps[i]) \in Nat
             /\ Reach(v.ps[i]) <= v.ps[i].wrote + 1 /\ v.ps[i].wrote <= Reach(v.ps[i])
             /\ v.ps[i].wrote + LocalWindow + 1 < PktSpace
  <2>1. PeerOK(v.ps[i])
    BY <1>1, <1>3 DEF PeersOK
  <2>2. v.ps[i].wrote \in Nat /\ Reach(v.ps[i]) \in v.ps[i].wrote..(v.ps[i].wrote + 1)
    BY <2>1, ReachType
  <2>3. v.ps[i].wrote + LocalWindow + 1 < PktSpace
    BY <1>3 DEF ViewOK
  <2> QED
    BY <2>1, <2>2, <2>3
<1> QED
  BY <1>2, <1>3

\* A connection that received the same things knows the same
SameInput(k, j) ==
  /\ j.state = k.state /\ j.localIndex = k.localIndex /\ j.remoteIndex = k.remoteIndex
  /\ j.readNum = k.readNum /\ j.receivedNum = k.receivedNum
  /\ j.rcvq = k.rcvq /\ j.eofReceived = k.eofReceived
LEMMA KnownSame ==
  ASSUME NEW v, ViewOK(v), NEW k, NEW j, Known(k, v), SameInput(k, j),
         \A s \in 0..(Ring - 1) :
           \/ j.sendq[s] = k.sendq[s] \/ j.sendq[s].op = "none"
           \/ k.state = "OPEN" /\ j.sendq[s].op # "RFC"
  PROVE  Known(j, v)
<1>1. CASE k.state = "FREE"
  BY <1>1 DEF Known, SameInput
<1>2. CASE k.state # "FREE"
  <2>1. Asking(j.sendq, v.ses)
    BY <1>2 DEF Known, Asking
  <2>2. Unopened(k) => Unopened(j)
    BY DEF Unopened, SameInput
  <2>3. Joined(k, v) => Joined(j, v)
    BY DEF Joined, SameInput, Follows
  <2> QED
    BY <1>2, <2>1, <2>2, <2>3 DEF Known, SameInput
<1> QED
  BY <1>1, <1>2

\* A member of the sets
LEMMA KeptIs ==
  ASSUME NEW v, NEW h \in Slots, NEW k
  PROVE  k \in Kept(v)[h] <=> k \in Conns /\ Known(k, v)
BY DEF Kept

\* An open connection has a peer
LEMMA OpenIsJoined ==
  ASSUME NEW v, ViewOK(v), NEW k, Known(k, v), k.state = "OPEN" \/ k.remoteIndex # 0
  PROVE  Joined(k, v) /\ k.remoteIndex # 0
<1>1. Joined(k, v)
  BY DEF Known, Unopened
<1> QED
  BY <1>1, ViewPeers DEF Joined

\* What a connection acknowledges
LEMMA ReadWithin ==
  ASSUME NEW v, ViewOK(v), NEW k \in Conns, Joined(k, v)
  PROVE  /\ Place(k.readNum) \in Nat /\ Place(k.receivedNum) \in Nat
         /\ Place(k.readNum) <= Reach(v.ps[k.remoteIndex]) /\ Place(k.receivedNum) <= Reach(v.ps[k.remoteIndex])
<1>1. k.readNum \in Num /\ k.receivedNum \in Num
  BY DEF Conns
<1>2. Place(k.readNum) \in Nat /\ Place(k.receivedNum) \in Nat
  BY <1>1, PlaceType
<1>3. Reach(v.ps[k.remoteIndex]) \in Nat
  BY ViewPeers DEF Joined
<1> QED
  BY <1>2, <1>3 DEF Joined, Follows

\* A packet of a connection that has a peer
LEMMA JoinedSends ==
  ASSUME NEW v, ViewOK(v), NEW k \in Sound, Joined(k, v), NEW p \in Pkts, p.op \in {"DAT", "EOF"}
  PROVE  Outgoing(k, p) \in Sent(v)
<1>1. Outgoing(k, p) \in Packets
  BY OutgoingType
<1>2. Outgoing(k, p) = Packet(p.op, k.remoteIndex, k.localIndex, p.num, k.readNum, p.data)
  BY DEF Outgoing
<1>3. k.remoteIndex \in DOMAIN v.ps /\ Place(k.readNum) <= Reach(v.ps[k.remoteIndex])
  BY ReadWithin DEF Joined, Sound
<1> QED
  BY <1>1, <1>2, <1>3 DEF Sent, ForPeer, Packet

\* What a connection tells of itself, and sends again
LEMMA KeptTells ==
  ASSUME NEW v, ViewOK(v)
  PROVE  Telling(Kept(v), Sent(v)) /\ Repeating(Kept(v), Sent(v)) /\ Arps(Sent(v))
<1>1. Arps(Sent(v))
  <2>1. ASSUME NEW op \in {"ARPREQ", "ARPREP"}
        PROVE  ArpPacket(op) \in Sent(v)
    <3>1. ArpPacket(op) \in Packets
      BY ArpType
    <3>2. ArpPacket(op).op = op
      BY DEF ArpPacket, Packet
    <3> QED
      BY <3>1, <3>2 DEF Sent, ForPeer
  <2> QED
    BY <2>1 DEF Arps
<1>2. ASSUME NEW k \in Sound, Known(k, v), k.state = "OPEN" \/ k.remoteIndex # 0
      PROVE  Answered(k) \in Sent(v) /\ \A op \in {"SNS", "CLS"} : Bare(k, op) \in Sent(v)
  <2>1. Joined(k, v) /\ k.remoteIndex \in DOMAIN v.ps
    BY <1>2, OpenIsJoined DEF Joined
  <2>2. /\ k.remoteIndex \in Nat /\ k.localIndex \in Nat /\ k.readNum \in Num /\ k.receivedNum \in Num
    BY DEF Sound, Conns
  <2>3. Place(k.readNum) <= Reach(v.ps[k.remoteIndex]) /\ Place(k.receivedNum) <= Reach(v.ps[k.remoteIndex])
    BY <2>1, ReadWithin DEF Sound
  <2>4. 0 \in Num /\ LocalWindow \in Nat /\ <<>> \in Data
    BY PeerSizes, Sizes, EmptyType
  <2> DEFINE two == <<k.receivedNum, LocalWindow>>
  <2>5. two \in Data /\ Len(two) = 2 /\ two[1] = k.receivedNum /\ two[2] = LocalWindow
    BY <2>2, <2>4, PairType
  <2> HIDE DEF two
  <2>6. Answered(k) = Packet("STS", k.remoteIndex, k.localIndex, 0, k.readNum, two)
    BY DEF Answered, two
  <2>7. Answered(k) \in Packets
    BY <2>2, <2>4, <2>5, <2>6, PacketType DEF Ops
  <2>8. Answered(k) \in Sent(v)
    BY <2>1, <2>3, <2>5, <2>6, <2>7 DEF Sent, ForPeer, Packet
  <2>9. ASSUME NEW op \in {"SNS", "CLS"}
        PROVE  Bare(k, op) \in Sent(v)
    <3>1. op \in Ops /\ op \notin {"OPN", "STS"}
      BY DEF Ops
    <3>2. Bare(k, op) \in Packets
      BY <2>2, <2>4, <3>1, PacketType DEF Bare
    <3> QED
      BY <2>1, <2>3, <3>2 DEF Bare, Sent, ForPeer, Packet
  <2> QED
    BY <2>8, <2>9
<1>3. ASSUME NEW k \in Sound, Known(k, v), k.state \in {"RFC_SENT", "OPEN"}, NEW n \in Num, Holds(k.sendq, n)
      PROVE  Outgoing(k, k.sendq[SlotOf(n)]) \in Sent(v)
  <2> DEFINE s == SlotOf(n)
             p == k.sendq[s]
  <2>1. s \in 0..(Ring - 1)
    BY SlotType
  <2> HIDE DEF s
  <2>2. p \in Pkts /\ p.op # "none"
    BY <1>3, <2>1 DEF Sound, Conns, Queues, Holds, s
  <2>3. Outgoing(k, p) \in Packets
    BY <2>2, OutgoingType
  <2>4. ASSUME p.op = "RFC"
        PROVE  Outgoing(k, p) \in Sent(v)
    <3>1. p.data = <<v.ses>>
      BY <1>3, <2>1, <2>4 DEF Known, Asking
    <3>2. k.localIndex \in v.mine /\ k.localIndex < v.top
      BY <1>3 DEF Known, ViewOK
    <3>3. Outgoing(k, p) = Packet("RFC", 0, k.localIndex, p.num, 0, p.data)
      BY <2>4 DEF Outgoing
    <3> HIDE DEF p
    <3> QED
      BY <2>3, <3>1, <3>2, <3>3 DEF Sent, ForPeer, Packet
  <2>5. ASSUME p.op # "RFC"
        PROVE  Outgoing(k, p) \in Sent(v)
    <3>1. ~Unopened(k)
      BY <2>1, <2>2, <2>5 DEF Unopened
    <3>2. Joined(k, v)
      BY <1>3, <3>1 DEF Known
    <3>3. p.op \in {"DAT", "EOF"}
      BY <2>2, <2>5 DEF Pkts
    <3> HIDE DEF p
    <3> QED
      BY <2>2, <3>2, <3>3, JoinedSends
  <2>6. Outgoing(k, p) \in Sent(v)
    BY <2>4, <2>5
  <2> QED
    BY <2>6 DEF s
<1>4. Telling(Kept(v), Sent(v))
  BY <1>2, KeptIs DEF Telling
<1>5. Repeating(Kept(v), Sent(v))
  BY <1>3, KeptIs DEF Repeating
<1> QED
  BY <1>1, <1>4, <1>5

\* The sets of a view are closed
LEMMA KeptClosed ==
  ASSUME NEW v, ViewOK(v)
  PROVE  Closed(Kept(v), Sent(v))
<1> DEFINE K == Kept(v)
<1>1. Sent(v) \subseteq Packets /\ (\A h \in Slots : K[h] \subseteq Conns)
  BY DEF Sent, Kept
<1>2. Noting(K)
  <2> SUFFICES ASSUME NEW h \in Slots, NEW k \in K[h], NEW j \in Sound, Alike(k, j)
               PROVE  j \in K[h]
    BY DEF Noting
  <2>1. k \in Conns /\ j \in Conns /\ Known(k, v)
    BY KeptIs DEF Sound
  <2>2. SameInput(k, j) /\ j.sendq = k.sendq
    BY <2>1 DEF Alike, Conns, SameInput
  <2> QED
    BY <2>1, <2>2, KnownSame, KeptIs
<1>3. Ending(K)
  <2> SUFFICES ASSUME NEW h \in Slots, NEW k \in K[h] \cap Sound, NEW kind \in CloseKinds,
                      k.state \in {"RFC_SENT", "OPEN"}
               PROVE  Ended(k, kind) \in K[h]
    BY DEF Ending
  <2> DEFINE j == Ended(k, kind)
  <2>1. k \in Conns /\ Known(k, v) /\ k.state # "FREE"
    BY KeptIs DEF Sound
  <2>2. FreeConn.sendq \in Queues /\ \A s \in 0..(Ring - 1) : FreeConn.sendq[s].op = "none"
    BY FreeIsSound DEF Sound, Conns, FreeConn, NoPkt
  <2>3. /\ j.state = "CLOSED" /\ j.localIndex = k.localIndex /\ j.remoteIndex = k.remoteIndex
        /\ j.readNum = k.readNum /\ j.receivedNum = k.receivedNum
        /\ j.rcvq = k.rcvq /\ j.eofReceived = k.eofReceived /\ j.sendq = FreeConn.sendq
    BY <2>1 DEF Ended, Conns
  <2>4. j \in Conns
    BY <2>1, <2>2 DEF Ended, Conns, CloseKinds
  <2> HIDE DEF j
  <2>5. Asking(j.sendq, v.ses)
    BY <2>2, <2>3 DEF Asking
  <2>6. Unopened(k) => Unopened(j)
    BY <2>2, <2>3 DEF Unopened
  <2>7. Joined(k, v) => Joined(j, v)
    BY <2>3 DEF Joined, Follows
  <2>8. Known(j, v)
    BY <2>1, <2>3, <2>5, <2>6, <2>7 DEF Known
  <2>9. j \in K[h]
    BY <2>4, <2>8, KeptIs
  <2> QED
    BY <2>9 DEF j
<1>4. Finishing(K, Sent(v))
  <2> SUFFICES ASSUME NEW h \in Slots, NEW k \in K[h] \cap Sound, EndsStream(k)
               PROVE  WithEof(k) \in K[h] /\ Outgoing(k, EofPkt(k)) \in Sent(v)
    BY DEF Finishing
  <2> DEFINE j == WithEof(k)
             p == EofPkt(k)
  <2>1. k \in Conns /\ Known(k, v) /\ k.state = "OPEN" /\ k.sentNum \in Num /\ k.sendq \in Queues
    BY KeptIs DEF Sound, EndsStream, Conns
  <2>2. Joined(k, v)
    BY <2>1, OpenIsJoined
  <2>3. SeqInc(k.sentNum) \in Num /\ SlotOf(SeqInc(k.sentNum)) \in 0..(Ring - 1)
    BY <2>1, IncIs, SlotType
  <2>4. p \in Pkts /\ p.op = "EOF"
    BY <2>3, EmptyType DEF EofPkt, Pkts
  <2>5. Outgoing(k, p) \in Sent(v)
    BY <2>2, <2>4, JoinedSends
  <2>6. j = [k EXCEPT !.sentNum = SeqInc(k.sentNum), !.sendq = [@ EXCEPT ![SlotOf(SeqInc(k.sentNum))] = p],
                      !.eofSent = TRUE, !.eofNum = SeqInc(k.sentNum)]
    BY DEF WithEof
  <2> HIDE DEF j, p
  <2>7. j \in Conns /\ SameInput(k, j)
    BY <2>1, <2>3, <2>4, <2>6 DEF Conns, Queues, SameInput
  <2>8. \A s \in 0..(Ring - 1) : j.sendq[s] = k.sendq[s] \/ j.sendq[s].op = "EOF"
    BY <2>1, <2>3, <2>4, <2>6 DEF Conns, Queues
  <2>9. Known(j, v)
    BY <2>1, <2>7, <2>8, KnownSame
  <2>10. j \in K[h]
    BY <2>7, <2>9, KeptIs
  <2> QED
    BY <2>5, <2>10 DEF j, p
<1> HIDE DEF K
<1> QED
  BY <1>1, <1>2, <1>3, <1>4, KeptTells DEF Closed, K

---------------------------------------------------------------------------
(* Packets from the peer                                                   *)

\* What an acknowledgement leaves alone
LEMMA AckedByIs ==
  ASSUME NEW k \in Conns, NEW ack, NEW receipt
  PROVE  LET j == AckedBy(k, ack, receipt)
         IN /\ SameInput(k, j)
            /\ \A s \in 0..(Ring - 1) : j.sendq[s] = k.sendq[s] \/ j.sendq[s].op = "none"
<1> DEFINE x == IF SeqLt(receipt, ack) THEN ack ELSE receipt
           gone == {SlotOf(n) : n \in ToSet(After(k.receiptNum, x))}
           r == Receipted(k, x)
           j == Acked(r, ack)
           q == [s \in DOMAIN k.sendq |-> IF s \in gone THEN NoPkt ELSE k.sendq[s]]
<1>1. j = AckedBy(k, ack, receipt)
  BY DEF AckedBy
<1>2. r = k \/ r = [k EXCEPT !.receiptNum = x, !.sendq = q]
  BY DEF Receipted
<1>3. DOMAIN k.sendq = 0..(Ring - 1)
  BY DEF Conns, Queues
<1>4. \A s \in 0..(Ring - 1) : q[s] = k.sendq[s] \/ q[s].op = "none"
  <2> HIDE DEF gone
  <2> QED
    BY <1>3 DEF NoPkt
<1> HIDE DEF q, x
<1>5. r = k \/ (r.sendq = q /\ SameInput(k, r) /\ DOMAIN r = DOMAIN k)
  <2>1. ASSUME r = [k EXCEPT !.receiptNum = x, !.sendq = q]
        PROVE  r.sendq = q /\ SameInput(k, r) /\ DOMAIN r = DOMAIN k
    <3> HIDE DEF r
    <3> QED
      BY <2>1 DEF Conns, SameInput
  <2> QED
    BY <1>2, <2>1
<1>6. j = r \/ j = [r EXCEPT !.ackedNum = ack]
  BY DEF Acked
<1>7. SameInput(k, r) /\ (r.sendq = k.sendq \/ r.sendq = q)
  BY <1>5 DEF SameInput
<1> HIDE DEF r
<1>8. SameInput(r, j) /\ j.sendq = r.sendq
  BY <1>5, <1>6 DEF SameInput, Conns
<1> HIDE DEF j
<1>9. SameInput(k, j)
  BY <1>7, <1>8 DEF SameInput
<1>10. \A s \in 0..(Ring - 1) : j.sendq[s] = k.sendq[s] \/ j.sendq[s].op = "none"
  BY <1>4, <1>7, <1>8
<1> QED
  BY <1>1, <1>9, <1>10

\* The connections with the sender of a packet
LEMMA NarrowIs ==
  ASSUME NEW v, NEW h \in Slots, NEW m, NEW k
  PROVE  k \in Narrow(Kept(v), h, m)[h] <=>
           k \in Conns /\ Known(k, v) /\ k.localIndex = m.dest /\ k.remoteIndex = m.src
BY DEF Narrow, Kept

\* Acknowledgements and windows change nothing that was received
LEMMA HearsAcks ==
  ASSUME NEW v, ViewOK(v), NEW h \in Slots, NEW m \in Packets, NEW L, L = Narrow(Kept(v), h, m)
  PROVE  Acknowledges(L, h, m) /\ Windowing(L, h, m)
<1>1. ASSUME NEW k \in L[h] \cap Sound, NEW ack \in Num, NEW receipt \in Num,
             ~SeqLt(k.sentNum, ack), ~SeqLt(k.sentNum, receipt)
      PROVE  AckedBy(k, ack, receipt) \in L[h]
  <2> DEFINE j == AckedBy(k, ack, receipt)
  <2>1. k \in Conns /\ Known(k, v) /\ k.localIndex = m.dest /\ k.remoteIndex = m.src
    BY <1>1, NarrowIs
  <2>2. j \in Conns
    BY <1>1, AckSound DEF AckedBy, Sound
  <2>3. /\ SameInput(k, j)
        /\ \A s \in 0..(Ring - 1) : j.sendq[s] = k.sendq[s] \/ j.sendq[s].op = "none"
    BY <2>1, AckedByIs
  <2> HIDE DEF j
  <2>4. Known(j, v) /\ j.localIndex = m.dest /\ j.remoteIndex = m.src
    BY <2>1, <2>3, KnownSame DEF SameInput
  <2>5. j \in L[h]
    BY <2>2, <2>4, NarrowIs
  <2> QED
    BY <2>5 DEF j
<1>2. m.ack \in Num /\ (m.op \in {"OPN", "STS"} => m.data[1] \in Num /\ m.data[2] \in Nat)
  BY DEF Packets
<1>3. Acknowledges(L, h, m)
  BY <1>1, <1>2 DEF Acknowledges, Acking
<1>4. ASSUME NEW k \in L[h] \cap Sound, NEW w \in Nat
      PROVE  Windowed(k, w) \in L[h]
  <2> DEFINE j == Windowed(k, w)
  <2>1. k \in Conns /\ Known(k, v) /\ k.localIndex = m.dest /\ k.remoteIndex = m.src
    BY <1>4, NarrowIs
  <2>2. Least(w, MaxWindow) \in 0..MaxWindow
    BY WindowType
  <2>3. j \in Conns /\ SameInput(k, j) /\ j.sendq = k.sendq
    BY <2>1, <2>2 DEF Windowed, Conns, SameInput
  <2> HIDE DEF j
  <2>4. Known(j, v) /\ j.localIndex = m.dest /\ j.remoteIndex = m.src
    BY <2>1, <2>3, KnownSame DEF SameInput
  <2>5. j \in L[h]
    BY <2>3, <2>4, NarrowIs
  <2> QED
    BY <2>5 DEF j
<1>5. Windowing(L, h, m)
  BY <1>2, <1>4 DEF Windowing
<1> QED
  BY <1>3, <1>5

\* What queueing a packet does
LEMMA QueuedByIs ==
  ASSUME NEW k \in Sound, NEW m \in Packets, m.op \in {"DAT", "EOF"}
  PROVE  LET j == QueuedBy(k, m)
             p == [op |-> m.op, num |-> m.num, data |-> m.data]
         IN /\ j.rcvq = [k.rcvq EXCEPT ![SlotOf(m.num)] = p]
            /\ j.state = k.state /\ j.localIndex = k.localIndex /\ j.remoteIndex = k.remoteIndex
            /\ j.readNum = k.readNum /\ j.eofReceived = k.eofReceived /\ j.sendq = k.sendq
            /\ \E i \in 0..Ring : /\ j.receivedNum = (k.receivedNum + i) % PktSpace
                                  /\ i > 0 => Holds(j.rcvq, j.receivedNum)
<1> DEFINE p == [op |-> m.op, num |-> m.num, data |-> m.data]
           q == [k.rcvq EXCEPT ![SlotOf(m.num)] = p]
           e == [k EXCEPT !.rcvq[SlotOf(m.num)] = p]
           S == {i \in 0..Ring : Contiguous(e, i)}
           i == Max(S)
           j == QueuedBy(k, m)
<1>1. k \in Conns
  BY DEF Sound
<1>2. e = [k EXCEPT !.rcvq = q]
  BY <1>1 DEF Conns
<1>3. j = [e EXCEPT !.receivedNum = (@ + i) % PktSpace]
  BY DEF QueuedBy, AdvanceReceived
<1> HIDE DEF q
<1>4. 0 \in S
  BY Sizes DEF Contiguous
<1>5. i \in S
  <2>1. S \in SUBSET (0..Ring) /\ S # {} /\ Ring \in Nat
    BY <1>4, Sizes
  <2> HIDE DEF S
  <2> QED
    BY <2>1, MaxExists
<1> HIDE DEF i, e
<1>6. i \in 0..Ring /\ \A x \in 1..i : Holds(e.rcvq, (e.receivedNum + x) % PktSpace)
  BY <1>5 DEF Contiguous
<1>7. e.rcvq = q /\ e.receivedNum = k.receivedNum
  BY <1>1, <1>2 DEF Conns
<1>8. j = [k EXCEPT !.rcvq = q, !.receivedNum = (k.receivedNum + i) % PktSpace]
  BY <1>1, <1>2, <1>3 DEF Conns
<1> HIDE DEF j
<1>9. /\ j.rcvq = q /\ j.receivedNum = (k.receivedNum + i) % PktSpace
      /\ j.state = k.state /\ j.localIndex = k.localIndex /\ j.remoteIndex = k.remoteIndex
      /\ j.readNum = k.readNum /\ j.eofReceived = k.eofReceived /\ j.sendq = k.sendq
  BY <1>1, <1>8 DEF Conns
<1>10. i > 0 => Holds(j.rcvq, j.receivedNum)
  <2>1. i > 0 => i \in 1..i
    BY <1>6
  <2> QED
    BY <1>6, <1>7, <1>9, <2>1
<1> QED
  BY <1>6, <1>9, <1>10 DEF j, q

\* There are numbers left for what a connection may receive
LEMMA RoomFollows ==
  ASSUME NEW k \in Sound, NEW i, NEW q, PeerOK(q), q.wrote + LocalWindow + 1 < PktSpace, NEW m, Follows(k, i, q, m)
  PROVE  /\ Place(k.readNum) \in Nat /\ Place(k.readNum) + LocalWindow < PktSpace
         /\ \A n \in Num : SeqDiff(n, k.readNum) <= LocalWindow => Place(n) = Place(k.readNum) + SeqDiff(n, k.readNum)
<1>1. k \in Conns /\ k.readNum \in Num /\ k.receivedNum \in Num /\ LocalWindow \in Nat /\ PktSpace \in Nat
  BY Sizes DEF Sound, Conns
<1>2. q.wrote \in Nat /\ Reach(q) \in Nat /\ Reach(q) <= q.wrote + 1
  BY ReachType
<1>3. Place(k.readNum) \in Nat /\ Place(k.readNum) <= Reach(q)
  <2>1. Place(k.readNum) \in Nat /\ Place(k.receivedNum) \in Nat
    BY <1>1, PlaceType
  <2> QED
    BY <1>2, <2>1 DEF Follows
<1>4. Place(k.readNum) + LocalWindow < PktSpace
  BY <1>1, <1>2, <1>3
<1>5. ASSUME NEW n \in Num, SeqDiff(n, k.readNum) <= LocalWindow
      PROVE  Place(n) = Place(k.readNum) + SeqDiff(n, k.readNum)
  <2>1. SeqDiff(n, k.readNum) \in Nat
    BY <1>1, DiffType
  <2>2. Place(k.readNum) + SeqDiff(n, k.readNum) < PktSpace
    BY <1>1, <1>3, <1>4, <1>5, <2>1
  <2> QED
    BY <1>1, <2>2, PlaceAfter
<1> QED
  BY <1>3, <1>4, <1>5

\* ... in a view
LEMMA RoomAhead ==
  ASSUME NEW v, ViewOK(v), NEW k \in Sound, Joined(k, v)
  PROVE  \A n \in Num : SeqDiff(n, k.readNum) <= LocalWindow => Place(n) = Place(k.readNum) + SeqDiff(n, k.readNum)
<1> DEFINE q == v.ps[k.remoteIndex]
<1>1. PeerOK(q) /\ q.wrote + LocalWindow + 1 < PktSpace /\ Follows(k, k.remoteIndex, q, v.n)
  BY ViewPeers DEF Joined
<1> HIDE DEF q
<1> QED
  BY <1>1, RoomFollows

\* What may be queued is beyond what was received
LEMMA QueuedBeyond ==
  ASSUME NEW v, ViewOK(v), NEW k \in Sound, Joined(k, v), NEW m \in Packets, CanQueue(k, m)
  PROVE  Place(k.receivedNum) < Place(m.num)
<1> DEFINE a == SeqDiff(k.receivedNum, k.readNum)
           b == SeqDiff(m.num, k.readNum)
<1>1. k.readNum \in Num /\ k.receivedNum \in Num /\ m.num \in Num
  BY DEF Sound, Conns, Packets
<1>2. a \in Nat /\ b \in Nat /\ a <= LocalWindow /\ b <= LocalWindow
  BY <1>1, DiffType DEF Sound, ConnOK, Receiving, CanQueue
<1>3. Place(m.num) = Place(k.readNum) + b /\ Place(k.receivedNum) = Place(k.readNum) + a
  BY <1>1, <1>2, RoomAhead
<1>4. SeqDiff(k.receivedNum, m.num) >= PktSpace \div 2
  BY <1>1, LtIs DEF CanQueue
<1>5. a < b
  <2> SUFFICES ASSUME b <= a
               PROVE  FALSE
    BY <1>2
  <2>1. a = b + SeqDiff(k.receivedNum, m.num)
    BY <1>1, DiffAdd
  <2>2. LocalWindow < PktSpace \div 2 /\ LocalWindow \in Nat /\ PktSpace \div 2 \in Nat /\ Ring \in Nat
    BY Sizes, Half
  <2>3. SeqDiff(k.receivedNum, m.num) \in Nat
    BY <1>1, DiffType
  <2> HIDE DEF a, b
  <2> QED
    BY <1>2, <1>4, <2>1, <2>2, <2>3
<1>6. Place(k.readNum) \in Nat
  BY <1>1, PlaceType
<1> QED
  BY <1>2, <1>3, <1>5, <1>6

\* The mark moves forward, and stays within what the peer sends
LEMMA MarkMoves ==
  ASSUME NEW v, ViewOK(v), NEW k \in Sound, Joined(k, v), NEW i \in 0..Ring, NEW x \in Num,
         x = (k.receivedNum + i) % PktSpace, NEW q, Queued(k.readNum, q), i > 0 => Holds(q, x)
  PROVE  Place(k.receivedNum) <= Place(x)
<1> DEFINE a == SeqDiff(k.receivedNum, k.readNum)
<1>1. k.readNum \in Num /\ k.receivedNum \in Num
  BY DEF Sound, Conns
<1>2. a \in Nat /\ a <= LocalWindow
  BY <1>1, DiffType DEF Sound, ConnOK, Receiving
<1>3. Place(k.receivedNum) = Place(k.readNum) + a /\ Place(k.readNum) \in Nat
  BY <1>1, <1>2, RoomAhead, PlaceType
<1>4. CASE i = 0
  <2>1. x = k.receivedNum
    <3>1. i \in 0..PktSpace /\ k.receivedNum \in 0..(PktSpace - 1) /\ k.receivedNum + i = k.receivedNum
      BY <1>1, <1>4, Sizes DEF Num
    <3> QED
      BY <1>1, <3>1, PlusIs, Sizes
  <2> HIDE DEF a
  <2> QED
    BY <1>2, <1>3, <2>1
<1>5. CASE i > 0
  <2>1. i \in 0..(PktSpace - 1) /\ a + i < PktSpace
    <3> HIDE DEF a
    <3> QED
      BY <1>2, Sizes
  <2>2. SeqDiff(x, k.receivedNum) = i
    BY <1>1, <2>1, DiffOfAfter
  <2>3. SeqDiff(x, k.readNum) = a + i
    <3>1. SeqDiff(k.receivedNum, k.readNum) + SeqDiff(x, k.receivedNum) < PktSpace
      BY <2>1, <2>2
    <3>2. SeqDiff(x, k.readNum) = SeqDiff(k.receivedNum, k.readNum) + SeqDiff(x, k.receivedNum)
      BY <1>1, <3>1, DiffAdd
    <3> QED
      BY <2>2, <3>2
  <2>4. SeqDiff(x, k.readNum) <= LocalWindow
    <3>1. SlotOf(x) \in 0..(Ring - 1)
      BY SlotType
    <3> QED
      BY <1>5, <3>1, Sizes DEF Holds, Queued
  <2>5. Place(x) = Place(k.readNum) + SeqDiff(x, k.readNum)
    BY <2>4, RoomAhead
  <2> HIDE DEF a
  <2> QED
    BY <1>2, <1>3, <2>3, <2>5
<1> QED
  BY <1>4, <1>5

\* A packet of the peer, in the ring of its connection
LEMMA NewFits ==
  ASSUME NEW v, ViewOK(v), NEW k \in Sound, Joined(k, v), NEW m \in Packets, m.op \in {"DAT", "EOF"},
         FromPeer(m, v.ps), m.src = k.remoteIndex, CanQueue(k, m)
  PROVE  Fits([op |-> m.op, num |-> m.num, data |-> m.data], k.remoteIndex, v.ps[k.remoteIndex], v.n)
<1> DEFINE q == v.ps[k.remoteIndex]
<1>1. CASE m.op = "EOF"
  BY <1>1 DEF FromPeer, Fits
<1>2. CASE m.op = "DAT"
  <2>1. /\ Place(m.num) \in 1..q.wrote
        /\ Holding(m.data, k.remoteIndex, At(Place(m.num) - 1), At(Place(m.num)))
    BY <1>2 DEF FromPeer
  <2>2. Place(k.receivedNum) < Place(m.num) /\ Place(k.receivedNum) \in Nat /\ Place(m.num) \in Nat
        /\ Place(k.readNum) \in Nat
    BY QueuedBeyond, PlaceType DEF Sound, Conns, Packets
  <2>3. q.wrote \in Nat /\ v.n \in Nat
    BY ViewPeers DEF Joined, ViewOK
  <2> DEFINE l == Least(Place(k.readNum) + 1, Least(Place(k.receivedNum), q.wrote))
  <2>4. v.n <= At(l)
    BY DEF Joined, Follows
  <2>5. l \in Nat /\ l <= Place(m.num) - 1 /\ Place(m.num) - 1 \in Nat
    BY <2>2, <2>3 DEF Least
  <2> HIDE DEF l
  <2>6. At(l) <= At(Place(m.num) - 1) /\ At(l) \in Nat /\ At(Place(m.num) - 1) \in Nat
    BY <2>5, AtGrows
  <2>7. Most(v.n, At(Place(m.num) - 1)) = At(Place(m.num) - 1)
    BY <2>3, <2>4, <2>6 DEF Most
  <2> QED
    BY <1>2, <2>1, <2>7 DEF Fits
<1> QED
  BY <1>1, <1>2

\* What fits is within what the peer sends
LEMMA FitsWithin ==
  ASSUME NEW p, NEW i, NEW q, PeerOK(q), NEW n, Fits(p, i, q, n), p.op # "none"
  PROVE  Place(p.num) <= Reach(q)
<1>1. q.wrote \in Nat /\ Reach(q) \in q.wrote..(q.wrote + 1) /\ (Reach(q) = q.wrote + 1 <=> Final(q))
  BY ReachType
<1>2. CASE p.op = "DAT"
  BY <1>1, <1>2 DEF Fits
<1>3. CASE p.op # "DAT"
  BY <1>1, <1>3 DEF Fits
<1> QED
  BY <1>2, <1>3

\* conn_queue_input keeps the stream
LEMMA QueuedJoined ==
  ASSUME NEW v, ViewOK(v), NEW k \in Sound, Joined(k, v), k.state = "OPEN", NEW m \in Packets,
         m.op \in {"DAT", "EOF"}, FromPeer(m, v.ps), m.src = k.remoteIndex, CanQueue(k, m)
  PROVE  Joined(QueuedBy(k, m), v)
<1> DEFINE j == QueuedBy(k, m)
           p == [op |-> m.op, num |-> m.num, data |-> m.data]
           q == v.ps[k.remoteIndex]
<1>1. /\ j.rcvq = [k.rcvq EXCEPT ![SlotOf(m.num)] = p]
      /\ j.state = k.state /\ j.localIndex = k.localIndex /\ j.remoteIndex = k.remoteIndex
      /\ j.readNum = k.readNum /\ j.eofReceived = k.eofReceived
  BY QueuedByIs
<1>2. PICK i \in 0..Ring : /\ j.receivedNum = (k.receivedNum + i) % PktSpace
                           /\ i > 0 => Holds(j.rcvq, j.receivedNum)
  BY QueuedByIs
<1>3. j \in Sound
  BY QueuedBySound
<1>4. j.receivedNum \in Num /\ Queued(k.readNum, j.rcvq) /\ k.rcvq \in Queues /\ k \in Conns
  BY <1>1, <1>3 DEF Sound, Conns, ConnOK, Receiving
<1> HIDE DEF j
<1>5. /\ Place(k.receivedNum) <= Place(j.receivedNum) /\ Place(k.receivedNum) \in Nat
      /\ Place(j.receivedNum) \in Nat /\ Place(k.readNum) \in Nat
  <2>1. Place(k.receivedNum) <= Place(j.receivedNum)
    BY <1>2, <1>4, MarkMoves
  <2> QED
    BY <1>4, <2>1, PlaceType DEF Conns
<1>6. Fits(p, k.remoteIndex, q, v.n)
  BY NewFits
<1>7. /\ Follows(k, k.remoteIndex, q, v.n) /\ k.remoteIndex \in DOMAIN v.ps /\ v.low <= Place(k.receivedNum)
      /\ q.remote = k.localIndex
  BY DEF Joined
<1>8. PeerOK(q) /\ q.wrote \in Nat /\ Reach(q) \in Nat /\ v.n \in Nat /\ v.low \in Nat
  BY <1>7, ViewPeers DEF ViewOK
<1> HIDE DEF q, p
<1>9. \A s \in 0..(Ring - 1) : Fits(j.rcvq[s], k.remoteIndex, q, v.n)
  <2>1. SlotOf(m.num) \in 0..(Ring - 1)
    BY SlotType DEF Packets
  <2>2. \A s \in 0..(Ring - 1) : j.rcvq[s] = p \/ j.rcvq[s] = k.rcvq[s]
    BY <1>1, <1>4, <2>1 DEF Queues
  <2> QED
    BY <1>6, <1>7, <2>2 DEF Follows
<1>10. Place(j.receivedNum) <= Reach(q)
  <2>1. CASE i = 0
    <3>1. i \in 0..PktSpace /\ k.receivedNum \in Num /\ k.receivedNum + i = k.receivedNum
          /\ k.receivedNum \in 0..(PktSpace - 1)
      BY <1>4, <2>1, Sizes DEF Conns, Num
    <3>2. j.receivedNum = k.receivedNum
      BY <1>2, <3>1, PlusIs, Sizes
    <3> QED
      BY <1>7, <3>2 DEF Follows
  <2>2. CASE i # 0
    <3>1. SlotOf(j.receivedNum) \in 0..(Ring - 1) /\ Holds(j.rcvq, j.receivedNum)
      BY <1>2, <1>4, <2>2, SlotType, Sizes
    <3>2. /\ j.rcvq[SlotOf(j.receivedNum)].op # "none"
          /\ j.rcvq[SlotOf(j.receivedNum)].num = j.receivedNum
      BY <3>1 DEF Holds
    <3> QED
      BY <1>8, <1>9, <3>1, <3>2, FitsWithin
  <2> QED
    BY <2>1, <2>2
<1>11. v.n <= At(Least(Place(k.readNum) + 1, Least(Place(j.receivedNum), q.wrote)))
  <2> DEFINE a == Least(Place(k.readNum) + 1, Least(Place(k.receivedNum), q.wrote))
             b == Least(Place(k.readNum) + 1, Least(Place(j.receivedNum), q.wrote))
  <2>1. a \in Nat /\ b \in Nat /\ a <= b
    BY <1>5, <1>8 DEF Least
  <2>2. v.n <= At(a)
    BY <1>7 DEF Follows
  <2> HIDE DEF a, b
  <2>3. At(a) <= At(b) /\ At(a) \in Nat /\ At(b) \in Nat
    BY <2>1, AtGrows
  <2>4. v.n <= At(b)
    BY <1>8, <2>2, <2>3
  <2> QED
    BY <2>4 DEF b
<1>12. Place(k.readNum) <= Place(j.receivedNum) /\ v.low <= Place(j.receivedNum)
  BY <1>5, <1>7, <1>8 DEF Follows
<1>13. Follows(j, k.remoteIndex, q, v.n)
  BY <1>1, <1>7, <1>9, <1>10, <1>11, <1>12 DEF Follows
<1>14. Joined(j, v)
  BY <1>1, <1>7, <1>12, <1>13 DEF Joined, q
<1> QED
  BY <1>14 DEF j

\* The OPN
LEMMA OpenedJoined ==
  ASSUME NEW v, ViewOK(v), NEW k \in Sound, Known(k, v), k.state = "RFC_SENT", NEW m \in Packets,
         m.op = "OPN", k.localIndex = m.dest, FromPeer(m, v.ps)
  PROVE  m.src # 0 /\ Opened(k, m.src, m.num, m.data[2]) \in Conns
         /\ Known(Opened(k, m.src, m.num, m.data[2]), v)
<1> DEFINE j == Opened(k, m.src, m.num, m.data[2])
           q == v.ps[m.src]
<1>1. m.src \in DOMAIN v.ps /\ m.num = PeerFirst /\ q.remote = k.localIndex /\ m.src \in Nat /\ m.data[2] \in Nat
      /\ m.num \in Num
  BY DEF FromPeer, Packets
<1>2. m.src # 0 /\ PeerOK(q) /\ q.wrote \in Nat /\ Reach(q) \in Nat
  BY <1>1, ViewPeers
<1>3. k \in Conns /\ Unopened(k) /\ 0 \in v.who
  BY DEF Known, Joined, Sound, Unopened
<1>4. v.who = Nat /\ v.n = 0 /\ v.low = 0
  BY <1>3 DEF ViewOK
<1>5. j \in Conns
  BY <1>1, OpenedOK DEF Sound
<1>6. /\ j.state = "OPEN" /\ j.remoteIndex = m.src /\ j.localIndex = k.localIndex /\ j.readNum = PeerFirst
      /\ j.receivedNum = PeerFirst /\ j.rcvq = k.rcvq /\ j.sendq = k.sendq /\ j.eofReceived = k.eofReceived
  BY <1>1, <1>3 DEF Opened, Conns
<1> HIDE DEF j, q
<1>7. Place(PeerFirst) = 0
  BY PeerSizes, DiffType DEF Place
<1>8. Least(0, q.wrote) = 0 /\ Least(0 + 1, Least(0, q.wrote)) = 0 /\ At(0) = 0
  BY <1>2, AtIs DEF Least
<1>9. Follows(j, m.src, q, v.n)
  BY <1>2, <1>3, <1>4, <1>6, <1>7, <1>8 DEF Follows, Unopened, Fits
<1>10. Joined(j, v)
  BY <1>1, <1>4, <1>6, <1>7, <1>9 DEF Joined, q
<1>11. Known(j, v)
  BY <1>1, <1>4, <1>6, <1>10 DEF Known
<1> QED
  BY <1>2, <1>5, <1>11 DEF j

\* The core hears what the peer sends
LEMMA HearsPeer ==
  ASSUME NEW v, ViewOK(v), NEW m \in Packets, FromPeer(m, v.ps)
  PROVE  Hearing(Kept(v), Sent(v), m)
<1>1. Answers(m, Sent(v))
  <2>1. m.src \in Nat /\ m.dest \in Nat /\ m.num \in Num /\ 0 \in Num /\ 0 \in Nat /\ <<>> \in Data
    BY PeerSizes, EmptyType DEF Packets
  <2>2. ASSUME NEW op \in {"ANS", "CLS"}
        PROVE  Packet(op, m.src, 0, 0, m.num, <<>>) \in Sent(v)
    <3>1. op \in Ops /\ op \notin {"OPN", "STS"}
      BY DEF Ops
    <3>2. Packet(op, m.src, 0, 0, m.num, <<>>) \in Packets
      BY <2>1, <3>1, PacketType
    <3> QED
      BY <3>2 DEF Sent, ForPeer, Packet
  <2>3. Packet("LOS", m.src, m.dest, 0, 0, <<>>) \in Packets
    BY <2>1, PacketType DEF Ops
  <2>4. Packet("LOS", m.src, m.dest, 0, 0, <<>>) \in Sent(v)
    BY <2>3 DEF Sent, ForPeer, Packet
  <2> QED
    BY <2>2, <2>4 DEF Answers
<1>2. ASSUME NEW h \in Slots
      PROVE  Opening(Kept(v), h, m)
  BY OpenedJoined, KeptIs DEF Opening
<1>3. ASSUME NEW h \in Slots
      PROVE  Taking(Narrow(Kept(v), h, m), h, m)
  <2> DEFINE L == Narrow(Kept(v), h, m)
  <2>1. Acknowledges(L, h, m) /\ Windowing(L, h, m)
    <3> HIDE DEF L
    <3>1. L = Narrow(Kept(v), h, m)
      BY DEF L
    <3> QED
      BY <3>1, HearsAcks
  <2>2. ASSUME m.op \in {"DAT", "EOF"}, NEW k \in L[h] \cap Sound, k.state = "OPEN", CanQueue(k, m)
        PROVE  QueuedBy(k, m) \in L[h]
    <3> DEFINE j == QueuedBy(k, m)
    <3>1. k \in Conns /\ Known(k, v) /\ k.localIndex = m.dest /\ k.remoteIndex = m.src
      BY <2>2, NarrowIs
    <3>2. Joined(k, v)
      BY <2>2, <3>1, OpenIsJoined
    <3>3. Joined(j, v) /\ j \in Conns
      BY <2>2, <3>1, <3>2, QueuedJoined, QueuedBySound DEF Sound
    <3>4. j.state = k.state /\ j.localIndex = k.localIndex /\ j.remoteIndex = k.remoteIndex /\ j.sendq = k.sendq
      BY <2>2, QueuedByIs
    <3> HIDE DEF j, L
    <3>5. Known(j, v)
      BY <2>2, <3>1, <3>3, <3>4 DEF Known
    <3>6. j \in L[h]
      BY <3>1, <3>3, <3>4, <3>5, NarrowIs DEF L
    <3> QED
      BY <3>6 DEF j
  <2> HIDE DEF L
  <2>3. Taking(L, h, m)
    BY <2>1, <2>2 DEF Taking, Queueing
  <2> QED
    BY <2>3 DEF L
<1> QED
  BY <1>1, <1>2, <1>3 DEF Hearing

---------------------------------------------------------------------------
(* Reading                                                                 *)

\* The packet that is read next, and those after it
LEMMA NextInRing ==
  ASSUME NEW k \in Sound, NEW i, NEW q, PeerOK(q), q.wrote + LocalWindow + 1 < PktSpace, NEW n, Follows(k, i, q, n),
         k.readNum # k.receivedNum
  PROVE  LET x == SeqInc(k.readNum)
         IN /\ x \in Num /\ SlotOf(x) \in 0..(Ring - 1) /\ Holds(k.rcvq, x)
            /\ Place(x) = Place(k.readNum) + 1 /\ Place(x) <= Place(k.receivedNum)
            /\ \A s \in 0..(Ring - 1) : s # SlotOf(x) /\ k.rcvq[s].op # "none" => Place(x) <= Place(k.rcvq[s].num) - 1
<1> DEFINE x == SeqInc(k.readNum)
           d == SeqDiff(k.receivedNum, k.readNum)
<1>1. k \in Conns /\ k.readNum \in Num /\ k.receivedNum \in Num /\ k.rcvq \in Queues /\ ConnOK(k)
  BY DEF Sound, Conns
<1>2. x \in Num
  BY <1>1, IncIs
<1>3. Holds(k.rcvq, x)
  BY <1>1, ReadOne DEF ConnOK
<1>4. SeqDiff(x, k.readNum) = 1
  <2>1. SeqDiff(k.readNum, k.readNum) = 0 /\ 0 < PktSpace - 1
    BY <1>1, DiffType, Sizes
  <2> QED
    BY <1>1, <2>1, DiffInc
<1> HIDE DEF x
<1>5. /\ Place(k.readNum) \in Nat
      /\ \A m \in Num : SeqDiff(m, k.readNum) <= LocalWindow => Place(m) = Place(k.readNum) + SeqDiff(m, k.readNum)
  BY RoomFollows
<1>6. Place(x) = Place(k.readNum) + 1
  BY <1>2, <1>4, <1>5, Sizes
<1>7. d \in Nat /\ d # 0 /\ d <= LocalWindow
  <2>1. d \in Nat /\ d <= LocalWindow
    BY <1>1, DiffType DEF ConnOK, Receiving
  <2>2. d # 0
    <3> SUFFICES ASSUME d = 0
                 PROVE  FALSE
      OBVIOUS
    <3>1. (k.readNum + 0) % PktSpace = k.receivedNum
      BY <1>1, NumIsAfter
    <3>2. k.readNum + 0 < PktSpace /\ k.readNum + 0 = k.readNum /\ 0 \in 0..PktSpace
      BY <1>1, Sizes DEF Num
    <3> QED
      BY <1>1, <3>1, <3>2, PlusIs
  <2> QED
    BY <2>1, <2>2
<1>8. Place(k.receivedNum) = Place(k.readNum) + d
  BY <1>1, <1>5, <1>7
<1> HIDE DEF d
<1>9. Place(x) <= Place(k.receivedNum)
  BY <1>5, <1>6, <1>7, <1>8
<1>10. ASSUME NEW s \in 0..(Ring - 1), s # SlotOf(x), k.rcvq[s].op # "none"
       PROVE  Place(x) <= Place(k.rcvq[s].num) - 1
  <2> DEFINE m == k.rcvq[s].num
             e == SeqDiff(m, k.readNum)
  <2>1. m \in Num /\ SlotOf(m) = s /\ e \in 1..LocalWindow
    BY <1>1, <1>10 DEF ConnOK, Receiving, Queued, Queues, Pkts
  <2>2. e # 1
    <3> SUFFICES ASSUME e = 1
                 PROVE  FALSE
      OBVIOUS
    <3>1. m = (k.readNum + 1) % PktSpace /\ x = (k.readNum + 1) % PktSpace
      BY <1>1, <1>2, <1>4, <2>1, NumIsAfter
    <3> QED
      BY <1>10, <2>1, <3>1
  <2>3. Place(m) = Place(k.readNum) + e
    BY <1>5, <2>1, Sizes
  <2> HIDE DEF e, m
  <2>4. Place(x) <= Place(m) - 1
    BY <1>5, <1>6, <2>1, <2>2, <2>3, Sizes
  <2> QED
    BY <2>4 DEF m
<1>11. SlotOf(x) \in 0..(Ring - 1)
  BY <1>2, SlotType
<1> QED
  BY <1>2, <1>3, <1>6, <1>9, <1>10, <1>11 DEF x

\* The packets after it are as before when bytes of it are read
LEMMA OthersFit ==
  ASSUME NEW p, NEW i, NEW q, PeerOK(q), NEW n \in Nat, NEW m \in Nat, NEW l \in Nat, Fits(p, i, q, n),
         n <= m, m <= At(l), p.op # "none" => l <= Place(p.num) - 1
  PROVE  Fits(p, i, q, m)
<1>1. CASE p.op # "DAT"
  BY <1>1 DEF Fits
<1>2. CASE p.op = "DAT"
  <2> DEFINE y == Place(p.num)
  <2>1. y \in 1..q.wrote /\ Holding(p.data, i, Most(n, At(y - 1)), At(y)) /\ q.wrote \in Nat
    BY <1>2, ReachType DEF Fits
  <2> HIDE DEF y
  <2>2. l <= y - 1 /\ y - 1 \in Nat
    BY <1>2, <2>1 DEF y
  <2>3. At(l) <= At(y - 1) /\ At(l) \in Nat /\ At(y - 1) \in Nat
    BY <2>2, AtGrows
  <2>4. Most(n, At(y - 1)) = Most(m, At(y - 1))
    BY <2>3 DEF Most
  <2> QED
    BY <1>2, <2>1, <2>4 DEF Fits, y
<1> QED
  BY <1>1, <1>2

\* What a data packet holds that is read next
LEMMA NextHolds ==
  ASSUME NEW k \in Sound, NEW i, NEW q, PeerOK(q), q.wrote + LocalWindow + 1 < PktSpace, NEW n \in Nat,
         Follows(k, i, q, n), k.readNum # k.receivedNum,
         k.rcvq[SlotOf(SeqInc(k.readNum))].op # "EOF"
  PROVE  LET x == SeqInc(k.readNum)
             p == k.rcvq[SlotOf(x)]
         IN /\ p.op = "DAT" /\ p.num = x /\ Place(x) \in Nat /\ Place(x) <= q.wrote
            /\ n <= At(Place(x)) /\ At(Place(x)) \in Nat /\ Holding(p.data, i, n, At(Place(x)))
<1> DEFINE x == SeqInc(k.readNum)
           p == k.rcvq[SlotOf(x)]
           l == Least(Place(k.readNum), q.wrote)
           u == Least(Place(k.readNum) + 1, Least(Place(k.receivedNum), q.wrote))
<1>1. /\ x \in Num /\ SlotOf(x) \in 0..(Ring - 1) /\ Holds(k.rcvq, x)
      /\ Place(x) = Place(k.readNum) + 1 /\ Place(x) <= Place(k.receivedNum)
  BY NextInRing
<1>2. p.op # "none" /\ p.num = x /\ Fits(p, i, q, n)
  BY <1>1 DEF Holds, Follows
<1>3. Place(k.readNum) \in Nat /\ Place(k.receivedNum) \in Nat /\ q.wrote \in Nat
  BY PlaceType, ReachType DEF Sound, Conns
<1>4. At(l) <= n /\ n <= At(u)
  BY DEF Follows
<1> HIDE DEF x, p
<1>5. p.op = "DAT" /\ Place(x) \in 1..q.wrote /\ Holding(p.data, i, Most(n, At(Place(x) - 1)), At(Place(x)))
  BY <1>2 DEF Fits, x, p
<1>6. l = Place(x) - 1 /\ u = Place(x) /\ Place(x) \in Nat /\ Place(x) - 1 \in Nat
  BY <1>1, <1>3, <1>5 DEF Least
<1> HIDE DEF l, u
<1>7. At(Place(x) - 1) \in Nat /\ At(Place(x)) \in Nat
  BY <1>6, AtIs
<1>8. Most(n, At(Place(x) - 1)) = n
  BY <1>4, <1>6, <1>7 DEF Most
<1>9. n <= At(Place(x))
  BY <1>4, <1>6
<1> QED
  BY <1>2, <1>3, <1>5, <1>6, <1>7, <1>8, <1>9 DEF x, p

\* Bytes of the stream, joined and divided
LEMMA HoldingJoin ==
  ASSUME NEW x \in Data, NEW y \in Data, NEW i, NEW a \in Nat, NEW b \in Nat, NEW c \in Nat, a <= b, b <= c,
         Holding(x, i, a, b), Holding(y, i, b, c)
  PROVE  Holding(x \o y, i, a, c) /\ x \o y \in Data /\ Len(x \o y) = c - a
<1>1. Len(x) = b - a /\ Len(y) = c - b
  BY DEF Holding
<1>2. x \o y \in Data /\ Len(x \o y) = c - a
  <2>1. (b - a) + (c - b) = c - a
    OBVIOUS
  <2> QED
    BY <1>1, <2>1, JoinType
<1>3. ASSUME NEW j \in 1..(c - a)
      PROVE  (x \o y)[j] = PeerByte(i, a + j)
  <2>1. (x \o y)[j] = IF j <= Len(x) THEN x[j] ELSE y[j - Len(x)]
    <3>1. j \in 1..(Len(x) + Len(y))
      BY <1>1
    <3> QED
      BY <3>1, ConcatProperties DEF Data
  <2>2. CASE j <= b - a
    BY <1>1, <2>1, <2>2 DEF Holding
  <2>3. CASE j > b - a
    <3>1. j - (b - a) \in 1..(c - b) /\ b + (j - (b - a)) = a + j
      BY <2>3
    <3> QED
      BY <1>1, <2>1, <2>3, <3>1 DEF Holding
  <2>4. j <= b - a \/ j > b - a
    OBVIOUS
  <2> QED
    BY <2>2, <2>3, <2>4
<1> QED
  BY <1>2, <1>3 DEF Holding

LEMMA HoldingSplit ==
  ASSUME NEW x \in Data, NEW i, NEW a \in Nat, NEW b \in Nat, NEW t \in Nat, t <= Len(x), a <= b, Holding(x, i, a, b)
  PROVE  Holding(SubSeq(x, 1, t), i, a, a + t) /\ Holding(SubSeq(x, t + 1, Len(x)), i, a + t, b)
<1>1. Len(x) = b - a
  BY DEF Holding
<1>2. /\ SubSeq(x, 0 + 1, t) \in Data /\ Len(SubSeq(x, 0 + 1, t)) = t - 0
      /\ SubSeq(x, t + 1, Len(x)) \in Data /\ Len(SubSeq(x, t + 1, Len(x))) = Len(x) - t
  <2>1. Len(x) \in Nat /\ 0 \in Nat /\ 0 <= t /\ Len(x) <= Len(x)
    BY <1>1
  <2> QED
    BY <2>1, PartType
<1>3. \A j \in 1..t : SubSeq(x, 1, t)[j] = x[j]
  BY <1>1, SubSeqProperties DEF Data
<1>4. ASSUME NEW j \in 1..(b - (a + t))
      PROVE  SubSeq(x, t + 1, Len(x))[j] = x[t + j]
  BY <1>1, SubSeqProperties DEF Data
<1>5. Holding(SubSeq(x, 1, t), i, a, a + t)
  <2>1. (a + t) - a = t /\ 0 + 1 = 1 /\ t - 0 = t /\ t <= b - a
    BY <1>1
  <2>2. \A j \in 1..t : x[j] = PeerByte(i, a + j)
    BY <2>1 DEF Holding
  <2> QED
    BY <1>2, <1>3, <2>1, <2>2 DEF Holding
<1>6. Holding(SubSeq(x, t + 1, Len(x)), i, a + t, b)
  <2>1. ASSUME NEW j \in 1..(b - (a + t))
        PROVE  SubSeq(x, t + 1, Len(x))[j] = PeerByte(i, (a + t) + j)
    <3>1. t + j \in 1..(b - a) /\ a + (t + j) = (a + t) + j
      OBVIOUS
    <3> QED
      BY <1>4, <3>1 DEF Holding
  <2> QED
    BY <1>1, <1>2, <2>1 DEF Holding
<1> QED
  BY <1>5, <1>6

\* The EOF is read
LEMMA EofFollows ==
  ASSUME NEW k \in Sound, NEW i, NEW q, PeerOK(q), q.wrote + LocalWindow + 1 < PktSpace, NEW n \in Nat,
         Follows(k, i, q, n), k.readNum # k.receivedNum, k.rcvq[SlotOf(SeqInc(k.readNum))].op = "EOF",
         NEW j, j.receivedNum = k.receivedNum, j.readNum = SeqInc(k.readNum),
         j.rcvq = [k.rcvq EXCEPT ![SlotOf(SeqInc(k.readNum))] = NoPkt]
  PROVE  Follows(j, i, q, n)
<1> DEFINE x == SeqInc(k.readNum)
           s == SlotOf(x)
           r == Place(k.readNum)
           y == Place(k.receivedNum)
<1>1. x \in Num /\ s \in 0..(Ring - 1) /\ Holds(k.rcvq, x) /\ Place(x) = r + 1 /\ Place(x) <= y
  BY NextInRing
<1>2. r \in Nat /\ y \in Nat /\ q.wrote \in Nat /\ k.rcvq \in Queues /\ y <= Reach(q)
  BY PlaceType, ReachType DEF Sound, Conns, Follows
<1>3. k.rcvq[s].num = x /\ Fits(k.rcvq[s], i, q, n) /\ k.rcvq[s].op = "EOF"
  BY <1>1 DEF Holds, Follows
<1>4. Place(x) = q.wrote + 1
  BY <1>3 DEF Fits
<1>5. At(Least(r, q.wrote)) <= n /\ n <= At(Least(r + 1, Least(y, q.wrote)))
  BY DEF Follows
<1>6. \A z \in 0..(Ring - 1) : Fits(j.rcvq[z], i, q, n)
  BY <1>1, <1>2 DEF Follows, Fits, Queues, NoPkt
<1> HIDE DEF x, s, r, y
<1>7. /\ Least(r, q.wrote) = q.wrote /\ Least(r + 1, Least(y, q.wrote)) = q.wrote
      /\ Least(Place(x), q.wrote) = q.wrote /\ Least(Place(x) + 1, Least(y, q.wrote)) = q.wrote
  BY <1>1, <1>2, <1>4 DEF Least
<1>8. /\ At(Least(Place(x), q.wrote)) <= n
      /\ n <= At(Least(Place(x) + 1, Least(y, q.wrote)))
  BY <1>5, <1>7
<1> QED
  BY <1>1, <1>2, <1>4, <1>6, <1>8 DEF Follows, x, y

\* What is read of a data packet in part
LEMMA PartHolds ==
  ASSUME NEW k \in Sound, NEW i, NEW q, PeerOK(q), q.wrote + LocalWindow + 1 < PktSpace, NEW n \in Nat,
         Follows(k, i, q, n), k.readNum # k.receivedNum, k.rcvq[SlotOf(SeqInc(k.readNum))].op # "EOF",
         NEW data, data = k.rcvq[SlotOf(SeqInc(k.readNum))].data, NEW take \in Nat, take <= Len(data)
  PROVE  Holding(SubSeq(data, 1, take), i, n, n + take)
<1> DEFINE w == Place(SeqInc(k.readNum))
<1>1. n <= At(w) /\ At(w) \in Nat /\ Holding(data, i, n, At(w))
  BY NextHolds
<1>2. SlotOf(SeqInc(k.readNum)) \in 0..(Ring - 1)
  BY NextInRing
<1>3. data \in Data
  BY <1>2 DEF Sound, Conns, Queues, Pkts
<1> HIDE DEF w
<1> QED
  BY <1>1, <1>3, HoldingSplit

\* A data packet is read in part
LEMMA PartFollows ==
  ASSUME NEW k \in Sound, NEW i, NEW q, PeerOK(q), q.wrote + LocalWindow + 1 < PktSpace, NEW n \in Nat,
         Follows(k, i, q, n), k.readNum # k.receivedNum, k.rcvq[SlotOf(SeqInc(k.readNum))].op # "EOF",
         NEW data, data = k.rcvq[SlotOf(SeqInc(k.readNum))].data, NEW take \in Nat, take <= Len(data),
         NEW rest, rest = SubSeq(data, take + 1, Len(data)),
         NEW j, j.receivedNum = k.receivedNum, j.readNum = k.readNum, j.eofReceived = k.eofReceived,
         LET s == SlotOf(SeqInc(k.readNum))
         IN /\ j.rcvq[s].op = k.rcvq[s].op /\ j.rcvq[s].num = k.rcvq[s].num /\ j.rcvq[s].data = rest
            /\ \A z \in 0..(Ring - 1) : z # s => j.rcvq[z] = k.rcvq[z]
  PROVE  Follows(j, i, q, n + take)
<1> DEFINE x == SeqInc(k.readNum)
           s == SlotOf(x)
           p == k.rcvq[s]
           w == Place(x)
           m == n + take
<1>1. /\ x \in Num /\ s \in 0..(Ring - 1) /\ w = Place(k.readNum) + 1 /\ w <= Place(k.receivedNum)
      /\ \A z \in 0..(Ring - 1) : z # s /\ k.rcvq[z].op # "none" => w <= Place(k.rcvq[z].num) - 1
  BY NextInRing
<1>2. /\ p.op = "DAT" /\ p.num = x /\ w \in Nat /\ w <= q.wrote
      /\ n <= At(w) /\ At(w) \in Nat /\ Holding(p.data, i, n, At(w))
  BY NextHolds
<1>3. p \in Pkts /\ p.data \in Data /\ k.rcvq \in Queues
  BY <1>1 DEF Sound, Conns, Queues, Pkts
<1>4. Holding(SubSeq(p.data, 1, take), i, n, m) /\ Holding(rest, i, m, At(w)) /\ Len(p.data) = At(w) - n
  <2>1. take <= Len(p.data) /\ rest = SubSeq(p.data, take + 1, Len(p.data))
    OBVIOUS
  <2> HIDE DEF p, w
  <2>2. /\ Holding(SubSeq(p.data, 1, take), i, n, n + take)
        /\ Holding(SubSeq(p.data, take + 1, Len(p.data)), i, n + take, At(w))
    BY <1>2, <1>3, <2>1, HoldingSplit
  <2>3. Len(p.data) = At(w) - n
    BY <1>2 DEF Holding
  <2> QED
    BY <2>1, <2>2, <2>3
<1>5. m \in Nat /\ n <= m /\ m <= At(w)
  BY <1>2, <1>4
<1>6. Place(k.readNum) \in Nat /\ Place(k.receivedNum) \in Nat /\ q.wrote \in Nat
  BY PlaceType, ReachType DEF Sound, Conns
<1>7. \A z \in 0..(Ring - 1) : z # s => j.rcvq[z] = k.rcvq[z]
  OBVIOUS
<1>8. j.rcvq[s].op = "DAT" /\ j.rcvq[s].num = x /\ j.rcvq[s].data = rest
  BY <1>2
<1> HIDE DEF x, s, p
<1>9. /\ At(Least(Place(k.readNum), q.wrote)) <= n
      /\ \A z \in 0..(Ring - 1) : Fits(k.rcvq[z], i, q, n)
      /\ Place(k.readNum) <= Place(k.receivedNum) /\ Place(k.receivedNum) <= Reach(q)
      /\ k.eofReceived => Place(k.readNum) = q.wrote + 1
  BY DEF Follows
<1>10. Least(Place(k.readNum), q.wrote) = w - 1 /\ w - 1 \in Nat /\ w \in 1..q.wrote
       /\ Least(Place(k.readNum) + 1, Least(Place(k.receivedNum), q.wrote)) = w
  BY <1>1, <1>2, <1>6 DEF Least
<1>11. Most(m, At(w - 1)) = m /\ At(w - 1) \in Nat /\ At(w - 1) <= m
  <2>1. At(w - 1) \in Nat
    BY <1>10, AtIs
  <2>2. At(w - 1) <= n
    BY <1>9, <1>10
  <2> HIDE DEF w
  <2> QED
    BY <1>5, <2>1, <2>2 DEF Most
<1>12. Fits(j.rcvq[s], i, q, m)
  BY <1>4, <1>8, <1>10, <1>11 DEF Fits
<1>13. ASSUME NEW z \in 0..(Ring - 1), z # s
       PROVE  Fits(j.rcvq[z], i, q, m)
  <2>1. Fits(k.rcvq[z], i, q, n) /\ j.rcvq[z] = k.rcvq[z]
    BY <1>7, <1>9, <1>13
  <2>2. k.rcvq[z].op # "none" => w <= Place(k.rcvq[z].num) - 1
    BY <1>1, <1>13
  <2> HIDE DEF w, m
  <2> QED
    BY <1>2, <1>5, <2>1, <2>2, OthersFit
<1>14. \A z \in 0..(Ring - 1) : Fits(j.rcvq[z], i, q, m)
  BY <1>12, <1>13
<1>15. /\ At(Least(Place(k.readNum), q.wrote)) <= m
       /\ m <= At(Least(Place(k.readNum) + 1, Least(Place(k.receivedNum), q.wrote)))
  <2> HIDE DEF w, m
  <2> QED
    BY <1>5, <1>10, <1>11
<1>16. Follows(j, i, q, m)
  <2> HIDE DEF m
  <2> QED
    BY <1>9, <1>14, <1>15 DEF Follows
<1> QED
  BY <1>4, <1>16 DEF p, s, x

\* A data packet is read
LEMMA WholeFollows ==
  ASSUME NEW k \in Sound, NEW i, NEW q, PeerOK(q), q.wrote + LocalWindow + 1 < PktSpace, NEW n \in Nat,
         Follows(k, i, q, n), k.readNum # k.receivedNum, k.rcvq[SlotOf(SeqInc(k.readNum))].op # "EOF",
         NEW j, j.receivedNum = k.receivedNum, j.readNum = SeqInc(k.readNum), j.eofReceived = k.eofReceived, ~k.eofReceived,
         j.rcvq = [k.rcvq EXCEPT ![SlotOf(SeqInc(k.readNum))] = NoPkt]
  PROVE  LET data == k.rcvq[SlotOf(SeqInc(k.readNum))].data
         IN Follows(j, i, q, n + Len(data)) /\ Holding(data, i, n, n + Len(data)) /\ Len(data) \in Nat
<1> DEFINE x == SeqInc(k.readNum)
           s == SlotOf(x)
           p == k.rcvq[s]
           w == Place(x)
           m == n + Len(p.data)
<1>1. /\ x \in Num /\ s \in 0..(Ring - 1) /\ w = Place(k.readNum) + 1 /\ w <= Place(k.receivedNum)
      /\ \A z \in 0..(Ring - 1) : z # s /\ k.rcvq[z].op # "none" => w <= Place(k.rcvq[z].num) - 1
  BY NextInRing
<1>2. /\ p.op = "DAT" /\ p.num = x /\ w \in Nat /\ w <= q.wrote
      /\ n <= At(w) /\ At(w) \in Nat /\ Holding(p.data, i, n, At(w))
  BY NextHolds
<1>3. p \in Pkts /\ p.data \in Data /\ k.rcvq \in Queues
  BY <1>1 DEF Sound, Conns, Queues, Pkts
<1>4. Len(p.data) = At(w) - n /\ m = At(w) /\ Len(p.data) \in Nat
  BY <1>2 DEF Holding
<1>5. m \in Nat /\ n <= m
  BY <1>2, <1>4
<1>6. Place(k.readNum) \in Nat /\ Place(k.receivedNum) \in Nat /\ q.wrote \in Nat
  BY PlaceType, ReachType DEF Sound, Conns
<1>7. j.rcvq[s] = NoPkt /\ \A z \in 0..(Ring - 1) : z # s => j.rcvq[z] = k.rcvq[z]
  BY <1>1, <1>3 DEF Queues
<1> HIDE DEF x, s, p, m
<1>8. /\ \A z \in 0..(Ring - 1) : Fits(k.rcvq[z], i, q, n)
      /\ Place(k.receivedNum) <= Reach(q)
  BY DEF Follows
<1>9. /\ Least(w, q.wrote) = w
      /\ Least(w + 1, Least(Place(k.receivedNum), q.wrote)) \in Nat
      /\ w <= Least(w + 1, Least(Place(k.receivedNum), q.wrote))
  BY <1>1, <1>2, <1>6 DEF Least
<1>10. ASSUME NEW z \in 0..(Ring - 1), z # s
       PROVE  Fits(j.rcvq[z], i, q, m)
  <2>1. Fits(k.rcvq[z], i, q, n) /\ j.rcvq[z] = k.rcvq[z]
    BY <1>7, <1>8, <1>10
  <2>2. k.rcvq[z].op # "none" => w <= Place(k.rcvq[z].num) - 1
    BY <1>1, <1>10
  <2>3. m <= At(w)
    BY <1>4, <1>5
  <2> HIDE DEF w
  <2> QED
    BY <1>2, <1>5, <2>1, <2>2, <2>3, OthersFit
<1>11. \A z \in 0..(Ring - 1) : Fits(j.rcvq[z], i, q, m)
  BY <1>7, <1>10 DEF Fits, NoPkt
<1>12. At(w) <= At(Least(w + 1, Least(Place(k.receivedNum), q.wrote)))
  BY <1>2, <1>9, AtGrows
<1>13. At(Least(w, q.wrote)) <= m /\ m <= At(Least(w + 1, Least(Place(k.receivedNum), q.wrote)))
  <2> HIDE DEF w
  <2> QED
    BY <1>2, <1>4, <1>9, <1>12
<1>14. Follows(j, i, q, m)
  BY <1>1, <1>8, <1>11, <1>13 DEF Follows, x
<1> QED
  BY <1>2, <1>4, <1>14 DEF p, s, x, m

\* What chaos_recv has read so far follows the stream
SameOwner(k, j) ==
  /\ j.state = k.state /\ j.localIndex = k.localIndex /\ j.remoteIndex = k.remoteIndex
  /\ j.receivedNum = k.receivedNum /\ j.sendq = k.sendq
FollowsTo(a, k, i, q, n) ==
  /\ SameOwner(k, a.k) /\ Follows(a.k, i, q, n + Len(a.got)) /\ Holding(a.got, i, n, n + Len(a.got))

\* One packet
LEMMA RecvFollows ==
  ASSUME NEW k \in Sound, NEW max \in Nat, NEW a, Reading(a, k, max), NEW r \in Num, r # k.receivedNum,
         a.stop \/ Len(a.got) >= max \/ a.k.eofReceived \/ a.k.readNum = r,
         NEW i, NEW q, PeerOK(q), q.wrote + LocalWindow + 1 < PktSpace, NEW n \in Nat, FollowsTo(a, k, i, q, n)
  PROVE  FollowsTo(RecvPacket(a, SeqInc(r), max), k, i, q, n)
<1> DEFINE x == SeqInc(r)
           s == SlotOf(x)
           p == a.k.rcvq[s]
           take == Least(Len(p.data), max - Len(a.got))
           rest == SubSeq(p.data, take + 1, Len(p.data))
           read == [a.k EXCEPT !.rcvq[s] = NoPkt, !.readNum = x]
           eof == [read EXCEPT !.eofReceived = TRUE]
           part == [a.k EXCEPT !.rcvq[s].data = rest]
           b == RecvPacket(a, x, max)
           m == n + Len(a.got)
<1>1. /\ a \in [k : Sound, got : Data, stop : BOOLEAN] /\ Len(a.got) <= max /\ Len(a.got) \in Nat
      /\ a.k \in Sound /\ a.k \in Conns /\ a.got \in Data /\ m \in Nat
  BY LenProperties DEF Reading, Sound, Data
<1>2. SameOwner(k, a.k) /\ Follows(a.k, i, q, m) /\ Holding(a.got, i, n, m)
  BY DEF FollowsTo
<1>3. CASE a.stop \/ Len(a.got) >= max \/ a.k.eofReceived
  <2>1. b = a
    BY <1>3 DEF RecvPacket
  <2> QED
    BY <2>1
<1>4. ASSUME ~(a.stop \/ Len(a.got) >= max \/ a.k.eofReceived)
      PROVE  FollowsTo(b, k, i, q, n)
  <2>1. a.k.readNum = r /\ a.k.readNum # a.k.receivedNum /\ ~a.k.eofReceived
    BY <1>2, <1>4 DEF SameOwner
  <2>2. x \in Num /\ s \in 0..(Ring - 1) /\ a.k.rcvq \in Queues
    BY <1>1, IncIs, SlotType DEF Conns
  <2>3. p \in Pkts /\ p.data \in Data /\ Len(p.data) \in Nat
    BY <2>2, LenProperties DEF Queues, Pkts, Data
  <2>4. b = IF p.op = "EOF" THEN [a EXCEPT !.k = eof]
            ELSE IF rest # <<>> THEN [k |-> part, got |-> a.got \o SubSeq(p.data, 1, take), stop |-> TRUE]
            ELSE [a EXCEPT !.k = read, !.got = a.got \o p.data]
    BY <1>1, <1>4 DEF RecvPacket
  <2>5. /\ SameOwner(k, read) /\ read.readNum = x /\ read.eofReceived = a.k.eofReceived
        /\ read.receivedNum = a.k.receivedNum /\ read.rcvq = [a.k.rcvq EXCEPT ![s] = NoPkt]
    BY <1>1, <1>2 DEF Conns, SameOwner
  <2>6. /\ SameOwner(k, eof) /\ eof.readNum = x
        /\ eof.receivedNum = a.k.receivedNum /\ eof.rcvq = [a.k.rcvq EXCEPT ![s] = NoPkt]
    BY <1>1, <1>2 DEF Conns, SameOwner
  <2>7. /\ SameOwner(k, part) /\ part.readNum = a.k.readNum /\ part.eofReceived = a.k.eofReceived
        /\ part.receivedNum = a.k.receivedNum /\ part.rcvq = [a.k.rcvq EXCEPT ![s].data = rest]
    <3> HIDE DEF rest
    <3> QED
      BY <1>1, <1>2 DEF Conns, SameOwner
  <2>8. take \in Nat /\ take <= Len(p.data)
    <3>1. Len(p.data) \in Int /\ max - Len(a.got) \in Nat
      BY <1>1, <2>3
    <3>2. take \in {Len(p.data), max - Len(a.got)} /\ take <= Len(p.data)
      BY <3>1, LeastIs
    <3> HIDE DEF take, p
    <3> QED
      BY <2>3, <3>1, <3>2
  <2> HIDE DEF read, eof, part, take, rest, b
  <2>9. ASSUME p.op = "EOF"
        PROVE  FollowsTo(b, k, i, q, n)
    <3>1. b.k = eof /\ b.got = a.got
      BY <1>1, <2>4, <2>9
    <3>2. Follows(eof, i, q, m)
      <4> HIDE DEF m
      <4> QED
        BY <1>1, <1>2, <2>1, <2>6, <2>9, EofFollows
    <3> QED
      BY <1>2, <2>6, <3>1, <3>2 DEF FollowsTo
  <2>10. ASSUME p.op # "EOF", rest # <<>>
         PROVE  FollowsTo(b, k, i, q, n)
    <3> DEFINE g == SubSeq(p.data, 1, take)
    <3>1. b.k = part /\ b.got = a.got \o g
      BY <2>4, <2>10
    <3>2. Follows(part, i, q, m + take) /\ Holding(g, i, m, m + take)
      <4>1. rest = SubSeq(p.data, take + 1, Len(p.data))
        BY DEF rest
      <4> DEFINE data == p.data
      <4>2. data = a.k.rcvq[SlotOf(SeqInc(a.k.readNum))].data /\ s = SlotOf(SeqInc(a.k.readNum))
            /\ a.k.rcvq[SlotOf(SeqInc(a.k.readNum))].op # "EOF"
        BY <2>1, <2>10
      <4>3. take <= Len(data) /\ rest = SubSeq(data, take + 1, Len(data))
        BY <2>8, <4>1
      <4> HIDE DEF m, data, s
      <4>4. /\ part.rcvq[s].op = a.k.rcvq[s].op /\ part.rcvq[s].num = a.k.rcvq[s].num /\ part.rcvq[s].data = rest
            /\ \A z \in 0..(Ring - 1) : z # s => part.rcvq[z] = a.k.rcvq[z]
        <5>1. part.rcvq[s] = [a.k.rcvq[s] EXCEPT !.data = rest]
          BY <2>2, <2>7 DEF Queues
        <5>2. \A z \in 0..(Ring - 1) : z # s => part.rcvq[z] = a.k.rcvq[z]
          BY <2>2, <2>7 DEF Queues
        <5> QED
          BY <2>3, <5>1, <5>2 DEF Pkts
      <4> DEFINE j == a.k
      <4>5. /\ j \in Sound /\ m \in Nat /\ Follows(j, i, q, m) /\ j.readNum # j.receivedNum
            /\ j.rcvq[SlotOf(SeqInc(j.readNum))].op # "EOF" /\ data = j.rcvq[SlotOf(SeqInc(j.readNum))].data
            /\ part.receivedNum = j.receivedNum /\ part.readNum = j.readNum /\ part.eofReceived = j.eofReceived
            /\ s = SlotOf(SeqInc(j.readNum))
            /\ part.rcvq[s].op = j.rcvq[s].op /\ part.rcvq[s].num = j.rcvq[s].num /\ part.rcvq[s].data = rest
            /\ \A z \in 0..(Ring - 1) : z # s => part.rcvq[z] = j.rcvq[z]
        BY <1>1, <1>2, <2>1, <2>7, <4>2, <4>4
      <4> HIDE DEF j
      <4>7. Follows(part, i, q, m + take)
        BY <2>8, <4>3, <4>5, PartFollows
      <4>6. Holding(SubSeq(data, 1, take), i, m, m + take)
        BY <1>1, <1>2, <2>1, <2>8, <4>2, <4>3, PartHolds
      <4> QED
        BY <4>6, <4>7 DEF data
    <3>3. g \in Data
      <4>1. 0 \in Nat /\ 0 <= take /\ 0 + 1 = 1
        BY <2>8
      <4> HIDE DEF p
      <4> QED
        BY <2>3, <2>8, <4>1, PartType
    <3>4. n <= m /\ m <= m + take /\ m + take \in Nat /\ (m + take) - n = Len(a.got) + take
      BY <1>1, <2>8
    <3> HIDE DEF g, m
    <3>5. Holding(a.got \o g, i, n, m + take) /\ Len(a.got \o g) = (m + take) - n
      BY <1>1, <1>2, <3>2, <3>3, <3>4, HoldingJoin
    <3>6. n + Len(a.got \o g) = m + take
      BY <1>1, <2>8, <3>4, <3>5
    <3> QED
      BY <2>7, <3>1, <3>2, <3>5, <3>6 DEF FollowsTo
  <2>11. ASSUME p.op # "EOF", rest = <<>>
         PROVE  FollowsTo(b, k, i, q, n)
    <3> DEFINE g == p.data
               l == Len(g)
    <3>1. b.k = read /\ b.got = a.got \o g
      BY <1>1, <2>4, <2>11
    <3>2. Follows(read, i, q, m + l) /\ Holding(g, i, m, m + l) /\ l \in Nat
      <4> HIDE DEF m
      <4> QED
        BY <1>1, <1>2, <2>1, <2>5, <2>11, WholeFollows
    <3>3. n <= m /\ m <= m + l /\ m + l \in Nat /\ (m + l) - n = Len(a.got) + l
      <4> HIDE DEF l
      <4> QED
        BY <1>1, <3>2
    <3>4. g \in Data
      BY <2>3
    <3> HIDE DEF g, m, l
    <3>5. Holding(a.got \o g, i, n, m + l) /\ Len(a.got \o g) = (m + l) - n
      BY <1>1, <1>2, <3>2, <3>3, <3>4, HoldingJoin
    <3>6. n + Len(a.got \o g) = m + l
      BY <1>1, <3>2, <3>3, <3>5
    <3> QED
      BY <2>5, <3>1, <3>2, <3>5, <3>6 DEF FollowsTo
  <2> QED
    BY <2>9, <2>10, <2>11
<1> QED
  BY <1>3, <1>4

\* chaos_recv
LEMMA ReceivedFollows ==
  ASSUME NEW k \in Sound, NEW max \in Nat,
         NEW i, NEW q, PeerOK(q), q.wrote + LocalWindow + 1 < PktSpace, NEW n \in Nat, Follows(k, i, q, n)
  PROVE  FollowsTo(Received(k, max), k, i, q, n)
<1> DEFINE N == SeqDiff(k.receivedNum, k.readNum)
           F == RecvRounds(k, max)
           To(j) == (k.readNum + j) % PktSpace
           Good(j) == /\ Reading(F[j], k, max) /\ FollowsTo(F[j], k, i, q, n)
                      /\ F[j].stop \/ Len(F[j].got) >= max \/ F[j].k.eofReceived \/ F[j].k.readNum = To(j)
           S == {j \in Nat : Good(j)}
<1>1. N \in Nat /\ k.readNum \in Num
  BY DiffType DEF Sound, Conns
<1>2. /\ F[0] = [k |-> k, got |-> <<>>, stop |-> FALSE]
      /\ \A j \in 1..N : F[j] = RecvPacket(F[j - 1], To(j), max)
  BY RecvRoundsIs
<1>3. ASSUME NEW j \in 1..N
      PROVE  To(j - 1) \in Num /\ To(j - 1) # k.receivedNum /\ To(j) = SeqInc(To(j - 1))
  BY NextRead
<1>4. To(0) = k.readNum
  BY <1>1, PlusIs, Sizes DEF Num
<1>5. Received(k, max) = F[N]
  BY DEF Received
<1> HIDE DEF F, To, N
<1>6. 0 \in S
  <2>1. <<>> \in Data /\ Len(<<>>) = 0
    BY ShortSeqs DEF Data
  <2>2. F[0].k = k /\ F[0].got = <<>> /\ F[0].stop = FALSE
    BY <1>2
  <2>3. F[0] \in [k : Sound, got : Data, stop : BOOLEAN]
    BY <1>2, <2>1
  <2>4. Reading(F[0], k, max)
    BY <2>1, <2>2, <2>3 DEF Reading
  <2>5. n + Len(<<>>) = n /\ Holding(<<>>, i, n, n)
    BY <2>1 DEF Holding
  <2>6. FollowsTo(F[0], k, i, q, n)
    BY <2>2, <2>5 DEF FollowsTo, SameOwner
  <2> QED
    BY <1>4, <2>2, <2>4, <2>6
<1>7. ASSUME NEW j \in 1..N, j - 1 \in S
      PROVE  j \in S
  <2>1. j \in Nat /\ Good(j - 1)
    BY <1>1, <1>7
  <2>2. F[j] = RecvPacket(F[j - 1], SeqInc(To(j - 1)), max)
    BY <1>2, <1>3
  <2>3. To(j - 1) \in Num /\ To(j - 1) # k.receivedNum /\ To(j) = SeqInc(To(j - 1))
    BY <1>3
  <2>4. FollowsTo(F[j], k, i, q, n)
    BY <2>1, <2>2, <2>3, RecvFollows
  <2>5. Good(j)
    BY <2>1, <2>2, <2>3, <2>4, RecvPacketOK
  <2> QED
    BY <2>1, <2>5
<1>8. \A j \in 0..N : j \in S
  <2> HIDE DEF S
  <2> QED
    BY <1>1, <1>6, <1>7, LoopInduction
<1> QED
  BY <1>1, <1>5, <1>8

---------------------------------------------------------------------------
(* What the user of a connection does                                      *)

\* chaos_send and chaos_finish keep the sets of a view, a free connection is in them
LEMMA KeptUses ==
  ASSUME NEW v, ViewOK(v)
  PROVE  /\ Carrying(Kept(v), Sent(v)) /\ Wanting(Kept(v))
         /\ \A h \in Slots : FreeConn \in Kept(v)[h]
<1> DEFINE K == Kept(v)
<1>1. ASSUME NEW h \in Slots, NEW k \in K[h] \cap Sound, NEW data \in Data, k.state = "OPEN"
      PROVE  /\ Controlled(k, "DAT", data) \in K[h]
             /\ Outgoing(k, [op |-> "DAT", num |-> SeqInc(k.sentNum), data |-> data]) \in Sent(v)
  <2> DEFINE p == [op |-> "DAT", num |-> SeqInc(k.sentNum), data |-> data]
             j == Controlled(k, "DAT", data)
  <2>1. k \in Conns /\ Known(k, v) /\ k.sentNum \in Num /\ k.sendq \in Queues
    BY KeptIs DEF Sound, Conns
  <2>2. Joined(k, v)
    BY <1>1, <2>1, OpenIsJoined
  <2>3. SeqInc(k.sentNum) \in Num /\ SlotOf(SeqInc(k.sentNum)) \in 0..(Ring - 1)
    BY <2>1, IncIs, SlotType
  <2>4. p \in Pkts /\ p.op = "DAT"
    BY <2>3 DEF Pkts
  <2>5. j = [k EXCEPT !.sentNum = SeqInc(k.sentNum), !.sendq = [@ EXCEPT ![SlotOf(SeqInc(k.sentNum))] = p]]
    BY DEF Controlled
  <2> HIDE DEF j, p
  <2>6. Outgoing(k, p) \in Sent(v)
    BY <2>2, <2>4, JoinedSends
  <2>7. j \in Conns /\ SameInput(k, j)
    BY <2>1, <2>3, <2>4, <2>5 DEF Conns, Queues, SameInput
  <2>8. \A s \in 0..(Ring - 1) : j.sendq[s] = k.sendq[s] \/ j.sendq[s].op = "DAT"
    BY <2>1, <2>3, <2>4, <2>5 DEF Conns, Queues
  <2>9. Known(j, v)
    BY <1>1, <2>1, <2>7, <2>8, KnownSame
  <2>10. j \in K[h]
    BY <2>7, <2>9, KeptIs
  <2> QED
    BY <2>6, <2>10 DEF j, p
<1>2. ASSUME NEW h \in Slots, NEW k \in K[h] \cap Sound
      PROVE  [k EXCEPT !.eofWanted = TRUE] \in K[h]
  <2> DEFINE j == [k EXCEPT !.eofWanted = TRUE]
  <2>1. k \in Conns /\ Known(k, v)
    BY KeptIs DEF Sound
  <2>2. j \in Conns /\ SameInput(k, j) /\ j.sendq = k.sendq
    BY <2>1 DEF Conns, SameInput
  <2> HIDE DEF j
  <2>3. j \in K[h]
    BY <2>1, <2>2, KnownSame, KeptIs
  <2> QED
    BY <2>3 DEF j
<1>3. ASSUME NEW h \in Slots
      PROVE  FreeConn \in K[h]
  <2>1. FreeConn \in Conns /\ FreeConn.state = "FREE" /\ FreeConn.remoteIndex = 0
    BY FreeIsSound DEF Sound, FreeConn
  <2> QED
    BY <2>1, KeptIs DEF Known
<1> HIDE DEF K
<1> QED
  BY <1>1, <1>2, <1>3 DEF Carrying, Wanting, K

\* Free connections are in the sets of every view
LEMMA FreeKnown ==
  ASSUME NEW v, NEW w, NEW k, Known(k, v), k.state = "FREE"
  PROVE  Known(k, w)
BY DEF Known

\* A view
View(ps, mine, ses, top, n, low, who) ==
  [ps |-> ps, mine |-> mine, ses |-> ses, top |-> top, n |-> n, low |-> low, who |-> who]

\* A core whose connections are known in another view
LEMMA InsideAs ==
  ASSUME NEW v, NEW c, Inside(c, Kept(v), Sent(v)), NEW w, Sent(v) \subseteq Sent(w),
         \A g \in Slots : c.conns[g].state # "FREE" /\ Known(c.conns[g], v) => Known(c.conns[g], w)
  PROVE  Inside(c, Kept(w), Sent(w))
<1>1. c \in Cores /\ c.out \in Seq(Sent(v)) /\ \A g \in Slots : c.conns[g] \in Conns /\ Known(c.conns[g], v)
  BY KeptIs DEF Inside
<1>2. c.out \in Seq(Sent(w))
  <2>1. Seq(Sent(v)) \subseteq Seq(Sent(w))
    <3> SUFFICES ASSUME NEW q \in Seq(Sent(v))
                 PROVE  q \in Seq(Sent(w))
      OBVIOUS
    <3>1. Len(q) \in Nat /\ q \in [1..Len(q) -> Sent(v)]
      BY LenProperties
    <3>2. q \in [1..Len(q) -> Sent(w)]
      BY <3>1
    <3> QED
      BY <3>1, <3>2, IsASeq
  <2> QED
    BY <1>1, <2>1
<1>3. \A g \in Slots : c.conns[g] \in Kept(w)[g]
  BY <1>1, FreeKnown, KeptIs
<1> QED
  BY <1>1, <1>2, <1>3 DEF Inside

\* More was read
LEMMA FurtherOK ==
  ASSUME NEW v, ViewOK(v), 0 \notin v.who, NEW l \in Nat, NEW w,
         w = View(v.ps, v.mine, v.ses, v.top, v.n + l, v.low, v.who)
  PROVE  /\ w.ps = v.ps /\ w.mine = v.mine /\ w.ses = v.ses /\ w.top = v.top /\ w.n = v.n + l /\ w.low = v.low
         /\ w.who = v.who /\ ViewOK(w) /\ Sent(w) = Sent(v)
<1>1. /\ w.ps = v.ps /\ w.mine = v.mine /\ w.ses = v.ses /\ w.top = v.top /\ w.n = v.n + l /\ w.low = v.low
      /\ w.who = v.who
  BY DEF View
<1>2. ViewOK(w)
  BY <1>1 DEF ViewOK
<1>3. Sent(w) = Sent(v)
  BY <1>1 DEF Sent, ForPeer
<1> QED
  BY <1>1, <1>2, <1>3

\* The connection of a client is open: it stays with this peer
LEMMA SettledOK ==
  ASSUME NEW v, ViewOK(v), NEW i \in DOMAIN v.ps, v.n = 0, v.low = 0, NEW w,
         w = View(v.ps, v.mine, v.ses, v.top, 0, 0, {i})
  PROVE  /\ w.ps = v.ps /\ w.mine = v.mine /\ w.ses = v.ses /\ w.top = v.top /\ w.n = 0 /\ w.low = 0 /\ w.who = {i}
         /\ ViewOK(w) /\ Sent(w) = Sent(v)
         /\ \A k : k.remoteIndex = i /\ Known(k, v) => Known(k, w)
<1>1. /\ w.ps = v.ps /\ w.mine = v.mine /\ w.ses = v.ses /\ w.top = v.top /\ w.n = v.n /\ w.low = v.low
      /\ w.who = {i}
  BY DEF View
<1>2. i # 0
  BY ViewPeers
<1>3. ViewOK(w)
  BY <1>1, <1>2 DEF ViewOK
<1>4. Sent(w) = Sent(v)
  BY <1>1 DEF Sent, ForPeer
<1>5. \A k : Joined(k, v) => Joined(k, w)
  BY <1>1 DEF Joined
<1>6. \A k : k.remoteIndex = i /\ Known(k, v) => Known(k, w)
  BY <1>1, <1>5 DEF Known
<1> QED
  BY <1>1, <1>3, <1>4, <1>6

\* The mark of what a connection has received
LEMMA MarkedOK ==
  ASSUME NEW v, ViewOK(v), 0 \notin v.who, NEW l \in Nat, NEW w,
         w = View(v.ps, v.mine, v.ses, v.top, v.n, l, v.who)
  PROVE  /\ w.ps = v.ps /\ w.mine = v.mine /\ w.ses = v.ses /\ w.top = v.top /\ w.n = v.n /\ w.low = l
         /\ w.who = v.who /\ ViewOK(w) /\ Sent(w) = Sent(v)
         /\ \A k : Known(k, v) /\ Place(k.receivedNum) >= l => Known(k, w)
<1>1. /\ w.ps = v.ps /\ w.mine = v.mine /\ w.ses = v.ses /\ w.top = v.top /\ w.n = v.n /\ w.low = l
      /\ w.who = v.who
  BY DEF View
<1>2. ViewOK(w)
  BY <1>1 DEF ViewOK
<1>3. Sent(w) = Sent(v)
  BY <1>1 DEF Sent, ForPeer
<1>4. ASSUME NEW k, Joined(k, v), Place(k.receivedNum) >= l
      PROVE  Joined(k, w)
  BY <1>1, <1>4 DEF Joined
<1>5. \A k : Known(k, v) /\ Place(k.receivedNum) >= l => Known(k, w)
  BY <1>1, <1>4 DEF Known
<1> QED
  BY <1>1, <1>2, <1>3, <1>5

\* The client has no connection, and no index is its own
LEMMA ReleasedOK ==
  ASSUME NEW v, ViewOK(v), NEW ses \in Nat, NEW w, w = View(v.ps, {}, ses, v.top, 0, 0, Nat)
  PROVE  /\ w.ps = v.ps /\ w.mine = {} /\ w.ses = ses /\ w.top = v.top /\ w.n = 0 /\ w.low = 0 /\ w.who = Nat
         /\ ViewOK(w) /\ Sent(v) \subseteq Sent(w)
<1>1. /\ w.ps = v.ps /\ w.mine = {} /\ w.ses = ses /\ w.top = v.top /\ w.n = 0 /\ w.low = 0 /\ w.who = Nat
  BY DEF View
<1>2. ViewOK(w)
  BY <1>1 DEF ViewOK
<1>3. Sent(v) \subseteq Sent(w)
  BY <1>1 DEF Sent, ForPeer
<1> QED
  BY <1>1, <1>2, <1>3

\* The client has an index that was not used before
LEMMA TakenOK ==
  ASSUME NEW v, ViewOK(v), NEW x \in Nat, v.top <= x, NEW top \in Nat, x < top
  PROVE  LET w == View(v.ps, {x}, v.ses, top, 0, 0, Nat)
         IN /\ w.ps = v.ps /\ w.mine = {x} /\ w.ses = v.ses /\ w.top = top /\ w.n = 0 /\ w.low = 0 /\ w.who = Nat
            /\ ViewOK(w) /\ Sent(v) \subseteq Sent(w)
<1> DEFINE w == View(v.ps, {x}, v.ses, top, 0, 0, Nat)
<1>1. /\ w.ps = v.ps /\ w.mine = {x} /\ w.ses = v.ses /\ w.top = top /\ w.n = 0 /\ w.low = 0 /\ w.who = Nat
  BY DEF View
<1> HIDE DEF w
<1>2. v.top \in Nat /\ v.ses \in Nat
  BY DEF ViewOK
<1>3. \A y \in Nat : y < v.top => y < top /\ y # x
  BY <1>2
<1>4. \A i \in DOMAIN v.ps : v.ps[i].remote \in Nat
  BY ViewPeers, PeerFields
<1>5. ViewOK(w)
  BY <1>1, <1>2, <1>3, <1>4 DEF ViewOK
<1>6. ASSUME NEW m \in Packets, ForPeer(m, v)
      PROVE  ForPeer(m, w)
  <2>1. m.src \in Nat
    BY DEF Packets
  <2>2. m.op = "RFC" => m.src < top /\ m.src # x
    BY <1>3, <1>6, <2>1 DEF ForPeer
  <2> QED
    BY <1>1, <1>6, <2>2 DEF ForPeer
<1> QED
  BY <1>1, <1>5, <1>6 DEF Sent, w

\* chaos_recv
LEMMA ReceivedJoined ==
  ASSUME NEW v, ViewOK(v), NEW k \in Sound, Known(k, v), k.state # "FREE", 0 \notin v.who, NEW max \in Nat,
         NEW w, ViewOK(w), w.ps = v.ps, w.mine = v.mine, w.ses = v.ses, w.who = v.who, w.low = v.low,
         w.n = v.n + Len(Received(k, max).got)
  PROVE  LET r == Received(k, max)
         IN /\ Known(r.k, w) /\ r.k.state = k.state
            /\ Holding(r.got, k.remoteIndex, v.n, w.n)
<1> DEFINE r == Received(k, max)
           i == k.remoteIndex
           q == v.ps[i]
<1>1. i \in v.who /\ i # 0
  BY DEF Known
<1>2. Joined(k, v) /\ i \in DOMAIN v.ps
  BY <1>1, OpenIsJoined DEF Joined
<1>3. PeerOK(q) /\ q.wrote + LocalWindow + 1 < PktSpace /\ Follows(k, i, q, v.n) /\ v.n \in Nat
  BY <1>2, ViewPeers DEF Joined, ViewOK
<1> HIDE DEF q, i
<1>4. FollowsTo(r, k, i, q, v.n)
  BY <1>3, ReceivedFollows
<1> HIDE DEF r
<1>5. SameOwner(k, r.k) /\ Follows(r.k, i, q, w.n) /\ Holding(r.got, i, v.n, w.n)
  BY <1>4 DEF FollowsTo, r
<1>6. Joined(r.k, w)
  BY <1>2, <1>5 DEF Joined, SameOwner, i, q
<1>7. Known(r.k, w)
  BY <1>1, <1>5, <1>6 DEF Known, SameOwner, i
<1> QED
  BY <1>5, <1>7 DEF SameOwner, r, i

\* The end of chaos_recv, when every other connection is free
LEMMA TellWindowInside ==
  ASSUME NEW v, ViewOK(v), NEW c, Inside(c, Kept(v), Sent(v)), NEW h \in Slots,
         \A g \in Slots \ {h} : c.conns[g].state = "FREE",
         NEW w, ViewOK(w), Sent(w) = Sent(v), NEW k \in Sound, Known(k, w)
  PROVE  Inside(TellWindow(c, h, k), Kept(w), Sent(w))
<1> DEFINE d == [c EXCEPT !.conns[h] = k]
           e == [d EXCEPT !.conns[h].ackDue = TRUE]
           K == Kept(w)
           G == Sent(w)
<1>1. c \in Cores /\ c.out \in Seq(G) /\ \A g \in Slots : Known(c.conns[g], v)
  BY KeptIs DEF Inside
<1>2. d \in Cores /\ d.conns[h] = k /\ (\A g \in Slots \ {h} : d.conns[g] = c.conns[g])
  BY <1>1, SetConn
<1>3. d.out = c.out
  BY <1>1 DEF Cores
<1> HIDE DEF d
<1>4. \A g \in Slots : d.conns[g] \in K[g]
  <2> SUFFICES ASSUME NEW g \in Slots
               PROVE  d.conns[g] \in K[g]
    OBVIOUS
  <2>1. d.conns[g] \in Conns
    BY <1>2, ConnType
  <2>2. Known(d.conns[g], w)
    <3>1. CASE g = h
      BY <1>2, <3>1
    <3>2. CASE g # h
      BY <1>1, <1>2, <3>2, FreeKnown
    <3> QED
      BY <3>1, <3>2
  <2> QED
    BY <2>1, <2>2, KeptIs
<1>5. Inside(d, K, G) /\ Closed(K, G)
  BY <1>1, <1>2, <1>3, <1>4, KeptClosed DEF Inside
<1>6. TellWindow(c, h, k) = IF k.readNum = c.conns[h].readNum \/ k.state # "OPEN" THEN d
                            ELSE IF SeqDiff(k.readNum, k.lastAckSent) >= (LocalWindow + 1) \div 2 \/ k.eofReceived
                              THEN ConnSendSts(d, h) ELSE e
  BY DEF TellWindow, d
<1>7. k.state = "OPEN" => Inside(ConnSendSts(d, h), K, G)
  <2> HIDE DEF K, G
  <2> QED
    BY <1>2, <1>5, TellInside
<1>8. Inside(e, K, G)
  <2> DEFINE j == [k EXCEPT !.ackDue = TRUE]
  <2>1. k \in Conns
    BY DEF Sound
  <2>2. j = [k EXCEPT !.lastAckSent = k.lastAckSent, !.ackDue = TRUE] /\ k.lastAckSent \in Num
    BY <2>1 DEF Conns
  <2>3. j \in Sound /\ Alike(k, j)
    BY <2>1, <2>2, AlikeSound DEF Alike, Conns
  <2>4. e = [d EXCEPT !.conns[h] = j]
    BY <1>2 DEF Cores
  <2>5. k \in K[h] /\ Noting(K)
    BY <1>2, <1>4, <1>5 DEF Closed
  <2> HIDE DEF j, K, G, e
  <2>6. j \in K[h]
    BY <2>3, <2>5 DEF Noting
  <2> QED
    BY <1>5, <2>3, <2>4, <2>6, SetInside
<1> HIDE DEF e, K, G
<1>9. Inside(TellWindow(c, h, k), K, G)
  BY <1>5, <1>6, <1>7, <1>8
<1> QED
  BY <1>9 DEF K, G

---------------------------------------------------------------------------
(* The peer goes on                                                        *)
Later(p, q) ==
  /\ q.remote = p.remote /\ q.contact = p.contact /\ p.wrote <= q.wrote
  /\ Final(p) => Final(q) /\ q.wrote = p.wrote
Grows(ps, qs) == DOMAIN ps \subseteq DOMAIN qs /\ \A i \in DOMAIN ps : Later(ps[i], qs[i])

\* Its connections reach further
LEMMA LaterReaches ==
  ASSUME NEW p, NEW q, PeerOK(p), PeerOK(q), Later(p, q)
  PROVE  /\ Reach(p) \in Nat /\ Reach(q) \in Nat /\ p.wrote \in Nat /\ q.wrote \in Nat /\ Reach(p) <= Reach(q)
         /\ p.wrote <= q.wrote /\ p.wrote <= Reach(p) /\ Reach(p) <= p.wrote + 1
         /\ Reach(p) = p.wrote + 1 => q.wrote = p.wrote
<1>1. /\ p.wrote \in Nat /\ Reach(p) \in p.wrote..(p.wrote + 1) /\ (Reach(p) = p.wrote + 1 <=> Final(p))
      /\ q.wrote \in Nat /\ Reach(q) \in q.wrote..(q.wrote + 1) /\ (Reach(q) = q.wrote + 1 <=> Final(q))
  BY ReachType
<1>2. p.wrote <= q.wrote /\ (Final(p) => Final(q) /\ q.wrote = p.wrote)
  BY DEF Later
<1>3. Reach(p) <= Reach(q)
  <2>1. CASE Final(p)
    BY <1>1, <1>2, <2>1
  <2>2. CASE ~Final(p)
    BY <1>1, <1>2, <2>2
  <2> QED
    BY <2>1, <2>2
<1> QED
  BY <1>1, <1>2, <1>3

\* A connection follows the stream that goes on
LEMMA FollowsLater ==
  ASSUME NEW p, NEW q, PeerOK(p), PeerOK(q), Later(p, q), NEW k \in Conns, NEW i, NEW n \in Nat, Follows(k, i, p, n)
  PROVE  Follows(k, i, q, n)
<1> DEFINE r == Place(k.readNum)
           y == Place(k.receivedNum)
<1>1. r \in Nat /\ y \in Nat
  BY PlaceType DEF Conns
<1>2. /\ Reach(p) \in Nat /\ Reach(q) \in Nat /\ p.wrote \in Nat /\ q.wrote \in Nat /\ Reach(p) <= Reach(q)
      /\ p.wrote <= q.wrote /\ p.wrote <= Reach(p) /\ Reach(p) <= p.wrote + 1
      /\ Reach(p) = p.wrote + 1 => q.wrote = p.wrote
  BY LaterReaches
<1>3. /\ r <= y /\ y <= Reach(p) /\ (\A s \in 0..(Ring - 1) : Fits(k.rcvq[s], i, p, n))
      /\ k.eofReceived => r = p.wrote + 1
      /\ At(Least(r, p.wrote)) <= n /\ n <= At(Least(r + 1, Least(y, p.wrote)))
  BY DEF Follows
<1> HIDE DEF r, y
<1>4. y <= Reach(q)
  BY <1>1, <1>2, <1>3
<1>5. ASSUME NEW s \in 0..(Ring - 1)
      PROVE  Fits(k.rcvq[s], i, q, n)
  <2> DEFINE x == k.rcvq[s]
  <2>1. Fits(x, i, p, n)
    BY <1>3
  <2> HIDE DEF x
  <2>2. CASE x.op = "DAT"
    <3>1. Place(x.num) \in 1..q.wrote
      BY <1>2, <2>1, <2>2 DEF Fits
    <3> QED
      BY <2>1, <2>2, <3>1 DEF Fits, x
  <2>3. CASE x.op # "DAT"
    BY <2>1, <2>3 DEF Fits, x, Later
  <2> QED
    BY <2>2, <2>3
<1>6. k.eofReceived => r = q.wrote + 1
  BY <1>1, <1>2, <1>3
<1>7. Least(r, q.wrote) = Least(r, p.wrote)
  <2>1. CASE r <= p.wrote
    BY <1>1, <1>2, <2>1 DEF Least
  <2>2. CASE r > p.wrote
    <3>1. Reach(p) = p.wrote + 1
      BY <1>1, <1>2, <1>3, <2>2
    <3> QED
      BY <1>2, <3>1
  <2> QED
    BY <1>1, <1>2, <2>1, <2>2
<1>8. n <= At(Least(r + 1, Least(y, q.wrote)))
  <2> DEFINE a == Least(r + 1, Least(y, p.wrote))
             b == Least(r + 1, Least(y, q.wrote))
  <2>1. a \in Nat /\ b \in Nat /\ a <= b
    BY <1>1, <1>2 DEF Least
  <2>2. n <= At(a)
    BY <1>3
  <2> HIDE DEF a, b
  <2>3. At(a) <= At(b) /\ At(a) \in Nat /\ At(b) \in Nat
    BY <2>1, AtGrows
  <2>4. n <= At(b)
    BY <2>2, <2>3
  <2> QED
    BY <2>4 DEF b
<1>9. At(Least(r, q.wrote)) <= n
  BY <1>3, <1>7
<1> QED
  BY <1>3, <1>4, <1>5, <1>6, <1>8, <1>9 DEF Follows, r, y

\* What was known and sent stays so
LEMMA GrowsOK ==
  ASSUME NEW v, ViewOK(v), NEW qs, Grows(v.ps, qs), NEW w, ViewOK(w), w = View(qs, v.mine, v.ses, v.top, v.n, v.low, v.who)
  PROVE  /\ w.ps = qs /\ w.mine = v.mine /\ w.ses = v.ses /\ w.top = v.top /\ w.n = v.n /\ w.low = v.low
         /\ w.who = v.who /\ Sent(v) \subseteq Sent(w)
         /\ \A k \in Conns : Known(k, v) => Known(k, w)
         /\ \A m : FromPeer(m, v.ps) => FromPeer(m, qs)
<1>1. /\ w.ps = qs /\ w.mine = v.mine /\ w.ses = v.ses /\ w.top = v.top /\ w.n = v.n /\ w.low = v.low
      /\ w.who = v.who
  BY DEF View
<1>2. /\ \A i \in DOMAIN v.ps : PeerOK(v.ps[i])
      /\ \A i \in DOMAIN qs : PeerOK(qs[i])
  BY <1>1, ViewPeers
<1>3. ASSUME NEW i \in DOMAIN v.ps
      PROVE  /\ i \in DOMAIN qs /\ Later(v.ps[i], qs[i])
             /\ Reach(v.ps[i]) \in Nat /\ Reach(qs[i]) \in Nat /\ v.ps[i].wrote \in Nat /\ qs[i].wrote \in Nat
             /\ Reach(v.ps[i]) <= Reach(qs[i]) /\ v.ps[i].wrote <= qs[i].wrote
  <2>1. i \in DOMAIN qs /\ Later(v.ps[i], qs[i])
    BY DEF Grows
  <2> QED
    BY <1>2, <2>1, LaterReaches
<1>4. ASSUME NEW m \in Packets, ForPeer(m, v)
      PROVE  ForPeer(m, w)
  <2>1. ASSUME m.op \in {"DAT", "EOF", "STS", "SNS"}
        PROVE  m.dest \in DOMAIN qs /\ Place(m.ack) <= Reach(qs[m.dest])
    <3>1. m.dest \in DOMAIN v.ps /\ Place(m.ack) <= Reach(v.ps[m.dest]) /\ Place(m.ack) \in Nat
      BY <1>4, <2>1, PlaceType DEF ForPeer, Packets
    <3> QED
      BY <1>3, <3>1
  <2>2. ASSUME m.op = "STS"
        PROVE  Place(m.data[1]) <= Reach(qs[m.dest])
    <3>1. m.dest \in DOMAIN v.ps /\ Place(m.data[1]) <= Reach(v.ps[m.dest]) /\ Place(m.data[1]) \in Nat
      BY <1>4, <2>2, PlaceType DEF ForPeer, Packets
    <3> QED
      BY <1>3, <3>1
  <2> QED
    BY <1>1, <1>4, <2>1, <2>2 DEF ForPeer
<1>5. ASSUME NEW k \in Conns, Known(k, v)
      PROVE  Known(k, w)
  <2>1. ASSUME Joined(k, v)
        PROVE  Joined(k, w)
    <3> DEFINE i == k.remoteIndex
    <3>1. i \in DOMAIN v.ps /\ Follows(k, i, v.ps[i], v.n) /\ v.n \in Nat
      BY <2>1 DEF Joined, ViewOK
    <3>2. i \in DOMAIN qs /\ Later(v.ps[i], qs[i]) /\ PeerOK(v.ps[i]) /\ PeerOK(qs[i])
      BY <1>2, <1>3, <3>1
    <3>3. Follows(k, i, qs[i], v.n)
      BY <3>1, <3>2, FollowsLater
    <3> QED
      BY <1>1, <2>1, <3>2, <3>3 DEF Joined, Later
  <2> QED
    BY <1>1, <1>5, <2>1 DEF Known
<1>6. ASSUME NEW m, FromPeer(m, v.ps)
      PROVE  FromPeer(m, qs)
  <2>1. m.op = "OPN" => m.src \in DOMAIN qs /\ m.num = PeerFirst /\ m.dest = qs[m.src].remote
    BY <1>3, <1>6 DEF FromPeer, Later
  <2>2. ASSUME m.op = "DAT"
        PROVE  m.src \in DOMAIN qs /\ Place(m.num) \in 1..qs[m.src].wrote
    <3>1. m.src \in DOMAIN v.ps /\ Place(m.num) \in 1..v.ps[m.src].wrote
      BY <1>6, <2>2 DEF FromPeer
    <3> QED
      BY <1>3, <3>1
  <2>3. ASSUME m.op = "EOF"
        PROVE  m.src \in DOMAIN qs /\ Place(m.num) = qs[m.src].wrote + 1 /\ Final(qs[m.src])
    BY <1>3, <1>6, <2>3 DEF FromPeer, Later
  <2> QED
    BY <1>6, <2>1, <2>2, <2>3 DEF FromPeer
<1> QED
  BY <1>1, <1>4, <1>5, <1>6 DEF Sent

====
