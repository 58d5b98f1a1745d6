----------------------------- MODULE ChaosStream -----------------------------
(***************************************************************************)
(* chaosd as a whole: the stream front end (chaosd/chaos-stream.c) between *)
(* a client's Unix socket and a connection of the core, in the main loop   *)
(* of chaosd.c.                                                            *)
(***************************************************************************)
EXTENDS ChaosPeer

CONSTANTS
  InBuf, OutBuf,   \* STREAM_INBUF, STREAM_OUTBUF
  Requests         \* what a client's first line asks for

ASSUME StreamAssumption ==
  /\ InBuf \in Nat \ {0} /\ OutBuf \in Nat \ {0} /\ Requests \subseteq {"RFC", "bad"}

VARIABLES
  client,   \* the StreamClient
  sock      \* the socket and the client program at its other end

vars == <<core, netVars, scope, peers, alive, client, sock>>

NoConn == -1
FreeClient ==
  [state |-> "FREE", conn |-> NoConn, in |-> <<>>, out |-> <<>>,
   sockEof |-> FALSE, finished |-> FALSE, wrShut |-> FALSE]

NoSocket ==
  [session |-> 0, line |-> "none", pending |-> <<>>,
   shut |-> FALSE, gone |-> FALSE, got |-> <<>>]

\* The bytes a client writes: they name their session and their place.
ClientByte(s, n) == 1000 * s + n
ClientWrote(s, n) == [j \in 1..n |-> ClientByte(s, j)]

---------------------------------------------------------------------------
(* The client program (external): it connects, sends its line and bytes,   *)
(* shuts its writing side, or closes the socket.                           *)
CoreUnchanged == UNCHANGED <<core, netVars, peers, alive>>

\* stream_adopt gives the socket to the free client.
StreamAdopt ==
  /\ client.state = "FREE" /\ sock.session < Len(scope.sessions)
  /\ \E r \in Requests :
       sock' = [NoSocket EXCEPT !.session = sock.session + 1, !.line = r,
                                !.pending = ClientWrote(sock.session + 1, scope.sessions[sock.session + 1])]
  /\ client' = [FreeClient EXCEPT !.state = "LINE"]
  /\ CoreUnchanged

Connected == client.state # "FREE" /\ ~sock.gone

ClientShuts == Connected /\ ~sock.shut /\ sock' = [sock EXCEPT !.shut = TRUE]
               /\ UNCHANGED client /\ CoreUnchanged
ClientLeaves == Connected /\ sock' = [sock EXCEPT !.gone = TRUE, !.shut = TRUE]
                /\ UNCHANGED client /\ CoreUnchanged

---------------------------------------------------------------------------
(* The routines of the stream server take and return the core, the client  *)
(* and the socket.                                                         *)
\* Mutant of ClientClose: the connection is not released.
ClientCloseLeaks(s) == [s EXCEPT !.k = FreeClient]
ClientClose(s) ==
  [s EXCEPT !.c = IF s.k.conn = NoConn THEN @ ELSE ChaosRelease(@, s.k.conn), !.k = FreeClient]

\* client_write: the socket takes n bytes, or fails when its other end is gone.
ClientWrite(s, n) ==
  [s EXCEPT !.t.got = @ \o SubSeq(s.k.out, 1, Least(n, Len(s.k.out))),
            !.k.out = SubSeq(@, n + 1, Len(@))]
WriteFails(s) == s.t.gone /\ s.k.out # <<>>

FailClient(k, verb) == [k EXCEPT !.out = Append(@, verb), !.state = "DRAIN"]

---------------------------------------------------------------------------
(* client_read.  The poll asks for input only where the code sets POLLIN.  *)
PollIn(c, k) ==
  \/ k.state = "LINE"
  \/ k.state = "WAIT_OPN" /\ Len(k.in) < InBuf
  \/ k.state = "STREAM" /\ ~k.sockEof /\ k.in = <<>> /\ ChaosSendRoom(c, k.conn) > 0

ReadBytes(s) ==
  LET n == Least(Len(s.t.pending), InBuf - Len(s.k.in))
  IN [s EXCEPT !.k.in = @ \o SubSeq(s.t.pending, 1, n),
               !.t.pending = SubSeq(@, n + 1, Len(@))]

\* The request line is complete: handle_request.  What follows it is data.
HandleRequest(s) ==
  LET h == NewSlot(s.c)
  IN IF s.t.line = "bad" \/ FreeSlots(s.c) = {} THEN [s EXCEPT !.k = FailClient(@, "LOS")]
     ELSE [s EXCEPT !.c = ChaosOpen(@, h, <<s.t.session>>), !.k.conn = h, !.k.state = "WAIT_OPN"]
ReadLine(s) == [HandleRequest(ReadBytes(s)) EXCEPT !.t.line = "none"]

ReadEof(s) ==
  IF s.k.state \in {"LINE", "WAIT_OPN"} THEN ClientClose(s) ELSE [s EXCEPT !.k.sockEof = TRUE]

\* The results a read of the client's socket can have.
Reads(s) ==
  IF ~PollIn(s.c, s.k) THEN {}
  ELSE (IF s.t.line # "none" THEN {ReadLine(s)}
        ELSE IF s.t.pending # <<>> THEN {ReadBytes(s)}
        ELSE IF s.t.shut THEN {ReadEof(s)} ELSE {})
       \cup (IF s.t.gone THEN {ClientClose(s)} ELSE {})

---------------------------------------------------------------------------
(* client_service.                                                         *)
\* Mutant of Pushed: what was accepted stays in the buffer.
PushedAgain(s) == [s EXCEPT !.c = ChaosSend(@, s.k.conn, s.k.in)]
\* From the socket to the connection.
Pushed(s) ==
  [s EXCEPT !.c = ChaosSend(@, s.k.conn, s.k.in),
            !.k.in = SubSeq(@, ChaosAccepts(s.c, s.k.conn, @) + 1, Len(@))]
Finished(s) ==
  IF s.k.sockEof /\ s.k.in = <<>> /\ ~s.k.finished /\ s.c.conns[s.k.conn].state = "OPEN"
    THEN [s EXCEPT !.c = ChaosFinish(@, s.k.conn), !.k.finished = TRUE] ELSE s

\* From the connection to the output buffer.
PulledAs(s, r) == [s EXCEPT !.c = TellWindow(@, s.k.conn, r.k), !.k.out = @ \o r.got]
Pulled(s) ==
  IF Len(s.k.out) < OutBuf
    THEN PulledAs(s, Received(s.c.conns[s.k.conn], OutBuf - Len(s.k.out))) ELSE s

ShutWhenRead(s) ==
  IF s.c.conns[s.k.conn].eofReceived /\ s.k.out = <<>> THEN [s EXCEPT !.k.wrShut = TRUE] ELSE s
\* Mutant of CloseWhenRead: what was received is not waited for.
CloseAtOnce(s) == IF s.c.conns[s.k.conn].state = "CLOSED" THEN ClientClose(s) ELSE s
CloseWhenRead(s) ==
  IF /\ s.c.conns[s.k.conn].state = "CLOSED" /\ ~ChaosRecvReady(s.c.conns[s.k.conn])
     /\ s.k.out = <<>>
    THEN ClientClose(s) ELSE s

StreamOut(s, n) ==
  IF WriteFails(s) THEN ClientClose(s) ELSE CloseWhenRead(ShutWhenRead(ClientWrite(s, n)))
ServeStream(s, n) == StreamOut(Pulled(Finished(Pushed(s))), n)

DrainOut(s) == IF s.k.out = <<>> THEN ClientClose(s) ELSE s
ServeDrain(s, n) == IF WriteFails(s) THEN ClientClose(s) ELSE DrainOut(ClientWrite(s, n))

\* What the client is told of a connection that was not opened.
Verb(kind) == IF kind \in {"CLS", "ANS"} THEN kind ELSE "LOS"
ServeRefused(s, n) ==
  ServeDrain([s EXCEPT !.c = ChaosRelease(@, s.k.conn),
                       !.k = FailClient([@ EXCEPT !.conn = NoConn], Verb(s.c.conns[s.k.conn].closeKind))],
             n)

ClientService(s, n) ==
  CASE s.k.state = "WAIT_OPN" ->
         (CASE s.c.conns[s.k.conn].state = "OPEN" ->
                 ServeStream([s EXCEPT !.k.out = Append(@, "OPN"), !.k.state = "STREAM"], n)
            [] s.c.conns[s.k.conn].state = "CLOSED" -> ServeRefused(s, n)
            [] OTHER -> s)
    [] s.k.state = "STREAM" -> ServeStream(s, n)
    [] s.k.state = "DRAIN" -> ServeDrain(s, n)
    [] OTHER -> s

---------------------------------------------------------------------------
(* The main loop: every round ends with a service of the client, in which  *)
(* the socket takes what there is or is full.                              *)
Now == [c |-> core, k |-> client, t |-> sock]
Commit(s) ==
  /\ core' = [s.c EXCEPT !.out = <<>>] /\ toPeer' = toPeer \o s.c.out
  /\ client' = s.k /\ sock' = s.t
Round(s) ==
  /\ \E n \in {0, OutBuf + 1} : Commit(ClientService(s, n))
  /\ UNCHANGED <<peers, alive, faults>>

\* Input from the socket, or the socket can take output again.
RoundRead == (\E s \in Reads(Now) : Round(s)) /\ UNCHANGED <<toCore, late>>
RoundWrite == client.out # <<>> /\ Round(Now) /\ UNCHANGED <<toCore, late>>

\* Frames: those that are there, or only the first.
Inputs(c, frames, old) ==
  LET after[i \in 0..Len(frames)] ==
        IF i = 0 THEN c ELSE ChaosCoreInput(after[i - 1], frames[i], old)
  IN after
RoundInput ==
  /\ toPeer = <<>> /\ toCore # <<>>
  /\ \E n \in {1, Len(toCore)}, old \in Ages(core) :
       /\ Round([Now EXCEPT !.c = Inputs(core, SubSeq(toCore, 1, n), old)[n]])
       /\ toCore' = SubSeq(toCore, n + 1, Len(toCore))
  /\ UNCHANGED late
RoundLate ==
  /\ \E e \in late, old \in Ages(core) :
       /\ e[1] = "core" /\ late' = late \ {e}
       /\ Round([Now EXCEPT !.c = ChaosCoreInput(core, e[2], old)])
  /\ UNCHANGED toCore

\* Timers.
RoundTick(h) == (\E c \in Ticks(core, h) : Round([Now EXCEPT !.c = c])) /\ UNCHANGED <<toCore, late>>
RoundGiveUp(h) == (\E c \in GivesUp(core, h) : Round([Now EXCEPT !.c = c])) /\ UNCHANGED <<toCore, late>>
RoundFinish(h) == (\E c \in Finishes(core, h) : Round([Now EXCEPT !.c = c])) /\ UNCHANGED <<toCore, late>>

---------------------------------------------------------------------------
Init ==
  /\ core = CoreInit /\ toPeer = <<>> /\ toCore = <<>> /\ late = {} /\ faults = 0
  /\ scope \in Scopes /\ peers = <<>> /\ alive = TRUE
  /\ client = FreeClient /\ sock = NoSocket

Slots == 0..(MaxConns - 1)
CoreOnly(A) == A /\ UNCHANGED <<peers, alive, client, sock>>
PeerOnly(A) == A /\ UNCHANGED <<client, sock>>

\* Packets that are not late arrive before anything else happens.
DeliveryNext ==
  CoreOnly(Delay) \/ CoreOnly(Duplicate) \/ RoundInput \/ PeerOnly(PeerInTime)
ChaosdNext ==
  RoundRead \/ RoundWrite \/ RoundLate
  \/ \E h \in Slots : RoundTick(h) \/ RoundGiveUp(h) \/ RoundFinish(h)
PeerNext ==
  \/ PeerOnly(PeerLate)
  \/ \E i \in DOMAIN peers : PeerOnly(PeerRead(i))
  \/ \E i \in DOMAIN peers : PeerOnly(PeerWrite(i))
  \/ \E i \in DOMAIN peers : PeerOnly(PeerFinish(i))
  \/ PeerOnly(PeerTick)
  \/ PeerOnly(PeerAsks)
  \/ PeerOnly(PeerDies)
ClientNext == StreamAdopt \/ ClientShuts \/ ClientLeaves
Next ==
  /\ DeliveryNext \/ (NetworkQuiet /\ (ChaosdNext \/ PeerNext \/ ClientNext))
  /\ UNCHANGED scope

Spec == Init /\ [][Next]_vars

\* Fairness.  Packets that are not late arrive; the main loop takes input, its
\* timers run out, and a client that has not left reads what the socket holds;
\* the peer's timers run out.  The network is quiet only between packets, so
\* what waits for that is enabled again and again: fairness is strong, and
\* written out with what enables each action.
FullRound == ClientService([Now EXCEPT !.c = FullTicks(core)], OutBuf + 1)
CanTick == NetworkQuiet /\ FullRound # Now
TicksFully == CanTick /\ Commit(FullRound)
CanEnd(h) == NetworkQuiet /\ (Finishes(core, h) # {} \/ (~alive /\ GivesUp(core, h) # {}))
TimesOut(h) == CanEnd(h) /\ (RoundGiveUp(h) \/ RoundFinish(h))
CanPeerTick == NetworkQuiet /\ \E i \in DOMAIN peers : PeerOpen(i)

Fairness ==
  /\ []<>NetworkQuiet
  /\ <>[]~CanTick \/ []<><<TicksFully>>_vars
  /\ \A h \in Slots : <>[]~CanEnd(h) \/ []<><<TimesOut(h)>>_vars
  /\ <>[]~CanPeerTick \/ []<><<PeerTick>>_vars
FairSpec == Spec /\ Fairness

---------------------------------------------------------------------------
(* Numbers stay within 16 bits, no more packets are on their way than the  *)
(* limit on windows allows, and the buffers of the client hold what is put *)
(* into them (client_read, chaos_recv as client_service calls it).         *)
TypeOK ==
  /\ \A h \in Slots :
       LET k == core.conns[h]
       IN /\ k.state \in {"FREE", "RFC_SENT", "OPEN", "CLOSED"}
          /\ {k.sentNum, k.ackedNum, k.receiptNum, k.readNum, k.receivedNum} \subseteq Num
          /\ k.remoteWindow \in 0..MaxWindow /\ SeqDiff(k.sentNum, k.ackedNum) \in 0..MaxWindow
  /\ client.state \in {"FREE", "LINE", "WAIT_OPN", "STREAM", "DRAIN"}
  /\ Len(client.in) <= InBuf /\ Len(client.out) <= OutBuf
  /\ \A m \in ToSet(toPeer) \cup ToSet(toCore) : {m.num, m.ack} \subseteq Num
  /\ faults \in 0..scope.faults

(* The rings hold what the numbers say they hold: every packet sent and    *)
(* not yet receipted can be sent again, and every packet received in order *)
(* can be read, whatever acknowledgements and packets arrive, in whatever  *)
(* order and however late, and however numbers wrap (conn_process_ack,     *)
(* conn_send_controlled, conn_queue_input, chaos_recv).                    *)
RingsHold ==
  \A h \in Slots :
    LET k == core.conns[h]
    IN /\ \A n \in Unreceipted(k) : Holds(k.sendq, n)
       /\ \A n \in ToSet(After(k.readNum, k.receivedNum)) : Holds(k.rcvq, n)

(* A connection slot is in use exactly as long as the client refers to it: *)
(* none leaks, whichever way a session ends, and none is reused under the  *)
(* client (client_close, client_service, chaos_core_tick).                 *)
SlotsAreOwned == {h \in Slots : core.conns[h].state # "FREE"} = {client.conn} \ {NoConn}

(* The peer's user reads a beginning of what the client of its connection  *)
(* wrote, however the bytes were cut into packets, whichever of these were *)
(* sent again, and whichever late packets of other connections arrive      *)
(* (client_service, chaos_send, conn_retransmit).                          *)
PeerReadsInOrder ==
  \A i \in DOMAIN peers :
    peers[i].got = ClientWrote(peers[i].contact[1], Len(peers[i].got))

(* The client is told why there is no connection, or OPN followed by a     *)
(* beginning of what the peer of its own connection wrote:                 *)
(* conn_queue_input and chaos_recv put packets in order, drop the repeated *)
(* ones, read long ones in parts, and keep late packets of other           *)
(* connections out.                                                        *)
ClientReadsInOrder ==
  sock.got # <<>> =>
    \/ sock.got \in {<<"CLS">>, <<"ANS">>, <<"LOS">>}
    \/ /\ Head(sock.got) = "OPN"
       /\ \E i \in DOMAIN peers :
            peers[i].contact = <<sock.session>> /\ IsPrefix(Tail(sock.got), PeerWrote(i))

(* chaosd sends nothing beyond what the peer's user has read plus the      *)
(* peer's window, whatever acknowledgements were late.                     *)
NeverOverruns ==
  \A m \in ToSet(toPeer) : \A i \in DOMAIN peers :
    m.op \in {"DAT", "EOF"} /\ m.dest = i /\ m.src = peers[i].remote /\ peers[i].state = "OPEN" =>
      ~SeqLt((peers[i].readNum + PeerWindow) % PktSpace, m.num)

(* chaosd ends an open connection with a CLS only when the peer's user has *)
(* read everything the client wrote, and the EOF (conn_process_ack),       *)
(* unless the client has left (chaos_release) or the wait for the EOF's    *)
(* acknowledgement has timed out (chaos_core_tick), whatever receipts and  *)
(* acknowledgements were late or repeated.                                 *)
SendsCls(k) ==
  \E m \in ToSet(SubSeq(toPeer', Len(toPeer) + 1, Len(toPeer'))) : m.op = "CLS" /\ m.src = k.localIndex
AllRead(p) == p.eofRead /\ p.got = ClientWrote(sock.session, scope.sessions[sock.session])
FinishedIsRead ==
  [][\A h \in Slots :
       core.conns[h].state = "OPEN" /\ core'.conns[h].state # "OPEN" /\ SendsCls(core.conns[h]) =>
         AllRead(peers[core.conns[h].remoteIndex]) \/ sock.gone \/ RoundFinish(h)]_vars

(* A client that is still there gets everything the connection received in *)
(* order before chaosd closes its socket (client_service).                 *)
ReceivedBytes(k) == Least(SeqDiff(k.receivedNum, PeerFirst), peers[k.remoteIndex].wrote) * PacketBytes
ClosesAfterDelivery ==
  [][client.state = "STREAM" /\ client'.state = "FREE" /\ ~sock.gone =>
       Len(sock'.got) >= 1 + ReceivedBytes(core.conns[client.conn])]_vars

(* No session waits for ever: one that waits for the peer's answer, has     *)
(* been refused, or has sent its EOF goes on or ends, whatever the peer and *)
(* the network do (the time-outs of chaos_core_tick, client_service).       *)
Waits == client.state \in {"WAIT_OPN", "DRAIN"} \/ client.finished
WaitsEnd == Waits ~> ~Waits

(* No half-open connection: where chaosd has none, the peer's ends too     *)
(* (send_los_reply).                                                       *)
Orphan(i) ==
  /\ peers[i].state = "OPEN"
  /\ \A h \in Slots : core.conns[h].localIndex # peers[i].remote \/ core.conns[h].state = "CLOSED"
NoHalfOpen == (\E i \in DOMAIN peers : Orphan(i)) ~> (\A i \in DOMAIN peers : ~Orphan(i))
===========================================================================
