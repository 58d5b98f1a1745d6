------------------------- MODULE ChaosStreamProofs -------------------------
(***************************************************************************)
(* What the stream server tells its client.  The state of chaosd has a     *)
(* view (ChaosDeliveryProofs) in which its connection is known; what was   *)
(* written to the client and what is still to be written are together the  *)
(* beginning of the peer's stream that the view says was read.             *)
(***************************************************************************)
EXTENDS ChaosDeliveryProofs

Refusals == {<<"CLS">>, <<"ANS">>, <<"LOS">>}
\* OPN and then n bytes of the stream of peer i
Streamed(w, i, n) == w \in Data /\ Len(w) = n + 1 /\ w[1] = "OPN" /\ \A j \in 1..n : w[j + 1] = PeerByte(i, j)
Told(got, v) ==
  \/ got = <<>> \/ got \in Refusals
  \/ \E i \in DOMAIN v.ps : \E n \in Nat :
       v.ps[i].contact = <<v.ses>> /\ n <= At(v.ps[i].wrote) /\ Streamed(got, i, n)
Gets(s, v) ==
  IF s.k.state = "STREAM"
    THEN \E i \in DOMAIN v.ps : v.who = {i} /\ Streamed(s.t.got \o s.k.out, i, v.n)
    ELSE /\ v.who = Nat /\ v.n = 0 /\ v.low = 0
         /\ s.k.state \in {"LINE", "WAIT_OPN"} => s.t.got \o s.k.out = <<>>
         /\ s.k.state = "DRAIN" => s.t.got \o s.k.out \in Refusals
         /\ s.k.state = "FREE" => Told(s.t.got, v)
\* Every session takes one uniquizer, when its line is read
Fresh(c, t) ==
  t.session + 1 < UniqSpace /\ c.uniquizer <= IF t.line = "none" THEN t.session + 1 ELSE t.session
Serving(s, v) ==
  /\ Sane(s) /\ ViewOK(v) /\ Inside(s.c, Kept(v), Sent(v))
  /\ v.ses = s.t.session /\ v.top = s.c.uniquizer * MaxConns /\ Fresh(s.c, s.t)
  /\ s.k.conn = NoConn => v.mine = {}
  /\ Gets(s, v)

\* What was sent stays allowed, the peer's connections are the same
Moves(v, w) == w.ps = v.ps /\ Sent(v) \subseteq Sent(w)
\* All that was received is told
Delivered(got, v) == \A i \in v.who : Len(got) >= 1 + At(Least(v.low, v.ps[i].wrote))

---------------------------------------------------------------------------
(* Parts                                                                   *)
LEMMA ServingParts ==
  ASSUME NEW s, NEW v, Serving(s, v)
  PROVE  /\ s \in Servers /\ s.c \in Cores /\ s.k \in Clients /\ s.t \in Socks
         /\ s.k.out \in Data /\ s.t.got \in Data /\ s.k.in \in Data /\ s.t.session \in Nat
         /\ Owns(s.c, s.k) /\ ClientOK(s.k, s.t.line)
         /\ s.k.state \in {"WAIT_OPN", "STREAM"} <=> s.k.conn # NoConn
         /\ s.k.conn # NoConn => s.k.conn \in Slots
         /\ \A g \in Slots : /\ s.c.conns[g] \in Sound /\ Known(s.c.conns[g], v)
                             /\ s.c.conns[g].state # "FREE" <=> s.k.conn = g
<1>1. /\ s \in Servers /\ s.c \in Cores /\ s.k \in Clients /\ s.t \in Socks
      /\ Owns(s.c, s.k) /\ ClientOK(s.k, s.t.line)
  BY DEF Serving, Sane, Servers
<1>2. s.k.out \in Data /\ s.t.got \in Data /\ s.k.in \in Data /\ s.t.session \in Nat
  BY <1>1 DEF Clients, Socks
<1>3. s.k.conn # NoConn => s.k.conn \in Slots
  BY <1>1 DEF Clients
<1>4. \A g \in Slots : s.c.conns[g] \in Sound /\ Known(s.c.conns[g], v)
  BY <1>1, ConnType, KeptIs DEF Serving, Inside
<1> QED
  BY <1>1, <1>2, <1>3, <1>4 DEF Owns, ClientOK

\* A client that has a stream
LEMMA StreamParts ==
  ASSUME NEW s, NEW v, Serving(s, v), s.k.state = "STREAM"
  PROVE  \E i \in DOMAIN v.ps :
           /\ v.who = {i} /\ i # 0 /\ Streamed(s.t.got \o s.k.out, i, v.n) /\ v.n \in Nat
           /\ v.ps[i].wrote \in Nat /\ v.ps[i].contact = <<v.ses>>
           /\ s.k.conn \in Slots /\ s.c.conns[s.k.conn].state # "FREE"
           /\ s.c.conns[s.k.conn].remoteIndex = i /\ Joined(s.c.conns[s.k.conn], v)
           /\ v.n <= At(v.ps[i].wrote)
<1> DEFINE k == s.c.conns[s.k.conn]
<1>1. PICK i \in DOMAIN v.ps : v.who = {i} /\ Streamed(s.t.got \o s.k.out, i, v.n)
  BY DEF Serving, Gets
<1>2. ViewOK(v) /\ v.n \in Nat /\ i # 0 /\ v.ps[i].wrote \in Nat
  BY ViewPeers DEF Serving, ViewOK
<1>3. s.k.conn \in Slots /\ k.state # "FREE" /\ Known(k, v) /\ k \in Sound
  BY ServingParts
<1> HIDE DEF k
<1>4. k.remoteIndex = i /\ k.localIndex \in v.mine
  BY <1>1, <1>3 DEF Known
<1>5. Joined(k, v)
  BY <1>2, <1>3, <1>4, OpenIsJoined
<1>6. v.ps[i].contact = <<v.ses>>
  BY <1>2, <1>4, <1>5 DEF Joined, ViewOK
<1>7. v.n <= At(v.ps[i].wrote)
  <2> DEFINE l == Least(Place(k.readNum) + 1, Least(Place(k.receivedNum), v.ps[i].wrote))
  <2>1. Place(k.readNum) \in Nat /\ Place(k.receivedNum) \in Nat
    BY <1>3, PlaceType DEF Sound, Conns
  <2>2. v.n <= At(l)
    BY <1>4, <1>5 DEF Joined, Follows
  <2>3. l \in Nat /\ l <= v.ps[i].wrote
    BY <1>2, <2>1 DEF Least
  <2> HIDE DEF l
  <2>4. At(l) <= At(v.ps[i].wrote) /\ At(l) \in Nat /\ At(v.ps[i].wrote) \in Nat
    BY <1>2, <2>3, AtGrows
  <2> QED
    BY <1>2, <2>2, <2>4
<1> QED
  BY <1>1, <1>2, <1>3, <1>4, <1>5, <1>6, <1>7 DEF k

\* A beginning of the stream
LEMMA StreamBegins ==
  ASSUME NEW a \in Data, NEW b \in Data, NEW i, NEW n \in Nat, Streamed(a \o b, i, n), a # <<>>
  PROVE  Len(a) \in Nat /\ Len(a) >= 1 /\ Len(a) - 1 <= n /\ Streamed(a, i, Len(a) - 1)
<1> DEFINE w == a \o b
           l == Len(a) - 1
<1>1. Len(a) \in Nat /\ Len(b) \in Nat /\ Len(w) = Len(a) + Len(b)
      /\ \A j \in 1..(Len(a) + Len(b)) : w[j] = IF j <= Len(a) THEN a[j] ELSE b[j - Len(a)]
  BY ConcatProperties, LenProperties DEF Data
<1>2. Len(a) # 0
  BY EmptySeq DEF Data
<1>3. Len(w) = n + 1 /\ w[1] = "OPN" /\ \A j \in 1..n : w[j + 1] = PeerByte(i, j)
  BY DEF Streamed
<1> HIDE DEF w
<1>4. l \in Nat /\ l <= n /\ Len(a) = l + 1
  BY <1>1, <1>2, <1>3
<1>5. a[1] = "OPN"
  BY <1>1, <1>2, <1>3
<1>6. ASSUME NEW j \in 1..l
      PROVE  a[j + 1] = PeerByte(i, j)
  <2>1. j \in 1..n /\ j + 1 \in 1..(Len(a) + Len(b)) /\ j + 1 <= Len(a)
    BY <1>1, <1>4
  <2> QED
    BY <1>1, <1>3, <2>1
<1> HIDE DEF l
<1>7. Streamed(a, i, l)
  BY <1>4, <1>5, <1>6 DEF Streamed
<1> QED
  BY <1>1, <1>2, <1>4, <1>7 DEF l

\* What the client has got, in every state
LEMMA ToldNow ==
  ASSUME NEW s, NEW v, Serving(s, v)
  PROVE  Told(s.t.got, v)
<1> DEFINE got == s.t.got
           out == s.k.out
<1>1. got \in Data /\ out \in Data
  BY ServingParts
<1>2. CASE s.k.state = "STREAM"
  <2>1. PICK i \in DOMAIN v.ps : /\ Streamed(got \o out, i, v.n) /\ v.n \in Nat /\ v.ps[i].contact = <<v.ses>>
                                 /\ v.n <= At(v.ps[i].wrote) /\ v.ps[i].wrote \in Nat
    BY <1>2, StreamParts
  <2>2. At(v.ps[i].wrote) \in Nat
    BY <2>1, AtIs
  <2> HIDE DEF got, out
  <2>3. ASSUME got # <<>>
        PROVE  Told(got, v)
    <3> DEFINE l == Len(got) - 1
    <3>1. Len(got) \in Nat /\ Len(got) >= 1 /\ l <= v.n /\ Streamed(got, i, l)
      BY <1>1, <2>1, <2>3, StreamBegins
    <3>2. l \in Nat /\ l <= At(v.ps[i].wrote)
      BY <2>1, <2>2, <3>1
    <3> HIDE DEF l
    <3> QED
      BY <2>1, <3>1, <3>2 DEF Told
  <2>4. Told(got, v)
    BY <2>3 DEF Told
  <2> QED
    BY <2>4 DEF got
<1>3. CASE s.k.state \in {"LINE", "WAIT_OPN", "DRAIN"}
  <2>1. got \o out = <<>> \/ \E x \in {"CLS", "ANS", "LOS"} : got \o out = <<x>>
    BY <1>3 DEF Serving, Gets, Refusals
  <2>2. /\ Len(got) \in Nat /\ Len(out) \in Nat /\ Len(got \o out) = Len(got) + Len(out)
        /\ \A j \in 1..(Len(got) + Len(out)) : (got \o out)[j] = IF j <= Len(got) THEN got[j] ELSE out[j - Len(got)]
    BY <1>1, ConcatProperties, LenProperties DEF Data
  <2> HIDE DEF got, out
  <2>3. CASE Len(got) = 0
    <3>1. got = <<>>
      BY <1>1, <2>3, EmptySeq DEF Data
    <3>2. Told(got, v)
      BY <3>1 DEF Told
    <3> QED
      BY <3>2 DEF got
  <2>4. CASE Len(got) # 0
    <3>1. PICK x \in {"CLS", "ANS", "LOS"} : got \o out = <<x>>
      <4>1. got \o out # <<>>
        <5> SUFFICES ASSUME got \o out = <<>>
                     PROVE  FALSE
          OBVIOUS
        <5>1. Len(got \o out) = 0
          BY EmptyType
        <5> QED
          BY <2>2, <2>4, <5>1
      <4> QED
        BY <2>1, <4>1
    <3>2. Len(<<x>>) = 1 /\ <<x>>[1] = x
      OBVIOUS
    <3>3. Len(got) = 1 /\ got[1] = x
      <4>1. Len(got) + Len(out) = 1
        BY <2>2, <3>1, <3>2
      <4>2. Len(got) = 1 /\ 1 \in 1..(Len(got) + Len(out)) /\ 1 <= Len(got)
        BY <2>2, <2>4, <4>1
      <4>3. (got \o out)[1] = got[1]
        BY <2>2, <4>2
      <4> QED
        BY <3>1, <3>2, <4>2, <4>3
    <3>4. got = <<x>>
      <4>1. got = [j \in 1..1 |-> got[j]]
        BY <1>1, <3>3, LenProperties DEF Data
      <4> QED
        BY <3>3, <4>1
    <3>5. Told(got, v)
      BY <3>4 DEF Told, Refusals
    <3> QED
      BY <3>5 DEF got
  <2> QED
    BY <2>3, <2>4
<1>4. CASE s.k.state = "FREE"
  BY <1>4 DEF Serving, Gets
<1>5. s.k.state \in {"FREE", "LINE", "WAIT_OPN", "STREAM", "DRAIN"}
  BY ServingParts DEF Clients
<1> QED
  BY <1>2, <1>3, <1>4, <1>5

---------------------------------------------------------------------------
(* The routines of the stream server                                       *)

\* What tells the client nothing new
LEMMA SameServing ==
  ASSUME NEW s, NEW v, Serving(s, v), NEW r, Sane(r), Inside(r.c, Kept(v), Sent(v)), r.c.uniquizer = s.c.uniquizer,
         r.t.session = s.t.session, r.t.line = s.t.line, r.k.conn = s.k.conn, r.k.state = s.k.state,
         r.t.got \o r.k.out = s.t.got \o s.k.out, s.k.state = "FREE" => r.t.got = s.t.got
  PROVE  Serving(r, v)
<1>1. Gets(r, v)
  BY DEF Serving, Gets
<1> QED
  BY <1>1 DEF Serving, Fresh

\* A step of the core
LEMMA CoreServes ==
  ASSUME NEW s, NEW v, Serving(s, v), NEW d, Keeps(s.c, d), Inside(d, Kept(v), Sent(v))
  PROVE  Serving([s EXCEPT !.c = d], v)
<1> DEFINE r == [s EXCEPT !.c = d]
<1>1. Sane(r)
  BY SaneCore DEF Serving
<1>2. r.c = d /\ r.k = s.k /\ r.t = s.t
  BY ServingParts DEF Servers
<1> HIDE DEF r
<1>3. Serving(r, v)
  BY <1>1, <1>2, SameServing DEF Keeps
<1> QED
  BY <1>3 DEF r

\* client_close
LEMMA ClientCloseServes ==
  ASSUME NEW s, NEW v, Serving(s, v)
  PROVE  \E w : Moves(v, w) /\ Serving(ClientClose(s), w)
<1> DEFINE r == ClientClose(s)
           d == IF s.k.conn = NoConn THEN s.c ELSE ChaosRelease(s.c, s.k.conn)
           w == View(v.ps, {}, v.ses, v.top, 0, 0, Nat)
<1>1. s \in Servers /\ ViewOK(v) /\ Inside(s.c, Kept(v), Sent(v)) /\ (s.k.conn # NoConn => s.k.conn \in Slots)
  BY ServingParts DEF Serving
<1>2. Inside(d, Kept(v), Sent(v)) /\ d.uniquizer = s.c.uniquizer
  <2>1. ASSUME s.k.conn # NoConn
        PROVE  /\ Inside(ChaosRelease(s.c, s.k.conn), Kept(v), Sent(v))
               /\ ChaosRelease(s.c, s.k.conn).uniquizer = s.c.uniquizer
    BY <1>1, <2>1, KeptClosed, KeptUses, ChaosReleaseInside
  <2> QED
    BY <1>1, <2>1
<1>3. Sane(r) /\ r.t = s.t
  BY ClientCloseOK DEF Serving
<1>4. r = [s EXCEPT !.c = d, !.k = FreeClient]
  BY DEF ClientClose
<1> HIDE DEF r, d
<1>5. r.c = d /\ r.k = FreeClient
  BY <1>1, <1>4 DEF Servers
<1>6. r.k.state = "FREE" /\ r.k.conn = NoConn
  BY <1>5 DEF FreeClient
<1>7. \A g \in Slots : d.conns[g].state = "FREE"
  BY <1>3, <1>5, <1>6, NoConnType DEF Sane, Owns
<1>8. /\ w.ps = v.ps /\ w.mine = {} /\ w.ses = v.ses /\ w.top = v.top /\ w.n = 0 /\ w.low = 0 /\ w.who = Nat
      /\ ViewOK(w) /\ Sent(v) \subseteq Sent(w)
  <2>1. v.ses \in Nat
    BY <1>1 DEF ViewOK
  <2> QED
    BY <1>1, <2>1, ReleasedOK
<1> HIDE DEF w
<1>9. Inside(d, Kept(w), Sent(w))
  BY <1>2, <1>7, <1>8, InsideAs
<1>10. Told(r.t.got, w)
  <2>1. Told(s.t.got, v)
    BY ToldNow
  <2> QED
    BY <1>3, <1>8, <2>1 DEF Told
<1>11. Gets(r, w)
  BY <1>6, <1>8, <1>10 DEF Gets
<1>12. Serving(r, w)
  <2>1. v.ses = s.t.session /\ v.top = s.c.uniquizer * MaxConns /\ Fresh(s.c, s.t)
    BY DEF Serving
  <2> QED
    BY <1>2, <1>3, <1>5, <1>8, <1>9, <1>11, <2>1 DEF Serving, Fresh
<1> QED
  BY <1>8, <1>12 DEF Moves, r

\* Two parts that make up a sequence
LEMMA JoinIs ==
  ASSUME NEW a \in Data, NEW b \in Data, NEW x \in Data, Len(x) = Len(a) + Len(b),
         \A j \in 1..Len(a) : a[j] = x[j], \A j \in 1..Len(b) : b[j] = x[Len(a) + j]
  PROVE  a \o b = x
<1>1. Len(a) \in Nat /\ Len(b) \in Nat
  BY LenProperties DEF Data
<1>2. /\ a \o b \in Data /\ Len(a \o b) = Len(a) + Len(b)
      /\ \A j \in 1..(Len(a) + Len(b)) : (a \o b)[j] = IF j <= Len(a) THEN a[j] ELSE b[j - Len(a)]
  BY ConcatProperties DEF Data
<1>3. ASSUME NEW j \in 1..Len(x)
      PROVE  (a \o b)[j] = x[j]
  <2>1. j \in 1..(Len(a) + Len(b)) /\ j \in Nat
    BY <1>1
  <2>2. CASE j <= Len(a)
    <3>1. j \in 1..Len(a)
      BY <1>1, <2>1, <2>2
    <3> QED
      BY <1>2, <2>1, <2>2, <3>1
  <2>3. CASE ~(j <= Len(a))
    <3>1. j - Len(a) \in 1..Len(b) /\ Len(a) + (j - Len(a)) = j
      BY <1>1, <2>1, <2>3
    <3> QED
      BY <1>2, <2>1, <2>3, <3>1
  <2> QED
    BY <2>2, <2>3
<1> QED
  BY <1>2, <1>3, SeqEqual DEF Data

\* The beginning and the rest of a sequence
LEMMA Halves ==
  ASSUME NEW x \in Data, NEW n \in Nat, n <= Len(x)
  PROVE  SubSeq(x, 1, n) \o SubSeq(x, n + 1, Len(x)) = x
<1> DEFINE a == SubSeq(x, 1, n)
           b == SubSeq(x, n + 1, Len(x))
<1>1. Len(x) \in Nat
  BY LenProperties DEF Data
<1>2. a \in Data /\ Len(a) = n
  <2>1. 1 = 0 + 1 /\ n - 0 = n /\ 0 \in Nat /\ 0 <= n
    OBVIOUS
  <2>2. SubSeq(x, 0 + 1, n) \in Data /\ Len(SubSeq(x, 0 + 1, n)) = n - 0
    BY <2>1, PartType
  <2> QED
    BY <2>1, <2>2
<1>3. b \in Data /\ Len(b) = Len(x) - n
  BY <1>1, PartType
<1>4. /\ \A j \in 1..n : a[j] = x[j]
      /\ \A j \in 1..(Len(x) - n) : b[j] = x[n + j]
  <2>1. 1 \in 1..(Len(x) + 1) /\ n \in (1 - 1)..Len(x)
    BY <1>1
  <2>2. n + 1 \in 1..(Len(x) + 1) /\ Len(x) \in ((n + 1) - 1)..Len(x)
    BY <1>1
  <2>3. \A j \in 1..(n - 1 + 1) : a[j] = x[1 + j - 1]
    BY <2>1, SubSeqProperties DEF Data
  <2>4. \A j \in 1..(Len(x) - (n + 1) + 1) : b[j] = x[(n + 1) + j - 1]
    BY <2>2, SubSeqProperties DEF Data
  <2> HIDE DEF a, b
  <2>5. ASSUME NEW j \in 1..n PROVE a[j] = x[j]
    <3>1. j \in 1..(n - 1 + 1) /\ 1 + j - 1 = j
      OBVIOUS
    <3> QED
      BY <2>3, <3>1
  <2>6. ASSUME NEW j \in 1..(Len(x) - n) PROVE b[j] = x[n + j]
    <3>1. j \in 1..(Len(x) - (n + 1) + 1) /\ (n + 1) + j - 1 = n + j
      BY <1>1
    <3> QED
      BY <2>4, <3>1
  <2> QED
    BY <2>5, <2>6
<1> HIDE DEF a, b
<1>5. Len(x) = Len(a) + Len(b)
  BY <1>1, <1>2, <1>3
<1>6. (\A j \in 1..Len(a) : a[j] = x[j]) /\ (\A j \in 1..Len(b) : b[j] = x[Len(a) + j])
  BY <1>2, <1>3, <1>4
<1>7. a \o b = x
  BY <1>2, <1>3, <1>5, <1>6, JoinIs
<1> QED
  BY <1>7 DEF a, b

\* Joining is associative
LEMMA Associative ==
  ASSUME NEW a \in Data, NEW b \in Data, NEW c \in Data
  PROVE  (a \o b) \o c = a \o (b \o c)
<1>1. a \in Seq(Datum) /\ b \in Seq(Datum) /\ c \in Seq(Datum)
  BY DEF Data
<1> QED
  BY <1>1, ConcatAssociative

\* Bytes move from the buffer to the socket
LEMMA WrittenOut ==
  ASSUME NEW got \in Data, NEW out \in Data, NEW n \in Nat
  PROVE  (got \o SubSeq(out, 1, Least(n, Len(out)))) \o SubSeq(out, n + 1, Len(out)) = got \o out
<1> DEFINE m == Least(n, Len(out))
           took == SubSeq(out, 1, m)
           left == SubSeq(out, n + 1, Len(out))
<1>1. Len(out) \in Nat /\ m \in Nat /\ m <= Len(out)
  BY LenProperties DEF Data, Least
<1>2. took \in Data /\ left \in Data
  BY RestType
<1>3. took \o left = out
  <2>1. CASE n <= Len(out)
    <3>1. m = n
      BY <1>1, <2>1 DEF Least
    <3> QED
      BY <2>1, <3>1, Halves
  <2>2. CASE n > Len(out)
    <3>1. m = Len(out)
      BY <1>1, <2>2 DEF Least
    <3>2. took = out
      BY <3>1, SubSeqFull DEF Data
    <3>3. left = <<>>
      <4>1. n + 1 \in Nat /\ n + 1 > Len(out)
        BY <1>1, <2>2
      <4> QED
        BY <1>1, <4>1, NothingBeyond
    <3> QED
      BY <3>2, <3>3, ConcatEmptySeq DEF Data
  <2> QED
    BY <1>1, <2>1, <2>2
<1> HIDE DEF took, left
<1>4. (got \o took) \o left = got \o (took \o left)
  BY <1>2, Associative
<1>5. (got \o took) \o left = got \o out
  BY <1>3, <1>4
<1> QED
  BY <1>5 DEF took, left

\* client_write
LEMMA ClientWriteServes ==
  ASSUME NEW s, NEW v, Serving(s, v), NEW n \in Nat, s.k.state # "FREE"
  PROVE  Serving(ClientWrite(s, n), v) /\ ClientWrite(s, n).t.gone = s.t.gone
<1> DEFINE r == ClientWrite(s, n)
           took == SubSeq(s.k.out, 1, Least(n, Len(s.k.out)))
           left == SubSeq(s.k.out, n + 1, Len(s.k.out))
<1>1. s \in Servers /\ s.k \in Clients /\ s.t \in Socks /\ s.k.out \in Data /\ s.t.got \in Data
  BY ServingParts
<1>2. Sane(r) /\ r.c = s.c /\ r.k.conn = s.k.conn /\ r.k.state = s.k.state
  BY ClientWriteOK DEF Serving
<1>3. r = [s EXCEPT !.t = [s.t EXCEPT !.got = s.t.got \o took], !.k = [s.k EXCEPT !.out = left]]
  BY <1>1 DEF ClientWrite, Servers, Clients, Socks
<1>4. (s.t.got \o took) \o left = s.t.got \o s.k.out
  BY <1>1, WrittenOut
<1> HIDE DEF r, took, left
<1>5. /\ r.t.session = s.t.session /\ r.t.line = s.t.line /\ r.t.gone = s.t.gone
      /\ r.t.got = s.t.got \o took /\ r.k.out = left
  BY <1>1, <1>3 DEF Servers, Clients, Socks
<1>6. Serving(r, v)
  BY <1>2, <1>4, <1>5, SameServing DEF Serving
<1> QED
  BY <1>5, <1>6 DEF r

\* client_service, from the socket to the connection
LEMMA PushedServes ==
  ASSUME NEW s, NEW v, Serving(s, v), s.k.state = "STREAM"
  PROVE  Serving(Pushed(s), v) /\ Pushed(s).k.state = "STREAM" /\ Pushed(s).t = s.t
<1> DEFINE h == s.k.conn
           d == ChaosSend(s.c, h, s.k.in)
           left == SubSeq(s.k.in, ChaosAccepts(s.c, h, s.k.in) + 1, Len(s.k.in))
           j == [s.k EXCEPT !.in = left]
           r == Pushed(s)
<1>1. /\ s \in Servers /\ s.c \in Cores /\ s.k \in Clients /\ s.k.in \in Data /\ h \in Slots
      /\ ViewOK(v) /\ Inside(s.c, Kept(v), Sent(v))
  BY ServingParts DEF Serving
<1>2. Sane(r) /\ r.k.state = "STREAM"
  BY PushedOK DEF Serving
<1>3. Inside(d, Kept(v), Sent(v))
  BY <1>1, KeptClosed, KeptUses, ChaosSendInside
<1>4. d.uniquizer = s.c.uniquizer
  BY <1>1, ChaosSendOK, KeepsRules DEF Keeps
<1>5. r = [s EXCEPT !.c = d, !.k = j]
  BY <1>1 DEF Pushed, Servers, Clients
<1>6. j.out = s.k.out /\ j.conn = s.k.conn /\ j.state = s.k.state
  BY <1>1 DEF Clients
<1> HIDE DEF r, d, j
<1>7. r.c = d /\ r.k = j /\ r.t = s.t
  BY <1>1, <1>5 DEF Servers
<1>8. Serving(r, v)
  BY <1>2, <1>3, <1>4, <1>6, <1>7, SameServing
<1> QED
  BY <1>2, <1>7, <1>8 DEF r

\* The client has finished writing
LEMMA FinishedServes ==
  ASSUME NEW s, NEW v, Serving(s, v), s.k.state = "STREAM"
  PROVE  Serving(Finished(s), v) /\ Finished(s).k.state = "STREAM" /\ Finished(s).t = s.t
<1> DEFINE h == s.k.conn
           d == ChaosFinish(s.c, h)
           j == [s.k EXCEPT !.finished = TRUE]
           r == [s EXCEPT !.c = d, !.k.finished = TRUE]
<1>1. /\ s \in Servers /\ s.c \in Cores /\ s.k \in Clients /\ h \in Slots
      /\ ViewOK(v) /\ Inside(s.c, Kept(v), Sent(v))
  BY ServingParts DEF Serving
<1>2. Sane(Finished(s)) /\ Finished(s).k.state = "STREAM"
  BY FinishedOK DEF Serving
<1>3. Inside(d, Kept(v), Sent(v))
  BY <1>1, KeptClosed, KeptUses, ChaosFinishInside
<1>4. d.uniquizer = s.c.uniquizer
  BY <1>1, ChaosFinishOK, KeepsRules DEF Keeps
<1>5. Finished(s) \in {s, r}
  BY DEF Finished
<1>6. CASE Finished(s) = s
  BY <1>2, <1>6
<1>7. CASE Finished(s) = r
  <2> HIDE DEF d
  <2>1. r = [s EXCEPT !.c = d, !.k = j]
    BY <1>1 DEF Servers, Clients
  <2>2. j.out = s.k.out /\ j.conn = s.k.conn /\ j.state = s.k.state
    BY <1>1 DEF Clients
  <2> HIDE DEF r, j
  <2>3. r.c = d /\ r.k = j /\ r.t = s.t
    BY <1>1, <2>1 DEF Servers
  <2>4. Serving(r, v)
    BY <1>2, <1>3, <1>4, <1>7, <2>2, <2>3, SameServing
  <2> QED
    BY <1>2, <1>7, <2>3, <2>4
<1> QED
  BY <1>5, <1>6, <1>7

\* More of the stream
LEMMA StreamGrows ==
  ASSUME NEW a \in Data, NEW b \in Data, NEW i, NEW n \in Nat, NEW m \in Nat, n <= m,
         Streamed(a, i, n), Holding(b, i, n, m)
  PROVE  Streamed(a \o b, i, m)
<1>1. Len(a) = n + 1 /\ a[1] = "OPN" /\ (\A j \in 1..n : a[j + 1] = PeerByte(i, j))
  BY DEF Streamed
<1>2. Len(b) = m - n /\ \A j \in 1..(m - n) : b[j] = PeerByte(i, n + j)
  BY DEF Holding
<1>3. /\ a \o b \in Data /\ Len(a \o b) = Len(a) + Len(b)
      /\ \A j \in 1..(Len(a) + Len(b)) : (a \o b)[j] = IF j <= Len(a) THEN a[j] ELSE b[j - Len(a)]
  BY ConcatProperties DEF Data
<1>4. Len(a \o b) = m + 1
  BY <1>1, <1>2, <1>3
<1>5. (a \o b)[1] = "OPN"
  <2>1. 1 \in 1..(Len(a) + Len(b)) /\ 1 <= Len(a)
    BY <1>1, <1>2
  <2> QED
    BY <1>1, <1>3, <2>1
<1>6. ASSUME NEW j \in 1..m
      PROVE  (a \o b)[j + 1] = PeerByte(i, j)
  <2>1. j + 1 \in 1..(Len(a) + Len(b))
    BY <1>1, <1>2
  <2>2. CASE j <= n
    <3>1. j \in 1..n /\ j + 1 <= Len(a)
      BY <1>1, <2>2
    <3> QED
      BY <1>1, <1>3, <2>1, <3>1
  <2>3. CASE ~(j <= n)
    <3>1. j - n \in 1..(m - n) /\ ~(j + 1 <= Len(a)) /\ (j + 1) - Len(a) = j - n /\ n + (j - n) = j
      BY <1>1, <2>3
    <3>2. (a \o b)[j + 1] = b[(j + 1) - Len(a)]
      BY <1>3, <2>1, <3>1
    <3>3. b[j - n] = PeerByte(i, n + (j - n))
      BY <1>2, <3>1
    <3> QED
      BY <3>1, <3>2, <3>3
  <2> QED
    BY <2>2, <2>3
<1> QED
  BY <1>3, <1>4, <1>5, <1>6 DEF Streamed

\* From the connection to the output buffer
LEMMA PulledServes ==
  ASSUME NEW s, NEW v, Serving(s, v), s.k.state = "STREAM"
  PROVE  /\ Pulled(s).k.state = "STREAM" /\ Pulled(s).t = s.t
         /\ \E w : Moves(v, w) /\ Serving(Pulled(s), w) /\ w.low = v.low /\ w.who = v.who
<1> DEFINE h == s.k.conn
           c == s.c
           k == s.c.conns[h]
           max == OutBuf - Len(s.k.out)
           a == Received(k, max)
           b == a.k
           got == a.got
           d == TellWindow(c, h, b)
           j == [s.k EXCEPT !.out = s.k.out \o got]
           r == Pulled(s)
           w == View(v.ps, v.mine, v.ses, v.top, v.n + Len(got), v.low, v.who)
<1>1. /\ s \in Servers /\ s.c \in Cores /\ s.k \in Clients /\ h \in Slots /\ s.k.out \in Data /\ s.t.got \in Data
      /\ ViewOK(v) /\ Inside(s.c, Kept(v), Sent(v)) /\ Len(s.k.out) \in Nat
  BY ServingParts, JoinType DEF Serving
<1>2. Sane(r) /\ r.k.state = "STREAM"
  BY PulledOK DEF Serving
<1>3. CASE ~(Len(s.k.out) < OutBuf)
  <2>1. r = s
    BY <1>3 DEF Pulled
  <2> QED
    BY <1>2, <2>1 DEF Moves
<1>4. CASE Len(s.k.out) < OutBuf
  <2>1. k \in Sound /\ Known(k, v) /\ k.state # "FREE" /\ \A g \in Slots \ {h} : c.conns[g].state = "FREE"
    BY <1>1, ServingParts
  <2>2. max \in Nat
    BY <1>1, <1>4, BufSizes
  <2>3. PICK i \in DOMAIN v.ps :
          /\ v.who = {i} /\ i # 0 /\ Streamed(s.t.got \o s.k.out, i, v.n) /\ v.n \in Nat /\ k.remoteIndex = i
    BY StreamParts
  <2>4. r = [s EXCEPT !.c = d, !.k = j]
    BY <1>1, <1>4 DEF Pulled, PulledAs, Servers, Clients
  <2> HIDE DEF k, max
  <2>5. Reading(a, k, max)
    BY <2>1, <2>2, ReceivedOK
  <2>6. b \in Sound /\ b.state = k.state /\ got \in Data /\ Len(got) \in Nat
    BY <2>5, JoinType DEF Reading
  <2>7. 0 \notin v.who
    BY <2>3
  <2>8. /\ w.ps = v.ps /\ w.mine = v.mine /\ w.ses = v.ses /\ w.top = v.top /\ w.n = v.n + Len(got) /\ w.low = v.low
        /\ w.who = v.who /\ ViewOK(w) /\ Sent(w) = Sent(v)
    BY <1>1, <2>6, <2>7, FurtherOK
  <2> HIDE DEF w
  <2>9. Known(b, w) /\ Holding(got, i, v.n, w.n)
    <3>1. w.n = v.n + Len(Received(k, max).got)
      BY <2>8
    <3> QED
      BY <1>1, <2>1, <2>2, <2>3, <2>7, <2>8, <3>1, ReceivedJoined
  <2> HIDE DEF a, b, got, r, c
  <2>10. Inside(d, Kept(w), Sent(w))
    <3>1. Inside(c, Kept(v), Sent(v))
      BY <1>1 DEF c
    <3> QED
      BY <1>1, <2>1, <2>6, <2>8, <2>9, <3>1, TellWindowInside
  <2>11. d.uniquizer = s.c.uniquizer
    <3>1. c \in Cores /\ b.state = c.conns[h].state
      BY <1>1, <2>6 DEF c, k
    <3>2. Serves(c, d, h)
      BY <1>1, <2>6, <3>1, TellWindowOK
    <3> QED
      BY <1>1, <3>2, KeepsRules DEF Keeps, c
  <2> HIDE DEF d
  <2>12. j.out = s.k.out \o got /\ j.conn = s.k.conn /\ j.state = s.k.state
    BY <1>1 DEF Clients
  <2> HIDE DEF j
  <2>13. r.c = d /\ r.k = j /\ r.t = s.t
    BY <1>1, <2>4 DEF Servers
  <2>14. Streamed(s.t.got \o j.out, i, w.n)
    <3> DEFINE x == s.t.got
               y == s.k.out
    <3>1. x \in Data /\ y \in Data /\ j.out = y \o got /\ Streamed(x \o y, i, v.n)
      BY <1>1, <2>3, <2>12
    <3> HIDE DEF x, y
    <3>2. got \in Data
      BY <2>6
    <3>3. (x \o y) \o got = x \o (y \o got)
      BY <3>1, <3>2, Associative
    <3>4. x \o y \in Data
      BY <3>1, JoinType
    <3>5. w.n \in Nat /\ v.n <= w.n /\ v.n \in Nat
      BY <2>3, <2>6, <2>8
    <3>6. Streamed((x \o y) \o got, i, w.n)
      BY <2>9, <3>1, <3>2, <3>4, <3>5, StreamGrows
    <3> QED
      BY <3>1, <3>3, <3>6 DEF x
  <2>15. Gets(r, w)
    BY <1>2, <2>3, <2>8, <2>13, <2>14 DEF Gets
  <2>16. Serving(r, w)
    <3>1. /\ v.ses = s.t.session /\ v.top = s.c.uniquizer * MaxConns /\ Fresh(s.c, s.t)
          /\ (s.k.conn = NoConn => v.mine = {})
      BY DEF Serving
    <3> QED
      BY <1>2, <2>8, <2>10, <2>11, <2>12, <2>13, <2>15, <3>1 DEF Serving, Fresh
  <2>17. Moves(v, w)
    BY <2>8 DEF Moves
  <2> QED
    BY <1>2, <2>8, <2>13, <2>16, <2>17 DEF r
<1> QED
  BY <1>3, <1>4

\* Shutting the writing side of the socket
LEMMA ShutServes ==
  ASSUME NEW s, NEW v, Serving(s, v)
  PROVE  LET r == ShutWhenRead(s) IN Serving(r, v) /\ r.c = s.c /\ r.t = s.t /\ r.k.state = s.k.state
<1> DEFINE r == [s EXCEPT !.k.wrShut = TRUE]
           j == [s.k EXCEPT !.wrShut = TRUE]
<1>1. s \in Servers /\ s.k \in Clients /\ Sane(ShutWhenRead(s)) /\ Inside(s.c, Kept(v), Sent(v))
  BY ServingParts, ShutWhenReadOK DEF Serving
<1>2. ShutWhenRead(s) \in {s, r}
  BY DEF ShutWhenRead
<1>3. r = [s EXCEPT !.k = j]
  BY <1>1 DEF Servers, Clients
<1>4. j.out = s.k.out /\ j.conn = s.k.conn /\ j.state = s.k.state
  BY <1>1 DEF Clients
<1> HIDE DEF r, j
<1>5. r.c = s.c /\ r.k = j /\ r.t = s.t
  BY <1>1, <1>3 DEF Servers
<1>6. ASSUME ShutWhenRead(s) = r
      PROVE  Serving(r, v)
  BY <1>1, <1>4, <1>5, <1>6, SameServing
<1> QED
  BY <1>2, <1>4, <1>5, <1>6

\* The connection is closed and nothing of it waits: all of it was told
LEMMA AllTold ==
  ASSUME NEW s, NEW v, Serving(s, v), s.k.state = "STREAM", s.k.out = <<>>,
         ~ChaosRecvReady(s.c.conns[s.k.conn])
  PROVE  Delivered(s.t.got, v)
<1> DEFINE k == s.c.conns[s.k.conn]
           got == s.t.got
           q == v.ps[k.remoteIndex]
<1>1. PICK i \in DOMAIN v.ps :
        /\ v.who = {i} /\ Streamed(got \o s.k.out, i, v.n) /\ v.n \in Nat
        /\ v.ps[i].wrote \in Nat /\ k.remoteIndex = i /\ Joined(k, v) /\ s.k.conn \in Slots
  BY StreamParts
<1>2. k \in Sound /\ ViewOK(v) /\ got \in Data
  BY <1>1, ServingParts DEF Serving
<1>3. k.readNum = k.receivedNum \/ k.eofReceived
  BY DEF ChaosRecvReady
<1>4. Len(got) = v.n + 1
  <2>1. got \o s.k.out = got
    BY <1>2, ConcatEmptySeq DEF Data
  <2> QED
    BY <1>1, <2>1 DEF Streamed
<1> HIDE DEF k, got
<1>5. /\ At(Least(Place(k.readNum), q.wrote)) <= v.n /\ v.low <= Place(k.receivedNum)
      /\ k.eofReceived => Place(k.readNum) = q.wrote + 1
  BY <1>1 DEF Joined, Follows
<1> DEFINE l == Least(v.low, q.wrote)
           m == Least(Place(k.readNum), q.wrote)
<1>6. v.low \in Nat /\ Place(k.readNum) \in Nat /\ Place(k.receivedNum) \in Nat /\ q.wrote \in Nat
  BY <1>1, <1>2, PlaceType DEF ViewOK, Sound, Conns
<1> HIDE DEF q
<1>7. l \in Nat /\ m \in Nat /\ l <= m
  BY <1>3, <1>5, <1>6 DEF Least
<1>8. At(l) <= At(m) /\ At(l) \in Nat /\ At(m) \in Nat
  BY <1>7, AtGrows
<1>9. At(m) <= v.n
  BY <1>5
<1> HIDE DEF l, m
<1>10. Len(got) >= 1 + At(l)
  BY <1>1, <1>4, <1>8, <1>9
<1> QED
  BY <1>1, <1>10 DEF Delivered, got, l, q

\* Closing the client's socket when the stream has ended
LEMMA CloseServes ==
  ASSUME NEW s, NEW v, Serving(s, v), s.k.state = "STREAM"
  PROVE  \E w : /\ Moves(v, w) /\ Serving(CloseWhenRead(s), w)
                /\ CloseWhenRead(s).k.state = "FREE" => Delivered(CloseWhenRead(s).t.got, v)
<1>1. CASE /\ s.c.conns[s.k.conn].state = "CLOSED" /\ ~ChaosRecvReady(s.c.conns[s.k.conn])
           /\ s.k.out = <<>>
  <2>1. CloseWhenRead(s) = ClientClose(s)
    BY <1>1 DEF CloseWhenRead
  <2>2. Delivered(s.t.got, v)
    BY <1>1, AllTold
  <2>3. ClientClose(s).t = s.t
    BY ClientCloseOK DEF Serving
  <2>4. PICK w : Moves(v, w) /\ Serving(ClientClose(s), w)
    BY ClientCloseServes
  <2> QED
    BY <2>1, <2>2, <2>3, <2>4
<1>2. CASE ~(/\ s.c.conns[s.k.conn].state = "CLOSED" /\ ~ChaosRecvReady(s.c.conns[s.k.conn])
             /\ s.k.out = <<>>)
  <2>1. CloseWhenRead(s) = s
    BY <1>2 DEF CloseWhenRead
  <2> QED
    BY <2>1 DEF Moves
<1> QED
  BY <1>1, <1>2

\* A round of a client that has a stream
LEMMA ServeStreamServes ==
  ASSUME NEW s, NEW v, Serving(s, v), s.k.state = "STREAM", NEW n \in Nat
  PROVE  \E w : /\ Moves(v, w) /\ Serving(ServeStream(s, n), w)
                /\ ServeStream(s, n).k.state = "FREE" /\ ~s.t.gone => Delivered(ServeStream(s, n).t.got, v)
<1> DEFINE a == Pushed(s)
           b == Finished(a)
           d == Pulled(b)
           e == ClientWrite(d, n)
           f == ShutWhenRead(e)
           z == ServeStream(s, n)
<1>1. z = IF WriteFails(d) THEN ClientClose(d) ELSE CloseWhenRead(f)
  BY DEF ServeStream, StreamOut
<1>2. Serving(a, v) /\ a.k.state = "STREAM" /\ a.t = s.t
  BY PushedServes
<1> HIDE DEF a, z
<1>3. Serving(b, v) /\ b.k.state = "STREAM" /\ b.t = s.t
  BY <1>2, FinishedServes
<1> HIDE DEF b
<1>4. d.k.state = "STREAM" /\ d.t = s.t
  BY <1>3, PulledServes
<1>5. PICK u : Moves(v, u) /\ Serving(d, u) /\ u.low = v.low /\ u.who = v.who
  BY <1>3, PulledServes
<1> HIDE DEF d
<1>6. CASE WriteFails(d)
  <2>1. z = ClientClose(d) /\ s.t.gone
    BY <1>1, <1>4, <1>6 DEF WriteFails
  <2>2. PICK w : Moves(u, w) /\ Serving(ClientClose(d), w)
    BY <1>5, ClientCloseServes
  <2>3. Moves(v, w)
    BY <1>5, <2>2 DEF Moves
  <2>4. Serving(z, w)
    BY <2>1, <2>2
  <2> QED
    BY <2>1, <2>3, <2>4 DEF z
<1>7. CASE ~WriteFails(d)
  <2>1. Serving(e, u)
    BY <1>4, <1>5, ClientWriteServes
  <2>2. e.k.state = "STREAM"
    BY <1>4, <1>5, ClientWriteOK DEF Serving
  <2> HIDE DEF e
  <2>3. Serving(f, u) /\ f.k.state = "STREAM"
    BY <2>1, <2>2, ShutServes
  <2> HIDE DEF f
  <2>4. PICK w : /\ Moves(u, w) /\ Serving(CloseWhenRead(f), w)
                 /\ CloseWhenRead(f).k.state = "FREE" => Delivered(CloseWhenRead(f).t.got, u)
    BY <2>3, CloseServes
  <2>5. Moves(v, w) /\ z = CloseWhenRead(f)
    BY <1>1, <1>5, <1>7, <2>4 DEF Moves
  <2>6. z.k.state = "FREE" => Delivered(z.t.got, v)
    BY <1>5, <2>4, <2>5 DEF Delivered, Moves
  <2>7. Serving(z, w)
    BY <2>4, <2>5
  <2> QED
    BY <2>5, <2>6, <2>7 DEF z
<1> QED
  BY <1>6, <1>7

\* Before an answer the client is told nothing
LEMMA NothingYet ==
  ASSUME NEW s, NEW v, Serving(s, v), s.k.state \in {"LINE", "WAIT_OPN"}
  PROVE  s.t.got = <<>> /\ s.k.out = <<>> /\ v.who = Nat /\ v.n = 0 /\ v.low = 0
<1>1. s.t.got \in Data /\ s.k.out \in Data /\ ClientOK(s.k, s.t.line)
  BY ServingParts
<1>2. s.k.out = <<>>
  BY <1>1 DEF ClientOK
<1>3. s.t.got \o s.k.out = <<>> /\ v.who = Nat /\ v.n = 0 /\ v.low = 0
  BY DEF Serving, Gets
<1>4. s.t.got \o <<>> = s.t.got
  BY <1>1, ConcatEmptySeq DEF Data
<1> QED
  BY <1>2, <1>3, <1>4

\* The first word
LEMMA FirstWord ==
  ASSUME NEW x \in Verbs
  PROVE  /\ Append(<<>>, x) = <<x>> /\ <<>> \o <<x>> = <<x>> /\ <<x>> \in Data
         /\ Len(<<x>>) = 1 /\ <<x>>[1] = x
<1>1. <<x>> \in Data
  BY ShortSeqs DEF Data, Datum
<1>2. <<>> \o <<x>> = <<x>>
  BY <1>1, ConcatEmptySeq DEF Data
<1> QED
  BY <1>1, <1>2

\* The view of no connection
LEMMA ReleasedIs ==
  ASSUME NEW v, ViewOK(v)
  PROVE  LET w == View(v.ps, {}, v.ses, v.top, 0, 0, Nat)
         IN /\ w.ps = v.ps /\ w.mine = {} /\ w.ses = v.ses /\ w.top = v.top /\ w.n = 0 /\ w.low = 0 /\ w.who = Nat
            /\ ViewOK(w) /\ Sent(v) \subseteq Sent(w)
<1>1. v.ses \in Nat
  BY DEF ViewOK
<1> QED
  BY <1>1, ReleasedOK

\* A client without a connection that is told why
LEMMA RefusedServes ==
  ASSUME NEW s, NEW v, Serving(s, v), s.k.state \in {"LINE", "WAIT_OPN"}, NEW verb \in {"CLS", "ANS", "LOS"},
         NEW r, Sane(r), r.c.uniquizer = s.c.uniquizer, Inside(r.c, Kept(v), Sent(v)),
         r.t.session = s.t.session, r.t.line \in {s.t.line, "none"}, r.t.got = s.t.got,
         r.k.conn = NoConn, r.k.state = "DRAIN", r.k.out = Append(<<>>, verb)
  PROVE  \E w : Moves(v, w) /\ Serving(r, w)
<1> DEFINE w == View(v.ps, {}, v.ses, v.top, 0, 0, Nat)
           d == r.c
<1>1. ViewOK(v) /\ v.ses \in Nat
  BY DEF Serving, ViewOK
<1>2. /\ w.ps = v.ps /\ w.mine = {} /\ w.ses = v.ses /\ w.top = v.top /\ w.n = 0 /\ w.low = 0 /\ w.who = Nat
      /\ ViewOK(w) /\ Sent(v) \subseteq Sent(w)
  BY <1>1, ReleasedIs
<1> HIDE DEF w
<1>3. \A g \in Slots : d.conns[g].state = "FREE"
  BY NoConnType DEF Sane, Owns
<1>4. Inside(d, Kept(w), Sent(w))
  BY <1>2, <1>3, InsideAs
<1>5. r.t.got \o r.k.out \in Refusals
  <2>1. s.t.got = <<>> /\ verb \in Verbs
    BY NothingYet DEF Verbs
  <2>2. r.k.out = <<verb>> /\ <<>> \o <<verb>> = <<verb>>
    BY <2>1, FirstWord
  <2>3. <<verb>> \in Refusals
    BY DEF Refusals
  <2> QED
    BY <2>1, <2>2, <2>3
<1>6. Gets(r, w)
  BY <1>2, <1>5 DEF Gets
<1>7. Fresh(r.c, r.t)
  <2>1. Fresh(s.c, s.t) /\ s.t.session \in Nat /\ s.c.uniquizer \in Nat
    BY ServingParts DEF Serving, Cores
  <2> QED
    BY <2>1 DEF Fresh
<1>8. v.ses = s.t.session /\ v.top = s.c.uniquizer * MaxConns
  BY DEF Serving
<1>9. Serving(r, w)
  BY <1>2, <1>4, <1>6, <1>7, <1>8 DEF Serving
<1> QED
  BY <1>2, <1>9 DEF Moves

\* A round of a client that drains
LEMMA ServeDrainServes ==
  ASSUME NEW s, NEW v, Serving(s, v), s.k.state = "DRAIN", NEW n \in Nat
  PROVE  \E w : Moves(v, w) /\ Serving(ServeDrain(s, n), w)
<1> DEFINE e == ClientWrite(s, n)
<1>1. Serving(e, v)
  BY ClientWriteServes
<1>2. ServeDrain(s, n) \in {ClientClose(s), ClientClose(e), e}
  BY DEF ServeDrain, DrainOut
<1> HIDE DEF e
<1>3. Moves(v, v)
  BY DEF Moves
<1> QED
  BY <1>1, <1>2, <1>3, ClientCloseServes

\* A connection that was not opened
LEMMA ServeRefusedServes ==
  ASSUME NEW s, NEW v, Serving(s, v), s.k.state = "WAIT_OPN", NEW n \in Nat
  PROVE  \E w : Moves(v, w) /\ Serving(ServeRefused(s, n), w)
<1> DEFINE h == s.k.conn
           verb == Verb(s.c.conns[h].closeKind)
           d == ChaosRelease(s.c, h)
           k == [s.k EXCEPT !.conn = NoConn]
           j == FailClient(k, verb)
           r == [s EXCEPT !.c = d, !.k = j]
<1>1. /\ s \in Servers /\ s.c \in Cores /\ s.k \in Clients /\ s.t \in Socks /\ h \in Slots
      /\ ViewOK(v) /\ Inside(s.c, Kept(v), Sent(v)) /\ Owns(s.c, s.k) /\ ClientOK(s.k, s.t.line)
  BY ServingParts DEF Serving
<1>2. s.k.out = <<>> /\ s.t.line = "none" /\ Len(s.k.in) <= InBuf
  BY <1>1 DEF ClientOK
<1>3. verb \in {"CLS", "ANS", "LOS"} /\ verb \in Verbs
  BY DEF Verb, Verbs
<1>4. /\ d \in Cores /\ d.conns[h].state = "FREE"
      /\ \A g \in Slots \ {h} : d.conns[g] = s.c.conns[g]
  BY <1>1, ChaosReleaseOK
<1>5. Inside(d, Kept(v), Sent(v)) /\ d.uniquizer = s.c.uniquizer
  BY <1>1, KeptClosed, KeptUses, ChaosReleaseInside
<1>6. k \in Clients /\ k.out = <<>> /\ k.conn = NoConn /\ k.in = s.k.in
  BY <1>1, <1>2 DEF Clients
<1>7. ServeRefused(s, n) = ServeDrain(r, n)
  BY DEF ServeRefused
<1> HIDE DEF d, verb, k
<1>8. j \in Clients /\ j.conn = NoConn /\ ClientOK(j, "none")
  BY <1>2, <1>3, <1>6, FailClientOK
<1>9. j.out = Append(<<>>, verb) /\ j.state = "DRAIN"
  BY <1>6 DEF FailClient, Clients
<1> HIDE DEF j
<1>10. r \in Servers /\ r.c = d /\ r.k = j /\ r.t = s.t
  BY <1>1, <1>4, <1>8 DEF Servers
<1>11. Owns(d, j)
  BY <1>1, <1>4, <1>8, NoConnType DEF Owns
<1> HIDE DEF r, h
<1>12. Sane(r)
  BY <1>2, <1>8, <1>10, <1>11 DEF Sane
<1>13. PICK u : Moves(v, u) /\ Serving(r, u)
  BY <1>3, <1>5, <1>8, <1>9, <1>10, <1>12, RefusedServes
<1>14. PICK w : Moves(u, w) /\ Serving(ServeDrain(r, n), w)
  BY <1>9, <1>10, <1>13, ServeDrainServes
<1>15. Moves(v, w)
  BY <1>13, <1>14 DEF Moves
<1> QED
  BY <1>7, <1>14, <1>15

\* The peer's OPN is passed on
LEMMA OpenedServes ==
  ASSUME NEW s, NEW v, Serving(s, v), s.k.state = "WAIT_OPN", s.c.conns[s.k.conn].state = "OPEN",
         NEW r, Sane(r), r.c = s.c, r.t = s.t, r.k.conn = s.k.conn, r.k.state = "STREAM",
         r.k.out = Append(<<>>, "OPN")
  PROVE  \E w : Moves(v, w) /\ Serving(r, w)
<1> DEFINE h == s.k.conn
           k == s.c.conns[h]
           i == k.remoteIndex
           w == View(v.ps, v.mine, v.ses, v.top, 0, 0, {i})
<1>1. h \in Slots /\ ViewOK(v) /\ Inside(s.c, Kept(v), Sent(v)) /\ k \in Sound /\ Known(k, v)
      /\ \A g \in Slots \ {h} : s.c.conns[g].state = "FREE"
  BY ServingParts DEF Serving
<1>2. Joined(k, v)
  BY <1>1, OpenIsJoined
<1>3. i \in DOMAIN v.ps
  BY <1>2 DEF Joined
<1>4. v.n = 0 /\ v.low = 0 /\ s.t.got = <<>>
  BY NothingYet
<1>5. /\ w.ps = v.ps /\ w.mine = v.mine /\ w.ses = v.ses /\ w.top = v.top /\ w.n = 0 /\ w.low = 0 /\ w.who = {i}
      /\ ViewOK(w) /\ Sent(w) = Sent(v)
      /\ \A x : x.remoteIndex = i /\ Known(x, v) => Known(x, w)
  BY <1>1, <1>3, <1>4, SettledOK
<1> HIDE DEF w
<1>6. \A g \in Slots : s.c.conns[g].state # "FREE" /\ Known(s.c.conns[g], v) => Known(s.c.conns[g], w)
  BY <1>1, <1>5
<1>7. Inside(s.c, Kept(w), Sent(w))
  BY <1>1, <1>5, <1>6, InsideAs
<1>8. Streamed(r.t.got \o r.k.out, i, 0)
  <2>1. r.k.out = <<"OPN">> /\ <<>> \o <<"OPN">> = <<"OPN">> /\ <<"OPN">> \in Data
        /\ Len(<<"OPN">>) = 0 + 1 /\ <<"OPN">>[1] = "OPN"
    BY FirstWord DEF Verbs
  <2>2. r.t.got \o r.k.out = <<"OPN">>
    BY <1>4, <2>1
  <2>3. Streamed(<<"OPN">>, i, 0)
    BY <2>1 DEF Streamed
  <2> QED
    BY <2>2, <2>3
<1>9. Gets(r, w)
  BY <1>3, <1>5, <1>8 DEF Gets
<1>10. /\ v.ses = s.t.session /\ v.top = s.c.uniquizer * MaxConns /\ Fresh(s.c, s.t)
       /\ (s.k.conn = NoConn => v.mine = {})
  BY DEF Serving
<1>11. Serving(r, w)
  BY <1>5, <1>7, <1>9, <1>10 DEF Serving
<1> QED
  BY <1>5, <1>11 DEF Moves

\* client_service
LEMMA ServiceServes ==
  ASSUME NEW s, NEW v, Serving(s, v), NEW n \in Nat
  PROVE  \E w : /\ Moves(v, w) /\ Serving(ClientService(s, n), w)
                /\ s.k.state = "STREAM" /\ ClientService(s, n).k.state = "FREE" /\ ~s.t.gone =>
                     Delivered(ClientService(s, n).t.got, v)
<1> DEFINE z == ClientService(s, n)
<1>1. Moves(v, v)
  BY DEF Moves
<1>2. CASE s.k.state = "STREAM"
  <2>1. z = ServeStream(s, n)
    BY <1>2 DEF ClientService
  <2> HIDE DEF z
  <2>2. PICK w : /\ Moves(v, w) /\ Serving(ServeStream(s, n), w)
                 /\ ServeStream(s, n).k.state = "FREE" /\ ~s.t.gone => Delivered(ServeStream(s, n).t.got, v)
    BY <1>2, ServeStreamServes
  <2> QED
    BY <2>1, <2>2 DEF z
<1>3. CASE s.k.state = "WAIT_OPN"
  <2> DEFINE j == [s.k EXCEPT !.out = Append(@, "OPN"), !.state = "STREAM"]
             r == [s EXCEPT !.k = j]
             a == ServeStream(r, n)
             b == ServeRefused(s, n)
             state == s.c.conns[s.k.conn].state
             x == CASE state = "OPEN" -> a [] state = "CLOSED" -> b [] OTHER -> s
  <2>1. /\ s \in Servers /\ s.c \in Cores /\ s.k \in Clients /\ s.t \in Socks /\ s.k.out = <<>>
        /\ Owns(s.c, s.k) /\ ClientOK(s.k, s.t.line)
    BY <1>3, ServingParts, NothingYet
  <2>2. z = x
    <3>1. r = [s EXCEPT !.k.out = Append(@, "OPN"), !.k.state = "STREAM"]
      BY <2>1 DEF Servers, Clients
    <3> HIDE DEF r
    <3> QED
      BY <1>3, <3>1 DEF ClientService
  <2> HIDE DEF z
  <2>3. ASSUME state = "OPEN"
        PROVE  \E w : Moves(v, w) /\ Serving(a, w)
    <3>1. Append(s.k.out, "OPN") \in Data /\ Len(Append(s.k.out, "OPN")) = 0 + 1
      BY <2>1, AppendType, EmptyType DEF Datum, Verbs
    <3>2. /\ j \in Clients /\ j.in = s.k.in /\ j.out = Append(<<>>, "OPN") /\ j.conn = s.k.conn
          /\ j.state = "STREAM" /\ Len(j.out) = 0 + 1
      BY <2>1, <3>1 DEF Clients
    <3> HIDE DEF j
    <3>3. r \in Servers /\ r.c = s.c /\ r.k = j /\ r.t = s.t
      BY <2>1, <3>2 DEF Servers
    <3>4. Len(j.out) <= OutBuf
      BY <3>2, BufSizes
    <3>5. Owns(s.c, j) /\ ClientOK(j, s.t.line)
      BY <1>3, <2>1, <3>2, <3>4 DEF Owns, ClientOK
    <3> HIDE DEF r
    <3>6. Sane(r)
      BY <3>2, <3>3, <3>5 DEF Sane
    <3>7. PICK u : Moves(v, u) /\ Serving(r, u)
      BY <1>3, <2>3, <3>2, <3>3, <3>6, OpenedServes
    <3>8. PICK w : Moves(u, w) /\ Serving(a, w)
      BY <3>2, <3>3, <3>7, ServeStreamServes
    <3>9. Moves(v, w)
      BY <3>7, <3>8 DEF Moves
    <3> QED
      BY <3>8, <3>9
  <2>4. \E w : Moves(v, w) /\ Serving(b, w)
    BY <1>3, ServeRefusedServes
  <2>5. z \in {b, s} \/ (z = a /\ state = "OPEN")
    <3> HIDE DEF a, b, state
    <3> QED
      BY <2>2
  <2> HIDE DEF a, b
  <2>6. \E w : Moves(v, w) /\ Serving(z, w)
    BY <1>1, <2>3, <2>4, <2>5
  <2> QED
    BY <1>3, <2>6 DEF z
<1>4. CASE s.k.state = "DRAIN"
  <2>1. z = ServeDrain(s, n)
    BY <1>4 DEF ClientService
  <2> HIDE DEF z
  <2>2. \E w : Moves(v, w) /\ Serving(z, w)
    BY <1>4, <2>1, ServeDrainServes
  <2> QED
    BY <1>4, <2>2 DEF z
<1>5. CASE s.k.state \notin {"STREAM", "WAIT_OPN", "DRAIN"}
  <2>1. z = s
    BY <1>5 DEF ClientService
  <2> QED
    BY <1>1, <1>5, <2>1
<1> QED
  BY <1>2, <1>3, <1>4, <1>5

---------------------------------------------------------------------------
(* What the client's socket is read for                                    *)

\* chaos_open takes an index no packet has named yet
LEMMA OpenInside ==
  ASSUME NEW v, ViewOK(v), NEW c, Inside(c, Kept(v), Sent(v)), NEW h \in Slots,
         \A g \in Slots : c.conns[g].state = "FREE", v.top = c.uniquizer * MaxConns,
         c.uniquizer + 1 < UniqSpace
  PROVE  LET L == LocalIndex(c, h)
             top == (c.uniquizer + 1) * MaxConns
             w == View(v.ps, {L}, v.ses, top, 0, 0, Nat)
             d == ChaosOpen(c, h, <<v.ses>>)
         IN /\ w.ps = v.ps /\ w.mine = {L} /\ w.ses = v.ses /\ w.n = 0 /\ w.low = 0 /\ w.who = Nat
            /\ w.top = top /\ ViewOK(w) /\ Sent(v) \subseteq Sent(w)
            /\ d.uniquizer = c.uniquizer + 1 /\ Inside(d, Kept(w), Sent(w))
<1> DEFINE L == LocalIndex(c, h)
           top == (c.uniquizer + 1) * MaxConns
           w == View(v.ps, {L}, v.ses, top, 0, 0, Nat)
           data == <<v.ses>>
           first == (c.initialPktNum - 1) % PktSpace
           next == (c.uniquizer + 1) % UniqSpace
           uniq == IF next = 0 THEN 1 ELSE next
           num == (c.initialPktNum + NumStride) % PktSpace
           k == [FreeConn EXCEPT !.state = "RFC_SENT", !.localIndex = L, !.remoteWindow = 1,
                                 !.sentNum = first, !.ackedNum = first, !.receiptNum = first]
           f == [c EXCEPT !.conns[h] = k, !.uniquizer = uniq, !.initialPktNum = num]
           d == ChaosOpen(c, h, data)
<1>1. c \in Cores /\ c.uniquizer \in Nat /\ c.initialPktNum \in Num /\ v.ses \in Nat
  BY DEF Inside, Cores, ViewOK
<1>2. first \in Num /\ num \in Num
  BY <1>1, DecIs, Sizes, SizeAssumption DEF Num
<1>3. uniq = c.uniquizer + 1 /\ uniq \in Nat
  BY <1>1, SizeAssumption
<1>4. L \in Nat /\ top \in Nat /\ v.top <= L /\ L < top
  <2>1. MaxConns \in Nat /\ h \in Nat /\ h < MaxConns
    BY SlotsType DEF Slots
  <2>2. top = c.uniquizer * MaxConns + MaxConns /\ c.uniquizer * MaxConns \in Nat
    BY <1>1, <2>1
  <2>3. L = c.uniquizer * MaxConns + h
    BY DEF LocalIndex
  <2> QED
    BY <2>1, <2>2, <2>3
<1>5. /\ w.ps = v.ps /\ w.mine = {L} /\ w.ses = v.ses /\ w.top = top /\ w.n = 0 /\ w.low = 0 /\ w.who = Nat
      /\ ViewOK(w) /\ Sent(v) \subseteq Sent(w)
  <2>1. LET u == View(v.ps, {L}, v.ses, top, 0, 0, Nat)
        IN /\ u.ps = v.ps /\ u.mine = {L} /\ u.ses = v.ses /\ u.top = top /\ u.n = 0 /\ u.low = 0 /\ u.who = Nat
           /\ ViewOK(u) /\ Sent(v) \subseteq Sent(u)
    BY <1>4, TakenOK
  <2> QED
    BY <2>1
<1>6. d = ConnSendControlled(f, h, "RFC", data)
  BY DEF ChaosOpen
<1>7. data \in Data
  BY <1>1, ShortSeqs DEF Data, Datum
<1> HIDE DEF first, uniq, num, d
<1>8. FreeConn \in Conns /\ ConnOK(FreeConn) /\ 1 \in 0..MaxWindow
  BY FreeIsSound, Sizes DEF Sound
<1>9. k \in Conns
  BY <1>2, <1>4, <1>8 DEF Conns
<1>10. /\ k.sentNum = first /\ k.ackedNum = first /\ k.receiptNum = first /\ k.sendq = FreeConn.sendq
       /\ k.receivedNum = FreeConn.receivedNum /\ k.readNum = FreeConn.readNum /\ k.localIndex = L
       /\ k.rcvq = FreeConn.rcvq /\ k.state = "RFC_SENT" /\ k.remoteIndex = 0 /\ ~k.eofReceived
  BY DEF FreeConn
<1> HIDE DEF k
<1>11. Sending(first, first, first, FreeConn.sendq)
  BY <1>2, DiffType, Sizes DEF Sending
<1>12. \A s \in 0..(Ring - 1) : FreeConn.rcvq[s].op = "none" /\ FreeConn.sendq[s].op = "none"
  BY DEF FreeConn, NoPkt
<1>13. k \in Sound
  BY <1>8, <1>9, <1>10, <1>11, <1>12 DEF Sound, ConnOK
<1>14. f \in Cores /\ f.conns[h] = k /\ f.out = c.out /\ f.uniquizer = uniq /\ \A g \in Slots \ {h} : f.conns[g] = c.conns[g]
  BY <1>1, <1>2, <1>3, <1>13 DEF Cores
<1> HIDE DEF f
<1>15. SeqDiff(k.sentNum, k.ackedNum) < MaxWindow
  BY <1>2, <1>10, DiffType, Sizes
<1> DEFINE n == SeqInc(k.sentNum)
           p == [op |-> "RFC", num |-> n, data |-> data]
           j == Controlled(k, "RFC", data)
<1>16. n \in Num /\ SlotOf(n) \in 0..(Ring - 1)
  BY <1>2, <1>10, IncIs, SlotType
<1>17. Outgoing(k, p) \in Sent(w)
  <2>1. Outgoing(k, p) = Packet("RFC", 0, L, n, 0, data)
    BY <1>10 DEF Outgoing
  <2>2. Packet("RFC", 0, L, n, 0, data) \in Packets
    BY <1>4, <1>7, <1>16, PeerSizes, PacketType DEF Ops
  <2> HIDE DEF n
  <2>3. ForPeer(Packet("RFC", 0, L, n, 0, data), w)
    BY <1>4, <1>5 DEF ForPeer, Packet
  <2> QED
    BY <2>1, <2>2, <2>3 DEF Sent
<1>18. f.out \in Seq(Sent(w)) /\ Sent(w) \subseteq Packets /\ Arps(Sent(w))
  <2>1. Inside(c, Kept(w), Sent(w))
    BY <1>5, InsideAs
  <2> QED
    BY <1>5, <1>14, <2>1, KeptTells DEF Inside, Sent
<1>19. /\ d \in Cores /\ d.conns[h] \in Sound /\ Alike(j, d.conns[h])
       /\ \A g \in Slots \ {h} : d.conns[g] = f.conns[g]
       /\ d.out \in Seq(Sent(w)) /\ d.uniquizer = f.uniquizer
  <2>1. SeqDiff(f.conns[h].sentNum, f.conns[h].ackedNum) < MaxWindow
    BY <1>14, <1>15
  <2>2. Outgoing(f.conns[h], [op |-> "RFC", num |-> SeqInc(f.conns[h].sentNum), data |-> data]) \in Sent(w)
    BY <1>14, <1>17
  <2> HIDE DEF j
  <2>3. j = Controlled(f.conns[h], "RFC", data)
    BY <1>14 DEF j
  <2> DEFINE G == Sent(w)
  <2>4. f.out \in Seq(G) /\ G \subseteq Packets /\ Arps(G)
    BY <1>18
  <2>5. Outgoing(f.conns[h], [op |-> "RFC", num |-> SeqInc(f.conns[h].sentNum), data |-> data]) \in G
    BY <2>2
  <2> HIDE DEF G, n, p
  <2>6. f \in Cores
    BY <1>14
  <2>7. LET r == ConnSendControlled(f, h, "RFC", data)
        IN /\ r \in Cores /\ r.conns[h] \in Sound /\ Alike(Controlled(f.conns[h], "RFC", data), r.conns[h])
           /\ \A g \in Slots \ {h} : r.conns[g] = f.conns[g]
           /\ r.out \in Seq(G)
           /\ r.uniquizer = f.uniquizer /\ r.initialPktNum = f.initialPktNum
    BY <1>7, <2>1, <2>4, <2>5, <2>6, ConnSendControlledIs
  <2> QED
    BY <1>6, <2>3, <2>7 DEF G
<1> DEFINE e == d.conns[h]
<1>20. /\ e.state = "RFC_SENT" /\ e.localIndex = L /\ e.remoteIndex = 0 /\ ~e.eofReceived /\ e.rcvq = FreeConn.rcvq
       /\ e.sendq = [FreeConn.sendq EXCEPT ![SlotOf(n)] = p]
  <2>1. e \in Conns /\ j \in [DOMAIN k -> UNION {{j[x]} : x \in DOMAIN k}]
    BY <1>19 DEF Sound, Controlled
  <2>2. /\ j.state = k.state /\ j.localIndex = k.localIndex /\ j.remoteIndex = k.remoteIndex /\ j.rcvq = k.rcvq
        /\ j.eofReceived = k.eofReceived /\ j.sendq = [k.sendq EXCEPT ![SlotOf(n)] = p]
    <3> HIDE DEF n
    <3> QED
      BY <1>9 DEF Controlled, Conns, n
  <2>3. /\ e.state = j.state /\ e.localIndex = j.localIndex /\ e.remoteIndex = j.remoteIndex /\ e.rcvq = j.rcvq
        /\ e.eofReceived = j.eofReceived /\ e.sendq = j.sendq
    BY <1>9, <1>19 DEF Alike, Controlled, Conns
  <2> HIDE DEF e, j, n, p
  <2> QED
    BY <1>10, <2>2, <2>3
<1>21. Known(e, w)
  <2>1. \A s \in 0..(Ring - 1) : e.sendq[s].op \in {"none", "RFC"} /\ (e.sendq[s].op = "RFC" => e.sendq[s].data = <<v.ses>>)
    <3> SUFFICES ASSUME NEW s \in 0..(Ring - 1)
                 PROVE  e.sendq[s].op \in {"none", "RFC"} /\ (e.sendq[s].op = "RFC" => e.sendq[s].data = <<v.ses>>)
      OBVIOUS
    <3>1. e.sendq[s] = IF s = SlotOf(n) THEN p ELSE FreeConn.sendq[s]
      BY <1>20 DEF FreeConn
    <3> HIDE DEF e
    <3> QED
      BY <1>12, <3>1
  <2> HIDE DEF e
  <2>2. Asking(e.sendq, w.ses)
    BY <1>5, <2>1 DEF Asking
  <2>3. Unopened(e)
    BY <1>12, <1>20, <2>1 DEF Unopened
  <2>4. e.state = "RFC_SENT" /\ e.localIndex \in w.mine /\ e.remoteIndex \in w.who
    <3>1. 0 \in Nat /\ L \in {L}
      OBVIOUS
    <3> QED
      BY <1>5, <1>20, <3>1, Zenon
  <2> QED
    BY <2>2, <2>3, <2>4 DEF Known
<1>22. ASSUME NEW g \in Slots
       PROVE  d.conns[g] \in Kept(w)[g]
  <2>1. CASE g = h
    BY <1>19, <1>21, <2>1, KeptIs DEF Sound
  <2>2. CASE g # h
    <3>1. d.conns[g] = c.conns[g] /\ c.conns[g] \in Conns /\ Known(c.conns[g], v) /\ c.conns[g].state = "FREE"
      BY <1>14, <1>19, <2>2, KeptIs DEF Inside
    <3> QED
      BY <3>1, FreeKnown, KeptIs
  <2> QED
    BY <2>1, <2>2
<1>23. Inside(d, Kept(w), Sent(w))
  BY <1>19, <1>22 DEF Inside
<1>24. d.uniquizer = c.uniquizer + 1
  BY <1>3, <1>14, <1>19
<1> QED
  BY <1>5, <1>23, <1>24 DEF d

\* Reading bytes tells nothing
LEMMA ReadBytesServes ==
  ASSUME NEW s, NEW v, Serving(s, v)
  PROVE  /\ Serving(ReadBytes(s), v) /\ ReadBytes(s).k.state = s.k.state /\ ReadBytes(s).t.gone = s.t.gone
         /\ ReadBytes(s).t.line = s.t.line
<1> DEFINE n == Least(Len(s.t.pending), InBuf - Len(s.k.in))
           j == [s.k EXCEPT !.in = @ \o SubSeq(s.t.pending, 1, n)]
           u == [s.t EXCEPT !.pending = SubSeq(@, n + 1, Len(@))]
           r == ReadBytes(s)
<1>1. s \in Servers /\ s.k \in Clients /\ s.t \in Socks /\ Inside(s.c, Kept(v), Sent(v))
  BY ServingParts DEF Serving
<1>2. r = [s EXCEPT !.k = j, !.t = u]
  BY <1>1 DEF ReadBytes, Servers, Clients, Socks
<1>3. j.out = s.k.out /\ j.conn = s.k.conn /\ j.state = s.k.state
  BY <1>1 DEF Clients
<1>4. u.got = s.t.got /\ u.session = s.t.session /\ u.line = s.t.line /\ u.gone = s.t.gone
  BY <1>1 DEF Socks
<1>5. Sane(r)
  BY ReadBytesOK DEF Serving
<1> HIDE DEF r, j, u
<1>6. r.c = s.c /\ r.k = j /\ r.t = u
  BY <1>1, <1>2 DEF Servers
<1>7. Serving(r, v)
  BY <1>1, <1>3, <1>4, <1>5, <1>6, SameServing
<1> QED
  BY <1>3, <1>4, <1>6, <1>7 DEF r

\* handle_request
LEMMA ReadLineServes ==
  ASSUME NEW s, NEW v, Serving(s, v), s.k.state = "LINE", s.t.line # "none"
  PROVE  \E w : Moves(v, w) /\ Serving(ReadLine(s), w)
<1> DEFINE b == ReadBytes(s)
           h == NewSlot(b.c)
           d == ChaosOpen(b.c, h, <<b.t.session>>)
           j == [b.k EXCEPT !.conn = h, !.state = "WAIT_OPN"]
           f == FailClient(b.k, "LOS")
           u == [b.t EXCEPT !.line = "none"]
           refused == [b EXCEPT !.k = f, !.t = u]
           asked == [b EXCEPT !.c = d, !.k = j, !.t = u]
           z == ReadLine(s)
<1>1. Serving(b, v) /\ b.k.state = "LINE" /\ b.t.line # "none"
  BY ReadBytesServes
<1>2. z = [HandleRequest(b) EXCEPT !.t.line = "none"] /\ Sane(z)
  BY ReadLineOK DEF ReadLine, Serving
<1> HIDE DEF b, z
<1>3. /\ b \in Servers /\ b.c \in Cores /\ b.k \in Clients /\ b.t \in Socks /\ b.t.session \in Nat
      /\ b.k.conn = NoConn /\ ViewOK(v) /\ Inside(b.c, Kept(v), Sent(v)) /\ v.mine = {}
      /\ v.ses = b.t.session /\ v.top = b.c.uniquizer * MaxConns /\ Fresh(b.c, b.t)
      /\ \A g \in Slots : b.c.conns[g].state = "FREE"
  BY <1>1, ServingParts, NoConnType DEF Serving
<1>4. b.t.got = <<>> /\ b.k.out = <<>>
  BY <1>1, NothingYet
<1>5. u.line = "none" /\ u.session = b.t.session /\ u.got = b.t.got
  BY <1>3 DEF Socks
<1>6. CASE b.t.line = "bad" \/ FreeSlots(b.c) = {}
  <2>1. HandleRequest(b) = [b EXCEPT !.k = f]
    BY <1>6 DEF HandleRequest
  <2>2. z = refused
    <3> HIDE DEF f
    <3> QED
      BY <1>2, <1>3, <2>1 DEF Servers, Socks
  <2>3. f.conn = NoConn /\ f.state = "DRAIN" /\ f.out = Append(<<>>, "LOS")
    BY <1>3, <1>4 DEF FailClient, Clients
  <2> HIDE DEF f, u
  <2>4. z.c = b.c /\ z.k = f /\ z.t = u
    BY <1>3, <2>2 DEF Servers
  <2> HIDE DEF refused
  <2>5. \E w : Moves(v, w) /\ Serving(z, w)
    BY <1>1, <1>2, <1>3, <1>5, <2>3, <2>4, RefusedServes
  <2> QED
    BY <2>5 DEF z
<1>7. CASE ~(b.t.line = "bad" \/ FreeSlots(b.c) = {})
  <2> DEFINE x == LocalIndex(b.c, h)
             top == (b.c.uniquizer + 1) * MaxConns
             data == <<b.t.session>>
             w == View(v.ps, {x}, v.ses, top, 0, 0, Nat)
             c == b.c
  <2>1. HandleRequest(b) = [b EXCEPT !.c = d, !.k.conn = h, !.k.state = "WAIT_OPN"]
    BY <1>7 DEF HandleRequest
  <2>2. z = asked
    <3> HIDE DEF d, h
    <3> QED
      BY <1>2, <1>3, <2>1 DEF Servers, Socks, Clients
  <2>3. h \in Slots
    BY <1>3, <1>7, NewSlotType
  <2>4. c.uniquizer \in Nat /\ c.uniquizer + 1 < UniqSpace /\ c.uniquizer <= b.t.session /\ b.t.session + 1 < UniqSpace
    <3>1. c.uniquizer \in Nat /\ UniqSpace \in Nat
      BY <1>3, SizeAssumption DEF Cores
    <3>2. c.uniquizer <= b.t.session /\ b.t.session + 1 < UniqSpace
      BY <1>1, <1>3 DEF Fresh
    <3> HIDE DEF c
    <3> QED
      BY <1>3, <3>1, <3>2
  <2> HIDE DEF h
  <2>5. /\ w.ps = v.ps /\ w.ses = v.ses /\ w.n = 0 /\ w.low = 0 /\ w.who = Nat
        /\ w.top = top /\ ViewOK(w) /\ Sent(v) \subseteq Sent(w)
        /\ d.uniquizer = c.uniquizer + 1 /\ Inside(d, Kept(w), Sent(w))
    <3>1. /\ Inside(c, Kept(v), Sent(v)) /\ v.top = c.uniquizer * MaxConns
          /\ (\A g \in Slots : c.conns[g].state = "FREE") /\ ViewOK(v)
      BY <1>3
    <3>2. <<v.ses>> = data
      BY <1>3
    <3> HIDE DEF c
    <3>3. LET l == LocalIndex(c, h)
              t == (c.uniquizer + 1) * MaxConns
              y == View(v.ps, {l}, v.ses, t, 0, 0, Nat)
              e == ChaosOpen(c, h, <<v.ses>>)
          IN /\ y.ps = v.ps /\ y.mine = {l} /\ y.ses = v.ses /\ y.n = 0 /\ y.low = 0 /\ y.who = Nat
             /\ y.top = t /\ ViewOK(y) /\ Sent(v) \subseteq Sent(y)
             /\ e.uniquizer = c.uniquizer + 1 /\ Inside(e, Kept(y), Sent(y))
      BY <2>3, <2>4, <3>1, OpenInside
    <3> QED
      BY <3>2, <3>3 DEF c
  <2>6. j.conn = h /\ j.state = "WAIT_OPN" /\ j.out = <<>>
    BY <1>3, <1>4 DEF Clients
  <2> HIDE DEF d, j, u, w
  <2>7. z.c = d /\ z.k = j /\ z.t = u
    BY <1>3, <2>2 DEF Servers
  <2>8. Gets(z, w)
    <3>1. z.t.got \o z.k.out = <<>> \o <<>>
      BY <1>4, <1>5, <2>6, <2>7
    <3>2. <<>> \o <<>> = <<>>
      BY EmptyType, ConcatEmptySeq DEF Data
    <3> QED
      BY <2>5, <2>6, <2>7, <3>1, <3>2 DEF Gets
  <2>9. Fresh(z.c, z.t)
    BY <1>3, <1>5, <2>4, <2>5, <2>7 DEF Fresh
  <2>10. z.k.conn # NoConn
    BY <2>3, <2>6, <2>7, NoConnType
  <2>11. Serving(z, w)
    BY <1>2, <1>3, <1>5, <2>5, <2>7, <2>8, <2>9, <2>10 DEF Serving
  <2> QED
    BY <2>5, <2>11 DEF Moves, z
<1> QED
  BY <1>6, <1>7

\* client_read, whatever it returns
LEMMA ReadsServes ==
  ASSUME NEW s, NEW v, Serving(s, v), NEW r \in Reads(s)
  PROVE  \/ Serving(r, v) /\ r.k.state = s.k.state /\ r.t.gone = s.t.gone
         \/ /\ ~(s.k.state = "STREAM" /\ ~s.t.gone)
            /\ \E w : Moves(v, w) /\ Serving(r, w)
<1>1. \/ s.t.line # "none" /\ PollIn(s.c, s.k) /\ r = ReadLine(s)
      \/ r = ReadBytes(s) \/ r = ReadEof(s) \/ (s.t.gone /\ r = ClientClose(s))
  BY DEF Reads
<1>2. CASE s.t.line # "none" /\ PollIn(s.c, s.k) /\ r = ReadLine(s)
  <2>1. s.k.state = "LINE"
    BY <1>2, ServingParts DEF ClientOK, PollIn
  <2> QED
    BY <1>2, <2>1, ReadLineServes
<1>3. CASE r = ReadBytes(s)
  BY <1>3, ReadBytesServes
<1>4. CASE r = ClientClose(s) /\ (s.t.gone \/ s.k.state # "STREAM")
  BY <1>4, ClientCloseServes
<1>5. CASE r = [s EXCEPT !.k.sockEof = TRUE]
  <2> DEFINE j == [s.k EXCEPT !.sockEof = TRUE]
  <2>1. s \in Servers /\ s.k \in Clients /\ Inside(s.c, Kept(v), Sent(v)) /\ Owns(s.c, s.k) /\ ClientOK(s.k, s.t.line)
    BY ServingParts DEF Serving
  <2>2. r = [s EXCEPT !.k = j]
    BY <1>5, <2>1 DEF Servers, Clients
  <2>3. j \in Clients /\ j.in = s.k.in /\ j.out = s.k.out /\ j.conn = s.k.conn /\ j.state = s.k.state
    BY <2>1 DEF Clients
  <2> HIDE DEF j
  <2>4. r \in Servers /\ r.c = s.c /\ r.k = j /\ r.t = s.t
    BY <2>1, <2>2, <2>3 DEF Servers
  <2>5. Sane(r)
    BY <2>1, <2>3, <2>4 DEF Sane, Owns, ClientOK
  <2>6. Serving(r, v)
    BY <2>1, <2>3, <2>4, <2>5, SameServing
  <2> QED
    BY <2>3, <2>4, <2>6
<1>6. CASE r = ReadEof(s)
  <2>1. (r = ClientClose(s) /\ s.k.state # "STREAM") \/ r = [s EXCEPT !.k.sockEof = TRUE]
    BY <1>6 DEF ReadEof
  <2> QED
    BY <1>4, <1>5, <2>1
<1> QED
  BY <1>1, <1>2, <1>3, <1>4, <1>6

---------------------------------------------------------------------------
(* The peer                                                                *)

\* What the peer may have sent to chaosd
Heard(ps) == {m \in Packets : FromPeer(m, ps)}

\* What an open connection of the peer has sent, and what of it has a receipt
PeerFits(p, max) ==
  /\ p.wrote <= max
  /\ p.state = "OPEN" =>
       /\ Place(p.sentNum) = LastSent(p)
       /\ p.receiptNum = (PeerFirst - 1) % PktSpace \/ Place(p.receiptNum) <= LastSent(p)
Peering(ps, q, max) ==
  PeersOK(ps) /\ (\A i \in DOMAIN ps : PeerFits(ps[i], max)) /\ q \in Seq(Heard(ps))

\* Connections of the peer that a view knows
Named(ps, v) ==
  \A i \in DOMAIN ps : ps[i].remote < v.top /\ (ps[i].remote \in v.mine => ps[i].contact = <<v.ses>>)
Facing(v, max) ==
  ViewOK(v) /\ v.ps = peers /\ Peering(peers, toCore, max) /\ max \in Nat /\ max + LocalWindow + 1 < PktSpace
\* A step of the peer
Goes(v, qs, q, max) == Grows(v.ps, qs) /\ Peering(qs, q, max) /\ Named(qs, v)

\* Sequences over a larger set
LEMMA SeqsGrow ==
  ASSUME NEW S, NEW T, S \subseteq T, NEW q \in Seq(S)
  PROVE  q \in Seq(T)
<1>1. Len(q) \in Nat /\ q \in [1..Len(q) -> S]
  BY LenProperties
<1>2. q \in [1..Len(q) -> T]
  BY <1>1
<1> QED
  BY <1>1, <1>2, IsASeq

\* What was sent before a step may still arrive
LEMMA HeardGrows ==
  ASSUME NEW ps, NEW qs, PeersOK(ps), PeersOK(qs), Grows(ps, qs)
  PROVE  Heard(ps) \subseteq Heard(qs)
<1> SUFFICES ASSUME NEW m \in Packets, FromPeer(m, ps)
             PROVE  FromPeer(m, qs)
  BY DEF Heard
<1>1. ASSUME NEW i \in DOMAIN ps
      PROVE  /\ i \in DOMAIN qs /\ Later(ps[i], qs[i]) /\ ps[i].wrote \in Nat /\ qs[i].wrote \in Nat
             /\ ps[i].wrote <= qs[i].wrote
  <2>1. i \in DOMAIN qs /\ Later(ps[i], qs[i]) /\ PeerOK(ps[i]) /\ PeerOK(qs[i])
    BY DEF Grows, PeersOK
  <2> QED
    BY <2>1, LaterReaches
<1>2. m.op = "OPN" => m.src \in DOMAIN qs /\ m.num = PeerFirst /\ m.dest = qs[m.src].remote
  BY <1>1 DEF FromPeer, Later
<1>3. ASSUME m.op = "DAT"
      PROVE  m.src \in DOMAIN qs /\ Place(m.num) \in 1..qs[m.src].wrote
  <2>1. m.src \in DOMAIN ps /\ Place(m.num) \in 1..ps[m.src].wrote
    BY <1>3 DEF FromPeer
  <2> QED
    BY <1>1, <2>1
<1>4. ASSUME m.op = "EOF"
      PROVE  m.src \in DOMAIN qs /\ Place(m.num) = qs[m.src].wrote + 1 /\ Final(qs[m.src])
  BY <1>1, <1>4 DEF FromPeer, Later
<1> QED
  BY <1>2, <1>3, <1>4 DEF FromPeer

\* What is no part of a stream
LEMMA OtherHeard ==
  ASSUME NEW m \in Packets, m.op \notin {"OPN", "DAT", "EOF"}, NEW ps
  PROVE  m \in Heard(ps)
BY DEF Heard, FromPeer

\* The same of a connection, with another receipt
LEMMA SameFits ==
  ASSUME NEW p, NEW q, NEW max, PeerOK(p), PeerOK(q), PeerFits(p, max),
         q.state = p.state, q.remote = p.remote, q.contact = p.contact, q.wrote = p.wrote,
         q.eofSent = p.eofSent, q.sentNum = p.sentNum,
         q.receiptNum = p.receiptNum \/ Place(q.receiptNum) <= LastSent(p)
  PROVE  Later(p, q) /\ PeerFits(q, max)
<1>1. p.wrote \in Nat /\ q.wrote \in Nat
  BY PeerFields
<1> QED
  BY <1>1 DEF Later, PeerFits, LastSent, Final

LEMMA LaterLater ==
  ASSUME NEW p, NEW q, NEW r, PeerOK(p), PeerOK(q), PeerOK(r), Later(p, q), Later(q, r)
  PROVE  Later(p, r)
<1>1. p.wrote \in Nat /\ q.wrote \in Nat /\ r.wrote \in Nat
  BY PeerFields
<1> QED
  BY <1>1 DEF Later

\* A connection of the peer ends
LEMMA ClosedLater ==
  ASSUME NEW p, PeerOK(p), NEW max, PeerFits(p, max)
  PROVE  /\ PeerOK(PeerClosed(p)) /\ Later(p, PeerClosed(p)) /\ PeerFits(PeerClosed(p), max)
         /\ PeerClosed(p).state = "CLOSED"
<1>1. PeerOK(PeerClosed(p)) /\ p.wrote \in Nat
  BY PeerClosedOK, PeerFields
<1>2. /\ PeerClosed(p).state = "CLOSED" /\ PeerClosed(p).remote = p.remote
      /\ PeerClosed(p).contact = p.contact /\ PeerClosed(p).wrote = p.wrote
  BY DEF PeerClosed, PeerOK
<1> QED
  BY <1>1, <1>2 DEF Later, PeerFits, Final

\* One connection of the peer moves
LEMMA OneMoves ==
  ASSUME NEW v, NEW max, Facing(v, max), NEW i \in DOMAIN peers, NEW r, PeerOK(r), Later(peers[i], r),
         PeerFits(r, max), NEW qs, qs = [peers EXCEPT ![i] = r], NEW out \in Seq(Heard(qs))
  PROVE  Goes(v, qs, toCore \o out, max)
<1>1. PeersOK(peers) /\ PeersOK(qs) /\ DOMAIN qs = DOMAIN peers
  BY PeersExcept DEF Facing, Peering
<1>2. \A j \in DOMAIN peers : PeerOK(peers[j]) /\ peers[j].wrote \in Nat /\ PeerFits(peers[j], max)
  BY PeerFields DEF Facing, Peering, PeersOK
<1>3. \A j \in DOMAIN peers : qs[j] = IF j = i THEN r ELSE peers[j]
  OBVIOUS
<1>4. Grows(peers, qs)
  BY <1>1, <1>2, <1>3 DEF Grows, Later
<1>5. \A j \in DOMAIN qs : PeerFits(qs[j], max)
  BY <1>1, <1>2, <1>3
<1>6. toCore \o out \in Seq(Heard(qs))
  <2>1. toCore \in Seq(Heard(peers)) /\ Heard(peers) \subseteq Heard(qs)
    BY <1>1, <1>4, HeardGrows DEF Facing, Peering
  <2>2. toCore \in Seq(Heard(qs))
    BY <2>1, SeqsGrow
  <2> QED
    BY <2>2, ConcatProperties
<1>7. Named(qs, v)
  <2>1. \A j \in DOMAIN peers :
          peers[j].remote < v.top /\ (peers[j].remote \in v.mine => peers[j].contact = <<v.ses>>)
    BY DEF Facing, ViewOK
  <2>2. \A j \in DOMAIN peers : qs[j].remote = peers[j].remote /\ qs[j].contact = peers[j].contact
    BY <1>4 DEF Grows, Later
  <2> QED
    BY <1>1, <2>1, <2>2 DEF Named
<1> QED
  BY <1>1, <1>4, <1>5, <1>6, <1>7 DEF Goes, Peering, Facing

LEMMA PeerStepGoes ==
  ASSUME NEW v, NEW max, Facing(v, max), NEW i \in DOMAIN peers, NEW p, PeerOK(p), Later(peers[i], p),
         PeerFits(p, max), NEW out \in Seq(Heard([peers EXCEPT ![i] = p])), PeerStep(i, p, out)
  PROVE  Goes(v, peers', toCore', max)
<1>1. CASE PeerDone(p) /\ p.state = "OPEN"
  <2> DEFINE r == PeerClosed(p)
             cls == PeerPacket(i, p, "CLS", 0, <<>>)
             qs == [peers EXCEPT ![i] = r]
  <2>1. peers' = qs /\ toCore' = Append(toCore, cls)
    BY <1>1 DEF PeerStep
  <2>2. PeersOK(peers) /\ PeerOK(peers[i]) /\ i \in Nat
    BY PeersDomain DEF Facing, Peering, PeersOK
  <2>3. PeerOK(r) /\ Later(peers[i], r) /\ PeerFits(r, max)
    BY <2>2, ClosedLater, LaterLater
  <2>4. cls \in Packets /\ cls.op = "CLS"
    BY <2>2, PeerSizes, EmptyType, PeerPacketType DEF Ops, PeerPacket, Packet
  <2> HIDE DEF r, cls
  <2>5. <<cls>> \in Seq(Heard(qs))
    BY <2>4, OtherHeard, ShortSeqs
  <2>6. toCore \o <<cls>> = Append(toCore, cls)
    <3>1. toCore \in Seq(Heard(peers)) /\ cls \in Heard(peers)
      BY <2>4, OtherHeard DEF Facing, Peering
    <3> QED
      BY <3>1, AppendIsConcat
  <2> HIDE DEF qs
  <2>7. qs = [peers EXCEPT ![i] = r]
    BY DEF qs
  <2>8. Goes(v, qs, toCore \o <<cls>>, max)
    BY <2>3, <2>5, <2>7, OneMoves
  <2> QED
    BY <2>1, <2>6, <2>8
<1>2. CASE ~(PeerDone(p) /\ p.state = "OPEN")
  <2> DEFINE qs == [peers EXCEPT ![i] = p]
  <2>1. peers' = qs /\ toCore' = toCore \o out
    BY <1>2 DEF PeerStep
  <2>2. out \in Seq(Heard(qs))
    OBVIOUS
  <2> HIDE DEF qs
  <2>3. qs = [peers EXCEPT ![i] = p]
    BY DEF qs
  <2> QED
    BY <2>1, <2>2, <2>3, OneMoves
<1> QED
  BY <1>1, <1>2

\* The peer sends what is no part of a stream, or nothing
LEMMA PeerAnswersGoes ==
  ASSUME NEW v, NEW max, Facing(v, max), peers' = peers,
         \/ toCore' = toCore
         \/ \E m \in Packets : m.op \notin {"OPN", "DAT", "EOF"} /\ toCore' = Append(toCore, m)
  PROVE  Goes(v, peers', toCore', max)
<1>1. toCore \in Seq(Heard(peers)) /\ PeersOK(peers) /\ \A i \in DOMAIN peers : PeerFits(peers[i], max)
  BY DEF Facing, Peering
<1>2. toCore' \in Seq(Heard(peers))
  BY <1>1, OtherHeard, AppendProperties
<1>3. \A i \in DOMAIN peers : peers[i].wrote \in Nat
  BY <1>1, PeerFields DEF PeersOK
<1>4. Grows(peers, peers)
  BY <1>3 DEF Grows, Later
<1> QED
  BY <1>1, <1>2, <1>4 DEF Goes, Peering, Facing, Named, ViewOK
\* A controlled packet of the peer
LEMMA ControlledHeard ==
  ASSUME NEW ps, PeersOK(ps), NEW i \in DOMAIN ps, NEW n \in Num, Place(n) <= LastSent(ps[i])
  PROVE  PeerControlled(i, ps[i], n) \in Heard(ps)
<1> DEFINE p == ps[i]
           d == Place(n)
           m == PeerControlled(i, p, n)
<1>1. i \in Nat /\ PeerOK(p)
  BY PeersDomain DEF PeersOK
<1>2. d \in Nat /\ p.wrote \in Nat /\ m \in Packets
  BY <1>1, PlaceType, PeerFields, PeerControlledType
<1>3. CASE d = 0
  <2>1. m = PeerPacket(i, p, "OPN", n, <<p.receivedNum, PeerWindow>>)
    BY <1>3 DEF PeerControlled, Place
  <2>2. n = PeerFirst
    <3>1. PeerFirst \in Num
      BY PeerSizes
    <3>2. SeqDiff(n, PeerFirst) = IF n >= PeerFirst THEN n - PeerFirst ELSE (n - PeerFirst) + PktSpace
      BY <3>1, DiffIs
    <3>3. SeqDiff(n, PeerFirst) = 0
      BY <1>3 DEF Place
    <3> QED
      BY <3>1, <3>2, <3>3, Sizes DEF Num
  <2>3. m.op = "OPN" /\ m.src = i /\ m.num = n /\ m.dest = p.remote
    BY <2>1 DEF PeerPacket, Packet
  <2> QED
    BY <1>2, <2>2, <2>3 DEF Heard, FromPeer
<1>4. CASE d # 0 /\ d <= p.wrote
  <2>1. m = PeerPacket(i, p, "DAT", n, PeerBytes(i, d))
    BY <1>4 DEF PeerControlled, Place
  <2>2. m.op = "DAT" /\ m.src = i /\ m.num = n /\ m.data = PeerBytes(i, d)
    BY <2>1 DEF PeerPacket, Packet
  <2> HIDE DEF d, m
  <2>3. d - 1 \in Nat /\ d \in 1..p.wrote /\ PacketBytes \in Nat
    BY <1>2, <1>4, PeerSizes
  <2>4. At(d) = At(d - 1) + PacketBytes /\ At(d - 1) \in Nat
    <3>1. At((d - 1) + 1) = At(d - 1) + PacketBytes /\ At(d - 1) \in Nat
      BY <2>3, AtIs
    <3>2. (d - 1) + 1 = d
      BY <2>3
    <3> QED
      BY <3>1, <3>2
  <2>5. Holding(PeerBytes(i, d), i, At(d - 1), At(d))
    <3>1. PeerBytes(i, d) = [j \in 1..PacketBytes |-> PeerByte(i, At(d - 1) + j)]
      BY DEF PeerBytes, At
    <3>2. At(d) - At(d - 1) = PacketBytes
      BY <2>3, <2>4
    <3>3. Len(PeerBytes(i, d)) = PacketBytes
      BY <2>3, <3>1
    <3> QED
      BY <3>1, <3>2, <3>3 DEF Holding
  <2>6. Place(m.num) = d
    BY <2>2 DEF d
  <2> QED
    BY <1>2, <2>2, <2>3, <2>5, <2>6 DEF Heard, FromPeer, m
<1>5. CASE ~(d <= p.wrote)
  <2>1. m = PeerPacket(i, p, "EOF", n, <<>>)
    BY <1>2, <1>5 DEF PeerControlled, Place
  <2>2. m.op = "EOF" /\ m.src = i /\ m.num = n
    BY <2>1 DEF PeerPacket, Packet
  <2>3. d = p.wrote + 1 /\ p.eofSent
    BY <1>2, <1>5 DEF LastSent
  <2> QED
    BY <1>2, <2>2, <2>3 DEF Heard, FromPeer, Final
<1> QED
  BY <1>3, <1>4, <1>5

\* The peer takes an acknowledgement
LEMMA AckedFits ==
  ASSUME NEW p, NEW max, PeerOK(p), PeerFits(p, max), NEW ack \in Num, NEW receipt \in Num,
         Place(receipt) <= LastSent(p)
  PROVE  LET q == PeerAcked(p, ack, receipt)
         IN PeerOK(q) /\ Later(p, q) /\ PeerFits(q, max) /\ q.state = p.state
<1> DEFINE q == PeerAcked(p, ack, receipt)
<1>1. PeerOK(q)
  BY PeerAckedOK
<1>2. /\ q.state = p.state /\ q.remote = p.remote /\ q.contact = p.contact /\ q.wrote = p.wrote
      /\ q.eofSent = p.eofSent /\ q.sentNum = p.sentNum /\ q.receiptNum \in {p.receiptNum, receipt}
  BY DEF PeerAcked, PeerOK
<1> HIDE DEF q
<1>3. Later(p, q) /\ PeerFits(q, max)
  BY <1>1, <1>2, SameFits
<1> QED
  BY <1>1, <1>2, <1>3 DEF q

\* The peer queues a packet
LEMMA QueuedFits ==
  ASSUME NEW p, NEW max, PeerOK(p), PeerFits(p, max), NEW m
  PROVE  LET q == PeerQueued(p, m)
         IN PeerOK(q) /\ Later(p, q) /\ PeerFits(q, max) /\ q.state = p.state
<1> DEFINE q == PeerQueued(p, m)
<1>1. PeerOK(q)
  BY PeerQueuedOK
<1>2. /\ q.state = p.state /\ q.remote = p.remote /\ q.contact = p.contact /\ q.wrote = p.wrote
      /\ q.eofSent = p.eofSent /\ q.sentNum = p.sentNum /\ q.receiptNum = p.receiptNum
  BY DEF PeerQueued, PeerOK
<1> HIDE DEF q
<1>3. Later(p, q) /\ PeerFits(q, max)
  BY <1>1, <1>2, SameFits
<1> QED
  BY <1>1, <1>2, <1>3 DEF q

\* The state of a connection
LEMMA StsHeard ==
  ASSUME NEW i \in Nat, NEW p, PeerOK(p), NEW ps
  PROVE  <<PeerSts(i, p)>> \in Seq(Heard(ps)) /\ <<>> \in Seq(Heard(ps))
<1>1. PeerSts(i, p) \in Packets /\ PeerSts(i, p).op = "STS"
  BY PeerStsType DEF PeerSts, PeerPacket, Packet
<1> QED
  BY <1>1, OtherHeard, ShortSeqs

\* A packet for an open connection of the peer
LEMMA PeerConnectedGoes ==
  ASSUME NEW v, NEW max, Facing(v, max), NEW m \in Sent(v), NEW i \in DOMAIN peers, m.dest = i,
         peers[i].state = "OPEN", PeerConnected(i, m)
  PROVE  Goes(v, peers', toCore', max)
<1> DEFINE p == peers[i]
           acked == PeerAcked(p, m.ack, m.ack)
<1>1. PeerOK(p) /\ PeerFits(p, max) /\ i \in Nat
  BY PeersDomain DEF Facing, Peering, PeersOK
<1>2. m \in Packets /\ ForPeer(m, v) /\ m.ack \in Num /\ v.ps = peers
  BY DEF Sent, Packets, Facing
<1>3. Reach(p) = LastSent(p)
  BY DEF Reach, LastSent, Final
<1>4. ASSUME m.op \in {"DAT", "EOF", "STS", "SNS"}
      PROVE  PeerOK(acked) /\ Later(p, acked) /\ PeerFits(acked, max)
  <2>1. Place(m.ack) <= LastSent(p)
    BY <1>2, <1>3, <1>4 DEF ForPeer
  <2> QED
    BY <1>1, <1>2, <2>1, AckedFits
<1>5. CASE m.op \in {"DAT", "EOF"}
  <2> DEFINE q == PeerQueued(acked, m)
             out == IF m.num = q.receivedNum THEN <<>> ELSE <<PeerSts(i, q)>>
  <2>1. PeerStep(i, q, out)
    BY <1>5 DEF PeerConnected
  <2>2. PeerOK(acked) /\ Later(p, acked) /\ PeerFits(acked, max)
    BY <1>4, <1>5
  <2> HIDE DEF acked
  <2>3. PeerOK(q) /\ Later(p, q) /\ PeerFits(q, max)
    BY <1>1, <2>2, QueuedFits, LaterLater
  <2> HIDE DEF q
  <2>4. out \in Seq(Heard([peers EXCEPT ![i] = q]))
    BY <1>1, <2>3, StsHeard
  <2> QED
    BY <2>1, <2>3, <2>4, PeerStepGoes
<1>6. CASE m.op = "STS"
  <2> DEFINE q == PeerAcked(p, m.ack, m.data[1])
  <2>1. PeerStep(i, q, <<>>)
    BY <1>6 DEF PeerConnected
  <2>2. Place(m.data[1]) <= LastSent(p) /\ m.data[1] \in Num
    BY <1>2, <1>3, <1>6 DEF ForPeer, Packets
  <2>3. PeerOK(q) /\ Later(p, q) /\ PeerFits(q, max)
    BY <1>1, <1>2, <2>2, AckedFits
  <2> HIDE DEF q
  <2>4. <<>> \in Seq(Heard([peers EXCEPT ![i] = q]))
    BY ShortSeqs
  <2> QED
    BY <2>1, <2>3, <2>4, PeerStepGoes
<1>7. CASE m.op = "SNS"
  <2>1. PeerStep(i, acked, <<PeerSts(i, acked)>>)
    BY <1>7 DEF PeerConnected
  <2>2. PeerOK(acked) /\ Later(p, acked) /\ PeerFits(acked, max)
    BY <1>4, <1>7
  <2> HIDE DEF acked
  <2>3. <<PeerSts(i, acked)>> \in Seq(Heard([peers EXCEPT ![i] = acked]))
    BY <1>1, <2>2, StsHeard
  <2> QED
    BY <2>1, <2>2, <2>3, PeerStepGoes
<1>8. CASE m.op \notin {"DAT", "EOF", "STS", "SNS"}
  <2> DEFINE q == PeerClosed(p)
  <2>1. PeerStep(i, q, <<>>)
    BY <1>8 DEF PeerConnected
  <2>2. PeerOK(q) /\ Later(p, q) /\ PeerFits(q, max)
    BY <1>1, ClosedLater
  <2> HIDE DEF q
  <2>3. <<>> \in Seq(Heard([peers EXCEPT ![i] = q]))
    BY ShortSeqs
  <2> QED
    BY <2>1, <2>2, <2>3, PeerStepGoes
<1> QED
  BY <1>5, <1>6, <1>7, <1>8

\* A new connection of the peer
LEMMA NewPeerFits ==
  ASSUME NEW m \in Packets, NEW max \in Nat
  PROVE  LET p == Peer(m)
         IN /\ PeerOK(p) /\ PeerFits(p, max) /\ p.remote = m.src /\ p.contact = m.data
            /\ LastSent(p) = 0 /\ p.wrote = 0
<1> DEFINE p == Peer(m)
<1>1. PeerOK(p)
  BY NewPeerOK
<1>2. /\ p.remote = m.src /\ p.contact = m.data /\ p.wrote = 0 /\ p.eofSent = FALSE /\ p.sentNum = PeerFirst
      /\ p.receiptNum = (PeerFirst - 1) % PktSpace
  BY DEF Peer
<1> HIDE DEF p
<1>3. Place(PeerFirst) = 0
  BY PeerSizes, DiffType DEF Place
<1>4. LastSent(p) = 0
  BY <1>2 DEF LastSent
<1> QED
  BY <1>1, <1>2, <1>3, <1>4 DEF PeerFits, p

LEMMA PeerRfcGoes ==
  ASSUME NEW v, NEW max, Facing(v, max), NEW m \in Sent(v), m.op = "RFC", PeerRfc(m)
  PROVE  Goes(v, peers', toCore', max)
<1>1. m \in Packets /\ ForPeer(m, v) /\ v.ps = peers /\ max \in Nat /\ PeersOK(peers)
  BY DEF Sent, Facing, Peering
<1>2. CASE UNCHANGED <<peers, toCore>>
  BY <1>2, PeerAnswersGoes
<1>3. CASE \E op \in {"CLS", "ANS"} : PeerAnswers(Packet(op, m.src, 0, 0, m.num, <<>>))
  <2>1. PICK op \in {"CLS", "ANS"} : PeerAnswers(Packet(op, m.src, 0, 0, m.num, <<>>))
    BY <1>3
  <2> DEFINE r == Packet(op, m.src, 0, 0, m.num, <<>>)
  <2>2. r \in Packets
    <3>1. m.src \in Nat /\ m.num \in Num /\ op \in Ops /\ op \notin {"OPN", "STS"}
      BY <1>1 DEF Packets, Ops
    <3> QED
      BY <3>1, PeerSizes, EmptyType, PacketType
  <2>3. r.op \notin {"OPN", "DAT", "EOF"}
    BY DEF Packet
  <2>4. peers' = peers /\ toCore' = Append(toCore, r)
    BY <2>1 DEF PeerAnswers
  <2> HIDE DEF r
  <2> QED
    BY <2>2, <2>3, <2>4, PeerAnswersGoes
<1>4. CASE /\ peers' = Append(peers, Peer(m))
           /\ toCore' = Append(toCore, PeerControlled(Len(peers) + 1, Peer(m), PeerFirst))
  <2> DEFINE p == Peer(m)
             qs == Append(peers, p)
             l == Len(peers) + 1
             out == PeerControlled(l, p, PeerFirst)
  <2>1. PeerOK(p) /\ PeerFits(p, max) /\ p.remote = m.src /\ p.contact = m.data /\ LastSent(p) = 0
    BY <1>1, NewPeerFits
  <2>2. peers' = qs /\ toCore' = Append(toCore, out)
    BY <1>4
  <2> HIDE DEF p
  <2>3. PeersOK(qs)
    BY <1>1, <2>1, PeersAppend
  <2>4. Len(peers) \in Nat /\ DOMAIN peers = 1..Len(peers) /\ \E S : peers \in Seq(S)
    BY <1>1, PeersDomain DEF PeersOK
  <2>5. DOMAIN qs = 1..l /\ qs[l] = p /\ \A j \in DOMAIN peers : qs[j] = peers[j]
    <3>1. PICK S : peers \in Seq(S)
      BY <2>4
    <3> DEFINE T == S \cup {p}
    <3>2. peers \in Seq(T) /\ p \in T
      BY <3>1, SeqsGrow
    <3> HIDE DEF T
    <3>3. /\ qs \in Seq(T) /\ Len(qs) = Len(peers) + 1 /\ qs[Len(peers) + 1] = p
          /\ \A j \in 1..Len(peers) : qs[j] = peers[j]
      BY <3>2, AppendProperties
    <3>4. DOMAIN qs = 1..Len(qs)
      BY <3>3, LenProperties
    <3> QED
      BY <2>4, <3>3, <3>4
  <2> HIDE DEF qs, l
  <2>6. l \in Nat /\ l \notin DOMAIN peers /\ \A j \in DOMAIN qs : j # l => j \in DOMAIN peers
    BY <2>4, <2>5 DEF l
  <2>7. \A j \in DOMAIN peers : PeerOK(peers[j]) /\ peers[j].wrote \in Nat /\ PeerFits(peers[j], max)
    BY PeerFields DEF Facing, Peering, PeersOK
  <2>8. Grows(peers, qs)
    BY <2>4, <2>5, <2>7 DEF Grows, Later, l
  <2>9. \A j \in DOMAIN qs : PeerFits(qs[j], max)
    BY <2>1, <2>5, <2>6, <2>7
  <2>10. out \in Heard(qs)
    <3>1. l \in DOMAIN qs /\ PeerFirst \in Num /\ Place(PeerFirst) = 0
      BY <2>5, <2>6, PeerSizes, DiffType DEF Place, l
    <3>2. Place(PeerFirst) <= LastSent(qs[l])
      BY <2>1, <2>5, <3>1
    <3>3. PeerControlled(l, qs[l], PeerFirst) \in Heard(qs)
      BY <2>3, <3>1, <3>2, ControlledHeard
    <3> QED
      BY <2>5, <3>3
  <2> HIDE DEF out
  <2>11. Append(toCore, out) \in Seq(Heard(qs))
    <3>1. toCore \in Seq(Heard(peers)) /\ Heard(peers) \subseteq Heard(qs)
      BY <1>1, <2>3, <2>8, HeardGrows DEF Facing, Peering
    <3>2. toCore \in Seq(Heard(qs))
      BY <3>1, SeqsGrow
    <3> QED
      BY <2>10, <3>2, AppendProperties
  <2>12. Named(qs, v)
    <3>1. \A j \in DOMAIN peers :
            peers[j].remote < v.top /\ (peers[j].remote \in v.mine => peers[j].contact = <<v.ses>>)
      BY <1>1 DEF Facing, ViewOK
    <3>2. p.remote < v.top /\ (p.remote \in v.mine => p.contact = <<v.ses>>)
      BY <1>1, <2>1 DEF ForPeer
    <3> QED
      BY <2>5, <2>6, <3>1, <3>2 DEF Named
  <2> QED
    BY <1>1, <2>2, <2>3, <2>8, <2>9, <2>11, <2>12 DEF Goes, Peering
<1> QED
  BY <1>2, <1>3, <1>4 DEF PeerRfc
\* The peer's host takes a packet
LEMMA PeerHandlesGoes ==
  ASSUME NEW v, NEW max, Facing(v, max), NEW m \in Sent(v), PeerHandles(m)
  PROVE  Goes(v, peers', toCore', max)
<1>1. m \in Packets
  BY DEF Sent
<1>2. CASE UNCHANGED <<peers, toCore>>
  BY <1>2, PeerAnswersGoes
<1>3. CASE PeerAnswers(ArpPacket("ARPREP"))
  <2>1. ArpPacket("ARPREP") \in Packets /\ ArpPacket("ARPREP").op = "ARPREP"
    BY ArpType DEF ArpPacket, Packet
  <2>2. peers' = peers /\ toCore' = Append(toCore, ArpPacket("ARPREP"))
    BY <1>3 DEF PeerAnswers
  <2> QED
    BY <2>1, <2>2, PeerAnswersGoes
<1>4. CASE m.op = "RFC" /\ PeerRfc(m)
  BY <1>4, PeerRfcGoes
<1>5. CASE m.dest \in DOMAIN peers /\ peers[m.dest].state = "OPEN" /\ PeerConnected(m.dest, m)
  BY <1>5, PeerConnectedGoes
<1>6. CASE PeerAnswers(Packet("LOS", m.src, m.dest, 0, 0, <<>>))
  <2> DEFINE r == Packet("LOS", m.src, m.dest, 0, 0, <<>>)
  <2>1. r \in Packets
    <3>1. m.src \in Nat /\ m.dest \in Nat
      BY <1>1 DEF Packets
    <3> QED
      BY <3>1, PeerSizes, EmptyType, PacketType DEF Ops
  <2>2. r.op \notin {"OPN", "DAT", "EOF"}
    BY DEF Packet
  <2>3. peers' = peers /\ toCore' = Append(toCore, r)
    BY <1>6 DEF PeerAnswers
  <2> HIDE DEF r
  <2> QED
    BY <2>1, <2>2, <2>3, PeerAnswersGoes
<1> QED
  BY <1>2, <1>3, <1>4, <1>5, <1>6 DEF PeerHandles, PeerUnconnected

\* The peer's user reads
LEMMA PeerReadGoes ==
  ASSUME NEW v, NEW max, Facing(v, max), NEW i \in DOMAIN peers, PeerRead(i)
  PROVE  Goes(v, peers', toCore', max)
<1> DEFINE p == peers[i]
           n == SeqInc(p.readNum)
           read == CHOOSE x \in p.rcvq : x.num = n
           q == [p EXCEPT !.readNum = n, !.rcvq = @ \ {read}, !.got = @ \o read.data,
                          !.eofRead = read.op = "EOF"]
<1>1. PeerOK(p) /\ PeerFits(p, max) /\ i \in Nat
  BY PeersDomain DEF Facing, Peering, PeersOK
<1>2. PeerStep(i, q, <<PeerSts(i, q)>>)
  BY DEF PeerRead
<1>3. n \in Num
  BY <1>1, PeerFields, IncIs
<1> HIDE DEF n, read
<1>4. PeerOK(q)
  <2> HIDE DEF p
  <2> QED
    BY <1>1, <1>3 DEF PeerOK
<1>5. /\ q.state = p.state /\ q.remote = p.remote /\ q.contact = p.contact /\ q.wrote = p.wrote
      /\ q.eofSent = p.eofSent /\ q.sentNum = p.sentNum /\ q.receiptNum = p.receiptNum
  <2> HIDE DEF p
  <2> QED
    BY <1>1 DEF PeerOK
<1> HIDE DEF q
<1>6. Later(p, q) /\ PeerFits(q, max)
  BY <1>1, <1>4, <1>5, SameFits
<1>7. <<PeerSts(i, q)>> \in Seq(Heard([peers EXCEPT ![i] = q]))
  BY <1>1, <1>4, StsHeard
<1> QED
  BY <1>2, <1>4, <1>6, <1>7, PeerStepGoes

\* The peer's user writes, or finishes
LEMMA PeerSendsGoes ==
  ASSUME NEW v, NEW max, max = scope.packets, Facing(v, max), NEW i \in DOMAIN peers, PeerWrite(i) \/ PeerFinish(i)
  PROVE  Goes(v, peers', toCore', max)
<1> DEFINE p == peers[i]
           n == SeqInc(p.sentNum)
           w == [p EXCEPT !.wrote = @ + 1, !.sentNum = SeqInc(@)]
           f == [p EXCEPT !.eofSent = TRUE, !.sentNum = SeqInc(@)]
<1>1. PeerOK(p) /\ PeerFits(p, max) /\ i \in Nat /\ PeersOK(peers) /\ max \in Nat /\ max + LocalWindow + 1 < PktSpace
  BY PeersDomain DEF Facing, Peering, PeersOK
<1>2. /\ p.state = "OPEN" /\ ~p.eofSent
      /\ \/ PeerStep(i, w, <<PeerControlled(i, w, w.sentNum)>>) /\ p.wrote < max
         \/ PeerStep(i, f, <<PeerControlled(i, f, f.sentNum)>>)
  BY DEF PeerWrite, PeerFinish, PeerOpen, CanWrite
<1>3. n \in Num /\ p.wrote \in Nat /\ p.wrote + 1 \in Nat /\ p.sentNum \in Num
  BY <1>1, PeerFields, IncIs
<1>4. Place(n) = p.wrote + 1
  <2>1. Place(p.sentNum) = p.wrote /\ p.wrote <= max
    BY <1>1, <1>2 DEF PeerFits, LastSent
  <2>2. SeqDiff(p.sentNum, PeerFirst) < PktSpace - 1
    BY <1>1, <1>3, <2>1, Sizes DEF Place
  <2>3. SeqDiff(n, PeerFirst) = SeqDiff(p.sentNum, PeerFirst) + 1
    BY <1>3, <2>2, PeerSizes, DiffInc
  <2> QED
    BY <2>1, <2>3 DEF Place
<1>5. w = [p EXCEPT !.wrote = @ + 1, !.sentNum = n] /\ f = [p EXCEPT !.eofSent = TRUE, !.sentNum = n]
  OBVIOUS
<1>6. p.receiptNum = (PeerFirst - 1) % PktSpace \/ (Place(p.receiptNum) <= p.wrote /\ Place(p.receiptNum) \in Nat)
  BY <1>1, <1>2, PeerFields, PlaceType DEF PeerFits, LastSent
<1>7. \A q \in {w, f} : PeerOK(q) /\ q.state = "OPEN" /\ q.sentNum = n /\ q.remote = p.remote /\ q.contact = p.contact
                        /\ q.receiptNum = p.receiptNum
  <2> HIDE DEF p, n, w, f
  <2> QED
    BY <1>1, <1>2, <1>3, <1>5 DEF PeerOK
<1>8. w.wrote = p.wrote + 1 /\ ~w.eofSent /\ f.wrote = p.wrote /\ f.eofSent
  <2> HIDE DEF p, n, w, f
  <2> QED
    BY <1>1, <1>2, <1>3, <1>5 DEF PeerOK
<1> HIDE DEF n, w, f
<1>9. LastSent(w) = p.wrote + 1 /\ LastSent(f) = p.wrote + 1
  BY <1>8 DEF LastSent
<1>10. ASSUME NEW q \in {w, f}, q = w => p.wrote < max, PeerStep(i, q, <<PeerControlled(i, q, q.sentNum)>>)
       PROVE  Goes(v, peers', toCore', max)
  <2>1. PeerOK(q) /\ q.sentNum = n
    BY <1>7
  <2>2. p.wrote <= max
    BY <1>1 DEF PeerFits
  <2>3. PeerFits(q, max)
    <3>1. q.wrote <= max
      BY <1>1, <1>3, <1>8, <1>10, <2>2
    <3>2. Place(n) = LastSent(q)
      BY <1>4, <1>9
    <3>3. q.receiptNum = (PeerFirst - 1) % PktSpace \/ Place(q.receiptNum) <= LastSent(q)
      BY <1>3, <1>6, <1>7, <1>9
    <3> QED
      BY <2>1, <3>1, <3>2, <3>3 DEF PeerFits
  <2>4. Later(p, q)
    <3>1. ~Final(p)
      BY <1>2 DEF Final
    <3> QED
      BY <1>3, <1>7, <1>8, <3>1 DEF Later
  <2> DEFINE qs == [peers EXCEPT ![i] = q]
  <2>5. PeersOK(qs) /\ qs[i] = q /\ i \in DOMAIN qs
    BY <1>1, <2>1, PeersExcept
  <2> HIDE DEF qs
  <2>6. Place(n) <= LastSent(qs[i])
    BY <1>3, <1>4, <1>9, <2>5
  <2>7. PeerControlled(i, qs[i], n) \in Heard(qs)
    BY <1>3, <2>5, <2>6, ControlledHeard
  <2>8. <<PeerControlled(i, q, q.sentNum)>> \in Seq(Heard([peers EXCEPT ![i] = q]))
    BY <2>1, <2>5, <2>7, ShortSeqs DEF qs
  <2> QED
    BY <1>10, <2>1, <2>3, <2>4, <2>8, PeerStepGoes
<1> QED
  BY <1>2, <1>8, <1>10

\* What has no receipt was sent
LEMMA AgainSent ==
  ASSUME NEW p, NEW max \in Nat, max + LocalWindow + 1 < PktSpace, PeerOK(p), PeerFits(p, max), p.state = "OPEN",
         NEW j \in 1..SeqDiff(p.sentNum, p.receiptNum)
  PROVE  (p.receiptNum + j) % PktSpace \in Num /\ Place((p.receiptNum + j) % PktSpace) <= LastSent(p)
<1> DEFINE a == p.receiptNum
           s == p.sentNum
           n == (a + j) % PktSpace
<1>1. a \in Num /\ s \in Num /\ p.wrote \in Nat /\ PeerFirst \in Num
  BY PeerFields, PeerSizes
<1>2. SeqDiff(s, a) \in Nat /\ SeqDiff(s, a) < PktSpace
  BY <1>1, DiffType
<1>3. j \in 0..(PktSpace - 1) /\ j \in 0..PktSpace /\ j >= 1 /\ j <= SeqDiff(s, a)
  BY <1>2, Sizes
<1>4. n \in Num /\ SeqDiff(n, a) = j
  BY <1>1, <1>3, PlusIs, DiffOfAfter
<1>5. Place(s) = LastSent(p) /\ LastSent(p) \in Nat /\ LastSent(p) + 1 < PktSpace
  <2>1. Place(s) = LastSent(p) /\ p.wrote <= max /\ LastSent(p) \in {p.wrote, p.wrote + 1}
    BY DEF PeerFits, LastSent
  <2> HIDE DEF s
  <2> QED
    BY <1>1, <2>1, Sizes
<1> HIDE DEF n, a, s
<1>6. CASE a = (PeerFirst - 1) % PktSpace
  <2>1. SeqInc(a) = PeerFirst
    BY <1>1, <1>6, DecIs
  <2>2. SeqDiff(SeqInc(a), a) = SeqDiff(a, a) + 1 /\ SeqDiff(a, a) = 0
    <3>1. SeqDiff(a, a) = 0
      BY <1>1, DiffType
    <3>2. SeqDiff(a, a) < PktSpace - 1
      BY <3>1, Sizes
    <3> QED
      BY <1>1, <3>1, <3>2, DiffInc
  <2>3. SeqDiff(PeerFirst, a) = 1
    BY <2>1, <2>2
  <2>4. SeqDiff(n, a) = SeqDiff(PeerFirst, a) + SeqDiff(n, PeerFirst)
    <3>1. SeqDiff(PeerFirst, a) <= SeqDiff(n, a)
      BY <1>3, <1>4, <2>3
    <3> QED
      BY <1>1, <1>4, <3>1, DiffAdd
  <2>5. SeqDiff(s, a) = SeqDiff(PeerFirst, a) + SeqDiff(s, PeerFirst)
    <3>1. SeqDiff(PeerFirst, a) + SeqDiff(s, PeerFirst) < PktSpace
      BY <1>5, <2>3 DEF Place
    <3> QED
      BY <1>1, <3>1, DiffAdd
  <2>6. Place(n) \in Nat /\ Place(n) = SeqDiff(n, PeerFirst) /\ Place(s) = SeqDiff(s, PeerFirst)
    BY <1>4, PlaceType DEF Place
  <2> QED
    BY <1>2, <1>3, <1>4, <1>5, <2>3, <2>4, <2>5, <2>6 DEF n, a
<1>7. CASE Place(a) <= LastSent(p)
  <2>1. Place(a) = SeqDiff(a, PeerFirst) /\ Place(s) = SeqDiff(s, PeerFirst) /\ Place(a) \in Nat
    BY <1>1, PlaceType DEF Place
  <2>2. SeqDiff(s, PeerFirst) = SeqDiff(a, PeerFirst) + SeqDiff(s, a)
    <3>1. SeqDiff(a, PeerFirst) <= SeqDiff(s, PeerFirst)
      BY <1>5, <1>7, <2>1
    <3> QED
      BY <1>1, <3>1, DiffAdd
  <2>3. Place(a) + j <= LastSent(p)
    BY <1>2, <1>3, <1>5, <2>1, <2>2
  <2>4. Place(n) = Place(a) + j
    <3>1. Place(a) + SeqDiff(n, a) < PktSpace
      BY <1>3, <1>4, <1>5, <2>1, <2>3, Sizes
    <3> QED
      BY <1>1, <1>4, <3>1, PlaceAfter
  <2> QED
    BY <1>4, <2>3, <2>4 DEF n, a
<1> QED
  BY <1>6, <1>7 DEF PeerFits, a
\* The peer's timers
LEMMA PeerAgainHeard ==
  ASSUME NEW v, NEW max, Facing(v, max), NEW i \in DOMAIN peers, peers[i].state = "OPEN"
  PROVE  PeerAgain(i, peers[i]) \in Seq(Heard(peers))
<1> DEFINE p == peers[i]
           again == After(p.receiptNum, p.sentNum)
           N == SeqDiff(p.sentNum, p.receiptNum)
           sent == [j \in DOMAIN again |-> PeerControlled(i, p, again[j])]
           sns == PeerPacket(i, p, "SNS", 0, <<>>)
<1>1. PeerOK(p) /\ PeerFits(p, max) /\ i \in Nat /\ PeersOK(peers) /\ max \in Nat /\ max + LocalWindow + 1 < PktSpace
  BY PeersDomain DEF Facing, Peering, PeersOK
<1>2. N \in Nat
  BY <1>1, PeerFields, DiffType
<1>3. again = [j \in 1..N |-> (p.receiptNum + j) % PktSpace]
  BY DEF After
<1>4. ASSUME NEW j \in 1..N
      PROVE  PeerControlled(i, p, again[j]) \in Heard(peers)
  <2> HIDE DEF again
  <2>1. again[j] = (p.receiptNum + j) % PktSpace
    BY <1>3
  <2>2. again[j] \in Num /\ Place(again[j]) <= LastSent(p)
    BY <1>1, <2>1, AgainSent
  <2> QED
    BY <1>1, <2>2, ControlledHeard
<1>5. DOMAIN again = 1..N
  BY <1>3
<1> HIDE DEF again, N
<1>6. sent \in [1..N -> Heard(peers)]
  BY <1>4, <1>5
<1> HIDE DEF sent
<1>7. sent \in Seq(Heard(peers))
  BY <1>2, <1>6, IsASeq
<1>8. sns \in Heard(peers)
  <2>1. sns \in Packets
    BY <1>1, PeerSizes, EmptyType, PeerPacketType DEF Ops
  <2>2. sns.op = "SNS"
    BY DEF PeerPacket, Packet
  <2> HIDE DEF sns
  <2> QED
    BY <2>1, <2>2, OtherHeard
<1> HIDE DEF sns
<1>9. Append(sent, sns) \in Seq(Heard(peers))
  BY <1>7, <1>8, AppendProperties
<1>10. PeerAgain(i, p) = Append(sent, sns)
  BY DEF PeerAgain, again, sent, sns
<1> QED
  BY <1>9, <1>10

\* Connections stay as they are
LEMMA PeersStay ==
  ASSUME NEW v, NEW max, Facing(v, max), NEW q \in Seq(Heard(peers))
  PROVE  Goes(v, peers, q, max)
<1>1. PeersOK(peers) /\ \A i \in DOMAIN peers : PeerFits(peers[i], max)
  BY DEF Facing, Peering
<1>2. \A i \in DOMAIN peers : peers[i].wrote \in Nat
  BY <1>1, PeerFields DEF PeersOK
<1>3. Grows(peers, peers)
  BY <1>2 DEF Grows, Later
<1> QED
  BY <1>1, <1>3 DEF Goes, Peering, Facing, Named, ViewOK

LEMMA PeerTickGoes ==
  ASSUME NEW v, NEW max, Facing(v, max), PeerTick
  PROVE  Goes(v, peers', toCore', max)
<1> DEFINE seqs == [i \in DOMAIN peers |-> IF PeerOpen(i) THEN PeerAgain(i, peers[i]) ELSE <<>>]
<1>1. Len(peers) \in Nat /\ DOMAIN peers = 1..Len(peers)
  BY PeersDomain DEF Facing, Peering
<1>2. ASSUME NEW i \in DOMAIN peers
      PROVE  (IF PeerOpen(i) THEN PeerAgain(i, peers[i]) ELSE <<>>) \in Seq(Heard(peers))
  BY PeerAgainHeard, ShortSeqs DEF PeerOpen
<1>3. seqs \in [1..Len(peers) -> Seq(Heard(peers))]
  BY <1>1, <1>2
<1>4. toCore' = FlattenSeq(seqs) /\ peers' = peers
  BY DEF PeerTick
<1> HIDE DEF seqs
<1>5. seqs \in Seq(Seq(Heard(peers)))
  BY <1>1, <1>3, IsASeq
<1>6. FlattenSeq(seqs) \in Seq(Heard(peers))
  BY <1>5, FlattenType
<1> QED
  BY <1>4, <1>6, PeersStay

LEMMA PeerAsksGoes ==
  ASSUME NEW v, NEW max, Facing(v, max), scope \in Scopes, PeerAsks
  PROVE  Goes(v, peers', toCore', max)
<1>1. scope.peers + 1 \in Nat
  BY ScopesAssumption
<1>2. PICK contact \in {"STATUS", "TELNET"} :
        toCore' = <<Packet("RFC", 0, scope.peers + 1, PeerFirst, 0, <<contact>>)>>
  BY DEF PeerAsks
<1> DEFINE m == Packet("RFC", 0, scope.peers + 1, PeerFirst, 0, <<contact>>)
<1>3. <<contact>> \in Data
  BY ShortSeqs DEF Data, Datum
<1>4. m \in Packets
  BY <1>1, <1>3, PeerSizes, PacketType DEF Ops
<1>5. m.op = "RFC"
  BY DEF Packet
<1> HIDE DEF m
<1>6. <<m>> \in Seq(Heard(peers))
  BY <1>4, <1>5, OtherHeard, ShortSeqs
<1>7. peers' = peers
  BY DEF PeerAsks
<1> QED
  BY <1>2, <1>6, <1>7, PeersStay DEF m

LEMMA PeerDiesGoes ==
  ASSUME NEW v, NEW max, Facing(v, max), PeerDies
  PROVE  Goes(v, peers', toCore', max)
<1> DEFINE qs == [i \in DOMAIN peers |-> PeerClosed(peers[i])]
<1>1. peers' = qs /\ toCore' = toCore
  BY DEF PeerDies, netVars
<1>2. PeersOK(peers) /\ toCore \in Seq(Heard(peers)) /\ v.ps = peers
  BY DEF Facing, Peering
<1>3. ASSUME NEW i \in DOMAIN peers
      PROVE  PeerOK(qs[i]) /\ Later(peers[i], qs[i]) /\ PeerFits(qs[i], max)
  <2>1. PeerOK(peers[i]) /\ PeerFits(peers[i], max)
    BY DEF Facing, Peering, PeersOK
  <2> QED
    BY <2>1, ClosedLater
<1>4. DOMAIN qs = DOMAIN peers /\ DOMAIN peers = 1..Len(peers) /\ Len(peers) \in Nat
  BY <1>2, PeersDomain
<1>5. PeersOK(qs)
  <2> DEFINE S == {qs[i] : i \in DOMAIN peers}
  <2>1. qs \in [1..Len(peers) -> S]
    BY <1>4
  <2> HIDE DEF qs, S
  <2>2. qs \in Seq(S)
    BY <1>4, <2>1, IsASeq
  <2> QED
    BY <1>3, <1>4, <2>2 DEF PeersOK
<1> HIDE DEF qs
<1>6. Grows(peers, qs)
  BY <1>3, <1>4 DEF Grows
<1>7. toCore \in Seq(Heard(qs))
  <2>1. Heard(peers) \subseteq Heard(qs)
    BY <1>2, <1>5, <1>6, HeardGrows
  <2> QED
    BY <1>2, <2>1, SeqsGrow
<1>8. Named(qs, v)
  <2>1. \A j \in DOMAIN peers :
          peers[j].remote < v.top /\ (peers[j].remote \in v.mine => peers[j].contact = <<v.ses>>)
    BY <1>2 DEF Facing, ViewOK
  <2>2. \A j \in DOMAIN peers : qs[j].remote = peers[j].remote /\ qs[j].contact = peers[j].contact
    BY <1>6 DEF Grows, Later
  <2> QED
    BY <1>4, <2>1, <2>2 DEF Named
<1> QED
  BY <1>1, <1>2, <1>3, <1>4, <1>5, <1>6, <1>7, <1>8 DEF Goes, Peering

---------------------------------------------------------------------------
(* The view of chaosd as the peer goes on                                  *)
LEMMA GoesServes ==
  ASSUME NEW s, NEW v, Serving(s, v), NEW max \in Nat, max + LocalWindow + 1 < PktSpace, NEW qs, NEW q,
         Goes(v, qs, q, max)
  PROVE  \E w : w.ps = qs /\ Sent(v) \subseteq Sent(w) /\ Serving(s, w)
<1> DEFINE w == View(qs, v.mine, v.ses, v.top, v.n, v.low, v.who)
<1>1. /\ ViewOK(v) /\ Grows(v.ps, qs) /\ PeersOK(qs) /\ Named(qs, v) /\ (\A i \in DOMAIN qs : PeerFits(qs[i], max))
      /\ Inside(s.c, Kept(v), Sent(v))
  BY DEF Serving, Goes, Peering
<1>2. /\ w.ps = qs /\ w.mine = v.mine /\ w.ses = v.ses /\ w.top = v.top /\ w.n = v.n /\ w.low = v.low
      /\ w.who = v.who
  BY DEF View
<1> HIDE DEF w
<1>3. ViewOK(w)
  <2>1. \A i \in DOMAIN qs : qs[i].wrote + LocalWindow + 1 < PktSpace
    <3>1. ASSUME NEW i \in DOMAIN qs
          PROVE  qs[i].wrote \in Nat /\ qs[i].wrote <= max
      BY <1>1, PeerFields DEF PeersOK, PeerFits
    <3> QED
      BY <3>1, Sizes
  <2> QED
    BY <1>1, <1>2, <2>1 DEF ViewOK, Named
<1>4. w = View(qs, v.mine, v.ses, v.top, v.n, v.low, v.who)
  BY DEF w
<1>5. Sent(v) \subseteq Sent(w) /\ \A k \in Conns : Known(k, v) => Known(k, w)
  BY <1>1, <1>3, <1>4, GrowsOK
<1>6. Inside(s.c, Kept(w), Sent(w))
  <2>1. \A g \in Slots : s.c.conns[g] \in Conns
    BY <1>1, KeptIs DEF Inside
  <2> QED
    BY <1>1, <1>5, <2>1, InsideAs
<1>7. \A i \in DOMAIN v.ps : /\ i \in DOMAIN qs /\ qs[i].contact = v.ps[i].contact
                             /\ At(v.ps[i].wrote) <= At(qs[i].wrote) /\ At(v.ps[i].wrote) \in Nat /\ At(qs[i].wrote) \in Nat
  <2> SUFFICES ASSUME NEW i \in DOMAIN v.ps
               PROVE  /\ i \in DOMAIN qs /\ qs[i].contact = v.ps[i].contact
                      /\ At(v.ps[i].wrote) <= At(qs[i].wrote) /\ At(v.ps[i].wrote) \in Nat /\ At(qs[i].wrote) \in Nat
    OBVIOUS
  <2>1. i \in DOMAIN qs /\ Later(v.ps[i], qs[i])
    BY <1>1 DEF Grows
  <2>2. v.ps[i].wrote \in Nat /\ qs[i].wrote \in Nat
    BY <1>1, <2>1, ViewPeers, PeerFields DEF PeersOK
  <2> QED
    BY <2>1, <2>2, AtGrows DEF Later
<1>8. ASSUME Told(s.t.got, v)
      PROVE  Told(s.t.got, w)
  BY <1>2, <1>7, <1>8 DEF Told
<1>9. Gets(s, w)
  BY <1>2, <1>7, <1>8 DEF Serving, Gets
<1>10. Serving(s, w)
  BY <1>2, <1>3, <1>6, <1>9 DEF Serving
<1> QED
  BY <1>2, <1>5, <1>10

\* What has been received so far is marked
LEMMA MarkServes ==
  ASSUME NEW s, NEW v, Serving(s, v)
  PROVE  \E w : /\ w.ps = v.ps /\ Sent(v) = Sent(w) /\ Serving(s, w)
                /\ s.k.state = "STREAM" =>
                     w.low = Place(s.c.conns[s.k.conn].receivedNum) /\ w.who = {s.c.conns[s.k.conn].remoteIndex}
<1>1. CASE s.k.state # "STREAM"
  BY <1>1
<1>2. CASE s.k.state = "STREAM"
  <2> DEFINE k == s.c.conns[s.k.conn]
             l == Place(k.receivedNum)
             w == View(v.ps, v.mine, v.ses, v.top, v.n, l, v.who)
  <2>1. /\ ViewOK(v) /\ Inside(s.c, Kept(v), Sent(v)) /\ s.k.conn \in Slots /\ k \in Conns
        /\ \A g \in Slots : s.c.conns[g].state # "FREE" <=> s.k.conn = g
    BY <1>2, ServingParts DEF Serving, Sound
  <2>2. k.remoteIndex # 0 /\ v.who = {k.remoteIndex}
    BY <1>2, StreamParts
  <2>3. l \in Nat /\ 0 \notin v.who
    BY <2>1, <2>2, PlaceType DEF Conns
  <2>4. w = View(v.ps, v.mine, v.ses, v.top, v.n, l, v.who)
    OBVIOUS
  <2>5. \A g \in Slots : s.c.conns[g].state # "FREE" => Place(s.c.conns[g].receivedNum) = l
    BY <2>1
  <2> HIDE DEF w, l
  <2>6. /\ w.ps = v.ps /\ w.mine = v.mine /\ w.ses = v.ses /\ w.top = v.top /\ w.n = v.n /\ w.low = l
        /\ w.who = v.who /\ ViewOK(w) /\ Sent(w) = Sent(v)
        /\ \A j : Known(j, v) /\ Place(j.receivedNum) >= l => Known(j, w)
    BY <2>1, <2>3, <2>4, MarkedOK
  <2>7. Inside(s.c, Kept(w), Sent(w))
    BY <2>1, <2>3, <2>5, <2>6, InsideAs
  <2>8. Gets(s, w)
    BY <1>2, <2>6 DEF Serving, Gets
  <2>9. Serving(s, w)
    BY <2>6, <2>7, <2>8 DEF Serving
  <2> QED
    BY <2>2, <2>6, <2>9 DEF l
<1> QED
  BY <1>1, <1>2
---------------------------------------------------------------------------
(* Rounds of the main loop                                                 *)
Flying(v, ps, q, old) ==
  /\ q \in Seq(Sent(v))
  /\ \A e \in old : (e[1] = "peer" => e[2] \in Sent(v)) /\ (e[1] = "core" => e[2] \in Heard(ps))

\* What a round does
Rounds(v) == \E w : Moves(v, w) /\ Serving(Now', w) /\ toPeer' \in Seq(Sent(w))
\* A client that is still there has all that was received when it is closed
ClosesTold ==
  client.state = "STREAM" /\ client'.state = "FREE" /\ ~sock.gone =>
    Len(sock'.got) >= 1 + ReceivedBytes(core.conns[client.conn])

LEMMA FlyingOn ==
  ASSUME NEW v, NEW ps, NEW q, NEW old, Flying(v, ps, q, old), NEW w, Sent(v) \subseteq Sent(w),
         NEW qs, Heard(ps) \subseteq Heard(qs), NEW r \in Seq(Sent(w)), NEW rest, rest \subseteq old
  PROVE  Flying(w, qs, r, rest)
BY DEF Flying

LEMMA RoundServes ==
  ASSUME NEW s, NEW v, Serving(s, v), toPeer \in Seq(Sent(v)), Round(s)
  PROVE  \E w : /\ Moves(v, w) /\ Serving(Now', w) /\ toPeer' \in Seq(Sent(w))
                /\ s.k.state = "STREAM" /\ client'.state = "FREE" /\ ~s.t.gone => Delivered(sock'.got, v)
<1>1. PICK n \in {0, OutBuf + 1} : Commit(ClientService(s, n))
  BY DEF Round
<1> DEFINE r == ClientService(s, n)
           d == [r.c EXCEPT !.out = <<>>]
<1>2. n \in Nat
  BY BufSizes
<1>3. core' = d /\ toPeer' = toPeer \o r.c.out /\ client' = r.k /\ sock' = r.t
  BY <1>1 DEF Commit
<1>4. PICK w : /\ Moves(v, w) /\ Serving(r, w)
               /\ s.k.state = "STREAM" /\ r.k.state = "FREE" /\ ~s.t.gone => Delivered(r.t.got, v)
  BY <1>2, ServiceServes
<1> HIDE DEF r
<1>5. r \in Servers /\ r.c \in Cores /\ Inside(r.c, Kept(w), Sent(w)) /\ r.c.out \in Seq(Sent(w))
  BY <1>4, ServingParts DEF Serving, Inside
<1>6. d \in Cores /\ d.conns = r.c.conns /\ d.uniquizer = r.c.uniquizer /\ d.out = <<>>
  BY <1>5, ShortSeqs DEF Cores
<1> HIDE DEF d
<1>7. Keeps(r.c, d)
  BY <1>5, <1>6, KeepsRules
<1>8. Inside(d, Kept(w), Sent(w))
  BY <1>5, <1>6, ShortSeqs DEF Inside
<1>9. Serving([r EXCEPT !.c = d], w)
  BY <1>4, <1>7, <1>8, CoreServes
<1>10. Now' = [r EXCEPT !.c = d]
  BY <1>3, <1>5 DEF Now, Servers
<1>11. toPeer \o r.c.out \in Seq(Sent(w))
  <2>1. toPeer \in Seq(Sent(w))
    BY <1>4, SeqsGrow DEF Moves
  <2> QED
    BY <1>5, <2>1, ConcatProperties
<1> QED
  BY <1>3, <1>4, <1>9, <1>10, <1>11

\* What a marked view says of a client that was closed
LEMMA ToldAll ==
  ASSUME NEW u, u.ps = peers,
         client.state = "STREAM" => /\ u.low = Place(core.conns[client.conn].receivedNum)
                                    /\ u.who = {core.conns[client.conn].remoteIndex},
         client.state = "STREAM" /\ client'.state = "FREE" /\ ~sock.gone => Delivered(sock'.got, u)
  PROVE  ClosesTold
BY DEF ClosesTold, Delivered, ReceivedBytes, At, Place

\* A round that starts with a step of the core
LEMMA CoreRound ==
  ASSUME NEW v, v.ps = peers, Serving(Now, v), toPeer \in Seq(Sent(v)), NEW d, Keeps(core, d),
         \A u : ViewOK(u) /\ u.ps = peers /\ Inside(core, Kept(u), Sent(u)) => Inside(d, Kept(u), Sent(u)),
         Round([Now EXCEPT !.c = d])
  PROVE  Rounds(v) /\ ClosesTold
<1> DEFINE s == [Now EXCEPT !.c = d]
<1>1. PICK u : /\ u.ps = v.ps /\ Sent(v) = Sent(u) /\ Serving(Now, u)
               /\ Now.k.state = "STREAM" =>
                    u.low = Place(Now.c.conns[Now.k.conn].receivedNum) /\ u.who = {Now.c.conns[Now.k.conn].remoteIndex}
  BY MarkServes
<1>2. ViewOK(u) /\ Inside(core, Kept(u), Sent(u))
  BY <1>1, NowParts DEF Serving
<1>3. Inside(d, Kept(u), Sent(u))
  BY <1>1, <1>2
<1>4. Serving(s, u) /\ s.k = client /\ s.t = sock
  <2>1. Keeps(Now.c, d)
    BY NowParts
  <2>2. s.k = Now.k /\ s.t = Now.t
    BY DEF Now
  <2> QED
    BY <1>1, <1>3, <2>1, <2>2, CoreServes, NowParts
<1> HIDE DEF s
<1>5. Round(s) /\ toPeer \in Seq(Sent(u))
  BY <1>1 DEF s
<1>6. PICK w : /\ Moves(u, w) /\ Serving(Now', w) /\ toPeer' \in Seq(Sent(w))
               /\ s.k.state = "STREAM" /\ client'.state = "FREE" /\ ~s.t.gone => Delivered(sock'.got, u)
  BY <1>4, <1>5, RoundServes
<1>7. Rounds(v)
  BY <1>1, <1>6 DEF Rounds, Moves
<1>8. ClosesTold
  BY <1>1, <1>4, <1>6, NowParts, ToldAll
<1> QED
  BY <1>7, <1>8

\* Frames for the core
LEMMA FramesInside ==
  ASSUME NEW frames \in Seq(Heard(peers)), NEW old, NEW u, ViewOK(u), u.ps = peers, Inside(core, Kept(u), Sent(u))
  PROVE  Inside(Inputs(core, frames, old)[Len(frames)], Kept(u), Sent(u))
<1>1. Heard(peers) \subseteq Packets
  BY DEF Heard
<1>2. frames \in Seq(Packets)
  BY <1>1, SeqsGrow
<1>3. \A i \in 1..Len(frames) : Hearing(Kept(u), Sent(u), frames[i])
  <2> SUFFICES ASSUME NEW i \in 1..Len(frames)
               PROVE  Hearing(Kept(u), Sent(u), frames[i])
    OBVIOUS
  <2>1. frames[i] \in Heard(peers)
    BY ElementOfSeq
  <2> QED
    BY <2>1, HearsPeer DEF Heard
<1>4. Closed(Kept(u), Sent(u))
  BY KeptClosed
<1> QED
  BY <1>2, <1>3, <1>4, InputsInside

\* A round that starts with input
LEMMA InputRound ==
  ASSUME NEW v, v.ps = peers, Serving(Now, v), toPeer \in Seq(Sent(v)),
         toCore \in Seq(Heard(peers)), RoundInput
  PROVE  Rounds(v) /\ ClosesTold /\ toCore' \in Seq(Heard(peers))
<1>1. PICK n \in {1, Len(toCore)}, old \in Ages(core) :
        /\ Round([Now EXCEPT !.c = Inputs(core, SubSeq(toCore, 1, n), old)[n]])
        /\ toCore' = SubSeq(toCore, n + 1, Len(toCore))
  BY DEF RoundInput
<1>2. toCore # <<>> /\ core \in Cores
  BY NowParts, ServingParts DEF RoundInput
<1>3. Len(toCore) \in Nat /\ Len(toCore) # 0
  BY <1>2, LenProperties, EmptySeq
<1>4. n \in Nat /\ 1 <= n /\ n <= Len(toCore)
  BY <1>1, <1>3
<1> DEFINE frames == SubSeq(toCore, 1, n)
           rest == SubSeq(toCore, n + 1, Len(toCore))
<1>5. frames \in Seq(Heard(peers)) /\ Len(frames) = n /\ rest \in Seq(Heard(peers))
  <2>1. 1 \in 1..(Len(toCore) + 1) /\ n \in (1 - 1)..Len(toCore)
    BY <1>3, <1>4
  <2>2. n + 1 \in 1..(Len(toCore) + 1) /\ Len(toCore) \in ((n + 1) - 1)..Len(toCore)
    BY <1>3, <1>4
  <2>3. frames \in Seq(Heard(peers)) /\ Len(frames) = IF 1 <= n THEN (n - 1) + 1 ELSE 0
    BY <2>1, SubSeqProperties
  <2>4. rest \in Seq(Heard(peers))
    BY <2>2, SubSeqProperties
  <2> HIDE DEF frames, rest
  <2> QED
    BY <1>4, <2>3, <2>4
<1> DEFINE d == Inputs(core, frames, old)[n]
<1>6. Round([Now EXCEPT !.c = d]) /\ toCore' = rest
  BY <1>1
<1> HIDE DEF frames, rest
<1>7. frames \in Seq(Packets)
  <2>1. Heard(peers) \subseteq Packets
    BY DEF Heard
  <2> QED
    BY <1>5, <2>1, SeqsGrow
<1>8. Keeps(core, d)
  BY <1>2, <1>5, <1>7, InputsOK
<1>9. \A u : ViewOK(u) /\ u.ps = peers /\ Inside(core, Kept(u), Sent(u)) => Inside(d, Kept(u), Sent(u))
  BY <1>5, FramesInside
<1> HIDE DEF d
<1>10. Rounds(v) /\ ClosesTold
  BY <1>6, <1>8, <1>9, CoreRound
<1> QED
  BY <1>5, <1>6, <1>10

\* A round that starts with a packet that was late
LEMMA LateRound ==
  ASSUME NEW v, v.ps = peers, Serving(Now, v), toPeer \in Seq(Sent(v)),
         \A e \in late : e[1] = "core" => e[2] \in Heard(peers), RoundLate
  PROVE  Rounds(v) /\ ClosesTold
<1>1. PICK e \in late, old \in Ages(core) :
        e[1] = "core" /\ Round([Now EXCEPT !.c = ChaosCoreInput(core, e[2], old)])
  BY DEF RoundLate
<1> DEFINE m == e[2]
           d == ChaosCoreInput(core, m, old)
<1>2. m \in Heard(peers) /\ m \in Packets /\ FromPeer(m, peers)
  BY <1>1 DEF Heard
<1>3. core \in Cores
  BY NowParts, ServingParts
<1>4. Round([Now EXCEPT !.c = d])
  BY <1>1
<1> HIDE DEF m
<1>5. Keeps(core, d)
  BY <1>2, <1>3, ChaosCoreInputOK
<1>6. ASSUME NEW u, ViewOK(u), u.ps = peers, Inside(core, Kept(u), Sent(u))
      PROVE  Inside(d, Kept(u), Sent(u))
  <2>1. Hearing(Kept(u), Sent(u), m) /\ Closed(Kept(u), Sent(u))
    BY <1>2, <1>6, HearsPeer, KeptClosed
  <2> QED
    BY <1>6, <2>1, ChaosCoreInputInside
<1> HIDE DEF d
<1> QED
  BY <1>4, <1>5, <1>6, CoreRound

\* A round that starts with a timer, or with nothing
LEMMA TimerRound ==
  ASSUME NEW v, v.ps = peers, Serving(Now, v), toPeer \in Seq(Sent(v)),
         RoundWrite \/ \E h \in Slots : RoundTick(h) \/ RoundGiveUp(h) \/ RoundFinish(h)
  PROVE  Rounds(v) /\ ClosesTold
<1>1. core \in Cores
  BY NowParts, ServingParts
<1>2. CASE RoundWrite
  <2>1. Round([Now EXCEPT !.c = core])
    <3>1. Now = [Now EXCEPT !.c = core]
      BY DEF Now
    <3> QED
      BY <1>2, <3>1 DEF RoundWrite
  <2>2. Keeps(core, core)
    BY <1>1, KeepsRules
  <2> QED
    BY <2>1, <2>2, CoreRound
<1>3. CASE \E h \in Slots : RoundTick(h) \/ RoundGiveUp(h) \/ RoundFinish(h)
  <2>1. PICK h \in Slots : \E d \in Ticks(core, h) \cup GivesUp(core, h) \cup Finishes(core, h) : Round([Now EXCEPT !.c = d])
    BY <1>3 DEF RoundTick, RoundGiveUp, RoundFinish
  <2>2. PICK d \in Ticks(core, h) \cup GivesUp(core, h) \cup Finishes(core, h) : Round([Now EXCEPT !.c = d])
    BY <2>1
  <2>3. Keeps(core, d)
    BY <1>1, TimersOK
  <2>4. ASSUME NEW u, ViewOK(u), u.ps = peers, Inside(core, Kept(u), Sent(u))
        PROVE  Inside(d, Kept(u), Sent(u))
    BY <2>4, KeptClosed, TimersInside
  <2> QED
    BY <2>2, <2>3, <2>4, CoreRound
<1> QED
  BY <1>2, <1>3

\* A round that starts with a read of the client's socket
LEMMA ReadRound ==
  ASSUME NEW v, v.ps = peers, Serving(Now, v), toPeer \in Seq(Sent(v)), RoundRead
  PROVE  Rounds(v) /\ ClosesTold
<1>1. PICK r \in Reads(Now) : Round(r)
  BY DEF RoundRead
<1>2. PICK u : /\ u.ps = v.ps /\ Sent(v) = Sent(u) /\ Serving(Now, u)
               /\ Now.k.state = "STREAM" =>
                    u.low = Place(Now.c.conns[Now.k.conn].receivedNum) /\ u.who = {Now.c.conns[Now.k.conn].remoteIndex}
  BY MarkServes
<1>3. CASE Serving(r, u) /\ r.k.state = Now.k.state /\ r.t.gone = Now.t.gone
  <2>1. PICK w : /\ Moves(u, w) /\ Serving(Now', w) /\ toPeer' \in Seq(Sent(w))
                 /\ r.k.state = "STREAM" /\ client'.state = "FREE" /\ ~r.t.gone => Delivered(sock'.got, u)
    BY <1>1, <1>2, <1>3, RoundServes
  <2>2. Rounds(v)
    BY <1>2, <2>1 DEF Rounds, Moves
  <2>3. ClosesTold
    BY <1>2, <1>3, <2>1, NowParts, ToldAll
  <2> QED
    BY <2>2, <2>3
<1>4. CASE ~(Now.k.state = "STREAM" /\ ~Now.t.gone) /\ \E w : Moves(u, w) /\ Serving(r, w)
  <2>1. PICK w : Moves(u, w) /\ Serving(r, w)
    BY <1>4
  <2>2. toPeer \in Seq(Sent(w))
    BY <1>2, <2>1, SeqsGrow DEF Moves
  <2>3. PICK x : Moves(w, x) /\ Serving(Now', x) /\ toPeer' \in Seq(Sent(x))
    BY <1>1, <2>1, <2>2, RoundServes
  <2>4. Rounds(v)
    BY <1>2, <2>1, <2>3 DEF Rounds, Moves
  <2>5. ClosesTold
    BY <1>4, NowParts DEF ClosesTold
  <2> QED
    BY <2>4, <2>5
<1> QED
  BY <1>2, <1>3, <1>4, ReadsServes
---------------------------------------------------------------------------
(* The whole                                                               *)

\* The inductive invariant: some view fits what chaosd and its client hold,
\* what the peer has done and every packet on its way
StreamInv ==
  /\ ChaosInv /\ Peering(peers, toCore, scope.packets)
  /\ \E v : v.ps = peers /\ Serving(Now, v) /\ Flying(v, peers, toPeer, late)

LEMMA ScopeFits ==
  ASSUME NumbersLast, SessionsLast, scope \in Scopes
  PROVE  /\ scope.packets \in Nat /\ scope.packets + LocalWindow + 1 < PktSpace
         /\ Len(scope.sessions) \in Nat /\ Len(scope.sessions) + 1 < UniqSpace
BY ScopesAssumption DEF NumbersLast, SessionsLast

LEMMA StreamInit ==
  ASSUME NumbersLast, SessionsLast, Init
  PROVE  StreamInv
<1> DEFINE v == View(<<>>, {}, 0, MaxConns, 0, 0, Nat)
<1>1. ChaosInv /\ scope \in Scopes
  BY InitOK DEF ChaosInv
<1>2. core = CoreInit /\ toPeer = <<>> /\ toCore = <<>> /\ late = {} /\ peers = <<>> /\ client = FreeClient /\ sock = NoSocket
  BY DEF Init
<1>3. DOMAIN <<>> = {} /\ PeersOK(<<>>)
  BY ShortSeqs DEF PeersOK
<1>4. Peering(peers, toCore, scope.packets)
  BY <1>2, <1>3, ShortSeqs DEF Peering
<1>5. v.ps = <<>> /\ v.mine = {} /\ v.ses = 0 /\ v.top = MaxConns /\ v.n = 0 /\ v.low = 0 /\ v.who = Nat
  BY DEF View
<1> HIDE DEF v
<1>6. ViewOK(v)
  BY <1>3, <1>5, SlotsType DEF ViewOK
<1>7. Inside(core, Kept(v), Sent(v))
  <2>1. \A h \in Slots : CoreInit.conns[h] = FreeConn
    BY DEF CoreInit, Slots
  <2> QED
    BY <1>2, <1>6, <2>1, KeptUses, CoreInitOK, ShortSeqs DEF Inside
<1>8. /\ sock.session = 0 /\ sock.line = "none" /\ sock.got = <<>> /\ client.state = "FREE"
      /\ core.uniquizer = 1
  BY <1>2 DEF NoSocket, FreeClient, CoreInit
<1>9. v.top = core.uniquizer * MaxConns
  BY <1>5, <1>8, SlotsType
<1>10. Fresh(core, sock)
  BY <1>1, <1>8, ScopeFits, SizeAssumption DEF Fresh
<1>11. Gets(Now, v)
  BY <1>5, <1>8, NowParts DEF Gets, Told
<1>12. Serving(Now, v)
  BY <1>1, <1>5, <1>6, <1>7, <1>8, <1>9, <1>10, <1>11, NowParts DEF Serving, ChaosInv
<1>13. Flying(v, peers, toPeer, late)
  BY <1>2, ShortSeqs DEF Flying
<1> QED
  BY <1>1, <1>2, <1>4, <1>5, <1>12, <1>13 DEF StreamInv

\* A step of chaosd
LEMMA ChaosdKeepsStream ==
  ASSUME NumbersLast, SessionsLast, StreamInv, scope' = scope, ChaosInv', RoundInput \/ ChaosdNext
  PROVE  StreamInv' /\ ClosesTold
<1>1. PICK v : v.ps = peers /\ Serving(Now, v) /\ Flying(v, peers, toPeer, late)
  BY DEF StreamInv
<1>2. /\ toPeer \in Seq(Sent(v)) /\ (\A e \in late : e[1] = "core" => e[2] \in Heard(peers))
      /\ Peering(peers, toCore, scope.packets) /\ toCore \in Seq(Heard(peers))
  BY <1>1 DEF Flying, StreamInv, Peering
<1>3. Rounds(v) /\ ClosesTold /\ toCore' \in Seq(Heard(peers)) /\ late' \subseteq late /\ peers' = peers
  <2>1. CASE RoundInput
    <3>1. late' = late /\ peers' = peers
      BY <2>1 DEF RoundInput, Round
    <3> QED
      BY <1>1, <1>2, <2>1, <3>1, InputRound
  <2>2. CASE RoundLate
    <3>1. late' \subseteq late /\ peers' = peers /\ toCore' = toCore
      BY <2>2 DEF RoundLate, Round
    <3> QED
      BY <1>1, <1>2, <2>2, <3>1, LateRound
  <2>3. CASE RoundRead
    <3>1. late' = late /\ peers' = peers /\ toCore' = toCore
      BY <2>3 DEF RoundRead, Round
    <3> QED
      BY <1>1, <1>2, <2>3, <3>1, ReadRound
  <2>4. CASE RoundWrite \/ \E h \in Slots : RoundTick(h) \/ RoundGiveUp(h) \/ RoundFinish(h)
    <3>1. late' = late /\ peers' = peers /\ toCore' = toCore
      BY <2>4 DEF RoundWrite, RoundTick, RoundGiveUp, RoundFinish, Round
    <3> QED
      BY <1>1, <1>2, <2>4, <3>1, TimerRound
  <2> QED
    BY <2>1, <2>2, <2>3, <2>4 DEF ChaosdNext
<1>4. PICK w : Moves(v, w) /\ Serving(Now', w) /\ toPeer' \in Seq(Sent(w))
  BY <1>3 DEF Rounds
<1>5. Flying(w, peers, toPeer', late')
  BY <1>1, <1>3, <1>4, FlyingOn DEF Moves
<1>6. Peering(peers', toCore', scope'.packets)
  BY <1>2, <1>3 DEF Peering
<1>7. w.ps = peers'
  BY <1>1, <1>3, <1>4 DEF Moves
<1> QED
  BY <1>3, <1>4, <1>5, <1>6, <1>7 DEF StreamInv

\* A step of the peer
LEMMA PeerKeepsStream ==
  ASSUME NumbersLast, SessionsLast, StreamInv, scope' = scope, ChaosInv', PeerNext \/ PeerOnly(PeerInTime)
  PROVE  StreamInv' /\ ClosesTold
<1> DEFINE max == scope.packets
<1>1. PICK v : v.ps = peers /\ Serving(Now, v) /\ Flying(v, peers, toPeer, late)
  BY DEF StreamInv
<1>2. scope \in Scopes /\ max \in Nat /\ max + LocalWindow + 1 < PktSpace
  BY ScopeFits DEF StreamInv, ChaosInv
<1>3. /\ Facing(v, max) /\ toPeer \in Seq(Sent(v)) /\ PeersOK(peers)
      /\ \A e \in late : e[1] = "peer" => e[2] \in Sent(v)
  BY <1>1, <1>2 DEF Facing, Serving, StreamInv, Flying, Peering
<1>4. /\ Goes(v, peers', toCore', max) /\ toPeer' \in Seq(Sent(v)) /\ late' \subseteq late
      /\ UNCHANGED <<core, client, sock>>
  <2>1. CASE PeerOnly(PeerInTime)
    <3>1. toPeer # <<>> /\ PeerHandles(Head(toPeer)) /\ toPeer' = Tail(toPeer) /\ UNCHANGED <<core, late, client, sock>>
      BY <2>1 DEF PeerOnly, PeerInTime
    <3>2. Head(toPeer) \in Sent(v) /\ Tail(toPeer) \in Seq(Sent(v))
      BY <1>3, <3>1, HeadTailProperties
    <3> QED
      BY <1>3, <3>1, <3>2, PeerHandlesGoes
  <2>2. CASE PeerOnly(PeerLate)
    <3>1. PICK e \in late : e[1] = "peer" /\ PeerHandles(e[2]) /\ late' = late \ {e}
      BY <2>2 DEF PeerOnly, PeerLate
    <3>2. UNCHANGED <<core, toPeer, client, sock>>
      BY <2>2 DEF PeerOnly, PeerLate
    <3>3. e[2] \in Sent(v)
      BY <1>3, <3>1
    <3>4. Goes(v, peers', toCore', max)
      BY <1>3, <3>1, <3>3, PeerHandlesGoes
    <3> QED
      BY <1>3, <3>1, <3>2, <3>4
  <2>3. CASE \E i \in DOMAIN peers : PeerOnly(PeerRead(i))
    <3>1. PICK i \in DOMAIN peers : PeerOnly(PeerRead(i))
      BY <2>3
    <3>2. UNCHANGED <<core, toPeer, late, client, sock>> /\ PeerRead(i)
      BY <3>1 DEF PeerOnly, PeerRead, PeerLocal
    <3>3. Goes(v, peers', toCore', max)
      BY <1>3, <3>2, PeerReadGoes
    <3> QED
      BY <1>3, <3>2, <3>3
  <2>4. CASE \E i \in DOMAIN peers : PeerOnly(PeerWrite(i)) \/ PeerOnly(PeerFinish(i))
    <3>1. PICK i \in DOMAIN peers : PeerOnly(PeerWrite(i)) \/ PeerOnly(PeerFinish(i))
      BY <2>4
    <3>2. UNCHANGED <<core, toPeer, late, client, sock>> /\ (PeerWrite(i) \/ PeerFinish(i))
      BY <3>1 DEF PeerOnly, PeerWrite, PeerFinish, PeerLocal
    <3>3. max = scope.packets
      OBVIOUS
    <3> HIDE DEF max
    <3>4. Goes(v, peers', toCore', max)
      BY <1>3, <3>2, <3>3, PeerSendsGoes
    <3> QED
      BY <1>3, <3>2, <3>4
  <2>5. CASE PeerOnly(PeerTick)
    <3>1. UNCHANGED <<core, toPeer, late, client, sock>> /\ PeerTick
      BY <2>5 DEF PeerOnly, PeerTick, PeerLocal
    <3> QED
      BY <1>3, <3>1, PeerTickGoes
  <2>6. CASE PeerOnly(PeerAsks)
    <3>1. UNCHANGED <<core, toPeer, late, client, sock>> /\ PeerAsks
      BY <2>6 DEF PeerOnly, PeerAsks, PeerLocal
    <3> QED
      BY <1>2, <1>3, <3>1, PeerAsksGoes
  <2>7. CASE PeerOnly(PeerDies)
    <3>1. UNCHANGED <<core, toPeer, late, client, sock>> /\ PeerDies
      BY <2>7 DEF PeerOnly, PeerDies, netVars
    <3> QED
      BY <1>3, <3>1, PeerDiesGoes
  <2> QED
    BY <2>1, <2>2, <2>3, <2>4, <2>5, <2>6, <2>7 DEF PeerNext
<1> HIDE DEF max
<1>5. PICK w : w.ps = peers' /\ Sent(v) \subseteq Sent(w) /\ Serving(Now, w)
  BY <1>1, <1>2, <1>4, GoesServes
<1>6. Now' = Now
  BY <1>4 DEF Now
<1>7. Peering(peers', toCore', max) /\ Heard(peers) \subseteq Heard(peers')
  BY <1>1, <1>3, <1>4, HeardGrows DEF Goes, Peering
<1>8. toPeer' \in Seq(Sent(w))
  BY <1>4, <1>5, SeqsGrow
<1>9. Flying(w, peers', toPeer', late')
  BY <1>1, <1>4, <1>5, <1>7, <1>8, FlyingOn
<1>10. ClosesTold
  BY <1>4 DEF ClosesTold
<1> QED
  BY <1>5, <1>6, <1>7, <1>9, <1>10 DEF StreamInv, max

\* What the network does
LEMMA NetworkKeepsStream ==
  ASSUME StreamInv, scope' = scope, ChaosInv', CoreOnly(Delay) \/ CoreOnly(Duplicate)
  PROVE  StreamInv' /\ ClosesTold
<1>1. PICK v : v.ps = peers /\ Serving(Now, v) /\ Flying(v, peers, toPeer, late)
  BY DEF StreamInv
<1>2. /\ toPeer \in Seq(Sent(v)) /\ toCore \in Seq(Heard(peers)) /\ Peering(peers, toCore, scope.packets)
      /\ \A e \in late : (e[1] = "peer" => e[2] \in Sent(v)) /\ (e[1] = "core" => e[2] \in Heard(peers))
  BY <1>1 DEF StreamInv, Flying, Peering
<1>3. /\ toPeer # <<>> => Head(toPeer) \in Sent(v) /\ Tail(toPeer) \in Seq(Sent(v))
      /\ toCore # <<>> => Head(toCore) \in Heard(peers) /\ Tail(toCore) \in Seq(Heard(peers))
  BY <1>2, HeadTailProperties
<1>4. UNCHANGED <<core, peers, client, sock>>
  BY DEF CoreOnly, Delay, Duplicate
<1>5. toPeer' \in Seq(Sent(v)) /\ toCore' \in Seq(Heard(peers))
  BY <1>2, <1>3 DEF CoreOnly, Delay, Duplicate
<1>6. \/ \E m \in Sent(v) : late' = late \cup {<<"peer", m>>}
      \/ \E m \in Heard(peers) : late' = late \cup {<<"core", m>>}
  BY <1>3 DEF CoreOnly, Delay, Duplicate, Faulty
<1>7. \A e \in late' : (e[1] = "peer" => e[2] \in Sent(v)) /\ (e[1] = "core" => e[2] \in Heard(peers))
  BY <1>2, <1>6
<1>8. Flying(v, peers', toPeer', late') /\ Peering(peers', toCore', scope.packets)
  BY <1>2, <1>4, <1>5, <1>7 DEF Flying, Peering
<1>9. Now' = Now
  BY <1>4 DEF Now
<1> QED
  BY <1>1, <1>4, <1>8, <1>9 DEF StreamInv, ClosesTold

\* What the client's program does
LEMMA ClientKeepsStream ==
  ASSUME NumbersLast, SessionsLast, StreamInv, scope' = scope, ChaosInv', ClientNext
  PROVE  StreamInv' /\ ClosesTold
<1>1. PICK v : v.ps = peers /\ Serving(Now, v) /\ Flying(v, peers, toPeer, late)
  BY DEF StreamInv
<1>2. /\ sock \in Socks /\ client \in Clients /\ core \in Cores /\ sock.session \in Nat
      /\ client.state \in {"WAIT_OPN", "STREAM"} <=> client.conn # NoConn
  BY <1>1, ServingParts, NowParts
<1>3. UNCHANGED <<core, toPeer, toCore, late, peers>>
  BY DEF ClientNext, StreamAdopt, ClientShuts, ClientLeaves, CoreUnchanged, netVars
<1>4. /\ Now'.c = core /\ Now'.k = client' /\ Now'.t = sock' /\ Sane(Now')
  BY <1>3 DEF ChaosInv, Now
<1>5. CASE ClientShuts \/ ClientLeaves
  <2>1. client' = client
    BY <1>5 DEF ClientShuts, ClientLeaves
  <2>2. sock'.session = sock.session /\ sock'.line = sock.line /\ sock'.got = sock.got
    BY <1>2, <1>5 DEF ClientShuts, ClientLeaves, Socks
  <2>3. Inside(Now'.c, Kept(v), Sent(v))
    BY <1>1, <1>4, NowParts DEF Serving
  <2> DEFINE r == Now'
  <2>4. /\ Sane(r) /\ Inside(r.c, Kept(v), Sent(v)) /\ r.c.uniquizer = Now.c.uniquizer
        /\ r.t.session = Now.t.session /\ r.t.line = Now.t.line /\ r.k.conn = Now.k.conn /\ r.k.state = Now.k.state
        /\ r.t.got \o r.k.out = Now.t.got \o Now.k.out /\ r.t.got = Now.t.got
    BY <1>4, <2>1, <2>2, <2>3, NowParts
  <2> HIDE DEF r
  <2>5. Serving(r, v)
    BY <1>1, <2>4, SameServing
  <2> QED
    BY <1>1, <1>3, <2>1, <2>5 DEF StreamInv, ClosesTold, r
<1>6. CASE StreamAdopt
  <2> DEFINE ses == sock.session + 1
             w == View(v.ps, {}, ses, v.top, 0, 0, Nat)
  <2>1. PICK r \in Requests :
          sock' = [NoSocket EXCEPT !.session = sock.session + 1, !.line = r,
                                   !.pending = ClientWrote(sock.session + 1, scope.sessions[sock.session + 1])]
    BY <1>6 DEF StreamAdopt
  <2>2. client.state = "FREE" /\ sock.session < Len(scope.sessions) /\ client' = [FreeClient EXCEPT !.state = "LINE"]
    BY <1>6 DEF StreamAdopt
  <2>3. sock'.session = ses /\ sock'.line # "none" /\ sock'.got = <<>>
    <3>1. r # "none"
      BY StreamAssumption
    <3> QED
      BY <2>1, <3>1 DEF NoSocket
  <2>4. client'.state = "LINE" /\ client'.out = <<>>
    BY <2>2 DEF FreeClient
  <2>5. ses \in Nat /\ ses + 1 < UniqSpace
    <3>1. scope \in Scopes
      BY DEF StreamInv, ChaosInv
    <3>2. Len(scope.sessions) \in Nat /\ Len(scope.sessions) + 1 < UniqSpace
      BY <3>1, ScopeFits
    <3> QED
      BY <1>2, <2>2, <3>2, SizeAssumption
  <2>6. ViewOK(v) /\ Inside(core, Kept(v), Sent(v)) /\ v.mine = {} /\ v.top = core.uniquizer * MaxConns /\ Fresh(core, sock)
    BY <1>1, <1>2, <2>2, NowParts DEF Serving
  <2>7. w = View(v.ps, {}, ses, v.top, 0, 0, Nat)
    OBVIOUS
  <2> HIDE DEF w, ses
  <2>8. /\ w.ps = v.ps /\ w.mine = {} /\ w.ses = ses /\ w.top = v.top /\ w.n = 0 /\ w.low = 0 /\ w.who = Nat
        /\ ViewOK(w) /\ Sent(v) \subseteq Sent(w)
    BY <2>5, <2>6, <2>7, ReleasedOK
  <2>9. Inside(core, Kept(w), Sent(w))
    <3>1. \A g \in Slots : core.conns[g].state = "FREE"
      BY <1>1, <1>2, <2>2, ServingParts, NowParts, NoConnType
    <3> QED
      BY <2>6, <2>8, <3>1, InsideAs
  <2>10. Fresh(core, sock')
    <3>1. core.uniquizer \in Nat
      BY <1>2 DEF Cores
    <3>2. core.uniquizer <= ses
      BY <1>2, <2>6, <3>1 DEF Fresh, ses
    <3> QED
      BY <2>3, <2>5, <3>2 DEF Fresh
  <2>11. Gets(Now', w)
    <3>1. <<>> \o <<>> = <<>>
      BY EmptyType, ConcatEmptySeq DEF Data
    <3> QED
      BY <1>4, <2>3, <2>4, <2>8, <3>1 DEF Gets
  <2>12. Serving(Now', w)
    BY <1>4, <2>3, <2>6, <2>8, <2>9, <2>10, <2>11 DEF Serving
  <2>13. Flying(w, peers, toPeer, late)
    <3>1. toPeer \in Seq(Sent(w))
      BY <1>1, <2>8, SeqsGrow DEF Flying
    <3> QED
      BY <1>1, <2>8, <3>1, FlyingOn
  <2>14. ClosesTold
    BY <2>2 DEF ClosesTold
  <2> QED
    BY <1>1, <1>3, <2>8, <2>12, <2>13, <2>14 DEF StreamInv
<1> QED
  BY <1>5, <1>6 DEF ClientNext

LEMMA StreamNext ==
  ASSUME NumbersLast, SessionsLast, StreamInv, [Next]_vars
  PROVE  StreamInv' /\ ClosesTold
<1>1. ChaosInv'
  BY NextOK DEF StreamInv
<1>2. CASE UNCHANGED vars
  <2>1. UNCHANGED <<core, toPeer, toCore, late, faults, scope, peers, alive, client, sock>>
    BY <1>2 DEF vars, netVars
  <2>2. Now' = Now
    BY <2>1 DEF Now
  <2> QED
    BY <1>1, <2>1, <2>2 DEF StreamInv, ClosesTold, Peering, Flying
<1>3. CASE Next
  <2>1. scope' = scope
    BY <1>3 DEF Next
  <2> QED
    BY <1>1, <1>3, <2>1, ChaosdKeepsStream, PeerKeepsStream, NetworkKeepsStream, ClientKeepsStream
       DEF Next, DeliveryNext
<1> QED
  BY <1>2, <1>3

\* The invariant says what the client reads
LEMMA StreamReads ==
  ASSUME StreamInv
  PROVE  ClientReadsInOrder
<1>1. PICK v : v.ps = peers /\ Serving(Now, v)
  BY DEF StreamInv
<1>2. Told(sock.got, v) /\ v.ses = sock.session /\ sock.got \in Data
  BY <1>1, ToldNow, ServingParts, NowParts DEF Serving
<1>3. CASE \E i \in DOMAIN v.ps : \E n \in Nat :
             v.ps[i].contact = <<v.ses>> /\ n <= At(v.ps[i].wrote) /\ Streamed(sock.got, i, n)
  <2>1. PICK i \in DOMAIN v.ps, n \in Nat :
          v.ps[i].contact = <<v.ses>> /\ n <= At(v.ps[i].wrote) /\ Streamed(sock.got, i, n)
    BY <1>3
  <2>2. v.ps[i].wrote \in Nat /\ At(v.ps[i].wrote) \in Nat
    BY <1>1, ViewPeers, AtGrows DEF Serving
  <2> DEFINE got == sock.got
             rest == Tail(got)
             N == At(v.ps[i].wrote)
             all == [j \in 1..N |-> PeerByte(i, j)]
  <2>3. got \in Data /\ Len(got) = n + 1 /\ got[1] = "OPN" /\ \A j \in 1..n : got[j + 1] = PeerByte(i, j)
    BY <2>1 DEF Streamed
  <2>4. all = PeerWrote(i)
    BY <1>1 DEF PeerWrote, At
  <2>5. N \in Nat /\ n <= N
    BY <2>1, <2>2
  <2> HIDE DEF got, N
  <2>6. got # <<>>
    BY <2>3, EmptyType
  <2>7. Head(got) = "OPN" /\ rest \in Data /\ Len(rest) = n /\ \A j \in 1..n : rest[j] = PeerByte(i, j)
    <3>1. /\ Head(got) = got[1] /\ Tail(got) \in Data /\ Len(Tail(got)) = Len(got) - 1
          /\ \A j \in 1..Len(Tail(got)) : Tail(got)[j] = got[j + 1]
      BY <2>3, <2>6, HeadTailProperties DEF Data
    <3>2. Len(Tail(got)) = n
      BY <2>3, <3>1
    <3> HIDE DEF rest
    <3>3. rest = Tail(got)
      BY DEF rest
    <3> QED
      BY <2>3, <3>1, <3>2, <3>3
  <2>8. IsPrefix(rest, all)
    <3>1. Len(all) = N
      BY <2>5
    <3>2. SubSeq(rest, 1, n) = [j \in 1..n |-> PeerByte(i, j)]
      <4> HIDE DEF rest, all
      <4> QED
        BY <2>7
    <3>3. SubSeq(all, 1, n) = [j \in 1..n |-> PeerByte(i, j)]
      BY <2>5
    <3> HIDE DEF rest, all
    <3> QED
      BY <2>5, <2>7, <3>1, <3>2, <3>3 DEF IsPrefix
  <2> HIDE DEF rest, all
  <2> QED
    BY <1>1, <1>2, <2>1, <2>4, <2>7, <2>8 DEF ClientReadsInOrder, got, rest
<1> QED
  BY <1>2, <1>3 DEF Told, Refusals, ClientReadsInOrder

(* Always some view explains the state: the peers' streams, the place the  *)
(* connection of the client has read up to, and for every slot of the      *)
(* receive ring and every packet on its way, late and repeated ones        *)
(* included, the part of the one stream it carries (conn_queue_input,      *)
(* chaos_recv, client_service).                                            *)
THEOREM StreamInvariant ==
  ASSUME NumbersLast, SessionsLast
  PROVE  Spec => []StreamInv
<1>1. Init => StreamInv
  BY StreamInit
<1>2. StreamInv /\ [Next]_vars => StreamInv'
  BY StreamNext
<1> QED
  BY <1>1, <1>2, PTL DEF Spec

(* The client gets OPN and a beginning of what the peer of its own         *)
(* connection wrote, or the reason why there is none: no packet is         *)
(* skipped, taken twice, or taken from another connection, for every size  *)
(* of window, ring, buffer and packet and every schedule of losses,        *)
(* repetitions and delays, as long as the packet numbers and the           *)
(* connection indices do not go round (conn_queue_input, chaos_recv).      *)
THEOREM ClientReadsInOrderHolds ==
  ASSUME NumbersLast, SessionsLast
  PROVE  Spec => []ClientReadsInOrder
<1>1. StreamInv => ClientReadsInOrder
  BY StreamReads
<1> QED
  BY <1>1, StreamInvariant, PTL

(* Under the same bound, when chaosd closes the socket of a client that is *)
(* still there, the client has got every byte the connection had received  *)
(* in order (client_service with the closed connection, client_close).     *)
THEOREM ClosesAfterDeliveryHolds ==
  ASSUME NumbersLast, SessionsLast
  PROVE  Spec => ClosesAfterDelivery
<1>1. StreamInv /\ [Next]_vars =>
        [client.state = "STREAM" /\ client'.state = "FREE" /\ ~sock.gone =>
           Len(sock'.got) >= 1 + ReceivedBytes(core.conns[client.conn])]_vars
  BY StreamNext DEF ClosesTold
<1> QED
  BY <1>1, StreamInvariant, PTL DEF Spec, ClosesAfterDelivery
====
