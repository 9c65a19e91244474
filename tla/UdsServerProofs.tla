--------------------------- MODULE UdsServerProofs ---------------------------
(***************************************************************************)
(* Proofs about the socket server, for every set of clients, every size of *)
(* the table, the buffers and the listen queue, and every mix of requests. *)
(***************************************************************************)
EXTENDS UdsServer, FiniteSetTheorems, TLAPS

Links == {"none", "queued", "open", "shut"}
Units == [part : {"head", "body"}, kind : Kinds \cup {"answer", "notice"}, id : Nat]
Clients == [peer : Peers \cup {NoPeer}, in : Seq(Units), out : Seq(Units), used : Nat]
Tables == [client : [Fds -> Clients], link : [Peers -> Links],
           toClient : [Peers -> Seq(Units)]]

(* An entry of the table, within the bounds of its buffers.                *)
ClientOK(c) ==
    /\ c \in Clients
    /\ c.peer = NoPeer => c = Free
    /\ Len(c.in) <= ReadBuf /\ Len(c.out) <= c.used /\ c.used <= WriteBuf

(* The record that the writes hand on.                                     *)
TableOK(s) ==
    /\ s \in Tables
    /\ \A f \in Fds : ClientOK(s.client[f])
    /\ \A p \in Peers : Len(s.toClient[p]) <= SockBuf

(* No two entries have the same client.                                    *)
Distinct(s) ==
    \A p \in Peers, f, g \in Fds :
        s.client[f].peer = p /\ s.client[g].peer = p => f = g

(* A call that only loses clients, each of which is told by its link.      *)
Loses(s, t, p) == \E f \in Fds : s.client[f].peer = p /\ t.client[f].peer # p
Closes(s, t) ==
    /\ \A f \in Fds : t.client[f].peer \in {s.client[f].peer, NoPeer}
    /\ \A p \in Peers : t.link[p] = IF Loses(s, t, p) THEN "shut" ELSE s.link[p]

(* Links and entries agree.                                                *)
Owned(s) ==
    /\ Distinct(s)
    /\ \A p \in Peers : s.link[p] = "open" <=> \E f \in Fds : s.client[f].peer = p

(* Links and the listen queue agree, and nobody waits twice.               *)
Queued(link_, backlog_) ==
    /\ \A p \in Peers : link_[p] = "queued" <=> \E k \in 1..Len(backlog_) : backlog_[k] = p
    /\ \A j, k \in 1..Len(backlog_) : backlog_[j] = backlog_[k] => j = k

(* The client that is being read.                                          *)
CurOK ==
    \/ cur = Idle
    \/ /\ cur.fd \in Fds
       /\ \/ cur.at = "frames" /\ client[cur.fd].peer # NoPeer
          \/ cur.at = "reply" /\ cur.id \in Nat

(* The table, the links and the listen queue.                              *)
Core ==
    /\ TableOK(Now) /\ Owned(Now)
    /\ backlog \in Seq(Peers) /\ Queued(link, backlog)

(* What the clients wrote.                                                 *)
Streams ==
    /\ asked \in [Peers -> Seq(Units)] /\ toServer \in [Peers -> Seq(Units)]
    /\ alive \in [Peers -> BOOLEAN] /\ got \in [Peers -> Seq(Units)]
    /\ \A p \in due \cap Peers : asked[p] # <<>>

Events == \A e \in batch : e.fd \in Fds \cup {Listen} /\ e.hup \in BOOLEAN

Life ==
    /\ up \in BOOLEAN /\ stopping \in BOOLEAN
    /\ path \in {"none", "stale", "live"} /\ (path = "live" <=> up)

(* The inductive invariant.                                                *)
IInv == Core /\ Streams /\ CurOK /\ Events /\ Life

-----------------------------------------------------------------------------
(* Closing.                                                                *)

(* A call that does nothing loses no one.                                  *)
LEMMA ClosesItself ==
    ASSUME NEW s, TableOK(s)
    PROVE  Closes(s, s)
  BY DEF Closes, Loses

(* One call after the other.                                               *)
LEMMA ClosesThenCloses ==
    ASSUME NEW s, NEW t, NEW u, TableOK(s), Distinct(s), Closes(s, t), Closes(t, u)
    PROVE  Closes(s, u)
<1>0. \A f \in Fds : s.client[f].peer \in Peers \cup {NoPeer}
  BY DEF TableOK, Tables, Clients
<1>1. \A f \in Fds : u.client[f].peer \in {s.client[f].peer, NoPeer}
  BY DEF Closes
<1>2. ASSUME NEW p \in Peers
      PROVE  u.link[p] = IF Loses(s, u, p) THEN "shut" ELSE s.link[p]
  <2>1. p # NoPeer
    BY UdsAssumption
  <2>2. Loses(s, u, p) <=> Loses(s, t, p) \/ Loses(t, u, p)
    BY <1>0, <2>1 DEF Closes, Loses
  <2>3. Loses(s, t, p) => ~Loses(t, u, p)
    BY <1>0, <2>1 DEF Closes, Loses, Distinct
  <2>4. /\ t.link[p] = IF Loses(s, t, p) THEN "shut" ELSE s.link[p]
        /\ u.link[p] = IF Loses(t, u, p) THEN "shut" ELSE t.link[p]
    BY DEF Closes
  <2> QED
    BY <2>2, <2>3, <2>4
<1> QED
  BY <1>1, <1>2 DEF Closes

(* Links and entries agree after such a call, and no waiting connection is *)
(* touched.                                                                *)
LEMMA ClosesKeeps ==
    ASSUME NEW s, NEW t, TableOK(s), Owned(s), Closes(s, t)
    PROVE  /\ Owned(t) /\ Distinct(t)
           /\ \A p \in Peers : t.link[p] = "queued" <=> s.link[p] = "queued"
<1>0. \A f \in Fds : s.client[f].peer \in Peers \cup {NoPeer}
  BY DEF TableOK, Tables, Clients
<1>1. Distinct(t)
  <2> SUFFICES ASSUME NEW p \in Peers, NEW f \in Fds, NEW g \in Fds,
                      t.client[f].peer = p, t.client[g].peer = p
               PROVE  f = g
    BY DEF Distinct
  <2>1. p # NoPeer
    BY UdsAssumption
  <2>2. s.client[f].peer = p /\ s.client[g].peer = p
    BY <2>1 DEF Closes
  <2> QED
    BY <2>2 DEF Owned, Distinct
<1>2. ASSUME NEW p \in Peers
      PROVE  /\ t.link[p] = "open" <=> \E f \in Fds : t.client[f].peer = p
             /\ t.link[p] = "queued" <=> s.link[p] = "queued"
  <2>1. p # NoPeer
    BY UdsAssumption
  <2>2. t.link[p] = IF Loses(s, t, p) THEN "shut" ELSE s.link[p]
    BY DEF Closes
  <2>3. s.link[p] = "open" <=> \E f \in Fds : s.client[f].peer = p
    BY DEF Owned
  <2>4. CASE Loses(s, t, p)
    <3>1. PICK f \in Fds : s.client[f].peer = p /\ t.client[f].peer # p
      BY <2>4 DEF Loses
    <3>2. \A g \in Fds : t.client[g].peer = p => s.client[g].peer = p
      BY <2>1 DEF Closes
    <3>3. ~\E g \in Fds : t.client[g].peer = p
      BY <3>1, <3>2 DEF Owned, Distinct
    <3>4. s.link[p] = "open" /\ t.link[p] = "shut"
      BY <2>2, <2>3, <2>4, <3>1
    <3> QED
      BY <3>3, <3>4
  <2>5. CASE ~Loses(s, t, p)
    <3>1. \A f \in Fds : s.client[f].peer = p <=> t.client[f].peer = p
      BY <1>0, <2>1, <2>5 DEF Loses, Closes
    <3> QED
      BY <2>2, <2>3, <2>5, <3>1
  <2> QED
    BY <2>4, <2>5
<1> QED
  BY <1>1, <1>2 DEF Owned


-----------------------------------------------------------------------------
(* The calls of the server on its table: what each leaves is a table whose *)
(* buffers are within their bounds and which lost clients at most.         *)

Good(s, t) == TableOK(t) /\ Closes(s, t)

(* A stretch of a sequence.                                                *)
LEMMA Stretch ==
    ASSUME NEW S, NEW c \in Seq(S), NEW m \in Nat \ {0}
    PROVE  /\ SubSeq(c, m, Len(c)) \in Seq(S)
           /\ Len(SubSeq(c, m, Len(c))) <= Len(c)
           /\ m > 1 /\ c # <<>> => Len(SubSeq(c, m, Len(c))) < Len(c)
           /\ m <= Len(c) + 1 => Len(SubSeq(c, m, Len(c))) = Len(c) + 1 - m
<1>1. CASE m <= Len(c)
  BY <1>1
<1>2. CASE m > Len(c)
  BY <1>2
<1> QED
  BY <1>1, <1>2

(* The first so many elements of a sequence.                               *)
LEMMA Beginning ==
    ASSUME NEW S, NEW c \in Seq(S), NEW n \in 0..Len(c)
    PROVE  SubSeq(c, 1, n) \in Seq(S) /\ Len(SubSeq(c, 1, n)) = n
  OBVIOUS

(* Two sequences one after the other.                                      *)
LEMMA Joined ==
    ASSUME NEW S, NEW c \in Seq(S), NEW d \in Seq(S)
    PROVE  c \o d \in Seq(S) /\ Len(c \o d) = Len(c) + Len(d)
  OBVIOUS

(* The free entry of the table.                                            *)
LEMMA FreeIsOK == ClientOK(Free) /\ Free.peer = NoPeer /\ Free \in Clients
  BY UdsAssumption DEF ClientOK, Free, Clients

(* client_close                                                            *)
LEMMA CloseClientGood ==
    ASSUME NEW s, TableOK(s), NEW f \in Fds
    PROVE  Good(s, CloseClient(s, f))
<1> DEFINE p == s.client[f].peer
           t == [s EXCEPT !.client[f] = Free, !.link[s.client[f].peer] = "shut"]
<1>1. CASE p = NoPeer
  BY <1>1, ClosesItself DEF CloseClient, Good
<1>2. CASE p # NoPeer
  <2>1. s \in Tables /\ p \in Peers
    BY <1>2 DEF TableOK, Tables, Clients
  <2>2. /\ t \in Tables
        /\ t.client = [s.client EXCEPT ![f] = Free]
        /\ t.link = [s.link EXCEPT ![p] = "shut"]
        /\ t.toClient = s.toClient
    BY <2>1, FreeIsOK DEF Tables, Links
  <2> HIDE DEF t
  <2>3. TableOK(t)
    BY <2>1, <2>2, FreeIsOK DEF TableOK, Tables
  <2>4. \A g \in Fds : t.client[g].peer \in {s.client[g].peer, NoPeer}
    BY <2>1, <2>2, FreeIsOK DEF Tables
  <2>5. \A q \in Peers : Loses(s, t, q) <=> q = p
    <3>1. \A g \in Fds : t.client[g] = IF g = f THEN Free ELSE s.client[g]
      BY <2>1, <2>2 DEF Tables
    <3>2. NoPeer \notin Peers
      BY UdsAssumption
    <3> QED
      BY <2>1, <3>1, <3>2, FreeIsOK DEF Loses
  <2>6. \A q \in Peers : t.link[q] = IF q = p THEN "shut" ELSE s.link[q]
    BY <2>1, <2>2 DEF Tables
  <2>7. CloseClient(s, f) = t
    BY <1>2 DEF CloseClient, t
  <2> QED
    BY <2>3, <2>4, <2>5, <2>6, <2>7 DEF Good, Closes
<1> QED
  BY <1>1, <1>2

(* A call that changes buffers only.                                       *)
LEMMA OnlyBuffers ==
    ASSUME NEW s, TableOK(s), NEW t, TableOK(t), t.link = s.link,
           \A g \in Fds : t.client[g].peer = s.client[g].peer
    PROVE  Good(s, t)
  BY DEF Good, Closes, Loses

(* An entry of a client takes new contents.                                *)
LEMMA EntryChanges ==
    ASSUME NEW s, TableOK(s), NEW f \in Fds, NEW c,
           ClientOK(c), c.peer = s.client[f].peer
    PROVE  Good(s, [s EXCEPT !.client[f] = c])
<1> DEFINE t == [s EXCEPT !.client[f] = c]
<1>1. s \in Tables /\ c \in Clients
  BY DEF TableOK, ClientOK
<1>2. /\ t \in Tables /\ t.client = [s.client EXCEPT ![f] = c]
      /\ t.link = s.link /\ t.toClient = s.toClient
  BY <1>1 DEF Tables
<1> HIDE DEF t
<1>3. \A g \in Fds : t.client[g] = IF g = f THEN c ELSE s.client[g]
  BY <1>1, <1>2 DEF Tables
<1>4. TableOK(t)
  BY <1>2, <1>3 DEF TableOK
<1>5. \A g \in Fds : t.client[g].peer = s.client[g].peer
  BY <1>3
<1>6. Good(s, t)
  BY <1>2, <1>4, <1>5, OnlyBuffers
<1> QED
  BY <1>6 DEF t

(* client_write                                                            *)
LEMMA ClientWriteGood ==
    ASSUME NEW s, TableOK(s), NEW f \in Fds
    PROVE  Good(s, ClientWrite(s, f))
<1> DEFINE c == s.client[f]
           room == SockBuf - Len(s.toClient[c.peer])
           n == IF Len(c.out) < room THEN Len(c.out) ELSE room
           left == SubSeq(c.out, n + 1, Len(c.out))
           sent == SubSeq(c.out, 1, n)
           d == [c EXCEPT !.out = left, !.used = IF left = <<>> THEN 0 ELSE @]
           u == [s EXCEPT !.toClient[c.peer] = @ \o sent]
           t == [s EXCEPT !.toClient[c.peer] = @ \o SubSeq(c.out, 1, n),
                          !.client[f].out = left,
                          !.client[f].used = IF left = << >> THEN 0 ELSE @]
<1>1. CASE c.out = <<>>
  BY <1>1, ClosesItself DEF ClientWrite, Good
<1>2. CASE c.out # <<>> /\ ~alive[c.peer]
  BY <1>2, CloseClientGood DEF ClientWrite
<1>3. CASE c.out # <<>> /\ alive[c.peer]
  <2>1. /\ s \in Tables /\ c \in Clients /\ ClientOK(c) /\ c.peer \in Peers
        /\ s.toClient[c.peer] \in Seq(Units) /\ Len(s.toClient[c.peer]) <= SockBuf
    <3>1. s \in Tables /\ ClientOK(c)
      BY DEF TableOK
    <3>2. c \in Clients /\ c.peer \in Peers
      BY <1>3, <3>1 DEF ClientOK, Clients, Free
    <3> QED
      BY <3>1, <3>2 DEF TableOK, Tables
  <2>2. c.out \in Seq(Units) /\ c.used \in Nat /\ Len(c.out) <= c.used /\ SockBuf \in Nat
    BY <2>1, UdsAssumption DEF ClientOK, Clients
  <2>3. n \in 0..Len(c.out) /\ n <= SockBuf - Len(s.toClient[c.peer])
    <3> DEFINE o == c.out
               k == s.toClient[c.peer]
    <3>a. o \in Seq(Units) /\ k \in Seq(Units)
      BY <2>1, <2>2
    <3> HIDE DEF o, k
    <3>b. Len(o) \in Nat /\ Len(k) \in Nat
      BY <3>a
    <3>1. Len(c.out) \in Nat /\ Len(s.toClient[c.peer]) \in Nat
      BY <3>b DEF o, k
    <3>2. room \in Nat
      BY <2>1, <2>2, <3>1
    <3> HIDE DEF room
    <3>3. n \in 0..Len(c.out) /\ n <= room
      BY <3>1, <3>2
    <3> QED
      BY <3>3 DEF room
  <2> HIDE DEF n
  <2>4. left \in Seq(Units) /\ Len(left) <= Len(c.out)
    BY <2>2, <2>3, Stretch
  <2>5. sent \in Seq(Units) /\ Len(sent) = n
    BY <2>2, <2>3, Beginning
  <2>6. /\ s.toClient[c.peer] \o sent \in Seq(Units)
        /\ Len(s.toClient[c.peer] \o sent) <= SockBuf
    <3> HIDE DEF sent
    <3>1. /\ s.toClient[c.peer] \o sent \in Seq(Units)
          /\ Len(s.toClient[c.peer] \o sent) = Len(s.toClient[c.peer]) + n
      BY <2>1, <2>5, Joined
    <3>2. Len(s.toClient[c.peer]) \in Nat /\ n \in Nat
      BY <2>1, <2>2, <2>3
    <3> QED
      BY <2>2, <2>3, <3>1, <3>2
  <2> HIDE DEF left, sent
  <2>7. left = <<>> => Len(left) = 0
    OBVIOUS
  <2>8. /\ d \in Clients /\ d.peer = c.peer /\ d.in = c.in /\ d.out = left
        /\ d.used = IF left = <<>> THEN 0 ELSE c.used
    BY <2>1, <2>2, <2>4 DEF Clients
  <2>9. ClientOK(d)
    <3>1. d.peer # NoPeer
      BY <2>1, <2>8, UdsAssumption
    <3>2. Len(d.in) <= ReadBuf
      BY <2>1, <2>8 DEF ClientOK
    <3>3. Len(d.out) <= d.used /\ d.used <= WriteBuf
      <4>1. c.used <= WriteBuf /\ 0 <= WriteBuf /\ WriteBuf \in Nat
        BY <2>1, <2>2, UdsAssumption DEF ClientOK
      <4>2. Len(left) \in Nat /\ Len(c.out) \in Nat
        BY <2>2, <2>4
      <4> QED
        BY <2>2, <2>4, <2>7, <2>8, <4>1, <4>2
    <3> QED
      BY <2>8, <3>1, <3>2, <3>3 DEF ClientOK
  <2>10. /\ u \in Tables /\ u.client = s.client /\ u.link = s.link
         /\ u.toClient = [s.toClient EXCEPT ![c.peer] = @ \o sent]
    BY <2>1, <2>6 DEF Tables
  <2> HIDE DEF u
  <2>11. TableOK(u)
    BY <2>1, <2>6, <2>10 DEF TableOK, Tables
  <2>12. Good(u, [u EXCEPT !.client[f] = d])
    BY <2>8, <2>9, <2>10, <2>11, EntryChanges
  <2>13. t = [u EXCEPT !.client[f] = d]
    BY <2>1, <2>10 DEF Tables, t, u, d, sent, Clients
  <2>14. ClientWrite(s, f) = t
    BY <1>3 DEF ClientWrite, t, left, n
  <2>15. Good(s, t)
    <3>1. TableOK(t)
      BY <2>12, <2>13 DEF Good
    <3>2. t.link = s.link /\ \A g \in Fds : t.client[g].peer = s.client[g].peer
      <4>1. /\ t.link = u.link
            /\ t.client = [u.client EXCEPT ![f] = d]
        BY <2>10, <2>13 DEF Tables
      <4>2. \A g \in Fds : t.client[g] = IF g = f THEN d ELSE u.client[g]
        BY <2>10, <4>1 DEF Tables
      <4> QED
        BY <2>8, <2>10, <4>1, <4>2
    <3> QED
      BY <3>1, <3>2, OnlyBuffers
  <2> QED
    BY <2>14, <2>15
<1> QED
  BY <1>1, <1>2, <1>3

(* With evaluates its argument once: the value is the operator's.          *)
LEMMA WriteOnce ==
    ASSUME NEW s, NEW f
    PROVE  With(s, LAMBDA t : ClientWrite(t, f)) = ClientWrite(s, f)
<1>1. {ClientWrite(z, f) : z \in {s}} = {ClientWrite(s, f)}
  OBVIOUS
<1>2. (CHOOSE y \in {ClientWrite(s, f)} : TRUE) = ClientWrite(s, f)
  OBVIOUS
<1> QED
  BY <1>1, <1>2 DEF With

(* client_enqueue                                                          *)
LEMMA ClientEnqueueGood ==
    ASSUME NEW s, TableOK(s), NEW f \in Fds, NEW v \in Seq(Units)
    PROVE  Good(s, ClientEnqueue(s, f, v))
<1> DEFINE c == s.client[f]
           d == [c EXCEPT !.out = @ \o v, !.used = @ + Len(v)]
           t == [s EXCEPT !.client[f].out = @ \o v, !.client[f].used = @ + Len(v)]
<1>1. CASE c.peer = NoPeer
  BY <1>1, ClosesItself DEF ClientEnqueue, Good
<1>2. CASE c.peer # NoPeer /\ c.used + Len(v) > WriteBuf
  BY <1>2, CloseClientGood DEF ClientEnqueue
<1>3. CASE c.peer # NoPeer /\ ~(c.used + Len(v) > WriteBuf)
  <2>1. s \in Tables /\ ClientOK(c) /\ c \in Clients
    BY DEF TableOK, Tables
  <2>2. /\ c.out \in Seq(Units) /\ c.used \in Nat /\ Len(c.out) <= c.used
        /\ Len(c.in) <= ReadBuf
    BY <2>1 DEF ClientOK, Clients
  <2>3. c.out \o v \in Seq(Units) /\ Len(c.out \o v) = Len(c.out) + Len(v)
    BY <2>2, Joined
  <2>4. c.used + Len(v) \in Nat /\ c.used + Len(v) <= WriteBuf
    <3>1. Len(v) \in Nat /\ WriteBuf \in Nat
      BY UdsAssumption
    <3> QED
      BY <1>3, <2>2, <3>1
  <2>5. Len(c.out \o v) <= c.used + Len(v)
    <3>1. Len(c.out) \in Nat /\ Len(v) \in Nat
      BY <2>2
    <3> QED
      BY <2>2, <2>3, <3>1
  <2>6. /\ d \in Clients /\ d.peer = c.peer /\ d.in = c.in
        /\ d.out = c.out \o v /\ d.used = c.used + Len(v)
    BY <2>1, <2>3, <2>4 DEF Clients
  <2> HIDE DEF d
  <2>7. ClientOK(d)
    BY <1>3, <2>2, <2>4, <2>5, <2>6 DEF ClientOK
  <2>8. Good(s, [s EXCEPT !.client[f] = d])
    BY <2>6, <2>7, EntryChanges
  <2>9. t = [s EXCEPT !.client[f] = d]
    BY <2>1 DEF t, d, Tables, Clients
  <2> HIDE DEF t
  <2>10. Good(s, t)
    BY <2>8, <2>9
  <2>11. Good(t, ClientWrite(t, f))
    BY <2>10, ClientWriteGood DEF Good
  <2>12. ClientEnqueue(s, f, v) = ClientWrite(t, f)
    BY <1>3, WriteOnce DEF ClientEnqueue, t
  <2>13. \A g \in Fds : ClientWrite(t, f).client[g].peer \in {s.client[g].peer, NoPeer}
    BY <2>10, <2>11 DEF Good, Closes
  <2>14. \A g \in Fds : t.client[g].peer = s.client[g].peer
    <3>1. t.client = [s.client EXCEPT ![f] = d]
      BY <2>1, <2>9 DEF Tables
    <3> QED
      BY <2>1, <2>6, <3>1 DEF Tables
  <2>15. t.link = s.link
    BY <2>1, <2>9 DEF Tables
  <2>16. Closes(s, ClientWrite(t, f))
    <3>1. \A p \in Peers : Loses(s, ClientWrite(t, f), p) <=> Loses(t, ClientWrite(t, f), p)
      BY <2>14 DEF Loses
    <3> QED
      BY <2>11, <2>13, <2>15, <3>1 DEF Good, Closes
  <2> QED
    BY <2>11, <2>12, <2>16 DEF Good
<1> QED
  BY <1>1, <1>2, <1>3

(* The second part of a frame follows the first.                           *)
LEMMA EnqueueOnce ==
    ASSUME NEW s, NEW f, NEW v
    PROVE  With(s, LAMBDA t : ClientEnqueue(t, f, v)) = ClientEnqueue(s, f, v)
<1>1. {ClientEnqueue(z, f, v) : z \in {s}} = {ClientEnqueue(s, f, v)}
  OBVIOUS
<1>2. (CHOOSE y \in {ClientEnqueue(s, f, v)} : TRUE) = ClientEnqueue(s, f, v)
  OBVIOUS
<1> QED
  BY <1>1, <1>2 DEF With

(* The frames that the server sends.                                       *)
Frames == {Frame(kind, id) : kind \in {"answer", "notice"}, id \in Nat}

(* client_send_frame: whatever happens to the header, the body follows.    *)
LEMMA ClientSendFrameGood ==
    ASSUME NEW s, TableOK(s), Distinct(s), NEW f \in Fds, NEW frame \in Frames
    PROVE  Good(s, ClientSendFrame(s, f, frame))
<1>1. <<frame[1]>> \in Seq(Units) /\ <<frame[2]>> \in Seq(Units)
  BY DEF Frames, Frame, Unit, Units
<1> DEFINE t == ClientEnqueue(s, f, <<frame[1]>>)
           u == ClientEnqueue(t, f, <<frame[2]>>)
<1>2. Good(s, t)
  BY <1>1, ClientEnqueueGood
<1> HIDE DEF t
<1>3. Good(t, u)
  BY <1>1, <1>2, ClientEnqueueGood DEF Good
<1>4. ClientSendFrame(s, f, frame) = u
  BY EnqueueOnce DEF ClientSendFrame, t
<1> HIDE DEF u
<1>5. Good(s, u)
  BY <1>2, <1>3, ClosesThenCloses DEF Good
<1> QED
  BY <1>4, <1>5

(* Every client gets the notice, each in a table of its own: what happened *)
(* to a client is taken from its own table.                                *)
LEMMA MergeGood ==
    ASSUME NEW s, TableOK(s), Distinct(s), NEW after, \A f \in Fds : Good(s, after[f])
    PROVE  Good(s, Merge(s, after))
<1> DEFINE t == Merge(s, after)
<1>0. NoPeer \notin Peers
  BY UdsAssumption
<1>1. /\ t.client = [f \in Fds |-> after[f].client[f]]
      /\ t.link = [p \in Peers |->
                     IF \E f \in Fds : /\ s.client[f].peer # after[f].client[f].peer
                                       /\ s.client[f].peer = p
                     THEN "shut" ELSE s.link[p]]
      /\ t.toClient = [p \in Peers |->
                         IF \E f \in Fds : s.client[f].peer = p
                         THEN after[CHOOSE f \in Fds : s.client[f].peer = p].toClient[p]
                         ELSE s.toClient[p]]
      /\ t = [client |-> t.client, link |-> t.link, toClient |-> t.toClient]
  BY DEF Merge
<1> HIDE DEF t
<1>2. s \in Tables /\ \A f \in Fds : TableOK(after[f]) /\ after[f] \in Tables
  BY DEF TableOK, Good
<1>3. \A f \in Fds : t.client[f] = after[f].client[f] /\ ClientOK(t.client[f])
  BY <1>1 DEF Good, TableOK
<1>4. t.client \in [Fds -> Clients]
  BY <1>1, <1>2 DEF Tables
<1>5. t.link \in [Peers -> Links]
  BY <1>1, <1>2 DEF Tables, Links
<1>6. ASSUME NEW p \in Peers
      PROVE  t.toClient[p] \in Seq(Units) /\ Len(t.toClient[p]) <= SockBuf
  <2>1. CASE \E f \in Fds : s.client[f].peer = p
    <3>1. PICK f \in Fds : t.toClient[p] = after[f].toClient[p]
      BY <1>1, <2>1
    <3> QED
      BY <1>2, <3>1 DEF TableOK, Tables
  <2>2. CASE ~\E f \in Fds : s.client[f].peer = p
    BY <1>1, <1>2, <2>2 DEF TableOK, Tables
  <2> QED
    BY <2>1, <2>2
<1>7. t.toClient \in [Peers -> Seq(Units)]
  <2>1. t.toClient = [p \in Peers |-> t.toClient[p]]
    BY <1>1
  <2> QED
    BY <1>6, <2>1
<1>8. t \in Tables
  BY <1>1, <1>4, <1>5, <1>7 DEF Tables
<1>9. TableOK(t)
  BY <1>3, <1>6, <1>8 DEF TableOK
<1>10. \A f \in Fds : t.client[f].peer \in {s.client[f].peer, NoPeer}
  BY <1>3 DEF Good, Closes
<1>11. ASSUME NEW p \in Peers
       PROVE  t.link[p] = IF Loses(s, t, p) THEN "shut" ELSE s.link[p]
  <2>1. Loses(s, t, p) <=> \E f \in Fds : /\ s.client[f].peer # after[f].client[f].peer
                                          /\ s.client[f].peer = p
    BY <1>3 DEF Loses
  <2> QED
    BY <1>1, <2>1
<1> QED
  BY <1>9, <1>10, <1>11 DEF Good, Closes, t

(* typio_uds_server_broadcast                                              *)
LEMMA BroadcastGood ==
    ASSUME NEW s, TableOK(s), Distinct(s)
    PROVE  Good(s, Broadcast(s))
<1> DEFINE after == [f \in Fds |-> ClientSendFrame(s, f, Notice)]
<1>1. Notice \in Frames
  BY DEF Notice, Frames
<1>2. \A f \in Fds : Good(s, after[f])
  BY <1>1, ClientSendFrameGood
<1> HIDE DEF after
<1>3. Good(s, Merge(s, after))
  BY <1>2, MergeGood
<1>4. {Merge(s, z) : z \in {after}} = {Merge(s, after)}
  OBVIOUS
<1>5. (CHOOSE y \in {Merge(s, after)} : TRUE) = Merge(s, after)
  OBVIOUS
<1>6. Broadcast(s) = Merge(s, after)
  BY <1>4, <1>5 DEF Broadcast, With, after
<1> QED
  BY <1>3, <1>6

-----------------------------------------------------------------------------
(* The invariant holds at first, and each step keeps it.                   *)

(* A server that starts satisfies the invariant.                           *)
LEMMA InitOK == Init => IInv
<1> SUFFICES ASSUME Init PROVE IInv
  OBVIOUS
<1>1. /\ Now.client = client /\ Now.link = link /\ Now.toClient = toClient
      /\ \A f \in Fds : client[f] = Free
      /\ \A p \in Peers : link[p] = "none" /\ toClient[p] = <<>>
  BY DEF Init, Now
<1>2. TableOK(Now)
  <2>1. Now \in Tables
    <3> DEFINE nil == <<>>
    <3>1. nil \in Seq(Units)
      OBVIOUS
    <3>2. toClient = [p \in Peers |-> nil]
      BY DEF Init
    <3> HIDE DEF nil
    <3>3. toClient \in [Peers -> Seq(Units)]
      BY <3>1, <3>2
    <3>4. client \in [Fds -> Clients] /\ link \in [Peers -> Links]
      BY FreeIsOK DEF Init, Links
    <3> QED
      BY <3>3, <3>4 DEF Tables, Now
  <2>2. \A p \in Peers : Len(toClient[p]) <= SockBuf
    <3>1. Len(<<>>) = 0 /\ SockBuf \in Nat
      BY UdsAssumption
    <3> QED
      BY <1>1, <3>1
  <2> QED
    BY <1>1, <2>1, <2>2, FreeIsOK DEF TableOK
<1>3. Owned(Now)
  BY <1>1, FreeIsOK, UdsAssumption DEF Owned, Distinct
<1>4. backlog \in Seq(Peers) /\ Queued(link, backlog)
  <2>1. backlog = <<>> /\ Len(<<>>) = 0
    BY DEF Init
  <2>2. 1..Len(backlog) = {}
    BY <2>1
  <2> QED
    BY <1>1, <2>1, <2>2 DEF Queued
<1>5. Streams
  <2> DEFINE nil == <<>>
  <2>1. nil \in Seq(Units)
    OBVIOUS
  <2>2. /\ asked = [p \in Peers |-> nil] /\ toServer = [p \in Peers |-> nil] /\ due = {}
        /\ alive = [p \in Peers |-> TRUE] /\ got = [p \in Peers |-> nil]
    BY DEF Init
  <2> HIDE DEF nil
  <2> QED
    BY <2>1, <2>2 DEF Streams
<1>6. CurOK /\ Events /\ Life
  BY DEF Init, CurOK, Events, Life
<1> QED
  BY <1>2, <1>3, <1>4, <1>5, <1>6 DEF IInv, Core

(* A table that is handed on becomes the state.                            *)
LEMMA BecomesKeeps ==
    ASSUME Core, Streams, NEW s, Good(Now, s), Becomes(s), UNCHANGED <<backlog, peers, got>>
    PROVE  Core' /\ Streams' /\ client' = s.client
<1>1. /\ client' = s.client /\ link' = s.link /\ toClient' = s.toClient
      /\ toServer' = [p \in Peers |-> IF s.link[p] = "shut" THEN << >> ELSE toServer[p]]
  BY DEF Becomes
<1>2. s \in Tables
  BY DEF Good, TableOK
<1>3. Now' = s
  BY <1>1, <1>2 DEF Now, Tables
<1>4. /\ Owned(s)
      /\ \A p \in Peers : s.link[p] = "queued" <=> Now.link[p] = "queued"
  BY ClosesKeeps DEF Core, Good
<1>5. TableOK(Now') /\ Owned(Now')
  BY <1>3, <1>4 DEF Good
<1>6. Queued(link', backlog')
  BY <1>1, <1>4 DEF Core, Queued, Now
<1>7. toServer' \in [Peers -> Seq(Units)]
  <2> DEFINE nil == <<>>
  <2>1. nil \in Seq(Units)
    OBVIOUS
  <2>2. toServer' = [p \in Peers |-> IF s.link[p] = "shut" THEN nil ELSE toServer[p]]
    BY <1>1
  <2> HIDE DEF nil
  <2> QED
    BY <2>1, <2>2 DEF Streams
<1>8. Streams'
  BY <1>7 DEF Streams, peers
<1>9. Core'
  BY <1>5, <1>6 DEF Core
<1> QED
  BY <1>1, <1>8, <1>9

(* The same table and queue.                                               *)
LEMMA CoreStays ==
    ASSUME Core, UNCHANGED <<client, link, toClient, backlog>>
    PROVE  Core'
<1>1. Now' = Now
  BY DEF Now
<1> QED
  BY <1>1 DEF Core

(* A client that reads or ends takes units out of its kernel buffer.       *)
LEMMA Drained ==
    ASSUME Core, NEW p \in Peers, NEW v \in Seq(Units), Len(v) <= SockBuf,
           toClient' = [toClient EXCEPT ![p] = v], UNCHANGED <<client, link, backlog>>
    PROVE  Core'
<1>1. /\ Now \in Tables /\ Now.client = client /\ Now.link = link /\ Now.toClient = toClient
      /\ Now'.client = client /\ Now'.link = link /\ Now'.toClient = toClient'
      /\ Now' = [client |-> client, link |-> link, toClient |-> toClient']
  BY DEF Core, TableOK, Now
<1>2. toClient' \in [Peers -> Seq(Units)]
  BY <1>1 DEF Tables
<1>3. \A q \in Peers : toClient'[q] = IF q = p THEN v ELSE toClient[q]
  BY <1>1 DEF Tables
<1>4. Now' \in Tables
  BY <1>1, <1>2 DEF Tables
<1>5. TableOK(Now')
  BY <1>1, <1>3, <1>4 DEF Core, TableOK
<1>6. Owned(Now')
  BY <1>1 DEF Core, Owned, Distinct
<1> QED
  BY <1>5, <1>6 DEF Core

-----------------------------------------------------------------------------
(* The clients' steps.                                                     *)

(* A client connects.                                                      *)
LEMMA ConnectKeeps == ASSUME IInv, NEW p \in Peers, Connect(p) PROVE IInv'
<1>1. /\ link' = [link EXCEPT ![p] = "queued"] /\ backlog' = Append(backlog, p)
      /\ link[p] = "none"
      /\ UNCHANGED <<client, toClient>>
  BY DEF Connect
<1>2. /\ Now \in Tables /\ Now.client = client /\ Now.link = link /\ Now.toClient = toClient
      /\ Now'.client = client /\ Now'.link = link' /\ Now'.toClient = toClient
      /\ Now' = [client |-> client, link |-> link', toClient |-> toClient]
  BY <1>1 DEF IInv, Core, TableOK, Now
<1>3. \A q \in Peers : link'[q] = IF q = p THEN "queued" ELSE link[q]
  BY <1>1, <1>2 DEF Tables
<1>4. TableOK(Now')
  <2>1. Now' \in Tables
    BY <1>1, <1>2 DEF Tables, Links
  <2> QED
    BY <1>2, <2>1 DEF IInv, Core, TableOK
<1>5. Owned(Now')
  BY <1>1, <1>2, <1>3 DEF IInv, Core, Owned, Distinct
<1>6. backlog' \in Seq(Peers) /\ Queued(link', backlog')
  <2>1. backlog \in Seq(Peers) /\ Len(backlog) \in Nat /\ Queued(link, backlog)
    BY DEF IInv, Core
  <2>2. /\ backlog' \in Seq(Peers) /\ Len(backlog') = Len(backlog) + 1
        /\ \A k \in 1..Len(backlog) : backlog'[k] = backlog[k]
        /\ backlog'[Len(backlog) + 1] = p
    BY <1>1, <2>1
  <2>3. /\ \A k \in 1..Len(backlog') : k \in 1..Len(backlog) \/ k = Len(backlog) + 1
        /\ \A k \in 1..Len(backlog) : k \in 1..Len(backlog')
        /\ Len(backlog) + 1 \in 1..Len(backlog')
    BY <2>1, <2>2
  <2>4. \A k \in 1..Len(backlog) : backlog[k] # p
    BY <1>1, <2>1 DEF Queued
  <2>5. \A q \in Peers : link'[q] = "queued" <=> \E k \in 1..Len(backlog') : backlog'[k] = q
    BY <1>3, <2>1, <2>2, <2>3 DEF Queued
  <2>6. \A j, k \in 1..Len(backlog') : backlog'[j] = backlog'[k] => j = k
    BY <2>1, <2>2, <2>3, <2>4 DEF Queued
  <2> QED
    BY <2>2, <2>5, <2>6 DEF Queued
<1>7. Core'
  BY <1>4, <1>5, <1>6 DEF Core
<1>8. Streams' /\ CurOK' /\ Events' /\ Life'
  BY <1>1 DEF IInv, Connect, Streams, CurOK, Events, Life, server, peers
<1> QED
  BY <1>7, <1>8 DEF IInv

(* A client writes the header of a frame.                                  *)
LEMMA SendHeadKeeps ==
    ASSUME IInv, NEW p \in Peers, NEW kind \in Kinds, SendHead(p, kind)
    PROVE  IInv'
<1> DEFINE u == Unit("head", kind, Len(asked[p]) + 1)
<1>1. /\ asked' = [asked EXCEPT ![p] = Append(@, u)]
      /\ toServer' = [toServer EXCEPT ![p] = Append(@, u)]
      /\ due' = due \union {p}
      /\ UNCHANGED <<server, backlog, client, batch, cur, link, alive, toClient, got>>
  BY DEF SendHead
<1>2. asked[p] \in Seq(Units) /\ toServer[p] \in Seq(Units)
  BY DEF IInv, Streams
<1>3. u \in Units
  <2>1. Len(asked[p]) + 1 \in Nat
    BY <1>2
  <2> QED
    BY <2>1 DEF Unit, Units
<1> HIDE DEF u
<1>4. /\ Append(asked[p], u) \in Seq(Units) /\ Append(toServer[p], u) \in Seq(Units)
      /\ Append(asked[p], u) # <<>>
  BY <1>2, <1>3
<1>5. Streams'
  BY <1>1, <1>4 DEF IInv, Streams
<1>6. Core'
  BY <1>1, CoreStays DEF IInv
<1>7. CurOK' /\ Events' /\ Life'
  BY <1>1 DEF IInv, CurOK, Events, Life, server
<1> QED
  BY <1>5, <1>6, <1>7 DEF IInv

(* A client writes the body.                                               *)
LEMMA SendBodyKeeps == ASSUME IInv, NEW p \in Peers, SendBody(p) PROVE IInv'
<1> DEFINE v == Rest(Last(asked[p]))
<1>1. /\ toServer' = [toServer EXCEPT ![p] = @ \o v] /\ due' = due \ {p} /\ p \in due
      /\ UNCHANGED <<server, backlog, client, batch, cur, link, alive, asked, toClient, got>>
  BY DEF SendBody
<1>2. asked[p] \in Seq(Units) /\ toServer[p] \in Seq(Units) /\ asked[p] # <<>>
  BY <1>1 DEF IInv, Streams
<1>3. v \in Seq(Units)
  <2>1. Last(asked[p]) \in Units
    BY <1>2 DEF Last
  <2>2. Body(Last(asked[p]).kind) \in Nat
    BY UdsAssumption DEF Body
  <2>3. \A k \in 1 .. Body(Last(asked[p]).kind) :
          Unit("body", Last(asked[p]).kind, Last(asked[p]).id) \in Units
    BY <2>1 DEF Unit, Units
  <2> QED
    BY <2>2, <2>3 DEF Rest
<1> HIDE DEF v
<1>4. toServer[p] \o v \in Seq(Units)
  BY <1>2, <1>3, Joined
<1>5. Streams'
  BY <1>1, <1>4 DEF IInv, Streams
<1>6. Core'
  BY <1>1, CoreStays DEF IInv
<1>7. CurOK' /\ Events' /\ Life'
  BY <1>1 DEF IInv, CurOK, Events, Life, server
<1> QED
  BY <1>5, <1>6, <1>7 DEF IInv

(* A client reads what has arrived.                                        *)
LEMMA ReadKeeps == ASSUME IInv, NEW p \in Peers, Read(p) PROVE IInv'
<1> DEFINE n == IF p \in Cli /\ 2 - Len(got[p]) < Len(toClient[p])
                THEN 2 - Len(got[p]) ELSE Len(toClient[p])
           v == SubSeq(toClient[p], n + 1, Len(toClient[p]))
           w == SubSeq(toClient[p], 1, n)
<1>1. /\ toClient' = [toClient EXCEPT ![p] = SubSeq(@, n + 1, Len(@))] /\ n > 0
      /\ got' = [got EXCEPT ![p] = @ \o w]
      /\ UNCHANGED <<server, backlog, client, batch, cur, link, peers, toServer>>
  BY DEF Read
<1>2. toClient \in [Peers -> Seq(Units)] /\ Len(toClient[p]) <= SockBuf
  BY DEF IInv, Core, TableOK, Tables, Now
<1>3. toClient' = [toClient EXCEPT ![p] = v]
  BY <1>1, <1>2
<1>4. toClient[p] \in Seq(Units) /\ Len(toClient[p]) \in Nat /\ SockBuf \in Nat
  BY <1>2, UdsAssumption
<1>5. n \in 0..Len(toClient[p])
  <2>1. got[p] \in Seq(Units) /\ Len(got[p]) \in Nat
    BY DEF IInv, Streams
  <2> QED
    BY <1>1, <1>4, <2>1
<1> HIDE DEF n
<1>6. v \in Seq(Units) /\ Len(v) <= SockBuf
  <2>1. n + 1 \in Nat \ {0}
    BY <1>4, <1>5
  <2>2. v \in Seq(Units) /\ Len(v) <= Len(toClient[p])
    BY <1>4, <2>1, Stretch
  <2>3. Len(v) \in Nat
    BY <2>2
  <2> QED
    BY <1>2, <1>4, <2>2, <2>3
<1>7. w \in Seq(Units)
  BY <1>4, <1>5, Beginning
<1> HIDE DEF v, w
<1>8. Core'
  BY <1>1, <1>3, <1>6, Drained DEF IInv
<1>9. got' \in [Peers -> Seq(Units)]
  <2>1. got \in [Peers -> Seq(Units)]
    BY DEF IInv, Streams
  <2>2. got[p] \o w \in Seq(Units)
    BY <1>7, <2>1, Joined
  <2> QED
    BY <1>1, <2>1, <2>2
<1>10. Streams' /\ CurOK' /\ Events' /\ Life'
  BY <1>1, <1>9 DEF IInv, Streams, CurOK, Events, Life, server, peers
<1> QED
  BY <1>8, <1>10 DEF IInv

(* A client hangs up.                                                      *)
LEMMA CloseKeeps == ASSUME IInv, NEW p \in Peers, Close(p) PROVE IInv'
<1> DEFINE v == <<>>
<1>1. /\ toClient' = [toClient EXCEPT ![p] = v] /\ alive' = [alive EXCEPT ![p] = FALSE]
      /\ got' = [got EXCEPT ![p] = v]
      /\ UNCHANGED <<server, backlog, client, batch, cur, link, asked, due, toServer>>
  BY DEF Close
<1>2. v \in Seq(Units) /\ Len(v) <= SockBuf
  BY UdsAssumption
<1> HIDE DEF v
<1>3. Core'
  BY <1>1, <1>2, Drained DEF IInv
<1>4. Streams' /\ CurOK' /\ Events' /\ Life'
  BY <1>1, <1>2 DEF IInv, Streams, CurOK, Events, Life, server
<1> QED
  BY <1>3, <1>4 DEF IInv

-----------------------------------------------------------------------------
(* The server's steps.                                                     *)

(* A round of the loop begins.                                             *)
LEMMA EpollWaitKeeps == ASSUME IInv, EpollWait PROVE IInv'
<1>1. UNCHANGED <<server, backlog, client, cur, link, peers, toServer, toClient, got>>
  BY DEF EpollWait
<1>2. Events'
  <2> SUFFICES ASSUME NEW e \in batch'
               PROVE  e.fd \in Fds \cup {Listen} /\ e.hup \in BOOLEAN
    BY DEF Events
  <2>1. \/ \E f \in Used : e = [fd |-> f, hup |-> ~alive[client[f].peer]]
        \/ e = [fd |-> Listen, hup |-> FALSE]
    BY DEF EpollWait
  <2>2. \A f \in Used : f \in Fds
    BY DEF Used
  <2>3. \A f \in Used : (~alive[client[f].peer]) \in BOOLEAN
    OBVIOUS
  <2>4. CASE \E f \in Used : e = [fd |-> f, hup |-> ~alive[client[f].peer]]
    <3>1. PICK f \in Used : e = [fd |-> f, hup |-> ~alive[client[f].peer]]
      BY <2>4
    <3>2. e.fd = f /\ e.hup = ~alive[client[f].peer]
      BY <3>1
    <3>3. f \in Fds
      BY <2>2
    <3> QED
      BY <2>3, <3>2, <3>3
  <2>5. CASE e = [fd |-> Listen, hup |-> FALSE]
    BY <2>5
  <2> QED
    BY <2>1, <2>4, <2>5
<1>3. Core'
  BY <1>1, CoreStays DEF IInv
<1>4. Streams' /\ CurOK' /\ Life'
  BY <1>1 DEF IInv, Streams, CurOK, Life, server, peers
<1> QED
  BY <1>2, <1>3, <1>4 DEF IInv

(* The head of the listen queue leaves it and waits no longer.             *)
LEMMA TakenFromQueue ==
    ASSUME backlog \in Seq(Peers), Queued(link, backlog), backlog # <<>>,
           link \in [Peers -> Links], NEW l \in Links \ {"queued"},
           link' = [link EXCEPT ![Head(backlog)] = l], backlog' = Tail(backlog)
    PROVE  /\ Head(backlog) \in Peers /\ link[Head(backlog)] = "queued"
           /\ backlog' \in Seq(Peers) /\ Queued(link', backlog')
<1> DEFINE n == Len(backlog)
           p == Head(backlog)
<1>1. /\ n \in Nat \ {0} /\ p = backlog[1] /\ p \in Peers
      /\ backlog' \in Seq(Peers) /\ Len(backlog') = n - 1
      /\ \A k \in 1..(n-1) : backlog'[k] = backlog[k+1]
  OBVIOUS
<1>2. /\ 1 \in 1..n /\ \A k \in 1..(n-1) : k + 1 \in 1..n
      /\ \A k \in 1..n : k # 1 => k - 1 \in 1..(n-1) /\ (k - 1) + 1 = k
  BY <1>1
<1>3. link[p] = "queued"
  BY <1>1, <1>2 DEF Queued
<1>4. \A q \in Peers : link'[q] = IF q = p THEN l ELSE link[q]
  BY <1>1
<1>5. \A k \in 1..(n-1) : backlog'[k] # p
  <2> SUFFICES ASSUME NEW k \in 1..(n-1), backlog'[k] = p PROVE FALSE
    OBVIOUS
  <2>1. backlog[k+1] = backlog[1]
    BY <1>1
  <2>2. k + 1 = 1
    BY <1>2, <2>1 DEF Queued
  <2> QED
    BY <2>2
<1>6. \A q \in Peers : (\E k \in 1..n : backlog[k] = q)
                         <=> (q = p \/ \E k \in 1..(n-1) : backlog'[k] = q)
  BY <1>1, <1>2
<1>7. \A j, k \in 1..(n-1) : backlog'[j] = backlog'[k] => j = k
  <2> SUFFICES ASSUME NEW j \in 1..(n-1), NEW k \in 1..(n-1), backlog'[j] = backlog'[k]
               PROVE  j = k
    OBVIOUS
  <2>1. backlog[j+1] = backlog[k+1]
    BY <1>1
  <2>2. j + 1 = k + 1
    BY <1>2, <2>1 DEF Queued
  <2> QED
    BY <2>2
<1>8. \A q \in Peers : link'[q] = "queued" <=> \E k \in 1..(n-1) : backlog'[k] = q
  BY <1>3, <1>4, <1>5, <1>6 DEF Queued
<1>9. Queued(link', backlog')
  BY <1>1, <1>7, <1>8 DEF Queued
<1> QED
  BY <1>1, <1>3, <1>9

(* The listening socket is ready.                                          *)
LEMMA AcceptKeeps == ASSUME IInv, Accept PROVE IInv'
<1> DEFINE p == Head(backlog)
<1>0. /\ backlog # <<>> /\ backlog' = Tail(backlog) /\ batch' \subseteq batch /\ cur = Idle
      /\ UNCHANGED <<server, cur, peers, toClient, got>>
  BY DEF Accept, NextEvent
<1>1. /\ Now \in Tables /\ Now.client = client /\ Now.link = link /\ Now.toClient = toClient
      /\ Now'.client = client' /\ Now'.link = link' /\ Now'.toClient = toClient
      /\ Now' = [client |-> client', link |-> link', toClient |-> toClient]
      /\ client \in [Fds -> Clients] /\ link \in [Peers -> Links]
  BY <1>0 DEF IInv, Core, TableOK, Now, Tables
<1>2. Events' /\ CurOK' /\ Life'
  BY <1>0 DEF IInv, Events, CurOK, Life, server
<1>3. NoPeer \notin Peers
  BY UdsAssumption
<1>4. CASE FreeClient = {}
  <2>1. /\ link' = [link EXCEPT ![p] = "shut"] /\ client' = client
        /\ toServer' = [toServer EXCEPT ![p] = << >>]
    BY <1>4 DEF Accept
  <2>2. p \in Peers /\ link[p] = "queued" /\ backlog' \in Seq(Peers) /\ Queued(link', backlog')
    BY <1>0, <1>1, <2>1, TakenFromQueue DEF IInv, Core, Links
  <2>3. \A q \in Peers : link'[q] = IF q = p THEN "shut" ELSE link[q]
    BY <1>1, <2>1
  <2>4. TableOK(Now')
    <3>1. link' \in [Peers -> Links]
      BY <1>1, <2>1 DEF Links
    <3>2. Now' \in Tables
      BY <1>1, <2>1, <3>1 DEF Tables
    <3> QED
      BY <1>1, <2>1, <3>2 DEF IInv, Core, TableOK
  <2>5. Owned(Now')
    BY <1>1, <2>1, <2>2, <2>3 DEF IInv, Core, Owned, Distinct
  <2>6. Streams'
    <3> DEFINE nil == <<>>
    <3>1. nil \in Seq(Units) /\ toServer' = [toServer EXCEPT ![p] = nil]
      BY <2>1
    <3> HIDE DEF nil
    <3> QED
      BY <1>0, <3>1 DEF IInv, Streams, peers
  <2> QED
    BY <1>2, <2>2, <2>4, <2>5, <2>6 DEF IInv, Core
<1>5. CASE FreeClient # {}
  <2>1. PICK f \in FreeClient :
          /\ client' = [client EXCEPT ![f] = [Free EXCEPT !.peer = p]]
          /\ link' = [link EXCEPT ![p] = "open"] /\ UNCHANGED toServer
    BY <1>5 DEF Accept
  <2> DEFINE c == [Free EXCEPT !.peer = p]
  <2>2. f \in Fds /\ client[f].peer = NoPeer
    BY DEF FreeClient, Used
  <2>3. p \in Peers /\ link[p] = "queued" /\ backlog' \in Seq(Peers) /\ Queued(link', backlog')
    BY <1>0, <1>1, <2>1, TakenFromQueue DEF IInv, Core, Links
  <2>4. c \in Clients /\ ClientOK(c) /\ c.peer = p
    <3>1. /\ c = [peer |-> p, in |-> <<>>, out |-> <<>>, used |-> 0]
      BY DEF Free
    <3>2. c \in Clients
      BY <2>3, FreeIsOK DEF Clients
    <3>3. Len(c.in) = 0 /\ Len(c.out) = 0 /\ c.used = 0 /\ c.peer = p
      BY <3>1
    <3> QED
      BY <1>3, <2>3, <3>2, <3>3, UdsAssumption DEF ClientOK
  <2> HIDE DEF c
  <2>5. client' = [client EXCEPT ![f] = c]
    BY <2>1 DEF c
  <2>6. /\ \A g \in Fds : client'[g] = IF g = f THEN c ELSE client[g]
        /\ \A q \in Peers : link'[q] = IF q = p THEN "open" ELSE link[q]
    BY <1>1, <2>1, <2>5
  <2>7. TableOK(Now')
    <3>1. link' \in [Peers -> Links] /\ client' \in [Fds -> Clients]
      BY <1>1, <2>1, <2>4, <2>5 DEF Links
    <3>2. Now' \in Tables
      BY <1>1, <3>1 DEF Tables
    <3> QED
      BY <1>1, <2>4, <2>6, <3>2 DEF IInv, Core, TableOK
  <2>8. \A g \in Fds : client[g].peer # p
    BY <1>1, <2>3 DEF IInv, Core, Owned
  <2>9. Distinct(Now')
    BY <1>1, <1>3, <2>4, <2>6, <2>8 DEF IInv, Core, Owned, Distinct
  <2>10. ASSUME NEW q \in Peers
         PROVE  link'[q] = "open" <=> \E g \in Fds : client'[g].peer = q
    <3>1. CASE q = p
      BY <2>2, <2>4, <2>6, <3>1
    <3>2. CASE q # p
      <4>1. link[q] = "open" <=> \E g \in Fds : client[g].peer = q
        BY <1>1 DEF IInv, Core, Owned
      <4>2. \A g \in Fds : client'[g].peer = q <=> client[g].peer = q
        BY <1>3, <2>2, <2>4, <2>6, <3>2
      <4> QED
        BY <2>6, <3>2, <4>1, <4>2
    <3> QED
      BY <3>1, <3>2
  <2>11. Owned(Now')
    BY <1>1, <2>9, <2>10 DEF Owned
  <2>12. Streams'
    BY <1>0, <2>1 DEF IInv, Streams, peers
  <2> QED
    BY <1>2, <2>3, <2>7, <2>11, <2>12 DEF IInv, Core
<1> QED
  BY <1>4, <1>5

(* A connection is found closed.                                           *)
LEMMA HangupKeeps == ASSUME IInv, NEW e \in batch, Hangup(e) PROVE IInv'
<1>1. /\ e.fd \in Fds /\ cur = Idle /\ batch' \subseteq batch
      /\ Becomes(CloseClient(Now, e.fd))
      /\ UNCHANGED <<server, backlog, cur, peers, got>>
  BY DEF Hangup, NextEvent
<1>2. Good(Now, CloseClient(Now, e.fd))
  BY <1>1, CloseClientGood DEF IInv, Core
<1>3. Core' /\ Streams'
  BY <1>1, <1>2, BecomesKeeps DEF IInv
<1>4. Events' /\ CurOK' /\ Life'
  BY <1>1 DEF IInv, Events, CurOK, Life, server
<1> QED
  BY <1>3, <1>4 DEF IInv

(* A connection is found readable.                                         *)
LEMMA ReceiveKeeps == ASSUME IInv, NEW e \in batch, Receive(e) PROVE IInv'
<1> DEFINE f == e.fd
           p == client[f].peer
           room == ReadBuf - Len(client[f].in)
           n == IF room < Len(toServer[p]) THEN room ELSE Len(toServer[p])
           taken == SubSeq(toServer[p], 1, n)
           left == SubSeq(toServer[p], n + 1, Len(toServer[p]))
<1>1. /\ f \in Fds /\ cur = Idle /\ batch' \subseteq batch
      /\ UNCHANGED <<server, backlog, peers, got>>
  BY DEF Receive, NextEvent
<1>2. Events' /\ Life'
  BY <1>1 DEF IInv, Events, Life, server
<1>3. CASE p = NoPeer
  <2>1. UNCHANGED <<client, link, toClient, toServer, cur>>
    BY <1>3 DEF Receive
  <2>2. Core'
    BY <1>1, <2>1, CoreStays DEF IInv
  <2> QED
    BY <1>1, <1>2, <2>1, <2>2 DEF IInv, Streams, CurOK, peers
<1>4. CASE p # NoPeer /\ (room = 0 \/ (toServer[p] = << >> /\ ~alive[p]))
  <2>1. Becomes(CloseClient(Now, f)) /\ UNCHANGED cur
    BY <1>4 DEF Receive
  <2>2. Good(Now, CloseClient(Now, f))
    BY <1>1, CloseClientGood DEF IInv, Core
  <2>3. Core' /\ Streams'
    BY <1>1, <2>1, <2>2, BecomesKeeps DEF IInv
  <2> QED
    BY <1>1, <1>2, <2>1, <2>3 DEF IInv, CurOK
<1>5. CASE p # NoPeer /\ ~(room = 0 \/ (toServer[p] = << >> /\ ~alive[p])) /\ toServer[p] = <<>>
  <2>1. Becomes(ClientWrite(Now, f)) /\ UNCHANGED cur
    BY <1>5 DEF Receive
  <2>2. Good(Now, ClientWrite(Now, f))
    BY <1>1, ClientWriteGood DEF IInv, Core
  <2>3. Core' /\ Streams'
    BY <1>1, <2>1, <2>2, BecomesKeeps DEF IInv
  <2> QED
    BY <1>1, <1>2, <2>1, <2>3 DEF IInv, CurOK
<1>6. CASE p # NoPeer /\ ~(room = 0 \/ (toServer[p] = << >> /\ ~alive[p])) /\ toServer[p] # <<>>
  <2>1. /\ client' = [client EXCEPT ![f].in = @ \o taken]
        /\ toServer' = [toServer EXCEPT ![p] = SubSeq(@, n + 1, Len(@))]
        /\ cur' = [fd |-> f, at |-> "frames"]
        /\ UNCHANGED <<link, toClient>>
    BY <1>6 DEF Receive
  <2>2. /\ Now \in Tables /\ Now.client = client /\ Now.link = link /\ Now.toClient = toClient
        /\ TableOK(Now) /\ client \in [Fds -> Clients]
    BY DEF IInv, Core, TableOK, Now, Tables
  <2>3. /\ client[f] \in Clients /\ ClientOK(client[f]) /\ p \in Peers
        /\ client[f].in \in Seq(Units) /\ Len(client[f].in) <= ReadBuf
    <3>1. client[f] \in Clients /\ ClientOK(client[f])
      BY <1>1, <2>2 DEF TableOK
    <3>2. client[f].in \in Seq(Units) /\ Len(client[f].in) <= ReadBuf /\ p \in Peers
      BY <1>6, <3>1 DEF ClientOK, Clients
    <3> QED
      BY <3>1, <3>2
  <2>4. toServer[p] \in Seq(Units) /\ toServer \in [Peers -> Seq(Units)]
    BY <2>3 DEF IInv, Streams
  <2>5. n \in 0..Len(toServer[p]) /\ n <= room /\ room \in Nat
    <3>1. Len(client[f].in) \in Nat /\ Len(toServer[p]) \in Nat /\ ReadBuf \in Nat
      BY <2>3, <2>4, UdsAssumption
    <3>2. room \in Nat
      BY <2>3, <3>1
    <3> HIDE DEF room
    <3> QED
      BY <3>1, <3>2
  <2> HIDE DEF n
  <2>6. taken \in Seq(Units) /\ Len(taken) = n /\ left \in Seq(Units)
    <3>1. n + 1 \in Nat \ {0}
      BY <2>5
    <3> QED
      BY <2>4, <2>5, <3>1, Stretch, Beginning
  <2>7. toServer' = [toServer EXCEPT ![p] = left]
    BY <2>1, <2>4
  <2> HIDE DEF taken, left
  <2> DEFINE c == [client[f] EXCEPT !.in = @ \o taken]
             t == [Now EXCEPT !.client[f] = c]
  <2>8. /\ client[f].in \o taken \in Seq(Units)
        /\ Len(client[f].in \o taken) = Len(client[f].in) + n
    BY <2>3, <2>6, Joined
  <2>9. Len(client[f].in \o taken) <= ReadBuf
    <3>1. Len(client[f].in) \in Nat /\ ReadBuf \in Nat
      BY <2>3, UdsAssumption
    <3> QED
      BY <2>5, <2>8, <3>1
  <2>10. /\ c \in Clients /\ c.peer = p /\ c.in = client[f].in \o taken
         /\ c.out = client[f].out /\ c.used = client[f].used
    BY <2>3, <2>8 DEF Clients
  <2> HIDE DEF c
  <2>11. ClientOK(c)
    BY <1>6, <2>3, <2>9, <2>10 DEF ClientOK
  <2>12. Good(Now, t)
    BY <1>1, <2>2, <2>10, <2>11, EntryChanges
  <2>13. client' = [client EXCEPT ![f] = c]
    BY <2>1, <2>2 DEF c
  <2>14. Now' = t
    <3>1. Now' = [client |-> client', link |-> link, toClient |-> toClient]
      BY <2>1 DEF Now
    <3>2. t = [client |-> [client EXCEPT ![f] = c], link |-> link, toClient |-> toClient]
      BY <2>2 DEF Now
    <3> QED
      BY <2>13, <3>1, <3>2
  <2> HIDE DEF t
  <2>15. TableOK(Now') /\ Owned(Now')
    BY <2>12, <2>14, ClosesKeeps DEF IInv, Core, Good
  <2>16. Core'
    BY <1>1, <2>1, <2>15 DEF IInv, Core
  <2>17. Streams'
    BY <1>1, <2>6, <2>7 DEF IInv, Streams, peers
  <2>18. CurOK'
    <3>1. client'[f].peer # NoPeer
      BY <1>1, <1>6, <2>2, <2>10, <2>13
    <3> QED
      BY <1>1, <2>1, <3>1 DEF CurOK
  <2> QED
    BY <1>2, <2>16, <2>17, <2>18 DEF IInv
<1> QED
  BY <1>3, <1>4, <1>5, <1>6

(* A complete frame is handled.                                            *)
LEMMA HandleRequestKeeps == ASSUME IInv, HandleRequest PROVE IInv'
<1> DEFINE f == cur.fd
           kind == client[f].in[1].kind
           s == IF kind = "set" THEN Broadcast(Now) ELSE Now
<1>1. /\ cur.at = "frames" /\ client[f].in # <<>> /\ Becomes(s)
      /\ stopping' = (stopping \/ kind = "stop")
      /\ cur' = [fd |-> f, at |-> "reply", id |-> client[f].in[1].id]
      /\ UNCHANGED <<up, path, starts, changes, backlog, batch, peers, got>>
  BY DEF HandleRequest, FrameReady
<1>2. f \in Fds
  BY <1>1 DEF IInv, CurOK, Idle
<1>3. Good(Now, s)
  <2>1. TableOK(Now) /\ Distinct(Now)
    BY DEF IInv, Core, Owned
  <2> QED
    BY <2>1, BroadcastGood, ClosesItself DEF Good
<1> HIDE DEF s
<1>4. Core' /\ Streams'
  BY <1>1, <1>3, BecomesKeeps DEF IInv
<1>5. CurOK'
  <2>1. client[f].in \in Seq(Units)
    BY <1>2 DEF IInv, Core, TableOK, Tables, Clients, Now
  <2>2. client[f].in[1] \in Units
    BY <1>1, <2>1
  <2>3. client[f].in[1].id \in Nat
    BY <2>2 DEF Units
  <2>4. cur'.fd = f /\ cur'.at = "reply" /\ cur'.id = client[f].in[1].id
    BY <1>1
  <2> QED
    BY <1>2, <2>3, <2>4 DEF CurOK
<1>6. Life'
  <2>1. stopping' \in BOOLEAN
    BY <1>1
  <2> QED
    BY <1>1, <2>1 DEF IInv, Life
<1>7. Events'
  BY <1>1 DEF IInv, Events
<1> QED
  BY <1>4, <1>5, <1>6, <1>7 DEF IInv

(* The answer is written.                                                  *)
LEMMA SendReplyKeeps == ASSUME IInv, SendReply PROVE IInv'
<1> DEFINE f == cur.fd
           s == ClientSendFrame(Now, f, Frame("answer", cur.id))
           c == [s.client[f] EXCEPT !.in = Consumed(@)]
           t == [s EXCEPT !.client[f].in = Consumed(@)]
<1>1. /\ cur.at = "reply" /\ s.client[f].peer # NoPeer /\ Becomes(t)
      /\ cur' = [fd |-> f, at |-> "frames"]
      /\ UNCHANGED <<server, backlog, batch, peers, got>>
  BY DEF SendReply
<1>2. f \in Fds /\ cur.id \in Nat
  BY <1>1 DEF IInv, CurOK, Idle
<1>3. TableOK(Now) /\ Distinct(Now)
  BY DEF IInv, Core, Owned
<1>4. Good(Now, s)
  <2>1. Frame("answer", cur.id) \in Frames
    BY <1>2 DEF Frames
  <2> QED
    BY <1>2, <1>3, <2>1, ClientSendFrameGood
<1> HIDE DEF s
<1>5. s \in Tables /\ s.client[f] \in Clients /\ ClientOK(s.client[f])
  BY <1>2, <1>4 DEF Good, TableOK, Tables
<1>6. s.client[f].in \in Seq(Units) /\ Len(s.client[f].in) <= ReadBuf
  BY <1>5 DEF ClientOK, Clients
<1>7. Consumed(s.client[f].in) \in Seq(Units) /\ Len(Consumed(s.client[f].in)) <= ReadBuf
  <2> DEFINE m == 2 + Body(s.client[f].in[1].kind)
  <2>1. m \in Nat \ {0}
    BY UdsAssumption DEF Body
  <2>2. Consumed(s.client[f].in) = SubSeq(s.client[f].in, m, Len(s.client[f].in))
    BY DEF Consumed
  <2> HIDE DEF m
  <2>3. /\ Consumed(s.client[f].in) \in Seq(Units)
        /\ Len(Consumed(s.client[f].in)) <= Len(s.client[f].in)
    BY <1>6, <2>1, <2>2, Stretch
  <2>4. Len(Consumed(s.client[f].in)) \in Nat /\ Len(s.client[f].in) \in Nat /\ ReadBuf \in Nat
    BY <1>6, <2>3, UdsAssumption
  <2> QED
    BY <1>6, <2>3, <2>4
<1>8. /\ c \in Clients /\ c.peer = s.client[f].peer /\ c.in = Consumed(s.client[f].in)
      /\ c.out = s.client[f].out /\ c.used = s.client[f].used
  BY <1>5, <1>7 DEF Clients
<1>9. t = [s EXCEPT !.client[f] = c]
  BY <1>5 DEF Tables, Clients
<1> HIDE DEF c, t
<1>10. ClientOK(c)
  BY <1>1, <1>5, <1>7, <1>8 DEF ClientOK
<1>11. Good(s, t)
  BY <1>2, <1>4, <1>8, <1>9, <1>10, EntryChanges DEF Good
<1>12. Good(Now, t)
  BY <1>3, <1>4, <1>11, ClosesThenCloses DEF Good
<1>13. Core' /\ Streams' /\ client' = t.client
  BY <1>1, <1>12, BecomesKeeps DEF IInv, server
<1>14. CurOK'
  <2>1. t.client = [s.client EXCEPT ![f] = c]
    BY <1>5, <1>9 DEF Tables
  <2>2. client'[f] = c
    BY <1>2, <1>5, <1>13, <2>1 DEF Tables
  <2>3. cur'.fd = f /\ cur'.at = "frames"
    BY <1>1
  <2> QED
    BY <1>1, <1>2, <1>8, <2>2, <2>3 DEF CurOK
<1>15. Life' /\ Events'
  BY <1>1 DEF IInv, Life, Events, server
<1> QED
  BY <1>13, <1>14, <1>15 DEF IInv

(* The buffer holds no complete frame any more.                            *)
LEMMA ReadDoneKeeps == ASSUME IInv, ReadDone PROVE IInv'
<1>1. /\ cur.at = "frames" /\ Becomes(ClientWrite(Now, cur.fd)) /\ cur' = Idle
      /\ UNCHANGED <<server, backlog, batch, peers, got>>
  BY DEF ReadDone
<1>2. cur.fd \in Fds
  BY <1>1 DEF IInv, CurOK, Idle
<1>3. Good(Now, ClientWrite(Now, cur.fd))
  BY <1>2, ClientWriteGood DEF IInv, Core
<1>4. Core' /\ Streams'
  BY <1>1, <1>3, BecomesKeeps DEF IInv
<1>5. CurOK' /\ Life' /\ Events'
  BY <1>1 DEF IInv, CurOK, Idle, Life, Events, server
<1> QED
  BY <1>4, <1>5 DEF IInv

(* A signal goes to the subscribed connections.                            *)
LEMMA EmitPropertiesChangedKeeps == ASSUME IInv, EmitPropertiesChanged PROVE IInv'
<1>1. /\ cur = Idle /\ Becomes(Broadcast(Now))
      /\ UNCHANGED <<up, path, starts, stopping, backlog, batch, cur, peers, got>>
  BY DEF EmitPropertiesChanged, AtRest
<1>2. Good(Now, Broadcast(Now))
  BY BroadcastGood DEF IInv, Core, Owned
<1>3. Core' /\ Streams'
  BY <1>1, <1>2, BecomesKeeps DEF IInv
<1>4. CurOK' /\ Life' /\ Events'
  BY <1>1 DEF IInv, CurOK, Idle, Life, Events
<1> QED
  BY <1>3, <1>4 DEF IInv

(* The process ends, and with it its sockets.                              *)
LEMMA ProcessEndsKeeps ==
    ASSUME IInv, NEW file \in {"none", "stale"}, ProcessEnds(file)
    PROVE  IInv'
<1>1. /\ up' = FALSE /\ path' = file /\ stopping' = FALSE
      /\ client' = [f \in Fds |-> Free] /\ backlog' = << >> /\ batch' = {} /\ cur' = Idle
      /\ link' = [p \in Peers |-> IF link[p] = "none" THEN "none" ELSE "shut"]
      /\ toServer' = [p \in Peers |-> IF link[p] = "none" THEN toServer[p] ELSE << >>]
      /\ UNCHANGED <<peers, toClient, got>>
  BY DEF ProcessEnds
<1>2. /\ Now'.client = client' /\ Now'.link = link' /\ Now'.toClient = toClient
      /\ Now' = [client |-> client', link |-> link', toClient |-> toClient]
      /\ Now.toClient = toClient /\ Now \in Tables
  BY <1>1 DEF Now, IInv, Core, TableOK
<1>3. (\A f \in Fds : client'[f] = Free) /\ \A p \in Peers : link'[p] \in {"none", "shut"}
  BY <1>1
<1>4. TableOK(Now')
  <2>1. client' \in [Fds -> Clients] /\ link' \in [Peers -> Links]
    BY <1>1, FreeIsOK DEF Links
  <2>2. Now' \in Tables
    BY <1>2, <2>1 DEF Tables
  <2> QED
    BY <1>2, <1>3, <2>2, FreeIsOK DEF IInv, Core, TableOK
<1>5. Owned(Now')
  BY <1>2, <1>3, FreeIsOK, UdsAssumption DEF Owned, Distinct
<1>6. backlog' \in Seq(Peers) /\ Queued(link', backlog')
  <2>1. backlog' = <<>> /\ Len(<<>>) = 0
    BY <1>1
  <2>2. backlog' \in Seq(Peers) /\ 1..Len(backlog') = {}
    BY <2>1
  <2> QED
    BY <1>3, <2>2 DEF Queued
<1>7. Streams'
  <2> DEFINE nil == <<>>
  <2>1. /\ nil \in Seq(Units)
        /\ toServer' = [p \in Peers |-> IF link[p] = "none" THEN toServer[p] ELSE nil]
    BY <1>1
  <2> HIDE DEF nil
  <2> QED
    BY <1>1, <2>1 DEF IInv, Streams, peers
<1>8. CurOK' /\ Life' /\ Events'
  BY <1>1 DEF IInv, CurOK, Idle, Life, Events
<1> QED
  BY <1>4, <1>5, <1>6, <1>7, <1>8 DEF IInv, Core

(* A new process takes the socket over.                                    *)
LEMMA StartKeeps == ASSUME IInv, Start PROVE IInv'
<1>1. /\ up' = TRUE /\ path' = "live"
      /\ UNCHANGED <<stopping, backlog, client, batch, cur, link, peers,
                     toServer, toClient, got>>
  BY DEF Start
<1>2. Core'
  BY <1>1, CoreStays DEF IInv
<1>3. Streams' /\ CurOK' /\ Life' /\ Events'
  BY <1>1 DEF IInv, Streams, CurOK, Idle, Life, Events, peers
<1> QED
  BY <1>2, <1>3 DEF IInv

(* Every step preserves the invariant.                                     *)
LEMMA NextKeeps == ASSUME IInv, [Next]_vars PROVE IInv'
<1>1. CASE PeerStep
  BY <1>1, ConnectKeeps, SendHeadKeeps, SendBodyKeeps, ReadKeeps, CloseKeeps DEF PeerStep
<1>2. CASE ServerStep
  <2>1. CASE EpollWait
    BY <2>1, EpollWaitKeeps
  <2>2. CASE Accept
    BY <2>2, AcceptKeeps
  <2>3. CASE ReadStep
    <3>1. CASE ReplyToClosed
      BY <3>1, ProcessEndsKeeps DEF ReplyToClosed
    <3> QED
      BY <2>3, <3>1, HandleRequestKeeps, SendReplyKeeps, ReadDoneKeeps DEF ReadStep
  <2>4. CASE Shutdown
    BY <2>4, ProcessEndsKeeps DEF Shutdown
  <2>5. CASE \E e \in batch : Hangup(e) \/ Receive(e)
    BY <2>5, HangupKeeps, ReceiveKeeps
  <2> QED
    BY <1>2, <2>1, <2>2, <2>3, <2>4, <2>5 DEF ServerStep
<1>3. CASE EmitPropertiesChanged
  BY <1>3, EmitPropertiesChangedKeeps
<1>4. CASE Start
  BY <1>4, StartKeeps
<1>5. CASE UNCHANGED vars
  <2>1. UNCHANGED <<server, backlog, client, batch, cur, link, peers, toServer, toClient, got>>
    BY <1>5 DEF vars
  <2>2. Core'
    BY <2>1, CoreStays DEF IInv
  <2> QED
    BY <2>1, <2>2 DEF IInv, Streams, CurOK, Life, Events, server, peers
<1> QED
  BY <1>1, <1>2, <1>3, <1>4, <1>5 DEF Next

(* The invariant holds in every state.                                     *)
LEMMA Invariant == Spec => []IInv
  BY InitOK, NextKeeps, PTL DEF Spec

-----------------------------------------------------------------------------
(* Streams: what a client gets and what it asks for.                       *)

(* The elements of a set of positions up to one of them.                   *)
Upto(S, k) == {j \in S : j <= k}

AnswerCount(x) == Cardinality(AnswerHeads(x))

(* What a client got and will get: frames, whose answers are numbered, and *)
(* no more answers than n.                                                 *)
StreamOK(x, n) ==
    /\ x \in Seq(Units) /\ WholeFrames(x)
    /\ \A k \in AnswerHeads(x) : x[k].id = Cardinality(Upto(AnswerHeads(x), k))
    /\ AnswerCount(x) <= n

(* The header at k has its body behind it, as far as the sequence goes, and*)
(* then the next header.                                                   *)
RequestAt(u, k) ==
    /\ \A j \in 1..Len(u) : k < j /\ j <= k + Body(u[k].kind) => u[j].part = "body"
    /\ k + Body(u[k].kind) < Len(u) => u[k + Body(u[k].kind) + 1].part = "head"

(* The header at k is numbered on from c and whole, or the last unit of a  *)
(* request that is being written.                                          *)
RequestOK(u, c, pending, k) ==
    /\ u[k].id = c + Cardinality(Upto(Heads(u), k))
    /\ RequestAt(u, k)
    /\ k + Body(u[k].kind) <= Len(u) \/ (pending /\ k = Len(u))

(* What a client wrote and has no answer to, after c answers: the rest of  *)
(* the requests a that it began.                                           *)
Requests(u, c, a, pending) ==
    /\ u \in Seq(Units)
    /\ u # <<>> => u[1].part = "head"
    /\ \A k \in Heads(u) : RequestOK(u, c, pending, k)
    /\ pending => /\ u # <<>> /\ a # <<>>
                  /\ u[Len(u)] = a[Len(a)] /\ u[Len(u)].part = "head"
    /\ Len(a) = c + Cardinality(Heads(u))

(* The size of a body is positive.                                         *)
LEMMA BodyIs == ASSUME NEW kind PROVE Body(kind) \in Nat \ {0}
  BY UdsAssumption DEF Body

(* The headers of a sequence are finitely many.                            *)
LEMMA HeadsAreFinite ==
    ASSUME NEW x \in Seq(Units)
    PROVE  /\ Heads(x) \subseteq 1..Len(x) /\ AnswerHeads(x) \subseteq Heads(x)
           /\ IsFiniteSet(Heads(x)) /\ IsFiniteSet(AnswerHeads(x))
           /\ Cardinality(Heads(x)) \in Nat /\ AnswerCount(x) \in Nat
<1>1. Heads(x) \subseteq 1..Len(x) /\ AnswerHeads(x) \subseteq Heads(x)
  BY DEF Heads, AnswerHeads
<1>2. IsFiniteSet(1..Len(x))
  BY FS_Interval
<1>3. IsFiniteSet(Heads(x))
  BY <1>1, <1>2, FS_Subset
<1>4. IsFiniteSet(AnswerHeads(x))
  BY <1>1, <1>3, FS_Subset
<1> QED
  BY <1>1, <1>3, <1>4, FS_CardinalityType DEF AnswerCount

(* A stream that is cut short is a stream still.                           *)
LEMMA StreamBegins ==
    ASSUME NEW n \in Nat, NEW y \in Seq(Units), NEW w \in Seq(Units), StreamOK(y \o w, n)
    PROVE  StreamOK(y, n)
<1> DEFINE x == y \o w
<1>1. /\ x \in Seq(Units) /\ Len(x) = Len(y) + Len(w)
      /\ \A k \in 1..Len(y) : x[k] = y[k]
      /\ DOMAIN x = 1..Len(x) /\ DOMAIN y = 1..Len(y)
      /\ Len(y) \in Nat /\ Len(w) \in Nat
  OBVIOUS
<1>2. StreamOK(x, n)
  OBVIOUS
<1> HIDE DEF x
<1>3. 1..Len(y) \subseteq 1..Len(x)
  BY <1>1
<1>4. AnswerHeads(y) = {k \in AnswerHeads(x) : k <= Len(y)}
  <2>1. \A k \in 1..Len(x) : k <= Len(y) <=> k \in 1..Len(y)
    BY <1>1
  <2> QED
    BY <1>1, <1>3, <2>1 DEF AnswerHeads, Heads
<1>5. \A k \in AnswerHeads(y) : Upto(AnswerHeads(y), k) = Upto(AnswerHeads(x), k)
  <2>1. AnswerHeads(y) \subseteq 1..Len(y) /\ AnswerHeads(x) \subseteq 1..Len(x)
    BY <1>1, HeadsAreFinite
  <2> QED
    BY <1>1, <1>4, <2>1 DEF Upto
<1>6. \A k \in AnswerHeads(y) : y[k].id = Cardinality(Upto(AnswerHeads(y), k))
  <2>1. \A k \in AnswerHeads(y) : k \in 1..Len(y) /\ k \in AnswerHeads(x)
    BY <1>1, <1>4 DEF AnswerHeads, Heads
  <2> QED
    BY <1>1, <1>2, <1>5, <2>1 DEF StreamOK
<1>7. AnswerCount(y) <= n
  <2>1. AnswerHeads(y) \in SUBSET AnswerHeads(x)
    BY <1>4
  <2>2. AnswerCount(y) <= AnswerCount(x)
    BY <1>1, <2>1, HeadsAreFinite, FS_Subset DEF AnswerCount
  <2>3. AnswerCount(y) \in Nat /\ AnswerCount(x) \in Nat /\ AnswerCount(x) <= n
    BY <1>1, <1>2, HeadsAreFinite DEF StreamOK
  <2> QED
    BY <2>2, <2>3
<1>8. WholeFrames(y)
  <2> SUFFICES ASSUME NEW k \in 1..Len(y)
               PROVE  IF k % 2 = 1 THEN y[k].part = "head"
                      ELSE y[k] = Unit("body", y[k - 1].kind, y[k - 1].id)
    BY <1>1 DEF WholeFrames
  <2>1. IF k % 2 = 1 THEN x[k].part = "head"
                     ELSE x[k] = Unit("body", x[k - 1].kind, x[k - 1].id)
    BY <1>1, <1>2, <1>3 DEF StreamOK, WholeFrames
  <2>2. CASE k % 2 = 1
    BY <1>1, <2>1, <2>2
  <2>3. CASE k % 2 # 1
    <3>1. k # 1
      BY <2>3, SMTT(30)
    <3>2. k - 1 \in 1..Len(y)
      BY <1>1, <3>1
    <3> QED
      BY <1>1, <2>1, <2>3, <3>2
  <2> QED
    BY <2>2, <2>3
<1> QED
  BY <1>6, <1>7, <1>8 DEF StreamOK

(* A frame follows a stream of whole frames.                               *)
LEMMA StreamGoesOn ==
    ASSUME NEW x \in Seq(Units), WholeFrames(x), Len(x) % 2 = 0,
           NEW kind \in {"answer", "notice"}, NEW id \in Nat
    PROVE  LET z == x \o Frame(kind, id)
           IN  /\ z \in Seq(Units) /\ WholeFrames(z) /\ Len(z) % 2 = 0
               /\ Len(z) = Len(x) + 2
               /\ \A k \in 1..Len(x) : z[k] = x[k]
               /\ z[Len(x) + 1] = Unit("head", kind, id)
               /\ z[Len(x) + 2] = Unit("body", kind, id)
<1> DEFINE fr == Frame(kind, id)
           z == x \o fr
           h == Unit("head", kind, id)
           b == Unit("body", kind, id)
<1>1. h \in Units /\ b \in Units
  BY DEF Unit, Units
<1>2. h.part = "head" /\ h.kind = kind /\ h.id = id
  BY DEF Unit
<1>3. fr = <<h, b>>
  BY DEF Frame
<1> HIDE DEF h, b
<1>4. fr \in Seq(Units) /\ Len(fr) = 2 /\ fr[1] = h /\ fr[2] = b
  BY <1>1, <1>3
<1> HIDE DEF fr
<1>5. /\ z \in Seq(Units) /\ Len(z) = Len(x) + 2 /\ Len(x) \in Nat
      /\ \A k \in 1..Len(x) : z[k] = x[k]
      /\ z[Len(x) + 1] = h /\ z[Len(x) + 2] = b
      /\ DOMAIN z = 1..(Len(x) + 2) /\ DOMAIN x = 1..Len(x)
  <2>1. z \in Seq(Units) /\ Len(z) = Len(x) + 2 /\ Len(x) \in Nat
    <3>1. z \in Seq(Units) /\ Len(z) = Len(x) + Len(fr)
      BY <1>4, Joined
    <3>2. Len(x) \in Nat
      OBVIOUS
    <3> QED
      BY <1>4, <3>1, <3>2
  <2>2. \A k \in 1..Len(x) : z[k] = x[k]
    BY <1>4
  <2>3. z[Len(x) + 1] = h
    BY <1>4, <2>1
  <2>4. z[Len(x) + 2] = b
    BY <1>4, <2>1
  <2> HIDE DEF z
  <2>5. DOMAIN z = 1..(Len(x) + 2) /\ DOMAIN x = 1..Len(x)
    BY <2>1
  <2> QED
    BY <2>1, <2>2, <2>3, <2>4, <2>5
<1> HIDE DEF z
<1>6. Len(z) % 2 = 0
  BY <1>5, SMTT(30)
<1>7. WholeFrames(z)
  <2> SUFFICES ASSUME NEW k \in 1..(Len(x) + 2)
               PROVE  IF k % 2 = 1 THEN z[k].part = "head"
                      ELSE z[k] = Unit("body", z[k - 1].kind, z[k - 1].id)
    BY <1>5 DEF WholeFrames
  <2>1. CASE k \in 1..Len(x)
    <3>1. IF k % 2 = 1 THEN x[k].part = "head"
                       ELSE x[k] = Unit("body", x[k - 1].kind, x[k - 1].id)
      BY <1>5, <2>1 DEF WholeFrames
    <3>2. CASE k % 2 = 1
      BY <1>5, <2>1, <3>1, <3>2
    <3>3. CASE k % 2 # 1
      <4>1. k # 1
        BY <3>3, SMTT(30)
      <4>2. k - 1 \in 1..Len(x)
        BY <1>5, <2>1, <4>1
      <4> QED
        BY <1>5, <2>1, <3>1, <3>3, <4>2
    <3> QED
      BY <3>2, <3>3
  <2>2. CASE k = Len(x) + 1
    <3>1. k % 2 = 1
      BY <1>5, <2>2, SMTT(30)
    <3> QED
      BY <1>2, <1>5, <2>2, <3>1
  <2>3. CASE k = Len(x) + 2
    <3>1. k % 2 # 1
      BY <1>5, <2>3, SMTT(30)
    <3>2. k - 1 = Len(x) + 1
      BY <1>5, <2>3
    <3> QED
      BY <1>2, <1>5, <2>3, <3>1, <3>2 DEF b
  <2> QED
    BY <1>5, <2>1, <2>2, <2>3
<1> QED
  BY <1>5, <1>6, <1>7 DEF z, fr, h, b

(* A notice does not count.                                                *)
LEMMA StreamThenNotice ==
    ASSUME NEW x, NEW n \in Nat, StreamOK(x, n), Len(x) % 2 = 0
    PROVE  /\ StreamOK(x \o Notice, n) /\ Len(x \o Notice) % 2 = 0
           /\ AnswerCount(x \o Notice) = AnswerCount(x)
<1> DEFINE z == x \o Notice
<1>1. x \in Seq(Units) /\ WholeFrames(x) /\ Len(x) \in Nat
  BY DEF StreamOK
<1>2. /\ z \in Seq(Units) /\ WholeFrames(z) /\ Len(z) % 2 = 0 /\ Len(z) = Len(x) + 2
      /\ \A k \in 1..Len(x) : z[k] = x[k]
      /\ z[Len(x) + 1] = Unit("head", "notice", 0)
      /\ z[Len(x) + 2] = Unit("body", "notice", 0)
  <2>1. "notice" \in {"answer", "notice"} /\ 0 \in Nat
    OBVIOUS
  <2>2. z = x \o Frame("notice", 0)
    BY DEF Notice
  <2> HIDE DEF z
  <2> QED
    BY <1>1, <2>1, <2>2, StreamGoesOn
<1> HIDE DEF z
<1>3. DOMAIN z = 1..(Len(x) + 2) /\ DOMAIN x = 1..Len(x)
  BY <1>1, <1>2
<1>4. \A k \in 1..(Len(x) + 2) : k \in 1..Len(x) \/ k = Len(x) + 1 \/ k = Len(x) + 2
  BY <1>1
<1>5. \A k \in 1..Len(x) : k \in 1..(Len(x) + 2)
  BY <1>1
<1>6. AnswerHeads(z) = AnswerHeads(x)
  <2>1. z[Len(x) + 1].kind = "notice" /\ z[Len(x) + 2].kind = "notice"
    BY <1>2 DEF Unit
  <2> QED
    BY <1>2, <1>3, <1>4, <1>5, <2>1 DEF AnswerHeads, Heads
<1>7. \A k \in AnswerHeads(x) : z[k] = x[k]
  BY <1>2, <1>3 DEF AnswerHeads, Heads
<1>8. StreamOK(z, n) /\ AnswerCount(z) = AnswerCount(x)
  BY <1>2, <1>6, <1>7 DEF StreamOK, AnswerCount
<1> QED
  BY <1>2, <1>8 DEF z

(* The next answer has the next number.                                    *)
LEMMA StreamThenAnswer ==
    ASSUME NEW x, NEW n \in Nat, StreamOK(x, n), Len(x) % 2 = 0, AnswerCount(x) + 1 <= n
    PROVE  LET z == x \o Frame("answer", AnswerCount(x) + 1)
           IN  /\ StreamOK(z, n) /\ Len(z) % 2 = 0
               /\ AnswerCount(z) = AnswerCount(x) + 1
<1> DEFINE c == AnswerCount(x)
           z == x \o Frame("answer", c + 1)
<1>1. x \in Seq(Units) /\ WholeFrames(x) /\ Len(x) \in Nat
  BY DEF StreamOK
<1>2. c \in Nat
  BY <1>1, HeadsAreFinite
<1> HIDE DEF c
<1>3. /\ z \in Seq(Units) /\ WholeFrames(z) /\ Len(z) % 2 = 0 /\ Len(z) = Len(x) + 2
      /\ \A k \in 1..Len(x) : z[k] = x[k]
      /\ z[Len(x) + 1] = Unit("head", "answer", c + 1)
      /\ z[Len(x) + 2] = Unit("body", "answer", c + 1)
  <2>1. c + 1 \in Nat
    BY <1>2
  <2> QED
    BY <1>1, <2>1, StreamGoesOn
<1> HIDE DEF z
<1>4. DOMAIN z = 1..(Len(x) + 2) /\ DOMAIN x = 1..Len(x)
  BY <1>1, <1>3
<1>5. \A k \in 1..(Len(x) + 2) : k \in 1..Len(x) \/ k = Len(x) + 1 \/ k = Len(x) + 2
  BY <1>1
<1>6. (\A k \in 1..Len(x) : k \in 1..(Len(x) + 2)) /\ Len(x) + 1 \in 1..(Len(x) + 2)
  BY <1>1
<1>7. /\ z[Len(x) + 1].kind = "answer" /\ z[Len(x) + 1].part = "head"
      /\ z[Len(x) + 1].id = c + 1 /\ z[Len(x) + 2].part = "body"
  BY <1>3 DEF Unit
<1>8. AnswerHeads(z) = AnswerHeads(x) \cup {Len(x) + 1}
  BY <1>3, <1>4, <1>5, <1>6, <1>7 DEF AnswerHeads, Heads
<1>9. AnswerHeads(x) \subseteq 1..Len(x) /\ IsFiniteSet(AnswerHeads(x))
  BY <1>1, HeadsAreFinite
<1>10. Len(x) + 1 \notin AnswerHeads(x)
  BY <1>1, <1>9
<1>11. AnswerCount(z) = c + 1
  BY <1>8, <1>9, <1>10, FS_AddElement DEF AnswerCount, c
<1>12. \A k \in AnswerHeads(z) : z[k].id = Cardinality(Upto(AnswerHeads(z), k))
  <2> SUFFICES ASSUME NEW k \in AnswerHeads(z)
               PROVE  z[k].id = Cardinality(Upto(AnswerHeads(z), k))
    OBVIOUS
  <2>1. CASE k \in AnswerHeads(x)
    <3>1. k \in 1..Len(x) /\ z[k] = x[k]
      BY <1>3, <1>9, <2>1
    <3>2. Upto(AnswerHeads(z), k) = Upto(AnswerHeads(x), k)
      BY <1>1, <1>8, <1>9, <3>1 DEF Upto
    <3> QED
      BY <2>1, <3>1, <3>2 DEF StreamOK
  <2>2. CASE k = Len(x) + 1
    <3>1. Upto(AnswerHeads(z), k) = AnswerHeads(z)
      BY <1>1, <1>8, <1>9, <2>2 DEF Upto
    <3> QED
      BY <1>7, <1>11, <2>2, <3>1 DEF AnswerCount
  <2> QED
    BY <1>8, <2>1, <2>2
<1>13. StreamOK(z, n)
  BY <1>3, <1>11, <1>12 DEF StreamOK, c
<1> QED
  BY <1>3, <1>11, <1>13 DEF z, c

(* Positions that are shifted are as many.                                 *)
LEMMA Shifted ==
    ASSUME NEW H, H \subseteq Nat, IsFiniteSet(H), NEW m \in Nat
    PROVE  /\ IsFiniteSet({j + m : j \in H})
           /\ Cardinality({j + m : j \in H}) = Cardinality(H)
<1> DEFINE T == {j + m : j \in H}
           g == [j \in H |-> j + m]
<1>1. g \in [H -> T]
  OBVIOUS
<1>2. \A i, j \in H : g[i] = g[j] => i = j
  OBVIOUS
<1>3. \A t \in T : \E j \in H : g[j] = t
  OBVIOUS
<1>4. ExistsBijection(H, T)
  BY <1>1, <1>2, <1>3, Zenon DEF ExistsBijection, Bijection, Injection, Surjection, IsInjective
<1> QED
  BY <1>4, FS_Bijection

(* A client begins a request.                                              *)
LEMMA RequestBegins ==
    ASSUME NEW c \in Nat, NEW a \in Seq(Units), NEW u, Requests(u, c, a, FALSE),
           NEW h \in Units, h.part = "head", h.id = Len(a) + 1
    PROVE  Requests(Append(u, h), c, Append(a, h), TRUE)
<1> DEFINE v == Append(u, h)
           b == Append(a, h)
           n == Len(u)
<1>1. u \in Seq(Units) /\ n \in Nat /\ Len(a) \in Nat
  BY DEF Requests
<1>2. /\ v \in Seq(Units) /\ Len(v) = n + 1 /\ v # <<>>
      /\ \A k \in 1..n : v[k] = u[k]
      /\ v[n + 1] = h
      /\ DOMAIN v = 1..(n + 1) /\ DOMAIN u = 1..n
  BY <1>1
<1>3. Len(b) = Len(a) + 1 /\ b # <<>> /\ b[Len(b)] = h
  BY <1>1
<1> HIDE DEF v, b
<1>4. \A k \in 1..(n + 1) : k \in 1..n \/ k = n + 1
  BY <1>1
<1>5. (\A k \in 1..n : k \in 1..(n + 1)) /\ n + 1 \in 1..(n + 1)
  BY <1>1
<1>6. Heads(v) = Heads(u) \cup {n + 1}
  BY <1>2, <1>4, <1>5 DEF Heads
<1>7. /\ Heads(u) \subseteq 1..n /\ IsFiniteSet(Heads(u)) /\ Cardinality(Heads(u)) \in Nat
      /\ n + 1 \notin Heads(u)
  BY <1>1, HeadsAreFinite
<1>8. Cardinality(Heads(v)) = Cardinality(Heads(u)) + 1
  BY <1>6, <1>7, FS_AddElement
<1>9. Len(a) = c + Cardinality(Heads(u))
  BY DEF Requests
<1>10. Len(b) = c + Cardinality(Heads(v))
  BY <1>3, <1>7, <1>8, <1>9
<1>11. v[1].part = "head"
  <2>1. CASE n = 0
    BY <1>2, <2>1
  <2>2. CASE n # 0
    BY <1>1, <1>2, <2>2 DEF Requests
  <2> QED
    BY <2>1, <2>2
<1>12. ASSUME NEW k \in Heads(u)
       PROVE  RequestOK(v, c, TRUE, k)
  <2>1. k \in 1..n /\ v[k] = u[k] /\ RequestOK(u, c, FALSE, k)
    BY <1>2, <1>7 DEF Requests
  <2>2. Upto(Heads(v), k) = Upto(Heads(u), k)
    BY <1>1, <1>6, <1>7, <2>1 DEF Upto
  <2> DEFINE m == Body(u[k].kind)
  <2>3. m \in Nat \ {0}
    BY BodyIs
  <2> HIDE DEF m
  <2>4. /\ k + m <= n
        /\ \A j \in 1..n : k < j /\ j <= k + m => u[j].part = "body"
        /\ k + m < n => u[k + m + 1].part = "head"
    BY <2>1 DEF RequestOK, RequestAt, m
  <2>5. \A j \in 1..(n + 1) : k < j /\ j <= k + m => v[j].part = "body"
    BY <1>1, <1>2, <2>1, <2>3, <2>4
  <2>6. k + m < n + 1 => v[k + m + 1].part = "head"
    <3>1. CASE k + m < n
      <4>1. k + m + 1 \in 1..n
        BY <1>1, <2>1, <2>3, <3>1
      <4> QED
        BY <1>2, <2>4, <3>1, <4>1
    <3>2. CASE k + m = n
      BY <1>2, <3>2
    <3> QED
      BY <1>1, <2>1, <2>3, <2>4, <3>1, <3>2
  <2>7. k + m <= n + 1
    BY <1>1, <2>1, <2>3, <2>4
  <2> QED
    BY <1>2, <2>1, <2>2, <2>5, <2>6, <2>7 DEF RequestOK, RequestAt, m
<1>13. RequestOK(v, c, TRUE, n + 1)
  <2>1. Upto(Heads(v), n + 1) = Heads(v)
    BY <1>1, <1>6, <1>7 DEF Upto
  <2>2. v[n + 1].id = c + Cardinality(Heads(v))
    BY <1>2, <1>3, <1>10
  <2> DEFINE m == Body(v[n + 1].kind)
  <2>3. m \in Nat \ {0}
    BY BodyIs
  <2> HIDE DEF m
  <2>4. RequestAt(v, n + 1)
    <3>1. \A j \in 1..(n + 1) : ~(n + 1 < j)
      BY <1>1
    <3>2. ~(n + 1 + m < n + 1)
      BY <1>1, <2>3
    <3> QED
      BY <1>2, <3>1, <3>2 DEF RequestAt, m
  <2> QED
    BY <1>2, <2>1, <2>2, <2>4 DEF RequestOK
<1>14. Requests(v, c, b, TRUE)
  BY <1>2, <1>3, <1>6, <1>10, <1>11, <1>12, <1>13 DEF Requests
<1> QED
  BY <1>14 DEF v, b

(* A client completes it.                                                  *)
LEMMA RequestEnds ==
    ASSUME NEW c \in Nat, NEW a \in Seq(Units), NEW u, Requests(u, c, a, TRUE)
    PROVE  Requests(u \o Rest(Last(a)), c, a, FALSE)
<1> DEFINE h == Last(a)
           r == Rest(h)
           v == u \o r
           n == Len(u)
           b == Body(h.kind)
<1>1. u \in Seq(Units) /\ n \in Nat /\ u # <<>> /\ n >= 1 /\ a # <<>>
  BY DEF Requests
<1>2. h = a[Len(a)] /\ u[n] = h /\ h.part = "head" /\ h \in Units
  <2>1. h = a[Len(a)]
    BY DEF Last
  <2>2. u[n] = h /\ h.part = "head"
    BY <2>1 DEF Requests
  <2> QED
    BY <1>1, <2>1, <2>2
<1> HIDE DEF h
<1>3. b \in Nat \ {0}
  BY BodyIs
<1>4. /\ r = [k \in 1..b |-> Unit("body", h.kind, h.id)]
      /\ Unit("body", h.kind, h.id) \in Units /\ Unit("body", h.kind, h.id).part = "body"
  BY <1>2 DEF Rest, Unit, Units
<1> HIDE DEF b
<1>5. r \in Seq(Units) /\ Len(r) = b /\ \A k \in 1..b : r[k].part = "body"
  BY <1>3, <1>4
<1> HIDE DEF r
<1>6. /\ v \in Seq(Units) /\ Len(v) = n + b /\ v # <<>>
      /\ \A k \in 1..n : v[k] = u[k]
      /\ \A k \in (n+1)..(n+b) : v[k].part = "body"
      /\ DOMAIN v = 1..(n+b) /\ DOMAIN u = 1..n
  <2>1. v \in Seq(Units) /\ Len(v) = n + b
    BY <1>1, <1>5, Joined
  <2>2. \A k \in 1..n : v[k] = u[k]
    BY <1>1, <1>5
  <2>3. \A k \in (n+1)..(n+b) : v[k] = r[k - n] /\ k - n \in 1..b
    BY <1>1, <1>3, <1>5
  <2> HIDE DEF v
  <2>4. DOMAIN v = 1..(n+b) /\ DOMAIN u = 1..n /\ v # <<>>
    BY <1>1, <1>3, <2>1
  <2> QED
    BY <1>5, <2>1, <2>2, <2>3, <2>4
<1> HIDE DEF v
<1>7. /\ \A k \in 1..(n+b) : k \in 1..n \/ k \in (n+1)..(n+b)
      /\ \A k \in 1..n : k \in 1..(n+b)
  BY <1>1, <1>3
<1>8. Heads(v) = Heads(u)
  BY <1>6, <1>7 DEF Heads
<1>9. Heads(u) \subseteq 1..n
  BY <1>1, HeadsAreFinite
<1>10. ASSUME NEW k \in Heads(u)
       PROVE  RequestOK(v, c, FALSE, k)
  <2>1. k \in 1..n /\ v[k] = u[k] /\ RequestOK(u, c, TRUE, k)
    BY <1>6, <1>9 DEF Requests
  <2> DEFINE m == Body(u[k].kind)
  <2>3. m \in Nat \ {0}
    BY BodyIs
  <2> HIDE DEF m
  <2>4. /\ k + m <= n \/ k = n
        /\ \A j \in 1..n : k < j /\ j <= k + m => u[j].part = "body"
        /\ k + m < n => u[k + m + 1].part = "head"
    BY <2>1 DEF RequestOK, RequestAt, m
  <2>5. CASE k = n
    <3>1. m = b
      BY <1>2, <2>5 DEF m, b
    <3>2. \A j \in 1..(n+b) : k < j /\ j <= k + m => v[j].part = "body"
      BY <1>1, <1>3, <1>6, <2>5, <3>1
    <3>3. ~(k + m < n + b) /\ k + m <= n + b
      BY <1>1, <1>3, <2>5, <3>1
    <3> QED
      BY <1>6, <1>8, <2>1, <3>2, <3>3 DEF RequestOK, RequestAt, m
  <2>6. CASE k # n
    <3>1. k + m < n
      <4>1. k < n /\ k + m <= n
        BY <1>1, <2>1, <2>4, <2>6
      <4>2. k + m # n
        <5>1. n \in 1..n /\ u[n].part = "head" /\ "head" # "body"
          BY <1>1, <1>2
        <5> QED
          BY <2>4, <4>1, <5>1
      <4> QED
        BY <1>1, <2>1, <2>3, <4>1, <4>2
    <3>2. \A j \in 1..(n+b) : k < j /\ j <= k + m => v[j].part = "body"
      <4>1. \A j \in 1..(n+b) : j <= k + m => j \in 1..n
        BY <1>1, <1>3, <2>1, <2>3, <3>1
      <4> QED
        BY <1>6, <2>4, <4>1
    <3>3. k + m + 1 \in 1..n /\ k + m <= n + b
      BY <1>1, <1>3, <2>1, <2>3, <3>1
    <3>4. v[k + m + 1].part = "head"
      BY <1>6, <2>4, <3>1, <3>3
    <3> QED
      BY <1>6, <1>8, <2>1, <3>2, <3>3, <3>4 DEF RequestOK, RequestAt, m
  <2> QED
    BY <2>5, <2>6
<1>11. v[1].part = "head"
  BY <1>1, <1>6 DEF Requests
<1>12. Requests(v, c, a, FALSE)
  BY <1>6, <1>8, <1>10, <1>11 DEF Requests
<1> QED
  BY <1>12 DEF v, r, h

(* The first request is answered and taken out.                            *)
LEMMA RequestIsTaken ==
    ASSUME NEW c \in Nat, NEW a \in Seq(Units), NEW pending \in BOOLEAN,
           NEW u, Requests(u, c, a, pending), u # <<>>, 1 + Body(u[1].kind) <= Len(u)
    PROVE  /\ Requests(SubSeq(u, 2 + Body(u[1].kind), Len(u)), c + 1, a, pending)
           /\ u[1].id = c + 1 /\ c + 1 <= Len(a)
<1> DEFINE n == Len(u)
           m == 1 + Body(u[1].kind)
           v == SubSeq(u, m + 1, n)
<1>1. /\ u \in Seq(Units) /\ n \in Nat \ {0} /\ Len(a) \in Nat
      /\ m \in 2..n /\ u[1].part = "head"
  <2>1. Body(u[1].kind) \in Nat \ {0}
    BY BodyIs
  <2>2. u \in Seq(Units) /\ u[1].part = "head"
    BY DEF Requests
  <2>3. n \in Nat \ {0} /\ Len(a) \in Nat
    BY <2>2
  <2> QED
    BY <2>1, <2>2, <2>3
<1>2. /\ Heads(u) \subseteq 1..n /\ IsFiniteSet(Heads(u)) /\ Cardinality(Heads(u)) \in Nat
      /\ Len(a) = c + Cardinality(Heads(u))
  BY <1>1, HeadsAreFinite DEF Requests
<1>3. 1 \in Heads(u) /\ RequestOK(u, c, pending, 1)
  BY <1>1 DEF Heads, Requests
<1>4. SubSeq(u, 2 + Body(u[1].kind), Len(u)) = v
  <2>1. 2 + Body(u[1].kind) = m + 1
    BY BodyIs
  <2> QED
    BY <2>1
<1>5. /\ \A j \in 2..m : u[j].part = "body"
      /\ m < n => u[m + 1].part = "head"
  <2>1. /\ \A j \in 1..n : 1 < j /\ j <= m => u[j].part = "body"
        /\ m < n => u[m + 1].part = "head"
    BY <1>3 DEF RequestOK, RequestAt
  <2> HIDE DEF m
  <2>2. \A j \in 2..m : j \in 1..n /\ 1 < j /\ j <= m
    BY <1>1
  <2> QED
    BY <2>1, <2>2
<1> HIDE DEF m
<1>6. /\ v \in Seq(Units) /\ Len(v) = n - m
      /\ \A k \in 1..(n-m) : v[k] = u[k + m] /\ k + m \in 1..n
      /\ DOMAIN v = 1..(n-m) /\ DOMAIN u = 1..n
  BY <1>1
<1> HIDE DEF v
<1>7. Heads(v) \subseteq 1..(n-m) /\ IsFiniteSet(Heads(v)) /\ Cardinality(Heads(v)) \in Nat
  BY <1>6, HeadsAreFinite
<1>8. \A k \in 1..(n-m) : k \in Heads(v) <=> k + m \in Heads(u)
  BY <1>6 DEF Heads
<1>9. ASSUME NEW i \in Heads(u), i # 1
      PROVE  i - m \in 1..(n-m) /\ (i - m) + m = i /\ i - m \in Heads(v)
  <2>1. i \in 1..n /\ u[i].part = "head" /\ "head" # "body"
    BY <1>2, <1>9 DEF Heads
  <2>2. ~(i \in 2..m)
    BY <1>5, <2>1
  <2>3. i - m \in 1..(n-m) /\ (i - m) + m = i
    BY <1>1, <1>9, <2>1, <2>2
  <2> QED
    BY <1>8, <2>3
(* The headers up to one that is shifted. *)
<1>10. ASSUME NEW k \in 1..(n-m)
       PROVE  /\ IsFiniteSet(Upto(Heads(u), k + m)) /\ IsFiniteSet(Upto(Heads(v), k))
              /\ Cardinality(Upto(Heads(v), k)) \in Nat
              /\ Cardinality(Upto(Heads(u), k + m)) = Cardinality(Upto(Heads(v), k)) + 1
  <2> DEFINE H == Upto(Heads(v), k)
             T == {j + m : j \in H}
  <2>1. H \in SUBSET Heads(v) /\ H \subseteq Nat
    BY <1>7 DEF Upto
  <2>2. IsFiniteSet(H) /\ Cardinality(H) \in Nat
    BY <1>7, <2>1, FS_Subset, FS_CardinalityType
  <2>3. m \in Nat
    BY <1>1
  <2>4. IsFiniteSet(T) /\ Cardinality(T) = Cardinality(H)
    BY <2>1, <2>2, <2>3, Shifted
  <2>5. Upto(Heads(u), k + m) = T \cup {1}
    <3>1. ASSUME NEW i \in Upto(Heads(u), k + m)
          PROVE  i \in T \cup {1}
      <4>1. i \in Heads(u) /\ i <= k + m
        BY <3>1 DEF Upto
      <4>2. CASE i # 1
        <5>1. i - m \in 1..(n-m) /\ (i - m) + m = i /\ i - m \in Heads(v)
          BY <1>9, <4>1, <4>2
        <5>2. i - m <= k
          BY <1>1, <4>1, <5>1
        <5>3. i - m \in H
          BY <5>1, <5>2 DEF Upto
        <5> HIDE DEF H
        <5> QED
          BY <5>1, <5>3
      <4> QED
        BY <4>2
    <3>2. ASSUME NEW j \in H
          PROVE  j + m \in Upto(Heads(u), k + m)
      <4>1. j \in Heads(v) /\ j <= k /\ j \in 1..(n-m)
        BY <1>7, <3>2 DEF Upto
      <4>2. j + m \in Heads(u) /\ j + m <= k + m
        BY <1>1, <1>8, <4>1
      <4> QED
        BY <4>2 DEF Upto
    <3>3. 1 \in Upto(Heads(u), k + m)
      <4>1. 1 <= k + m
        BY <1>1
      <4> QED
        BY <1>3, <4>1 DEF Upto
    <3> QED
      BY <3>1, <3>2, <3>3
  <2>6. 1 \notin T
    <3>1. \A j \in H : j + m # 1
      <4>1. \A j \in H : j \in 1..(n-m)
        BY <1>7, <2>1
      <4> HIDE DEF H
      <4> QED
        BY <1>1, <4>1
    <3> HIDE DEF H
    <3> QED
      BY <3>1
  <2> HIDE DEF T, H
  <2>7. IsFiniteSet(T \cup {1}) /\ Cardinality(T \cup {1}) = Cardinality(T) + 1
    BY <2>4, <2>6, FS_AddElement
  <2> QED
    BY <2>2, <2>4, <2>5, <2>7 DEF H
<1>11. Cardinality(Heads(u)) = Cardinality(Heads(v)) + 1
  <2>1. CASE n = m
    <3>1. Heads(u) = {1}
      <4>1. \A i \in Heads(u) : i = 1
        BY <1>1, <1>9, <2>1
      <4> QED
        BY <1>3, <4>1
    <3>2. Heads(v) = {}
      BY <1>1, <1>7, <2>1
    <3>3. Cardinality({1}) = 1 /\ Cardinality({}) = 0
      BY FS_EmptySet, FS_Singleton, Zenon
    <3> QED
      BY <3>1, <3>2, <3>3
  <2>2. CASE n # m
    <3>1. n - m \in 1..(n-m) /\ (n - m) + m = n
      BY <1>1, <2>2
    <3>2. Upto(Heads(u), n) = Heads(u)
      BY <1>1, <1>2 DEF Upto
    <3>3. Upto(Heads(v), n - m) = Heads(v)
      BY <1>1, <1>7 DEF Upto
    <3> QED
      BY <1>10, <3>1, <3>2, <3>3
  <2> QED
    BY <2>1, <2>2
<1>12. Len(a) = (c + 1) + Cardinality(Heads(v)) /\ c + 1 <= Len(a)
  BY <1>2, <1>7, <1>11
<1>13. u[1].id = c + 1
  <2>1. u[1].id = c + Cardinality(Upto(Heads(u), 1))
    BY <1>3 DEF RequestOK
  <2>2. Upto(Heads(u), 1) = {1}
    BY <1>1, <1>2, <1>3 DEF Upto
  <2> QED
    BY <2>1, <2>2, FS_Singleton
<1>14. v # <<>> => v[1].part = "head"
  <2> SUFFICES ASSUME v # <<>> PROVE v[1].part = "head"
    OBVIOUS
  <2>1. n - m # 0
    BY <1>6
  <2>2. 1 \in 1..(n-m) /\ m < n /\ 1 + m = m + 1
    BY <1>1, <2>1
  <2> QED
    BY <1>5, <1>6, <2>2
<1>15. ASSUME NEW k \in Heads(v)
       PROVE  RequestOK(v, c + 1, pending, k)
  <2>1. k \in 1..(n-m) /\ k + m \in Heads(u) /\ v[k] = u[k + m] /\ k + m \in 1..n
    BY <1>6, <1>7, <1>8
  <2>2. RequestOK(u, c, pending, k + m)
    BY <2>1 DEF Requests
  <2>3. v[k].id = (c + 1) + Cardinality(Upto(Heads(v), k))
    <3>1. u[k + m].id = c + Cardinality(Upto(Heads(u), k + m))
      BY <2>2 DEF RequestOK
    <3>2. /\ Cardinality(Upto(Heads(v), k)) \in Nat
          /\ Cardinality(Upto(Heads(u), k + m)) = Cardinality(Upto(Heads(v), k)) + 1
      BY <1>10, <2>1
    <3> QED
      BY <2>1, <3>1, <3>2
  <2> DEFINE l == Body(v[k].kind)
  <2>4. l \in Nat \ {0}
    BY BodyIs
  <2> HIDE DEF l
  <2>5. /\ \A j \in 1..n : k + m < j /\ j <= k + m + l => u[j].part = "body"
        /\ k + m + l < n => u[k + m + l + 1].part = "head"
        /\ k + m + l <= n \/ (pending /\ k + m = n)
    BY <2>1, <2>2 DEF RequestOK, RequestAt, l
  <2>6. \A j \in 1..(n-m) : k < j /\ j <= k + l => v[j].part = "body"
    <3> SUFFICES ASSUME NEW j \in 1..(n-m), k < j, j <= k + l
                 PROVE  v[j].part = "body"
      OBVIOUS
    <3>1. k + m < j + m /\ j + m <= k + m + l
      BY <1>1, <2>1, <2>4
    <3> QED
      BY <1>6, <2>5, <3>1
  <2>7. k + l < n - m => v[k + l + 1].part = "head"
    <3> SUFFICES ASSUME k + l < n - m PROVE v[k + l + 1].part = "head"
      OBVIOUS
    <3>1. /\ k + l + 1 \in 1..(n-m) /\ k + m + l < n
          /\ (k + l + 1) + m = k + m + l + 1
      BY <1>1, <2>1, <2>4
    <3>2. v[k + l + 1] = u[(k + l + 1) + m]
      BY <1>6, <3>1
    <3> QED
      BY <2>5, <3>1, <3>2
  <2>8. k + l <= n - m \/ (pending /\ k = n - m)
    <3>1. k + m + l <= n => k + l <= n - m
      BY <1>1, <2>1, <2>4
    <3>2. k + m = n => k = n - m
      BY <1>1, <2>1
    <3> QED
      BY <2>5, <3>1, <3>2
  <2> QED
    BY <1>6, <2>3, <2>6, <2>7, <2>8 DEF RequestOK, RequestAt, l
<1>16. pending => /\ v # <<>> /\ a # <<>>
                  /\ v[Len(v)] = a[Len(a)] /\ v[Len(v)].part = "head"
  <2> SUFFICES ASSUME pending
               PROVE  /\ v # <<>> /\ a # <<>>
                      /\ v[Len(v)] = a[Len(a)] /\ v[Len(v)].part = "head"
    OBVIOUS
  <2>1. a # <<>> /\ u[n] = a[Len(a)] /\ u[n].part = "head"
    BY DEF Requests
  <2>2. n # m
    <3>1. n \in 1..n /\ n # 1
      <4>1. n \in Nat /\ m \in 2..n
        BY <1>1
      <4> HIDE DEF n
      <4> QED
        BY <4>1
    <3>2. m \in 2..m /\ "head" # "body"
      BY <1>1
    <3> QED
      BY <1>5, <2>1, <3>2
  <2>3. n - m \in 1..(n-m) /\ (n - m) + m = n
    BY <1>1, <2>2
  <2>4. v[Len(v)] = u[n]
    BY <1>6, <2>3
  <2>5. v # <<>>
    <3>1. Len(v) # 0
      BY <1>1, <1>6, <2>2
    <3> QED
      BY <3>1
  <2> QED
    BY <2>1, <2>4, <2>5
<1>17. Requests(v, c + 1, a, pending)
  BY <1>6, <1>12, <1>14, <1>15, <1>16 DEF Requests
<1> QED
  BY <1>4, <1>12, <1>13, <1>17

-----------------------------------------------------------------------------
(* What a call on an entry of the table sends to its client.               *)

(* What the kernel and the entry f hold for a client.                      *)
HeldAt(s, f, p) == s.toClient[p] \o s.client[f].out

(* The entry keeps its client, who is sent v, or the client is closed and  *)
(* gets no more than the beginning of v.                                   *)
Sent(s, t, f, p, v) ==
    IF t.client[f].peer = p THEN HeldAt(t, f, p) = HeldAt(s, f, p) \o v
    ELSE \E w \in Seq(Units) : HeldAt(t, f, p) \o w = HeldAt(s, f, p) \o v

(* A call on entry f sends v to the client that has it, if that one lives, *)
(* and touches no one else.                                                *)
Sends(s, t, f, v) ==
    /\ \A g \in Fds : g # f => t.client[g] = s.client[g]
    /\ \A p \in Peers : p # s.client[f].peer => t.toClient[p] = s.toClient[p]
    /\ t.client[f].peer # NoPeer => t.client[f].in = s.client[f].in
    /\ s.client[f].peer \in Peers /\ alive[s.client[f].peer]
         => Sent(s, t, f, s.client[f].peer, v)

(* Nothing after a sequence is the sequence.                               *)
LEMMA NothingMore ==
    ASSUME NEW x \in Seq(Units)
    PROVE  x \o <<>> = x /\ <<>> \o x = x /\ <<>> \in Seq(Units)
  OBVIOUS

(* The elements of two sequences one after the other.                      *)
LEMMA JoinedAt ==
    ASSUME NEW S, NEW c \in Seq(S), NEW d \in Seq(S)
    PROVE  \A k \in 1..(Len(c) + Len(d)) :
              (c \o d)[k] = IF k <= Len(c) THEN c[k] ELSE d[k - Len(c)]
  OBVIOUS

(* Two sequences of one unit make one of two.                              *)
LEMMA OneAndOne ==
    ASSUME NEW a \in Seq(Units), NEW b \in Seq(Units), NEW r \in Seq(Units),
           Len(a) = 1, Len(b) = 1, Len(r) = 2, r[1] = a[1], r[2] = b[1]
    PROVE  a \o b = r
<1> DEFINE l == a \o b
<1>1. l \in Seq(Units) /\ Len(l) = Len(a) + Len(b)
  BY Joined
<1>2. Len(l) = 2
  BY <1>1
<1>3. l[1] = a[1]
  OBVIOUS
<1>4. l[2] = b[1]
  <2>1. \A k \in 1..(Len(a) + Len(b)) : l[k] = IF k <= Len(a) THEN a[k] ELSE b[k - Len(a)]
    BY JoinedAt
  <2> HIDE DEF l
  <2>2. 2 \in 1..(Len(a) + Len(b)) /\ ~(2 <= Len(a)) /\ 2 - Len(a) = 1
    OBVIOUS
  <2> QED
    BY <2>1, <2>2
<1> HIDE DEF l
<1>5. \A k \in 1..2 : k = 1 \/ k = 2
  OBVIOUS
<1>6. \A k \in 1..2 : l[k] = r[k]
  BY <1>3, <1>4, <1>5
<1>7. l = r
  BY <1>1, <1>2, <1>6
<1> QED
  BY <1>7 DEF l

(* A header and a body make a frame.                                       *)
LEMMA TwoUnits ==
    ASSUME NEW x \in Units, NEW y \in Units
    PROVE  <<x>> \o <<y>> = <<x, y>>
<1>1. <<x>> \in Seq(Units) /\ <<y>> \in Seq(Units) /\ <<x, y>> \in Seq(Units)
  OBVIOUS
<1>2. Len(<<x>>) = 1 /\ Len(<<y>>) = 1 /\ Len(<<x, y>>) = 2
  OBVIOUS
<1>3. <<x, y>>[1] = <<x>>[1] /\ <<x, y>>[2] = <<y>>[1]
  OBVIOUS
<1> QED
  BY <1>1, <1>2, <1>3, OneAndOne

(* Concatenation is associative.                                           *)
LEMMA OneAfterAnother ==
    ASSUME NEW x \in Seq(Units), NEW y \in Seq(Units), NEW z \in Seq(Units)
    PROVE  (x \o y) \o z = x \o (y \o z)
<1> DEFINE l == (x \o y) \o z
           r == x \o (y \o z)
<1>1. /\ x \o y \in Seq(Units) /\ Len(x \o y) = Len(x) + Len(y)
      /\ y \o z \in Seq(Units) /\ Len(y \o z) = Len(y) + Len(z)
  BY Joined
<1>2. /\ l \in Seq(Units) /\ Len(l) = Len(x) + Len(y) + Len(z)
      /\ r \in Seq(Units) /\ Len(r) = Len(x) + Len(y) + Len(z)
  <2>1. l \in Seq(Units) /\ Len(l) = (Len(x) + Len(y)) + Len(z)
    BY <1>1, Joined
  <2>2. r \in Seq(Units) /\ Len(r) = Len(x) + (Len(y) + Len(z))
    BY <1>1, Joined
  <2>3. Len(x) \in Nat /\ Len(y) \in Nat /\ Len(z) \in Nat
    OBVIOUS
  <2> QED
    BY <2>1, <2>2, <2>3
<1>3. \A k \in 1..(Len(x) + Len(y) + Len(z)) : l[k] = r[k]
  OBVIOUS
<1> HIDE DEF l, r
<1>4. l = r
  BY <1>2, <1>3
<1> QED
  BY <1>4 DEF l, r

(* A sequence is its beginning and its rest.                               *)
LEMMA BeginningAndRest ==
    ASSUME NEW x \in Seq(Units), NEW n \in 0..Len(x)
    PROVE  /\ SubSeq(x, 1, n) \in Seq(Units) /\ SubSeq(x, n + 1, Len(x)) \in Seq(Units)
           /\ SubSeq(x, 1, n) \o SubSeq(x, n + 1, Len(x)) = x
<1> DEFINE y == SubSeq(x, 1, n)
           z == SubSeq(x, n + 1, Len(x))
<1>1. y \in Seq(Units) /\ Len(y) = n /\ \A k \in 1..n : y[k] = x[k]
  OBVIOUS
<1>2. /\ z \in Seq(Units) /\ Len(z) = Len(x) - n
      /\ \A k \in 1..(Len(x) - n) : z[k] = x[k + n]
  OBVIOUS
<1> HIDE DEF y, z
<1>3. y \o z \in Seq(Units) /\ Len(y \o z) = Len(x)
  <2>1. Len(x) \in Nat /\ n \in Nat
    OBVIOUS
  <2>2. y \o z \in Seq(Units) /\ Len(y \o z) = Len(y) + Len(z)
    BY <1>1, <1>2, Joined
  <2>3. n + (Len(x) - n) = Len(x)
    BY <2>1
  <2> QED
    BY <1>1, <1>2, <2>2, <2>3
<1>4. \A k \in 1..Len(x) : (y \o z)[k] = x[k]
  BY <1>1, <1>2
<1>5. y \o z = x
  <2> DEFINE t == y \o z
  <2>1. t \in Seq(Units) /\ Len(t) = Len(x) /\ \A k \in 1..Len(x) : t[k] = x[k]
    BY <1>3, <1>4
  <2> HIDE DEF t
  <2>2. t = x
    BY <2>1
  <2> QED
    BY <2>2 DEF t
<1> QED
  BY <1>1, <1>2, <1>5 DEF y, z

(* A call that does nothing.                                               *)
LEMMA SendsNothing ==
    ASSUME NEW s, TableOK(s), NEW f \in Fds
    PROVE  Sends(s, s, f, <<>>)
<1>1. ASSUME s.client[f].peer \in Peers
      PROVE  HeldAt(s, f, s.client[f].peer) \o <<>> = HeldAt(s, f, s.client[f].peer)
  <2>1. /\ s.client[f].out \in Seq(Units) /\ s.toClient[s.client[f].peer] \in Seq(Units)
    BY <1>1 DEF TableOK, Tables, Clients
  <2>2. HeldAt(s, f, s.client[f].peer) \in Seq(Units)
    BY <2>1, Joined DEF HeldAt
  <2> QED
    BY <2>2, NothingMore
<1> QED
  BY <1>1 DEF Sends, Sent

(* client_close                                                            *)
LEMMA CloseClientSends ==
    ASSUME NEW s, TableOK(s), NEW f \in Fds, NEW v \in Seq(Units)
    PROVE  s.client[f].peer # NoPeer \/ v = <<>> => Sends(s, CloseClient(s, f), f, v)
<1> DEFINE p == s.client[f].peer
           t == [s EXCEPT !.client[f] = Free, !.link[s.client[f].peer] = "shut"]
<1>1. CASE p = NoPeer
  BY <1>1, SendsNothing DEF CloseClient
<1>2. CASE p # NoPeer
  <2>1. s \in Tables /\ p \in Peers
    BY <1>2 DEF TableOK, Tables, Clients
  <2>2. /\ t.client = [s.client EXCEPT ![f] = Free]
        /\ t.toClient = s.toClient
    BY <2>1 DEF Tables
  <2> HIDE DEF t
  <2>3. /\ \A g \in Fds : g # f => t.client[g] = s.client[g]
        /\ t.client[f] = Free
    BY <2>1, <2>2 DEF Tables
  <2>4. s.client[f].out \in Seq(Units) /\ s.toClient[p] \in Seq(Units)
    BY <2>1 DEF Tables, Clients
  <2>5. Free.peer = NoPeer /\ Free.out = <<>>
    BY DEF Free
  <2>6. HeldAt(t, f, p) = s.toClient[p]
    BY <2>2, <2>3, <2>4, <2>5, NothingMore DEF HeldAt
  <2>7. s.client[f].out \o v \in Seq(Units)
    BY <2>4, Joined
  <2>8. HeldAt(t, f, p) \o (s.client[f].out \o v) = HeldAt(s, f, p) \o v
    <3>1. HeldAt(s, f, p) = s.toClient[p] \o s.client[f].out
      BY DEF HeldAt
    <3>2. (s.toClient[p] \o s.client[f].out) \o v = s.toClient[p] \o (s.client[f].out \o v)
      BY <2>4, OneAfterAnother
    <3> QED
      BY <2>6, <3>1, <3>2
  <2>9. Sent(s, t, f, p, v)
    BY <1>2, <2>3, <2>5, <2>7, <2>8 DEF Sent
  <2>10. Sends(s, t, f, v)
    BY <2>2, <2>3, <2>5, <2>9 DEF Sends
  <2> QED
    BY <1>2, <2>10 DEF CloseClient, t
<1> QED
  BY <1>1, <1>2

(* client_write                                                            *)
LEMMA ClientWriteSends ==
    ASSUME NEW s, TableOK(s), NEW f \in Fds
    PROVE  Sends(s, ClientWrite(s, f), f, <<>>)
<1> DEFINE c == s.client[f]
           room == SockBuf - Len(s.toClient[c.peer])
           n == IF Len(c.out) < room THEN Len(c.out) ELSE room
           left == SubSeq(c.out, n + 1, Len(c.out))
           sent == SubSeq(c.out, 1, n)
           t == [s EXCEPT !.toClient[c.peer] = @ \o SubSeq(c.out, 1, n),
                          !.client[f].out = left,
                          !.client[f].used = IF left = << >> THEN 0 ELSE @]
<1>1. CASE c.out = <<>>
  BY <1>1, SendsNothing DEF ClientWrite
<1>2. CASE c.out # <<>> /\ ~alive[c.peer]
  <2>1. <<>> \in Seq(Units)
    OBVIOUS
  <2>2. Sends(s, CloseClient(s, f), f, <<>>)
    BY <2>1, CloseClientSends
  <2> QED
    BY <1>2, <2>2 DEF ClientWrite
<1>3. CASE c.out # <<>> /\ alive[c.peer]
  <2>1. /\ s \in Tables /\ c \in Clients /\ ClientOK(c) /\ c.peer \in Peers
        /\ s.toClient[c.peer] \in Seq(Units) /\ Len(s.toClient[c.peer]) <= SockBuf
    <3>1. s \in Tables /\ ClientOK(c)
      BY DEF TableOK
    <3>2. c \in Clients /\ c.peer \in Peers
      BY <1>3, <3>1 DEF ClientOK, Clients, Free
    <3> QED
      BY <3>1, <3>2 DEF TableOK, Tables
  <2>2. c.out \in Seq(Units) /\ SockBuf \in Nat
    BY <2>1, UdsAssumption DEF ClientOK, Clients
  <2>3. n \in 0..Len(c.out)
    <3>1. Len(c.out) \in Nat
      BY <2>2
    <3>2. room \in Nat
      <4>1. Len(s.toClient[c.peer]) \in Nat
        BY <2>1
      <4> QED
        BY <2>1, <2>2, <4>1
    <3> HIDE DEF room
    <3> QED
      BY <3>1, <3>2
  <2> HIDE DEF n
  <2>4. sent \in Seq(Units) /\ left \in Seq(Units) /\ sent \o left = c.out
    BY <2>2, <2>3, BeginningAndRest
  <2>5. /\ t.toClient = [s.toClient EXCEPT ![c.peer] = @ \o sent]
        /\ t.client = [s.client EXCEPT ![f].out = left,
                                       ![f].used = IF left = << >> THEN 0 ELSE @]
    BY <2>1 DEF Tables
  <2> HIDE DEF t, left, sent
  <2>6. /\ \A g \in Fds : g # f => t.client[g] = s.client[g]
        /\ t.client[f].in = c.in /\ t.client[f].peer = c.peer /\ t.client[f].out = left
    BY <2>1, <2>5 DEF Tables, Clients
  <2>7. /\ \A p \in Peers : p # c.peer => t.toClient[p] = s.toClient[p]
        /\ t.toClient[c.peer] = s.toClient[c.peer] \o sent
    BY <2>1, <2>5 DEF Tables
  <2>8. HeldAt(t, f, c.peer) = HeldAt(s, f, c.peer)
    <3>1. (s.toClient[c.peer] \o sent) \o left = s.toClient[c.peer] \o (sent \o left)
      BY <2>1, <2>4, OneAfterAnother
    <3>2. HeldAt(t, f, c.peer) = (s.toClient[c.peer] \o sent) \o left
      BY <2>6, <2>7 DEF HeldAt
    <3>3. HeldAt(s, f, c.peer) = s.toClient[c.peer] \o c.out
      BY DEF HeldAt
    <3> QED
      BY <2>4, <3>1, <3>2, <3>3
  <2>9. HeldAt(s, f, c.peer) \o <<>> = HeldAt(s, f, c.peer)
    <3>1. HeldAt(s, f, c.peer) \in Seq(Units)
      BY <2>1, <2>2, Joined DEF HeldAt
    <3> QED
      BY <3>1, NothingMore
  <2>10. Sent(s, t, f, c.peer, <<>>)
    BY <2>6, <2>8, <2>9 DEF Sent
  <2>11. Sends(s, t, f, <<>>)
    BY <2>6, <2>7, <2>10 DEF Sends
  <2>12. ClientWrite(s, f) = t
    BY <1>3 DEF ClientWrite, t, left, n
  <2> QED
    BY <2>11, <2>12
<1> QED
  BY <1>1, <1>2, <1>3

(* One call on an entry after the other; a client that was closed is not   *)
(* sent anything.                                                          *)
LEMMA SendsThenSends ==
    ASSUME NEW s, NEW t, NEW u, NEW f \in Fds, NEW v \in Seq(Units), NEW w \in Seq(Units),
           TableOK(s), Good(s, t), Good(t, u), Sends(s, t, f, v),
           IF t.client[f].peer = NoPeer THEN u = t ELSE Sends(t, u, f, w)
    PROVE  Sends(s, u, f, v \o w)
<1> DEFINE p == s.client[f].peer
<1>0. NoPeer \notin Peers
  BY UdsAssumption
<1>1. t.client[f].peer \in {p, NoPeer} /\ u.client[f].peer \in {t.client[f].peer, NoPeer}
  BY DEF Good, Closes
<1>2. /\ \A g \in Fds : g # f => u.client[g] = s.client[g]
      /\ \A q \in Peers : q # p => u.toClient[q] = s.toClient[q]
      /\ u.client[f].peer # NoPeer => u.client[f].in = s.client[f].in
  BY <1>0, <1>1 DEF Sends
<1>3. ASSUME p \in Peers, alive[p]
      PROVE  Sent(s, u, f, p, v \o w)
  <2>1. /\ HeldAt(s, f, p) \in Seq(Units) /\ HeldAt(t, f, p) \in Seq(Units)
        /\ HeldAt(u, f, p) \in Seq(Units)
    BY <1>3, Joined DEF HeldAt, Good, TableOK, Tables, Clients
  <2>2. Sent(s, t, f, p, v)
    BY <1>3 DEF Sends
  <2>3. v \o w \in Seq(Units)
    BY Joined
  <2>4. (HeldAt(s, f, p) \o v) \o w = HeldAt(s, f, p) \o (v \o w)
    BY <2>1, OneAfterAnother
  <2>5. CASE t.client[f].peer = p
    <3>1. HeldAt(t, f, p) = HeldAt(s, f, p) \o v
      BY <2>2, <2>5 DEF Sent
    <3>2. Sent(t, u, f, p, w)
      BY <1>0, <1>3, <2>5 DEF Sends
    <3>3. CASE u.client[f].peer = p
      BY <2>4, <3>1, <3>2, <3>3 DEF Sent
    <3>4. CASE u.client[f].peer # p
      <4>1. PICK z \in Seq(Units) : HeldAt(u, f, p) \o z = HeldAt(t, f, p) \o w
        BY <3>2, <3>4 DEF Sent
      <4>2. HeldAt(u, f, p) \o z = HeldAt(s, f, p) \o (v \o w)
        BY <2>4, <3>1, <4>1
      <4> QED
        BY <3>4, <4>2 DEF Sent
    <3> QED
      BY <3>3, <3>4
  <2>6. CASE t.client[f].peer # p
    <3>1. PICK z \in Seq(Units) : HeldAt(t, f, p) \o z = HeldAt(s, f, p) \o v
      BY <2>2, <2>6 DEF Sent
    <3>2. u = t /\ u.client[f].peer # p
      BY <1>0, <1>1, <1>3, <2>6
    <3>3. z \o w \in Seq(Units)
      BY Joined
    <3>4. HeldAt(u, f, p) \o (z \o w) = HeldAt(s, f, p) \o (v \o w)
      <4>1. (HeldAt(t, f, p) \o z) \o w = HeldAt(t, f, p) \o (z \o w)
        BY <2>1, OneAfterAnother
      <4> QED
        BY <2>4, <3>1, <3>2, <4>1
    <3> QED
      BY <3>2, <3>3, <3>4 DEF Sent
  <2> QED
    BY <2>5, <2>6
<1> QED
  BY <1>2, <1>3 DEF Sends

(* client_enqueue                                                          *)
LEMMA ClientEnqueueSends ==
    ASSUME NEW s, TableOK(s), NEW f \in Fds, NEW v \in Seq(Units), s.client[f].peer # NoPeer
    PROVE  Sends(s, ClientEnqueue(s, f, v), f, v)
<1> DEFINE c == s.client[f]
           d == [c EXCEPT !.out = @ \o v, !.used = @ + Len(v)]
           t == [s EXCEPT !.client[f].out = @ \o v, !.client[f].used = @ + Len(v)]
<1>1. CASE c.used + Len(v) > WriteBuf
  <2>1. Sends(s, CloseClient(s, f), f, v)
    BY CloseClientSends
  <2> QED
    BY <1>1, <2>1 DEF ClientEnqueue
<1>2. CASE ~(c.used + Len(v) > WriteBuf)
  <2>1. s \in Tables /\ ClientOK(c) /\ c \in Clients /\ c.peer \in Peers
    BY DEF TableOK, Tables, Clients
  <2>2. /\ c.out \in Seq(Units) /\ c.used \in Nat /\ Len(c.out) <= c.used
        /\ Len(c.in) <= ReadBuf /\ s.toClient[c.peer] \in Seq(Units)
    BY <2>1 DEF ClientOK, Clients, Tables
  <2>3. c.out \o v \in Seq(Units) /\ Len(c.out \o v) = Len(c.out) + Len(v)
    BY <2>2, Joined
  <2>4. c.used + Len(v) \in Nat /\ c.used + Len(v) <= WriteBuf
    <3>1. Len(v) \in Nat /\ WriteBuf \in Nat
      BY UdsAssumption
    <3> QED
      BY <1>2, <2>2, <3>1
  <2>5. Len(c.out \o v) <= c.used + Len(v)
    <3>1. Len(c.out) \in Nat /\ Len(v) \in Nat
      BY <2>2
    <3> QED
      BY <2>2, <2>3, <3>1
  <2>6. /\ d \in Clients /\ d.peer = c.peer /\ d.in = c.in
        /\ d.out = c.out \o v /\ d.used = c.used + Len(v)
    BY <2>1, <2>3, <2>4 DEF Clients
  <2> HIDE DEF d
  <2>7. ClientOK(d)
    BY <2>2, <2>4, <2>5, <2>6 DEF ClientOK
  <2>8. Good(s, [s EXCEPT !.client[f] = d])
    BY <2>6, <2>7, EntryChanges
  <2>9. t = [s EXCEPT !.client[f] = d]
    BY <2>1 DEF t, d, Tables, Clients
  <2> HIDE DEF t
  <2>10. Good(s, t) /\ TableOK(t)
    BY <2>8, <2>9 DEF Good
  <2>11. t.client = [s.client EXCEPT ![f] = d] /\ t.toClient = s.toClient
    BY <2>1, <2>9 DEF Tables
  <2>12. /\ \A g \in Fds : g # f => t.client[g] = s.client[g]
         /\ t.client[f] = d
    BY <2>1, <2>11 DEF Tables
  <2>13. HeldAt(t, f, c.peer) = HeldAt(s, f, c.peer) \o v
    <3>1. (s.toClient[c.peer] \o c.out) \o v = s.toClient[c.peer] \o (c.out \o v)
      BY <2>2, OneAfterAnother
    <3>2. HeldAt(t, f, c.peer) = s.toClient[c.peer] \o (c.out \o v)
      BY <2>6, <2>11, <2>12 DEF HeldAt
    <3>3. HeldAt(s, f, c.peer) = s.toClient[c.peer] \o c.out
      BY DEF HeldAt
    <3> QED
      BY <3>1, <3>2, <3>3
  <2>14. Sends(s, t, f, v)
    BY <2>6, <2>11, <2>12, <2>13 DEF Sends, Sent
  <2>15. Good(t, ClientWrite(t, f)) /\ Sends(t, ClientWrite(t, f), f, <<>>)
    BY <2>10, ClientWriteGood, ClientWriteSends
  <2>16. Sends(s, ClientWrite(t, f), f, v \o <<>>)
    <3>1. <<>> \in Seq(Units)
      OBVIOUS
    <3>2. t.client[f].peer # NoPeer
      BY <2>6, <2>12
    <3> QED
      BY <2>10, <2>14, <2>15, <3>1, <3>2, SendsThenSends
  <2>17. v \o <<>> = v
    BY NothingMore
  <2>18. ClientEnqueue(s, f, v) = ClientWrite(t, f)
    BY <1>2, WriteOnce DEF ClientEnqueue, t
  <2> QED
    BY <2>16, <2>17, <2>18
<1> QED
  BY <1>1, <1>2

(* client_send_frame                                                       *)
LEMMA ClientSendFrameSends ==
    ASSUME NEW s, TableOK(s), NEW f \in Fds, NEW frame \in Frames,
           s.client[f].peer # NoPeer
    PROVE  Sends(s, ClientSendFrame(s, f, frame), f, frame)
<1> DEFINE h == <<frame[1]>>
           b == <<frame[2]>>
<1>1. h \in Seq(Units) /\ b \in Seq(Units) /\ frame = h \o b
  <2>1. PICK kind \in {"answer", "notice"}, id \in Nat : frame = Frame(kind, id)
    BY DEF Frames
  <2>2. Unit("head", kind, id) \in Units /\ Unit("body", kind, id) \in Units
    BY DEF Unit, Units
  <2> DEFINE x == Unit("head", kind, id)
             y == Unit("body", kind, id)
  <2>3. frame = <<x, y>>
    BY <2>1 DEF Frame
  <2> HIDE DEF x, y
  <2>4. frame[1] = x /\ frame[2] = y
    BY <2>3
  <2>5. <<x>> \in Seq(Units) /\ <<y>> \in Seq(Units)
    BY <2>2 DEF x, y
  <2>6. <<x>> \o <<y>> = <<x, y>>
    BY <2>2, TwoUnits DEF x, y
  <2> QED
    BY <2>3, <2>4, <2>5, <2>6
<1> HIDE DEF h, b
<1> DEFINE t == ClientEnqueue(s, f, h)
           u == ClientEnqueue(t, f, b)
<1>2. Good(s, t) /\ Sends(s, t, f, h)
  BY <1>1, ClientEnqueueGood, ClientEnqueueSends
<1> HIDE DEF t
<1>3. TableOK(t)
  BY <1>2 DEF Good
<1>4. Good(t, u)
  BY <1>1, <1>3, ClientEnqueueGood
<1>5. IF t.client[f].peer = NoPeer THEN u = t ELSE Sends(t, u, f, b)
  <2>1. CASE t.client[f].peer = NoPeer
    BY <2>1 DEF ClientEnqueue
  <2>2. CASE t.client[f].peer # NoPeer
    BY <1>1, <1>3, <2>2, ClientEnqueueSends
  <2> QED
    BY <2>1, <2>2
<1>6. ClientSendFrame(s, f, frame) = u
  BY EnqueueOnce DEF ClientSendFrame, t, h, b
<1> HIDE DEF u
<1>7. Sends(s, u, f, h \o b)
  BY <1>1, <1>2, <1>4, <1>5, SendsThenSends
<1> QED
  BY <1>1, <1>6, <1>7

-----------------------------------------------------------------------------
(* What a call on the table does to each client.                           *)

(* The entry of a client, a free one if it has none.                       *)
EntryOf(s, p) ==
    IF \E f \in Fds : s.client[f].peer = p
    THEN s.client[CHOOSE f \in Fds : s.client[f].peer = p] ELSE Free

(* What is on its way to a client.                                         *)
Held(s, p) == s.toClient[p] \o EntryOf(s, p).out

(* A client is sent v and its requests stay, or its connection is shut and *)
(* it gets no more than the beginning of v.                                *)
Serves(s, t, p, v) ==
    IF t.link[p] = s.link[p]
    THEN EntryOf(t, p).in = EntryOf(s, p).in /\ Held(t, p) = Held(s, p) \o v
    ELSE t.link[p] = "shut" /\ \E w \in Seq(Units) : Held(t, p) \o w = Held(s, p) \o v

(* The requests in the entries that stay are untouched.                    *)
KeepsRequests(s, t) ==
    \A f \in Fds : IF t.client[f].peer = NoPeer THEN t.client[f] = Free
                   ELSE t.client[f].in = s.client[f].in

(* The entry of a client that has one.                                     *)
LEMMA EntryIs ==
    ASSUME NEW s, Distinct(s), NEW f \in Fds, NEW p \in Peers, s.client[f].peer = p
    PROVE  /\ EntryOf(s, p) = s.client[f]
           /\ (CHOOSE g \in Fds : s.client[g].peer = p) = f
<1> DEFINE h == CHOOSE g \in Fds : s.client[g].peer = p
<1>1. h \in Fds /\ s.client[h].peer = p
  OBVIOUS
<1> HIDE DEF h
<1>2. h = f
  BY <1>1 DEF Distinct
<1> QED
  BY <1>2 DEF EntryOf, h

(* A client without one.                                                   *)
LEMMA NoEntry ==
    ASSUME NEW s, NEW p, \A f \in Fds : s.client[f].peer # p
    PROVE  EntryOf(s, p) = Free
  BY DEF EntryOf

(* The entry of a client and what is on its way are typed.                 *)
LEMMA EntryTypes ==
    ASSUME NEW s, TableOK(s), NEW p \in Peers
    PROVE  EntryOf(s, p) \in Clients /\ Held(s, p) \in Seq(Units)
<1>1. EntryOf(s, p) \in Clients
  <2>1. CASE \E f \in Fds : s.client[f].peer = p
    <3>1. PICK f \in Fds : EntryOf(s, p) = s.client[f]
      BY <2>1 DEF EntryOf
    <3> QED
      BY <3>1 DEF TableOK, ClientOK
  <2>2. CASE ~\E f \in Fds : s.client[f].peer = p
    BY <2>2, FreeIsOK DEF EntryOf
  <2> QED
    BY <2>1, <2>2
<1>2. EntryOf(s, p).out \in Seq(Units) /\ s.toClient[p] \in Seq(Units)
  BY <1>1 DEF Clients, TableOK, Tables
<1> QED
  BY <1>1, <1>2, Joined DEF Held

(* A call that leaves a client's entry and buffer alone.                   *)
LEMMA ServesNothing ==
    ASSUME NEW s, TableOK(s), NEW t, NEW p \in Peers,
           EntryOf(t, p) = EntryOf(s, p), t.link[p] = s.link[p],
           t.toClient[p] = s.toClient[p]
    PROVE  Serves(s, t, p, <<>>)
<1>1. Held(s, p) \o <<>> = Held(s, p)
  BY EntryTypes, NothingMore
<1>2. Held(t, p) = Held(s, p)
  BY DEF Held
<1> QED
  BY <1>1, <1>2 DEF Serves

(* A call on an entry serves the client that has it.                       *)
LEMMA SendsServes ==
    ASSUME NEW s, TableOK(s), Owned(s), NEW t, Good(s, t), NEW f \in Fds,
           NEW v \in Seq(Units), Sends(s, t, f, v),
           s.client[f].peer \in Peers, alive[s.client[f].peer]
    PROVE  Serves(s, t, s.client[f].peer, v)
<1> DEFINE p == s.client[f].peer
<1>0. NoPeer \notin Peers /\ Distinct(s) /\ Distinct(t) /\ TableOK(t)
  BY ClosesKeeps, UdsAssumption DEF Owned, Good
<1>1. EntryOf(s, p) = s.client[f] /\ s.link[p] = "open"
  BY <1>0, EntryIs DEF Owned
<1>2. Sent(s, t, f, p, v)
  BY DEF Sends
<1>3. t.link[p] = IF Loses(s, t, p) THEN "shut" ELSE s.link[p]
  BY DEF Good, Closes
<1>4. HeldAt(s, f, p) = Held(s, p)
  BY <1>1 DEF HeldAt, Held
<1>5. CASE t.client[f].peer = p
  <2>1. EntryOf(t, p) = t.client[f]
    BY <1>0, <1>5, EntryIs
  <2>2. ~Loses(s, t, p)
    BY <1>0, <1>5 DEF Loses, Distinct
  <2>3. HeldAt(t, f, p) = Held(t, p)
    BY <2>1 DEF HeldAt, Held
  <2>4. t.client[f].in = s.client[f].in
    BY <1>0, <1>5 DEF Sends
  <2>5. Held(t, p) = Held(s, p) \o v
    BY <1>2, <1>4, <1>5, <2>3 DEF Sent
  <2> QED
    BY <1>1, <1>3, <2>1, <2>2, <2>4, <2>5 DEF Serves
<1>6. CASE t.client[f].peer # p
  <2>1. Loses(s, t, p)
    BY <1>6 DEF Loses
  <2>2. \A g \in Fds : t.client[g].peer # p
    BY <1>0, <1>6 DEF Good, Closes, Distinct
  <2>3. EntryOf(t, p) = Free
    BY <2>2, NoEntry
  <2>4. t.client[f] = Free
    BY <1>0, <1>6 DEF Good, Closes, TableOK, ClientOK
  <2>5. HeldAt(t, f, p) = Held(t, p)
    BY <2>3, <2>4 DEF HeldAt, Held
  <2>6. \E w \in Seq(Units) : Held(t, p) \o w = Held(s, p) \o v
    BY <1>2, <1>4, <1>6, <2>5 DEF Sent
  <2> QED
    BY <1>1, <1>3, <2>1, <2>6 DEF Serves
<1> QED
  BY <1>5, <1>6

(* The others are left alone.                                              *)
LEMMA SendsLeaves ==
    ASSUME NEW s, TableOK(s), Owned(s), NEW t, Good(s, t), NEW f \in Fds,
           NEW v \in Seq(Units), Sends(s, t, f, v),
           NEW p \in Peers, s.client[f].peer # p
    PROVE  /\ EntryOf(t, p) = EntryOf(s, p) /\ t.link[p] = s.link[p]
           /\ t.toClient[p] = s.toClient[p] /\ Serves(s, t, p, <<>>)
<1>0. NoPeer \notin Peers /\ Distinct(s) /\ Distinct(t) /\ TableOK(t)
  BY ClosesKeeps, UdsAssumption DEF Owned, Good
<1>1. t.client[f].peer # p
  BY <1>0 DEF Good, Closes
<1>2. \A g \in Fds : g # f => t.client[g] = s.client[g]
  BY DEF Sends
<1>3. t.toClient[p] = s.toClient[p]
  BY DEF Sends
<1>4. t.link[p] = s.link[p]
  <2>1. ~Loses(s, t, p)
    BY <1>2 DEF Loses
  <2> QED
    BY <2>1 DEF Good, Closes
<1>5. EntryOf(t, p) = EntryOf(s, p)
  <2>1. CASE \E g \in Fds : s.client[g].peer = p
    <3>1. PICK g \in Fds : s.client[g].peer = p
      BY <2>1
    <3>2. t.client[g] = s.client[g]
      BY <1>2, <3>1
    <3>3. EntryOf(s, p) = s.client[g] /\ EntryOf(t, p) = t.client[g]
      BY <1>0, <3>1, <3>2, EntryIs
    <3> QED
      BY <3>2, <3>3
  <2>2. CASE ~\E g \in Fds : s.client[g].peer = p
    <3>1. \A g \in Fds : t.client[g].peer # p
      BY <1>1, <1>2, <2>2
    <3> QED
      BY <2>2, <3>1, NoEntry
  <2> QED
    BY <2>1, <2>2
<1> QED
  BY <1>3, <1>4, <1>5, ServesNothing

(* A call on an entry keeps the requests.                                  *)
LEMMA SendsKeepsRequests ==
    ASSUME NEW s, TableOK(s), NEW t, Good(s, t), NEW f \in Fds, NEW v, Sends(s, t, f, v)
    PROVE  KeepsRequests(s, t)
<1> SUFFICES ASSUME NEW g \in Fds
             PROVE  IF t.client[g].peer = NoPeer THEN t.client[g] = Free
                    ELSE t.client[g].in = s.client[g].in
  BY DEF KeepsRequests
<1>1. t.client[g].peer = NoPeer => t.client[g] = Free
  BY DEF Good, TableOK, ClientOK
<1>2. t.client[g].peer # NoPeer => t.client[g].in = s.client[g].in
  BY DEF Sends
<1> QED
  BY <1>1, <1>2

(* What a broadcast sends to a client.                                     *)
Told(s, p) == IF s.link[p] = "open" THEN Notice ELSE <<>>

(* typio_uds_server_broadcast                                              *)
LEMMA BroadcastServes ==
    ASSUME NEW s, TableOK(s), Owned(s)
    PROVE  /\ \A p \in Peers : alive[p] => Serves(s, Broadcast(s), p, Told(s, p))
           /\ KeepsRequests(s, Broadcast(s))
<1> DEFINE after == [f \in Fds |-> ClientSendFrame(s, f, Notice)]
           t == Merge(s, after)
<1>0. Notice \in Frames /\ Notice \in Seq(Units) /\ Distinct(s) /\ NoPeer \notin Peers
  <2>1. Notice \in Frames
    BY DEF Notice, Frames
  <2>2. Unit("head", "notice", 0) \in Units /\ Unit("body", "notice", 0) \in Units
    BY DEF Unit, Units
  <2>3. Notice = <<Unit("head", "notice", 0), Unit("body", "notice", 0)>>
    BY DEF Notice, Frame
  <2>4. Notice \in Seq(Units)
    BY <2>2, <2>3
  <2> QED
    BY <2>1, <2>4, UdsAssumption DEF Owned
<1>1. \A f \in Fds : after[f] = ClientSendFrame(s, f, Notice)
  OBVIOUS
<1>2. ASSUME NEW f \in Fds
      PROVE  Good(s, after[f])
  BY <1>0, <1>1, ClientSendFrameGood
<1>3. ASSUME NEW f \in Fds, s.client[f].peer # NoPeer
      PROVE  Sends(s, after[f], f, Notice)
  BY <1>0, <1>1, <1>3, ClientSendFrameSends
<1>4. ASSUME NEW f \in Fds, s.client[f].peer = NoPeer
      PROVE  after[f] = s
  <2>1. ClientEnqueue(s, f, <<Notice[1]>>) = s /\ ClientEnqueue(s, f, <<Notice[2]>>) = s
    BY <1>4 DEF ClientEnqueue
  <2> QED
    BY <1>1, <2>1, EnqueueOnce DEF ClientSendFrame
<1> HIDE DEF after
<1>5. Good(s, t)
  BY <1>0, <1>2, MergeGood
<1>6. Broadcast(s) = t
  <2>1. {Merge(s, z) : z \in {after}} = {Merge(s, after)}
    OBVIOUS
  <2>2. (CHOOSE y \in {Merge(s, after)} : TRUE) = Merge(s, after)
    OBVIOUS
  <2> QED
    BY <2>1, <2>2 DEF Broadcast, With, after
<1>7. /\ \A f \in Fds : t.client[f] = after[f].client[f]
      /\ \A p \in Peers : t.toClient[p] =
           IF \E f \in Fds : s.client[f].peer = p
           THEN after[CHOOSE f \in Fds : s.client[f].peer = p].toClient[p]
           ELSE s.toClient[p]
  BY DEF Merge
<1> HIDE DEF t
<1>8. Distinct(t) /\ TableOK(t) /\ \A f \in Fds : TableOK(after[f]) /\ Distinct(after[f])
  BY <1>2, <1>5, ClosesKeeps DEF Owned, Good
<1>9. ASSUME NEW p \in Peers, alive[p], NEW f \in Fds, s.client[f].peer = p
      PROVE  Serves(s, t, p, Notice)
  <2>1. Good(s, after[f]) /\ Sends(s, after[f], f, Notice)
    BY <1>0, <1>2, <1>3, <1>9
  <2>2. Serves(s, after[f], p, Notice)
    BY <1>0, <1>9, <2>1, SendsServes
  <2>3. t.toClient[p] = after[f].toClient[p]
    <3>1. (CHOOSE g \in Fds : s.client[g].peer = p) = f
      BY <1>0, <1>9, EntryIs
    <3> QED
      BY <1>7, <1>9, <3>1
  <2>4. \A g \in Fds : s.client[g].peer = p => g = f
    BY <1>0, <1>9 DEF Distinct
  <2>5. t.link[p] = after[f].link[p]
    <3>1. Loses(s, t, p) <=> t.client[f].peer # p
      BY <1>9, <2>4 DEF Loses
    <3>2. Loses(s, after[f], p) <=> after[f].client[f].peer # p
      BY <1>9, <2>4 DEF Loses
    <3> QED
      BY <1>5, <1>7, <2>1, <3>1, <3>2 DEF Good, Closes
  <2>6. EntryOf(t, p) = EntryOf(after[f], p)
    <3>1. CASE t.client[f].peer = p
      BY <1>7, <1>8, <3>1, EntryIs
    <3>2. CASE t.client[f].peer # p
      <4>1. \A g \in Fds : t.client[g].peer # p
        BY <1>0, <1>5, <2>4, <3>2 DEF Good, Closes
      <4>2. \A g \in Fds : after[f].client[g].peer # p
        BY <1>0, <1>7, <2>1, <2>4, <3>2 DEF Good, Closes
      <4> QED
        BY <4>1, <4>2, NoEntry
    <3> QED
      BY <3>1, <3>2
  <2> QED
    BY <2>2, <2>3, <2>5, <2>6 DEF Serves, Held
<1>10. ASSUME NEW p \in Peers, ~\E f \in Fds : s.client[f].peer = p
       PROVE  Serves(s, t, p, <<>>)
  <2>1. \A f \in Fds : t.client[f].peer # p
    BY <1>0, <1>5, <1>10 DEF Good, Closes
  <2>2. EntryOf(t, p) = EntryOf(s, p)
    BY <1>10, <2>1, NoEntry
  <2>3. t.toClient[p] = s.toClient[p]
    BY <1>7, <1>10
  <2>4. t.link[p] = s.link[p]
    <3>1. ~Loses(s, t, p)
      BY <1>10 DEF Loses
    <3> QED
      BY <1>5, <3>1 DEF Good, Closes
  <2> QED
    BY <2>2, <2>3, <2>4, ServesNothing
<1>11. ASSUME NEW p \in Peers, alive[p]
       PROVE  Serves(s, t, p, Told(s, p))
  <2>1. s.link[p] = "open" <=> \E f \in Fds : s.client[f].peer = p
    BY DEF Owned
  <2>2. CASE \E f \in Fds : s.client[f].peer = p
    BY <1>9, <1>11, <2>1, <2>2 DEF Told
  <2>3. CASE ~\E f \in Fds : s.client[f].peer = p
    BY <1>10, <2>1, <2>3 DEF Told
  <2> QED
    BY <2>2, <2>3
<1>12. KeepsRequests(s, t)
  <2> SUFFICES ASSUME NEW f \in Fds
               PROVE  IF t.client[f].peer = NoPeer THEN t.client[f] = Free
                      ELSE t.client[f].in = s.client[f].in
    BY DEF KeepsRequests
  <2>1. t.client[f].peer = NoPeer => t.client[f] = Free
    BY <1>8 DEF TableOK, ClientOK
  <2>2. t.client[f].peer # NoPeer => t.client[f].in = s.client[f].in
    BY <1>3, <1>4, <1>7 DEF Sends
  <2> QED
    BY <2>1, <2>2
<1> QED
  BY <1>6, <1>11, <1>12

-----------------------------------------------------------------------------
(* The order of the answers.                                               *)

Even(x) == Len(x) % 2 = 0

(* What a client got and what is on its way to it, and what it wrote and   *)
(* has no answer to.                                                       *)
Coming(p) == got[p] \o Held(Now, p)
Asking(p) == EntryOf(Now, p).in \o toServer[p]

AskingOK(p) ==
    IF p \in due THEN Requests(Asking(p), AnswerCount(Coming(p)), asked[p], TRUE)
                 ELSE Requests(Asking(p), AnswerCount(Coming(p)), asked[p], FALSE)

(* The stream of a client is in order, and of a client whose connection is *)
(* not shut every request is answered or still to come.                    *)
PeerOK(p) ==
    /\ StreamOK(Coming(p), Len(asked[p]))
    /\ link[p] # "shut" => Even(Coming(p)) /\ AskingOK(p)

Ordered == \A p \in Peers : alive[p] => PeerOK(p)

(* No complete request waits in a buffer that is not being read, and the   *)
(* one that is being handled is the first of its buffer.                   *)
Reading ==
    /\ \A f \in Fds : cur.fd # f => ~FrameReady(client[f])
    /\ cur.at = "reply" /\ client[cur.fd].peer # NoPeer
         => FrameReady(client[cur.fd]) /\ cur.id = client[cur.fd].in[1].id

(* The variables of a client have types.                                   *)
LEMMA PeerTypes ==
    ASSUME IInv, NEW p \in Peers
    PROVE  /\ TableOK(Now) /\ Owned(Now) /\ Distinct(Now)
           /\ Now.client = client /\ Now.link = link /\ Now.toClient = toClient
           /\ got[p] \in Seq(Units) /\ asked[p] \in Seq(Units) /\ Len(asked[p]) \in Nat
           /\ toServer[p] \in Seq(Units)
           /\ Held(Now, p) \in Seq(Units) /\ EntryOf(Now, p) \in Clients
           /\ EntryOf(Now, p).in \in Seq(Units)
           /\ Coming(p) \in Seq(Units) /\ Asking(p) \in Seq(Units)
<1>1. /\ TableOK(Now) /\ Owned(Now) /\ Distinct(Now)
      /\ Now.client = client /\ Now.link = link /\ Now.toClient = toClient
  BY DEF IInv, Core, Owned, Now
<1>2. got[p] \in Seq(Units) /\ asked[p] \in Seq(Units) /\ toServer[p] \in Seq(Units)
  BY DEF IInv, Streams
<1>3. Held(Now, p) \in Seq(Units) /\ EntryOf(Now, p) \in Clients
  BY <1>1, EntryTypes
<1>4. EntryOf(Now, p).in \in Seq(Units)
  BY <1>3 DEF Clients
<1>5. Len(asked[p]) \in Nat
  BY <1>2
<1> QED
  BY <1>1, <1>2, <1>3, <1>4, <1>5, Joined DEF Coming, Asking

(* A stream that is sent a notice or nothing.                              *)
LEMMA StreamServed ==
    ASSUME NEW g \in Seq(Units), NEW h \in Seq(Units), NEW k \in Seq(Units), NEW n \in Nat,
           StreamOK(g \o h, n), NEW v \in {<<>>, Notice}, v = Notice => Even(g \o h)
    PROVE  /\ k = h \o v => /\ StreamOK(g \o k, n) /\ AnswerCount(g \o k) = AnswerCount(g \o h)
                            /\ Even(g \o h) => Even(g \o k)
           /\ (\E w \in Seq(Units) : k \o w = h \o v) => StreamOK(g \o k, n)
<1>1. Notice \in Seq(Units)
  <2>1. Unit("head", "notice", 0) \in Units /\ Unit("body", "notice", 0) \in Units
    BY DEF Unit, Units
  <2>2. Notice = <<Unit("head", "notice", 0), Unit("body", "notice", 0)>>
    BY DEF Notice, Frame
  <2> QED
    BY <2>1, <2>2
<1>2. v \in Seq(Units)
  <2>1. <<>> \in Seq(Units)
    OBVIOUS
  <2> QED
    BY <1>1, <2>1
<1>3. g \o h \in Seq(Units) /\ g \o (h \o v) = (g \o h) \o v
  BY <1>2, OneAfterAnother, Joined
<1>4. /\ StreamOK((g \o h) \o v, n) /\ AnswerCount((g \o h) \o v) = AnswerCount(g \o h)
      /\ Even(g \o h) => Even((g \o h) \o v)
  <2>1. CASE v = <<>>
    BY <1>3, <2>1, NothingMore
  <2>2. CASE v = Notice
    <3>1. Len(g \o h) % 2 = 0
      BY <2>2 DEF Even
    <3> HIDE DEF Notice
    <3>2. /\ StreamOK((g \o h) \o Notice, n) /\ Len((g \o h) \o Notice) % 2 = 0
          /\ AnswerCount((g \o h) \o Notice) = AnswerCount(g \o h)
      BY <3>1, StreamThenNotice
    <3> QED
      BY <2>2, <3>2 DEF Even
  <2> QED
    BY <2>1, <2>2
<1>5. ASSUME NEW w \in Seq(Units), k \o w = h \o v
      PROVE  StreamOK(g \o k, n)
  <2>1. (g \o k) \o w = (g \o h) \o v
    <3>1. (g \o k) \o w = g \o (k \o w)
      BY OneAfterAnother
    <3> QED
      BY <1>3, <1>5, <3>1
  <2>2. g \o k \in Seq(Units)
    BY Joined
  <2>3. StreamOK((g \o k) \o w, n)
    BY <1>4, <2>1
  <2> QED
    BY <2>2, <2>3, StreamBegins
<1> QED
  BY <1>3, <1>4, <1>5

(* A table that is handed on becomes the state.                            *)
LEMMA BecomesTable ==
    ASSUME NEW t, TableOK(t), Becomes(t)
    PROVE  /\ Now' = t /\ client' = t.client /\ link' = t.link /\ toClient' = t.toClient
           /\ \A p \in Peers : toServer'[p] = IF t.link[p] = "shut" THEN <<>> ELSE toServer[p]
<1>1. /\ client' = t.client /\ link' = t.link /\ toClient' = t.toClient
      /\ toServer' = [p \in Peers |-> IF t.link[p] = "shut" THEN <<>> ELSE toServer[p]]
  BY DEF Becomes
<1>2. Now' = t
  BY <1>1 DEF Now, TableOK, Tables
<1> QED
  BY <1>1, <1>2

(* A client that a call on the table served.                               *)
LEMMA ServedKeeps ==
    ASSUME IInv, NEW t, Good(Now, t), Becomes(t), UNCHANGED <<peers, got>>,
           NEW p \in Peers, PeerOK(p), NEW v \in {<<>>, Notice},
           v = Notice => link[p] = "open", Serves(Now, t, p, v)
    PROVE  PeerOK(p)'
<1>1. /\ Now' = t /\ link' = t.link /\ TableOK(t)
      /\ toServer'[p] = IF t.link[p] = "shut" THEN <<>> ELSE toServer[p]
  BY BecomesTable DEF Good
<1>2. got' = got /\ asked' = asked /\ due' = due
  BY DEF peers
<1>3. /\ Now.link = link /\ got[p] \in Seq(Units) /\ Len(asked[p]) \in Nat
      /\ Held(Now, p) \in Seq(Units) /\ Held(t, p) \in Seq(Units)
  BY <1>1, PeerTypes, EntryTypes
<1>4. StreamOK(got[p] \o Held(Now, p), Len(asked[p])) /\ (v = Notice => Even(got[p] \o Held(Now, p)))
  BY DEF PeerOK, Coming
<1>5. Coming(p)' = got[p] \o Held(t, p) /\ Asking(p)' = EntryOf(t, p).in \o toServer'[p]
  BY <1>1, <1>2 DEF Coming, Asking
<1>6. CASE t.link[p] = link[p]
  <2>1. EntryOf(t, p).in = EntryOf(Now, p).in /\ Held(t, p) = Held(Now, p) \o v
    BY <1>3, <1>6 DEF Serves
  <2>2. /\ StreamOK(Coming(p)', Len(asked[p])) /\ AnswerCount(Coming(p)') = AnswerCount(Coming(p))
        /\ Even(Coming(p)) => Even(Coming(p)')
    <3>1. Coming(p) = got[p] \o Held(Now, p)
      BY DEF Coming
    <3> DEFINE h == Held(Now, p)
               k == Held(t, p)
               g == got[p]
    <3>2. /\ g \in Seq(Units) /\ h \in Seq(Units) /\ k \in Seq(Units)
          /\ StreamOK(g \o h, Len(asked[p])) /\ (v = Notice => Even(g \o h))
          /\ k = h \o v /\ Len(asked[p]) \in Nat
      BY <1>3, <1>4, <2>1
    <3> HIDE DEF h, k, g
    <3>3. /\ StreamOK(g \o k, Len(asked[p])) /\ AnswerCount(g \o k) = AnswerCount(g \o h)
          /\ Even(g \o h) => Even(g \o k)
      BY <3>2, StreamServed
    <3> QED
      BY <1>5, <3>1, <3>3 DEF g, h, k
  <2>3. link[p] # "shut" => Asking(p)' = Asking(p)
    BY <1>1, <1>5, <1>6, <2>1 DEF Asking
  <2>4. link'[p] = link[p] /\ asked'[p] = asked[p] /\ (p \in due' <=> p \in due)
    BY <1>1, <1>2, <1>6
  <2>5. StreamOK(Coming(p)', Len(asked'[p]))
    BY <2>2, <2>4
  <2>6. link'[p] # "shut" => Even(Coming(p)') /\ AskingOK(p)'
    BY <2>2, <2>3, <2>4 DEF PeerOK, AskingOK
  <2> QED
    BY <2>5, <2>6 DEF PeerOK
<1>7. CASE t.link[p] # link[p]
  <2>1. t.link[p] = "shut" /\ \E w \in Seq(Units) : Held(t, p) \o w = Held(Now, p) \o v
    BY <1>3, <1>7 DEF Serves
  <2>2. StreamOK(Coming(p)', Len(asked[p]))
    BY <1>3, <1>4, <1>5, <2>1, StreamServed
  <2> QED
    BY <1>1, <1>2, <2>1, <2>2 DEF PeerOK
<1> QED
  BY <1>6, <1>7

(* A client that nothing happened to.                                      *)
LEMMA PeerStays ==
    ASSUME IInv, NEW p \in Peers, PeerOK(p),
           EntryOf(Now', p).in = EntryOf(Now, p).in, EntryOf(Now', p).out = EntryOf(Now, p).out,
           link'[p] = "shut" <=> link[p] = "shut",
           toClient'[p] = toClient[p], got'[p] = got[p], toServer'[p] = toServer[p],
           asked'[p] = asked[p], p \in due' <=> p \in due
    PROVE  PeerOK(p)'
<1>1. Coming(p)' = Coming(p) /\ Asking(p)' = Asking(p)
  BY DEF Coming, Asking, Held, Now
<1> QED
  BY <1>1 DEF PeerOK, AskingOK

(* A request that is not complete in an entry is not complete after.       *)
LEMMA RequestsStay ==
    ASSUME NEW s, NEW t, KeepsRequests(s, t), NEW f \in Fds
    PROVE  FrameReady(t.client[f]) => /\ t.client[f].peer # NoPeer
                                      /\ t.client[f].in = s.client[f].in
                                      /\ FrameReady(s.client[f])
<1>1. ~FrameReady(Free)
  BY DEF FrameReady, Free
<1> QED
  BY <1>1 DEF KeepsRequests, FrameReady

(* Nothing is being read before or after a call on the table.              *)
LEMMA ReadingServed ==
    ASSUME Reading, NEW t, KeepsRequests(Now, t), client' = t.client,
           UNCHANGED cur, cur.at # "reply"
    PROVE  Reading'
<1>1. Now.client = client
  BY DEF Now
<1> QED
  BY <1>1, RequestsStay DEF Reading

(* An element is appended to the second of two sequences.                  *)
LEMMA AppendJoined ==
    ASSUME NEW x \in Seq(Units), NEW y \in Seq(Units), NEW h \in Units
    PROVE  x \o Append(y, h) = Append(x \o y, h)
<1>1. Append(y, h) = y \o <<h>> /\ <<h>> \in Seq(Units)
  OBVIOUS
<1>2. x \o y \in Seq(Units)
  BY Joined
<1> DEFINE z == x \o y
<1>3. z \in Seq(Units)
  BY <1>2
<1> HIDE DEF z
<1>4. Append(z, h) = z \o <<h>>
  BY <1>3
<1>5. (x \o y) \o <<h>> = x \o (y \o <<h>>)
  BY <1>1, OneAfterAnother
<1> QED
  BY <1>1, <1>4, <1>5 DEF z

(* A step that leaves the table and the streams alone.                     *)
LEMMA OrderStays ==
    ASSUME IInv, Ordered, Reading,
           UNCHANGED <<client, link, toClient, got, toServer, asked, due, alive, cur>>
    PROVE  Ordered' /\ Reading'
<1>1. Now' = Now
  BY DEF Now
<1>2. ASSUME NEW p \in Peers, alive'[p]
      PROVE  PeerOK(p)'
  BY <1>1, <1>2, PeerStays DEF Ordered
<1>3. Reading'
  BY DEF Reading
<1> QED
  BY <1>2, <1>3 DEF Ordered

(* At first nobody wrote anything.                                         *)
LEMMA InitOrdered == Init => Ordered /\ Reading
<1> SUFFICES ASSUME Init PROVE Ordered /\ Reading
  OBVIOUS
<1>1. /\ \A f \in Fds : client[f] = Free
      /\ Now.client = client /\ Now.toClient = toClient
      /\ cur = Idle /\ due = {}
  BY DEF Init, Now
<1> DEFINE nil == <<>>
<1>2. /\ nil \in Seq(Units) /\ Len(nil) = 0 /\ nil = <<>> /\ nil \o nil = nil
      /\ DOMAIN nil = {}
  OBVIOUS
<1>3. \A p \in Peers : got[p] = nil /\ toClient[p] = nil /\ toServer[p] = nil /\ asked[p] = nil
  BY DEF Init
<1>4. Free.in = nil /\ Free.out = nil /\ Free.peer = NoPeer
  BY DEF Free
<1>5. ASSUME NEW p \in Peers
      PROVE  PeerOK(p)
  <2>1. EntryOf(Now, p) = Free
    <3>1. \A f \in Fds : Now.client[f].peer # p
      BY <1>1, <1>4, UdsAssumption
    <3> QED
      BY <3>1, NoEntry
  <2> HIDE DEF nil
  <2>2. Coming(p) = nil /\ Asking(p) = nil /\ asked[p] = nil
    BY <1>1, <1>2, <1>3, <1>4, <2>1 DEF Coming, Asking, Held
  <2>3. Heads(nil) = {} /\ AnswerHeads(nil) = {} /\ Cardinality(Heads(nil)) = 0 /\ AnswerCount(nil) = 0
    <3>1. Heads(nil) = {} /\ AnswerHeads(nil) = {}
      BY <1>2 DEF Heads, AnswerHeads
    <3> QED
      BY <3>1, FS_EmptySet DEF AnswerCount
  <2>4. WholeFrames(nil)
    BY <1>2 DEF WholeFrames
  <2>5. StreamOK(nil, Len(nil))
    BY <1>2, <2>3, <2>4 DEF StreamOK
  <2>6. Even(nil)
    BY <1>2, SMTT(30) DEF Even
  <2>7. Requests(nil, AnswerCount(nil), nil, FALSE)
    <3>1. ~(nil # <<>>) /\ \A k \in Heads(nil) : FALSE
      BY <1>2, <2>3
    <3>2. Len(nil) = AnswerCount(nil) + Cardinality(Heads(nil))
      BY <1>2, <2>3
    <3> QED
      BY <1>2, <3>1, <3>2, Zenon DEF Requests
  <2> QED
    BY <1>1, <2>2, <2>5, <2>6, <2>7 DEF PeerOK, AskingOK
<1>6. Reading
  <2>1. \A f \in Fds : ~FrameReady(client[f])
    BY <1>1, <1>4 DEF FrameReady
  <2> QED
    BY <1>1, <2>1 DEF Reading, Idle
<1> QED
  BY <1>5, <1>6 DEF Ordered

(* A client connects.                                                      *)
LEMMA ConnectOrdered ==
    ASSUME IInv, Ordered, Reading, NEW p \in Peers, Connect(p)
    PROVE  Ordered' /\ Reading'
<1>1. /\ link' = [link EXCEPT ![p] = "queued"] /\ link[p] = "none"
      /\ UNCHANGED <<client, batch, cur, peers, toServer, toClient, got>>
  BY DEF Connect
<1>2. asked' = asked /\ due' = due /\ alive' = alive
  BY <1>1 DEF peers
<1>3. link \in [Peers -> Links]
  BY DEF IInv, Core, TableOK, Tables, Now
<1>4. ASSUME NEW q \in Peers, alive'[q]
      PROVE  PeerOK(q)'
  <2>1. EntryOf(Now', q) = EntryOf(Now, q)
    BY <1>1 DEF EntryOf, Now
  <2>2. link'[q] = "shut" <=> link[q] = "shut"
    BY <1>1, <1>3
  <2> QED
    BY <1>1, <1>2, <1>4, <2>1, <2>2, PeerStays DEF Ordered
<1>5. Reading'
  BY <1>1 DEF Reading
<1> QED
  BY <1>4, <1>5 DEF Ordered

(* A client writes the header of a frame.                                  *)
LEMMA SendHeadOrdered ==
    ASSUME IInv, Ordered, Reading, NEW p \in Peers, NEW kind \in Kinds, SendHead(p, kind)
    PROVE  Ordered' /\ Reading'
<1> DEFINE h == Unit("head", kind, Len(asked[p]) + 1)
<1>1. /\ asked' = [asked EXCEPT ![p] = Append(@, h)]
      /\ toServer' = [toServer EXCEPT ![p] = Append(@, h)]
      /\ due' = due \union {p} /\ p \notin due /\ link[p] # "shut"
      /\ UNCHANGED <<client, cur, link, alive, toClient, got>>
  BY DEF SendHead
<1>2. Now' = Now
  BY <1>1 DEF Now
<1>3. /\ asked[p] \in Seq(Units) /\ toServer[p] \in Seq(Units) /\ Len(asked[p]) \in Nat
      /\ EntryOf(Now, p).in \in Seq(Units) /\ Coming(p) \in Seq(Units)
  BY PeerTypes
<1>4. asked \in [Peers -> Seq(Units)] /\ toServer \in [Peers -> Seq(Units)]
  BY DEF IInv, Streams
<1>5. h \in Units /\ h.part = "head" /\ h.id = Len(asked[p]) + 1
  <2>1. Len(asked[p]) + 1 \in Nat
    BY <1>3
  <2> QED
    BY <2>1 DEF Unit, Units
<1> HIDE DEF h
<1>6. ASSUME NEW q \in Peers, alive'[q], q # p
      PROVE  PeerOK(q)'
  BY <1>1, <1>2, <1>4, <1>6, PeerStays DEF Ordered
<1>7. ASSUME alive'[p]
      PROVE  PeerOK(p)'
  <2>1. PeerOK(p)
    BY <1>1, <1>7 DEF Ordered
  <2>2. Requests(Asking(p), AnswerCount(Coming(p)), asked[p], FALSE)
    BY <1>1, <2>1 DEF PeerOK, AskingOK
  <2>3. AnswerCount(Coming(p)) \in Nat
    BY <1>3, HeadsAreFinite
  <2>4. Requests(Append(Asking(p), h), AnswerCount(Coming(p)), Append(asked[p], h), TRUE)
    BY <1>3, <1>5, <2>2, <2>3, RequestBegins
  <2>5. Coming(p)' = Coming(p)
    BY <1>1, <1>2 DEF Coming
  <2>6. Asking(p)' = Append(Asking(p), h)
    <3>1. toServer'[p] = Append(toServer[p], h)
      BY <1>1, <1>4
    <3>2. Asking(p)' = EntryOf(Now, p).in \o toServer'[p]
      BY <1>2 DEF Asking
    <3>3. EntryOf(Now, p).in \o Append(toServer[p], h) = Append(EntryOf(Now, p).in \o toServer[p], h)
      BY <1>3, <1>5, AppendJoined
    <3>4. Asking(p) = EntryOf(Now, p).in \o toServer[p]
      BY DEF Asking
    <3> QED
      BY <3>1, <3>2, <3>3, <3>4
  <2>7. asked'[p] = Append(asked[p], h) /\ p \in due' /\ link'[p] = link[p]
    BY <1>1, <1>4
  <2>8. StreamOK(Coming(p), Len(asked'[p]))
    <3>1. Len(asked'[p]) = Len(asked[p]) + 1
      BY <1>3, <1>5, <2>7
    <3>2. AnswerCount(Coming(p)) <= Len(asked[p])
      BY <2>1 DEF PeerOK, StreamOK
    <3>3. AnswerCount(Coming(p)) <= Len(asked'[p])
      BY <1>3, <2>3, <3>1, <3>2
    <3> QED
      BY <2>1, <3>3 DEF PeerOK, StreamOK
  <2>9. Even(Coming(p))
    BY <1>1, <2>1 DEF PeerOK
  <2>10. AskingOK(p)'
    BY <2>4, <2>5, <2>6, <2>7 DEF AskingOK
  <2>11. StreamOK(Coming(p)', Len(asked'[p])) /\ Even(Coming(p)')
    BY <2>5, <2>8, <2>9
  <2> QED
    BY <2>10, <2>11 DEF PeerOK
<1>8. Reading'
  BY <1>1 DEF Reading
<1> QED
  BY <1>6, <1>7, <1>8 DEF Ordered

(* A client writes the body.                                               *)
LEMMA SendBodyOrdered ==
    ASSUME IInv, Ordered, Reading, NEW p \in Peers, SendBody(p)
    PROVE  Ordered' /\ Reading'
<1> DEFINE r == Rest(Last(asked[p]))
<1>1. /\ toServer' = [toServer EXCEPT ![p] = @ \o r] /\ due' = due \ {p} /\ p \in due
      /\ link[p] # "shut"
      /\ UNCHANGED <<client, cur, link, alive, asked, toClient, got>>
  BY DEF SendBody
<1>2. Now' = Now
  BY <1>1 DEF Now
<1>3. /\ asked[p] \in Seq(Units) /\ toServer[p] \in Seq(Units)
      /\ EntryOf(Now, p).in \in Seq(Units) /\ Coming(p) \in Seq(Units)
  BY PeerTypes
<1>4. toServer \in [Peers -> Seq(Units)] /\ asked[p] # <<>>
  BY <1>1 DEF IInv, Streams
<1>5. r \in Seq(Units)
  <2>1. Last(asked[p]) \in Units
    BY <1>3, <1>4 DEF Last
  <2>2. Body(Last(asked[p]).kind) \in Nat
    BY BodyIs
  <2>3. \A k \in 1 .. Body(Last(asked[p]).kind) :
          Unit("body", Last(asked[p]).kind, Last(asked[p]).id) \in Units
    BY <2>1 DEF Unit, Units
  <2> QED
    BY <2>2, <2>3 DEF Rest
<1>6. ASSUME NEW q \in Peers, alive'[q], q # p
      PROVE  PeerOK(q)'
  BY <1>1, <1>2, <1>4, <1>6, PeerStays DEF Ordered
<1>7. ASSUME alive'[p]
      PROVE  PeerOK(p)'
  <2>1. PeerOK(p)
    BY <1>1, <1>7 DEF Ordered
  <2>2. Requests(Asking(p), AnswerCount(Coming(p)), asked[p], TRUE)
    BY <1>1, <2>1 DEF PeerOK, AskingOK
  <2>3. AnswerCount(Coming(p)) \in Nat
    BY <1>3, HeadsAreFinite
  <2>4. Requests(Asking(p) \o r, AnswerCount(Coming(p)), asked[p], FALSE)
    BY <1>3, <2>2, <2>3, RequestEnds
  <2> HIDE DEF r
  <2>5. Coming(p)' = Coming(p)
    BY <1>1, <1>2 DEF Coming
  <2>6. Asking(p)' = Asking(p) \o r
    <3>1. toServer'[p] = toServer[p] \o r
      BY <1>1, <1>4
    <3>2. Asking(p)' = EntryOf(Now, p).in \o toServer'[p]
      BY <1>2 DEF Asking
    <3>3. (EntryOf(Now, p).in \o toServer[p]) \o r = EntryOf(Now, p).in \o (toServer[p] \o r)
      BY <1>3, <1>5, OneAfterAnother
    <3> QED
      BY <3>1, <3>2, <3>3 DEF Asking
  <2>7. asked'[p] = asked[p] /\ p \notin due' /\ link'[p] = link[p]
    BY <1>1
  <2>8. AskingOK(p)'
    BY <2>4, <2>5, <2>6, <2>7 DEF AskingOK
  <2>9. StreamOK(Coming(p)', Len(asked'[p])) /\ Even(Coming(p)')
    BY <1>1, <2>1, <2>5, <2>7 DEF PeerOK
  <2> QED
    BY <2>8, <2>9 DEF PeerOK
<1>8. Reading'
  BY <1>1 DEF Reading
<1> QED
  BY <1>6, <1>7, <1>8 DEF Ordered

(* A client reads what has arrived.                                        *)
LEMMA ReadOrdered ==
    ASSUME IInv, Ordered, Reading, NEW p \in Peers, Read(p)
    PROVE  Ordered' /\ Reading'
<1> DEFINE n == IF p \in Cli /\ 2 - Len(got[p]) < Len(toClient[p])
                THEN 2 - Len(got[p]) ELSE Len(toClient[p])
           w == SubSeq(toClient[p], 1, n)
           v == SubSeq(toClient[p], n + 1, Len(toClient[p]))
<1>1. /\ toClient' = [toClient EXCEPT ![p] = SubSeq(@, n + 1, Len(@))] /\ n > 0
      /\ got' = [got EXCEPT ![p] = @ \o w]
      /\ UNCHANGED <<server, backlog, client, batch, cur, link, peers, toServer>>
  BY DEF Read
<1>2. toClient \in [Peers -> Seq(Units)] /\ got \in [Peers -> Seq(Units)]
  BY DEF IInv, Core, TableOK, Tables, Now, Streams
<1>3. toClient[p] \in Seq(Units) /\ Len(toClient[p]) \in Nat /\ got[p] \in Seq(Units)
  BY <1>2
<1>4. n \in 0..Len(toClient[p])
  <2>1. Len(got[p]) \in Nat
    BY <1>3
  <2> QED
    BY <1>1, <1>3, <2>1
<1> HIDE DEF n
<1>5. w \in Seq(Units) /\ v \in Seq(Units) /\ w \o v = toClient[p]
  BY <1>3, <1>4, BeginningAndRest
<1>6. toClient'[p] = v /\ got'[p] = got[p] \o w
  BY <1>1, <1>2
<1>7. asked' = asked /\ due' = due /\ alive' = alive
  BY <1>1 DEF peers
<1>8. \A q \in Peers : EntryOf(Now', q) = EntryOf(Now, q)
  BY <1>1 DEF EntryOf, Now
<1>9. ASSUME NEW q \in Peers, alive'[q], q # p
      PROVE  PeerOK(q)'
  BY <1>1, <1>2, <1>7, <1>8, <1>9, PeerStays DEF Ordered
<1>10. ASSUME alive'[p]
       PROVE  PeerOK(p)'
  <2> DEFINE o == EntryOf(Now, p).out
  <2>1. PeerOK(p) /\ o \in Seq(Units)
    BY <1>7, <1>10, PeerTypes DEF Ordered, Clients
  <2>2. Held(Now, p) = toClient[p] \o o
    BY DEF Held, Now
  <2>3. Held(Now', p) = v \o o
    BY <1>6, <1>8 DEF Held, Now
  <2> HIDE DEF o, v, w
  <2>4. (got[p] \o w) \o (v \o o) = got[p] \o (toClient[p] \o o)
    <3>1. (w \o v) \o o = w \o (v \o o)
      BY <1>5, <2>1, OneAfterAnother
    <3>2. v \o o \in Seq(Units)
      BY <1>5, <2>1, Joined
    <3>3. (got[p] \o w) \o (v \o o) = got[p] \o (w \o (v \o o))
      BY <1>3, <1>5, <3>2, OneAfterAnother
    <3> QED
      BY <1>5, <3>1, <3>3
  <2>5. Coming(p)' = Coming(p)
    BY <1>6, <2>2, <2>3, <2>4 DEF Coming
  <2>6. Asking(p)' = Asking(p)
    BY <1>1, <1>8 DEF Asking
  <2> QED
    BY <1>1, <1>7, <2>1, <2>5, <2>6 DEF PeerOK, AskingOK
<1>11. Reading'
  BY <1>1 DEF Reading
<1> QED
  BY <1>9, <1>10, <1>11 DEF Ordered

(* A client hangs up.                                                      *)
LEMMA CloseOrdered ==
    ASSUME IInv, Ordered, Reading, NEW p \in Peers, Close(p)
    PROVE  Ordered' /\ Reading'
<1>1. /\ toClient' = [toClient EXCEPT ![p] = <<>>] /\ alive' = [alive EXCEPT ![p] = FALSE]
      /\ got' = [got EXCEPT ![p] = <<>>]
      /\ UNCHANGED <<server, backlog, client, batch, cur, link, asked, due, toServer>>
  BY DEF Close
<1>2. /\ toClient \in [Peers -> Seq(Units)] /\ got \in [Peers -> Seq(Units)]
      /\ alive \in [Peers -> BOOLEAN]
  BY DEF IInv, Core, TableOK, Tables, Now, Streams
<1>3. \A q \in Peers : EntryOf(Now', q) = EntryOf(Now, q)
  BY <1>1 DEF EntryOf, Now
<1>4. ASSUME NEW q \in Peers, alive'[q]
      PROVE  PeerOK(q)'
  <2>1. q # p /\ alive[q]
    BY <1>1, <1>2, <1>4
  <2>2. toClient'[q] = toClient[q] /\ got'[q] = got[q]
    BY <1>1, <1>2, <2>1
  <2> QED
    BY <1>1, <1>3, <2>1, <2>2, PeerStays DEF Ordered
<1>5. Reading'
  BY <1>1 DEF Reading
<1> QED
  BY <1>4, <1>5 DEF Ordered

(* A call on the table that sends nobody anything.                         *)
LEMMA QuietCall ==
    ASSUME IInv, Ordered, NEW t, Good(Now, t), NEW f \in Fds, Sends(Now, t, f, <<>>),
           Becomes(t), UNCHANGED <<peers, got>>
    PROVE  Ordered' /\ KeepsRequests(Now, t) /\ client' = t.client
<1>0. TableOK(Now) /\ Owned(Now) /\ TableOK(t) /\ Now.client = client
  BY DEF IInv, Core, Good, Now
<1>1. ASSUME NEW p \in Peers, alive'[p]
      PROVE  PeerOK(p)'
  <2>1. alive[p] /\ PeerOK(p)
    BY <1>1 DEF peers, Ordered
  <2>2. Serves(Now, t, p, <<>>)
    <3> DEFINE nil == <<>>
    <3>1. nil \in Seq(Units) /\ Sends(Now, t, f, nil)
      OBVIOUS
    <3> HIDE DEF nil
    <3>2. CASE Now.client[f].peer = p
      <4>1. Serves(Now, t, p, nil)
        BY <1>0, <2>1, <3>1, <3>2, SendsServes
      <4> QED
        BY <4>1 DEF nil
    <3>3. CASE Now.client[f].peer # p
      BY <1>0, <3>1, <3>3, SendsLeaves
    <3> QED
      BY <3>2, <3>3
  <2>3. <<>> \in {<<>>, Notice} /\ <<>> # Notice
    BY DEF Notice, Frame
  <2> QED
    BY <2>1, <2>2, <2>3, ServedKeeps
<1>2. KeepsRequests(Now, t)
  BY <1>0, SendsKeepsRequests
<1> QED
  BY <1>0, <1>1, <1>2, BecomesTable DEF Ordered

(* A connection is found closed.                                           *)
LEMMA HangupOrdered ==
    ASSUME IInv, Ordered, Reading, NEW e \in batch, Hangup(e)
    PROVE  Ordered' /\ Reading'
<1>1. /\ e.fd \in Fds /\ cur = Idle /\ Becomes(CloseClient(Now, e.fd))
      /\ UNCHANGED <<server, backlog, cur, peers, got>>
  BY DEF Hangup, NextEvent
<1> DEFINE t == CloseClient(Now, e.fd)
           nil == <<>>
<1>2. Good(Now, t) /\ nil \in Seq(Units) /\ TableOK(Now)
  BY <1>1, CloseClientGood DEF IInv, Core
<1>3. Sends(Now, t, e.fd, <<>>)
  BY <1>1, <1>2, CloseClientSends
<1> HIDE DEF t, nil
<1>4. Ordered' /\ KeepsRequests(Now, t) /\ client' = t.client
  BY <1>1, <1>2, <1>3, QuietCall DEF t
<1>5. cur.at # "reply"
  BY <1>1 DEF Idle
<1> QED
  BY <1>1, <1>4, <1>5, ReadingServed

(* A request or a part of it arrives.                                      *)
LEMMA ReceiveOrdered ==
    ASSUME IInv, Ordered, Reading, NEW e \in batch, Receive(e)
    PROVE  Ordered' /\ Reading'
<1> DEFINE f == e.fd
<1>a. PICK p : p = client[f].peer
  OBVIOUS
<1> DEFINE room == ReadBuf - Len(client[f].in)
           n == IF room < Len(toServer[p]) THEN room ELSE Len(toServer[p])
           taken == SubSeq(toServer[p], 1, n)
           left == SubSeq(toServer[p], n + 1, Len(toServer[p]))
<1>0. cur.at # "reply" /\ cur.fd \notin Fds
  BY UdsAssumption DEF Receive, NextEvent, Idle
<1>1. /\ f \in Fds /\ cur = Idle /\ TableOK(Now) /\ Now.client = client
      /\ UNCHANGED <<server, backlog, peers, got>>
  BY DEF Receive, NextEvent, IInv, Core, Now
<1>2. asked' = asked /\ due' = due /\ alive' = alive
  BY <1>1 DEF peers
<1>3. CASE p = NoPeer
  <2>1. UNCHANGED <<client, link, toClient, toServer, cur>>
    BY <1>a, <1>3 DEF Receive
  <2> QED
    BY <1>1, <1>2, <2>1, OrderStays
<1>4. CASE p # NoPeer /\ (room = 0 \/ (toServer[p] = << >> /\ ~alive[p]))
  <2>1. Becomes(CloseClient(Now, f)) /\ UNCHANGED cur
    BY <1>a, <1>4 DEF Receive
  <2> DEFINE t == CloseClient(Now, f)
             nil == <<>>
  <2>2. Good(Now, t) /\ nil \in Seq(Units)
    BY <1>1, CloseClientGood
  <2>3. Sends(Now, t, f, <<>>)
    BY <1>1, <2>2, CloseClientSends
  <2> HIDE DEF t, nil
  <2>4. Ordered' /\ KeepsRequests(Now, t) /\ client' = t.client
    BY <1>1, <2>1, <2>2, <2>3, QuietCall DEF t
  <2> QED
    BY <1>0, <2>1, <2>4, ReadingServed
<1>5. CASE p # NoPeer /\ ~(room = 0 \/ (toServer[p] = << >> /\ ~alive[p])) /\ toServer[p] = <<>>
  <2>1. Becomes(ClientWrite(Now, f)) /\ UNCHANGED cur
    BY <1>a, <1>5 DEF Receive
  <2> DEFINE t == ClientWrite(Now, f)
  <2>2. Good(Now, t) /\ Sends(Now, t, f, <<>>)
    BY <1>1, ClientWriteGood, ClientWriteSends
  <2> HIDE DEF t
  <2>3. Ordered' /\ KeepsRequests(Now, t) /\ client' = t.client
    BY <1>1, <2>1, <2>2, QuietCall DEF t
  <2> QED
    BY <1>0, <2>1, <2>3, ReadingServed
<1>6. CASE p # NoPeer /\ ~(room = 0 \/ (toServer[p] = << >> /\ ~alive[p])) /\ toServer[p] # <<>>
  <2>1. /\ client' = [client EXCEPT ![f].in = @ \o taken]
        /\ toServer' = [toServer EXCEPT ![p] = SubSeq(@, n + 1, Len(@))]
        /\ cur' = [fd |-> f, at |-> "frames"]
        /\ UNCHANGED <<link, toClient>>
    BY <1>a, <1>6 DEF Receive
  <2>2. client \in [Fds -> Clients] /\ toServer \in [Peers -> Seq(Units)] /\ NoPeer \notin Peers
    BY UdsAssumption DEF IInv, Core, TableOK, Tables, Now, Streams
  <2>3. /\ p \in Peers /\ client[f].in \in Seq(Units) /\ toServer[p] \in Seq(Units)
        /\ Len(client[f].in) <= ReadBuf
    <3>1. client[f] \in Clients /\ ClientOK(client[f])
      BY <1>1 DEF TableOK, ClientOK
    <3>2. p \in Peers /\ client[f].in \in Seq(Units) /\ Len(client[f].in) <= ReadBuf
      BY <1>a, <1>6, <3>1 DEF ClientOK, Clients
    <3> QED
      BY <2>2, <3>2
  <2>4. n \in 0..Len(toServer[p])
    <3>1. Len(client[f].in) \in Nat /\ Len(toServer[p]) \in Nat /\ ReadBuf \in Nat
      BY <2>3, UdsAssumption
    <3>2. room \in Nat
      BY <2>3, <3>1
    <3> HIDE DEF room
    <3> QED
      BY <3>1, <3>2
  <2> HIDE DEF n
  <2>5. taken \in Seq(Units) /\ left \in Seq(Units) /\ taken \o left = toServer[p]
    BY <2>3, <2>4, BeginningAndRest
  <2> HIDE DEF taken
  <2>6. /\ \A g \in Fds : client'[g].peer = client[g].peer /\ client'[g].out = client[g].out
        /\ \A g \in Fds : g # f => client'[g] = client[g]
        /\ client'[f].in = client[f].in \o taken
    BY <1>1, <2>1, <2>2 DEF Clients
  <2>7. toServer'[p] = left /\ \A q \in Peers : q # p => toServer'[q] = toServer[q]
    BY <2>1, <2>2, <2>3
  <2>8. Now'.client = client' /\ Distinct(Now) /\ Distinct(Now') /\ Owned(Now)
    <3>1. Now'.client = client' /\ Distinct(Now) /\ Owned(Now)
      BY DEF IInv, Core, Owned, Now
    <3> QED
      BY <1>1, <2>6, <3>1 DEF Distinct
  <2>9. ASSUME NEW q \in Peers, alive'[q], q # p
        PROVE  PeerOK(q)'
    <3>1. EntryOf(Now', q) = EntryOf(Now, q)
      <4>1. CASE \E g \in Fds : client[g].peer = q
        <5>1. PICK g \in Fds : client[g].peer = q
          BY <4>1
        <5>2. client'[g] = client[g]
          BY <1>a, <2>6, <2>9, <5>1
        <5> QED
          BY <1>1, <2>8, <5>1, <5>2, EntryIs
      <4>2. CASE ~\E g \in Fds : client[g].peer = q
        BY <1>1, <2>6, <2>8, <4>2, NoEntry
      <4> QED
        BY <4>1, <4>2
    <3> QED
      BY <1>1, <1>2, <2>1, <2>7, <2>9, <3>1, PeerStays DEF Ordered
  <2>10. ASSUME alive'[p]
         PROVE  PeerOK(p)'
    <3>1. EntryOf(Now, p) = client[f] /\ EntryOf(Now', p) = client'[f]
      BY <1>a, <1>1, <2>3, <2>6, <2>8, EntryIs
    <3>2. Held(Now', p) = Held(Now, p)
      BY <1>1, <2>1, <2>6, <3>1 DEF Held, Now
    <3>3. Coming(p)' = Coming(p)
      BY <1>1, <3>2 DEF Coming
    <3>4. Asking(p)' = Asking(p)
      <4>1. (client[f].in \o taken) \o left = client[f].in \o (taken \o left)
        BY <2>3, <2>5, OneAfterAnother
      <4>2. Asking(p)' = (client[f].in \o taken) \o left
        BY <2>6, <2>7, <3>1 DEF Asking
      <4>3. Asking(p) = client[f].in \o toServer[p]
        BY <3>1 DEF Asking
      <4> QED
        BY <2>5, <4>1, <4>2, <4>3
    <3>5. PeerOK(p)
      BY <1>2, <2>3, <2>10 DEF Ordered
    <3> QED
      BY <1>2, <2>1, <3>3, <3>4, <3>5 DEF PeerOK, AskingOK
  <2>11. Reading'
    <3>1. cur'.fd = f /\ cur'.at = "frames"
      BY <2>1
    <3>2. \A g \in Fds : g # f => ~FrameReady(client'[g])
      BY <1>0, <2>6 DEF Reading
    <3> QED
      BY <3>1, <3>2 DEF Reading
  <2> QED
    BY <2>9, <2>10, <2>11 DEF Ordered
<1> QED
  BY <1>3, <1>4, <1>5, <1>6

(* The listening socket is ready.                                          *)
LEMMA AcceptOrdered ==
    ASSUME IInv, Ordered, Reading, Accept
    PROVE  Ordered' /\ Reading'
<1>a. PICK p : p = Head(backlog)
  OBVIOUS
<1>0. backlog # <<>> /\ cur = Idle /\ UNCHANGED <<server, cur, peers, toClient, got>>
  BY DEF Accept, NextEvent
<1>1. /\ client \in [Fds -> Clients] /\ link \in [Peers -> Links]
      /\ toServer \in [Peers -> Seq(Units)]
      /\ Now.client = client /\ Now'.client = client' /\ Now.link = link
  BY DEF IInv, Core, TableOK, Now, Tables, Streams
<1>2. asked' = asked /\ due' = due /\ alive' = alive
  BY <1>0 DEF peers
<1>3. p \in Peers /\ link[p] = "queued" /\ NoPeer \notin Peers
  <2>1. p = backlog[1] /\ 1 \in 1..Len(backlog) /\ p \in Peers
    BY <1>a, <1>0 DEF IInv, Core
  <2> QED
    BY <2>1, UdsAssumption DEF IInv, Core, Queued
<1>4. \A g \in Fds : client[g].peer # p
  BY <1>1, <1>3 DEF IInv, Core, Owned
<1>5. cur.fd \notin Fds /\ cur.at # "reply"
  BY <1>0, UdsAssumption DEF Idle
<1>6. CASE FreeClient = {}
  <2>1. /\ link' = [link EXCEPT ![p] = "shut"] /\ client' = client
        /\ toServer' = [toServer EXCEPT ![p] = << >>]
    BY <1>a, <1>6 DEF Accept
  <2>2. \A q \in Peers : EntryOf(Now', q) = EntryOf(Now, q)
    BY <1>1, <2>1 DEF EntryOf
  <2>3. ASSUME NEW q \in Peers, alive'[q], q # p
        PROVE  PeerOK(q)'
    <3>1. link'[q] = link[q] /\ toServer'[q] = toServer[q]
      BY <1>1, <2>1, <2>3
    <3> QED
      BY <1>0, <1>2, <2>2, <2>3, <3>1, PeerStays DEF Ordered
  <2>4. ASSUME alive'[p]
        PROVE  PeerOK(p)'
    <3>1. Coming(p)' = Coming(p)
      BY <1>0, <1>3, <2>2 DEF Coming, Held, Now
    <3>2. link'[p] = "shut"
      BY <1>1, <1>3, <2>1
    <3>3. StreamOK(Coming(p), Len(asked[p]))
      BY <1>2, <1>3, <2>4 DEF Ordered, PeerOK
    <3> QED
      BY <1>2, <3>1, <3>2, <3>3 DEF PeerOK
  <2>5. Reading'
    BY <1>0, <2>1 DEF Reading
  <2> QED
    BY <2>3, <2>4, <2>5 DEF Ordered
<1>7. CASE FreeClient # {}
  <2>1. PICK f \in FreeClient :
          /\ client' = [client EXCEPT ![f] = [Free EXCEPT !.peer = p]]
          /\ link' = [link EXCEPT ![p] = "open"] /\ UNCHANGED toServer
    BY <1>a, <1>7 DEF Accept
  <2> DEFINE c == [Free EXCEPT !.peer = p]
  <2>2. f \in Fds /\ client[f].peer = NoPeer
    BY DEF FreeClient, Used
  <2>3. c.peer = p /\ c.in = Free.in /\ c.out = Free.out /\ Free.in = <<>>
    BY DEF Free
  <2> HIDE DEF c
  <2>4. client' = [client EXCEPT ![f] = c]
    BY <2>1 DEF c
  <2>5. \A g \in Fds : client'[g] = IF g = f THEN c ELSE client[g]
    BY <1>1, <2>4
  <2>6. Distinct(Now) /\ Distinct(Now')
    <3>1. Distinct(Now)
      BY DEF IInv, Core, Owned
    <3>2. ASSUME NEW q \in Peers, NEW g \in Fds, NEW h \in Fds,
                 client'[g].peer = q, client'[h].peer = q
          PROVE  g = h
      <4>1. client'[g].peer = (IF g = f THEN p ELSE client[g].peer)
        BY <2>3, <2>5
      <4>2. client'[h].peer = (IF h = f THEN p ELSE client[h].peer)
        BY <2>3, <2>5
      <4>3. client[g].peer = q /\ client[h].peer = q => g = h
        BY <1>1, <3>1 DEF Distinct
      <4> QED
        BY <1>4, <3>2, <4>1, <4>2, <4>3
    <3> QED
      BY <1>1, <3>1, <3>2 DEF Distinct
  <2>7. ASSUME NEW q \in Peers
        PROVE  /\ EntryOf(Now', q).in = EntryOf(Now, q).in
               /\ EntryOf(Now', q).out = EntryOf(Now, q).out
    <3>1. CASE q = p
      <4>1. EntryOf(Now, p) = Free
        BY <1>1, <1>4, NoEntry
      <4>2. EntryOf(Now', p) = c
        BY <1>1, <1>3, <2>2, <2>3, <2>5, <2>6, EntryIs
      <4> QED
        BY <2>3, <3>1, <4>1, <4>2
    <3>2. CASE q # p /\ \E g \in Fds : client[g].peer = q
      <4>1. PICK g \in Fds : client[g].peer = q
        BY <3>2
      <4>2. client'[g] = client[g]
        BY <1>3, <2>2, <2>5, <4>1
      <4> QED
        BY <1>1, <2>6, <4>1, <4>2, EntryIs
    <3>3. CASE q # p /\ ~\E g \in Fds : client[g].peer = q
      <4>1. \A g \in Fds : client'[g].peer # q
        BY <2>3, <2>5, <3>3
      <4>2. EntryOf(Now, q) = Free
        BY <1>1, <3>3, NoEntry
      <4>3. \A g \in Fds : Now'.client[g].peer # q
        BY <1>1, <4>1
      <4>4. EntryOf(Now', q) = Free
        BY <4>3, NoEntry
      <4> QED
        BY <4>2, <4>4
    <3> QED
      BY <3>1, <3>2, <3>3
  <2>8. \A q \in Peers : link'[q] = "shut" <=> link[q] = "shut"
    BY <1>1, <1>3, <2>1
  <2>9. ASSUME NEW q \in Peers, alive'[q]
        PROVE  PeerOK(q)'
    BY <1>0, <1>2, <2>1, <2>7, <2>8, <2>9, PeerStays DEF Ordered
  <2>10. Reading'
    <3>1. ~FrameReady(c)
      BY <2>3 DEF FrameReady
    <3>2. \A g \in Fds : ~FrameReady(client'[g])
      BY <1>5, <2>5, <3>1 DEF Reading
    <3> QED
      BY <1>0, <1>5, <3>2 DEF Reading
  <2> QED
    BY <2>9, <2>10 DEF Ordered
<1> QED
  BY <1>6, <1>7

(* What follows a place in the first of two sequences.                     *)
LEMMA LaterPart ==
    ASSUME NEW x \in Seq(Units), NEW y \in Seq(Units), NEW m \in 1..Len(x)
    PROVE  /\ SubSeq(x \o y, m + 1, Len(x \o y)) = SubSeq(x, m + 1, Len(x)) \o y
           /\ SubSeq(x, m + 1, Len(x)) \in Seq(Units)
<1> DEFINE a == SubSeq(x, 1, m)
           b == SubSeq(x, m + 1, Len(x))
           z == x \o y
           l == SubSeq(z, m + 1, Len(z))
           r == b \o y
<1>1. /\ b \in Seq(Units) /\ Len(b) = Len(x) - m
      /\ \A k \in 1..(Len(x) - m) : b[k] = x[k + m]
  OBVIOUS
<1>2. /\ z \in Seq(Units) /\ Len(z) = Len(x) + Len(y)
      /\ \A k \in 1..(Len(x) + Len(y)) : z[k] = IF k <= Len(x) THEN x[k] ELSE y[k - Len(x)]
      /\ Len(x) \in Nat /\ Len(y) \in Nat /\ m \in Nat /\ m <= Len(x)
  BY Joined, JoinedAt
<1> HIDE DEF z
<1>3. /\ l \in Seq(Units) /\ Len(l) = Len(x) + Len(y) - m
      /\ \A k \in 1..(Len(x) + Len(y) - m) : l[k] = z[k + m]
  BY <1>2
<1> HIDE DEF l, b
<1>4. /\ r \in Seq(Units) /\ Len(r) = Len(b) + Len(y)
      /\ \A k \in 1..(Len(b) + Len(y)) : r[k] = IF k <= Len(b) THEN b[k] ELSE y[k - Len(b)]
  BY <1>1, Joined, JoinedAt
<1> HIDE DEF r
<1>5. Len(l) = Len(r)
  BY <1>1, <1>2, <1>3, <1>4
<1>6. ASSUME NEW k \in 1..Len(r)
      PROVE  l[k] = r[k]
  <2>1. k \in 1..(Len(x) + Len(y) - m) /\ k + m \in 1..(Len(x) + Len(y)) /\ k \in 1..(Len(b) + Len(y))
    BY <1>1, <1>2, <1>4
  <2>2. l[k] = IF k + m <= Len(x) THEN x[k + m] ELSE y[(k + m) - Len(x)]
    BY <1>2, <1>3, <2>1
  <2>3. CASE k + m <= Len(x)
    <3>1. k \in 1..(Len(x) - m) /\ k <= Len(b)
      BY <1>1, <1>2, <2>1, <2>3
    <3> QED
      BY <1>1, <1>4, <2>1, <2>2, <2>3, <3>1
  <2>4. CASE ~(k + m <= Len(x))
    <3>1. ~(k <= Len(b)) /\ k - Len(b) = (k + m) - Len(x)
      BY <1>1, <1>2, <2>1, <2>4
    <3> QED
      BY <1>4, <2>1, <2>2, <2>4, <3>1
  <2> QED
    BY <2>3, <2>4
<1>7. l = r
  <2>1. l \in Seq(Units) /\ r \in Seq(Units)
    BY <1>3, <1>4
  <2>2. \A k \in 1..Len(r) : l[k] = r[k]
    BY <1>6
  <2> QED
    BY <1>5, <2>1, <2>2
<1> QED
  BY <1>1, <1>7 DEF l, r, b, z

(* PropertiesChanged goes to every connection.                             *)
LEMMA BroadcastOrdered ==
    ASSUME IInv, Ordered, Becomes(Broadcast(Now)), UNCHANGED <<peers, got>>
    PROVE  /\ Ordered' /\ KeepsRequests(Now, Broadcast(Now))
           /\ client' = Broadcast(Now).client
<1> DEFINE t == Broadcast(Now)
<1>1. TableOK(Now) /\ Owned(Now) /\ Distinct(Now) /\ Now.link = link
  BY DEF IInv, Core, Owned, Now
<1>2. Good(Now, t)
  BY <1>1, BroadcastGood
<1>3. /\ \A p \in Peers : alive[p] => Serves(Now, t, p, Told(Now, p))
      /\ KeepsRequests(Now, t)
  BY <1>1, BroadcastServes
<1>4. Becomes(t)
  OBVIOUS
<1> HIDE DEF t
<1>5. ASSUME NEW p \in Peers, alive'[p]
      PROVE  PeerOK(p)'
  <2>1. alive[p] /\ PeerOK(p)
    BY <1>5 DEF peers, Ordered
  <2> DEFINE v == Told(Now, p)
  <2>2. v \in {<<>>, Notice}
    BY DEF Told
  <2>3. v = Notice => link[p] = "open"
    BY <1>1 DEF Told, Notice, Frame
  <2>4. Serves(Now, t, p, v)
    BY <1>3, <2>1
  <2> HIDE DEF v
  <2> QED
    BY <1>2, <1>4, <2>1, <2>2, <2>3, <2>4, ServedKeeps
<1>6. client' = t.client
  BY <1>2, <1>4, BecomesTable DEF Good
<1> QED
  BY <1>3, <1>5, <1>6 DEF Ordered, t

(* A change that comes from elsewhere.                                     *)
LEMMA EmitPropertiesChangedOrdered ==
    ASSUME IInv, Ordered, Reading, EmitPropertiesChanged
    PROVE  Ordered' /\ Reading'
<1>1. /\ cur = Idle /\ Becomes(Broadcast(Now)) /\ UNCHANGED <<cur, peers, got>>
  BY DEF EmitPropertiesChanged, AtRest
<1>2. cur.at # "reply"
  BY <1>1 DEF Idle
<1> DEFINE t == Broadcast(Now)
<1>3. Ordered' /\ KeepsRequests(Now, t) /\ client' = t.client
  BY <1>1, BroadcastOrdered
<1> HIDE DEF t
<1> QED
  BY <1>1, <1>2, <1>3, ReadingServed

(* A complete frame is handled.                                            *)
LEMMA HandleRequestOrdered ==
    ASSUME IInv, Ordered, Reading, HandleRequest
    PROVE  Ordered' /\ Reading'
<1> DEFINE kind == client[cur.fd].in[1].kind
           t == IF kind = "set" THEN Broadcast(Now) ELSE Now
<1>1. /\ cur.at = "frames" /\ FrameReady(client[cur.fd]) /\ Becomes(t)
      /\ cur' = [fd |-> cur.fd, at |-> "reply", id |-> client[cur.fd].in[1].id]
      /\ UNCHANGED <<up, path, starts, changes, backlog, batch, peers, got>>
  BY DEF HandleRequest
<1>2. cur.fd \in Fds /\ TableOK(Now) /\ Now.client = client
  BY <1>1 DEF IInv, Core, CurOK, Idle, Now
<1>3. Ordered' /\ KeepsRequests(Now, t) /\ client' = t.client
  <2>1. CASE kind = "set"
    BY <1>1, <2>1, BroadcastOrdered
  <2>2. CASE kind # "set"
    <3>1. Becomes(Now) /\ t = Now
      BY <1>1, <2>2
    <3>2. Good(Now, Now) /\ Sends(Now, Now, cur.fd, <<>>)
      BY <1>2, ClosesItself, SendsNothing DEF Good
    <3>3. Ordered' /\ KeepsRequests(Now, Now) /\ client' = Now.client
      BY <1>1, <1>2, <3>1, <3>2, QuietCall
    <3> QED
      BY <3>1, <3>3
  <2> QED
    BY <2>1, <2>2
<1> HIDE DEF t
<1>4. cur'.fd = cur.fd /\ cur'.at = "reply" /\ cur'.id = client[cur.fd].in[1].id
  BY <1>1
<1>5. \A f \in Fds : cur'.fd # f => ~FrameReady(client'[f])
  BY <1>2, <1>3, <1>4, RequestsStay DEF Reading
<1>6. client'[cur.fd].peer # NoPeer => client'[cur.fd].in = client[cur.fd].in
  BY <1>2, <1>3 DEF KeepsRequests
<1>7. cur'.at = "reply" /\ client'[cur'.fd].peer # NoPeer
        => FrameReady(client'[cur'.fd]) /\ cur'.id = client'[cur'.fd].in[1].id
  BY <1>1, <1>4, <1>6 DEF FrameReady
<1> QED
  BY <1>3, <1>5, <1>7 DEF Reading

(* The buffer holds no complete frame any more.                            *)
LEMMA ReadDoneOrdered ==
    ASSUME IInv, Ordered, Reading, ReadDone
    PROVE  Ordered' /\ Reading'
<1> DEFINE t == ClientWrite(Now, cur.fd)
<1>1. /\ cur.at = "frames" /\ ~FrameReady(client[cur.fd]) /\ Becomes(t) /\ cur' = Idle
      /\ UNCHANGED <<server, backlog, batch, peers, got>>
  BY DEF ReadDone
<1>2. cur.fd \in Fds /\ TableOK(Now) /\ Now.client = client
  BY <1>1 DEF IInv, Core, CurOK, Idle, Now
<1>3. Good(Now, t) /\ Sends(Now, t, cur.fd, <<>>)
  BY <1>2, ClientWriteGood, ClientWriteSends
<1> HIDE DEF t
<1>4. Ordered' /\ KeepsRequests(Now, t) /\ client' = t.client
  BY <1>1, <1>2, <1>3, QuietCall
<1>5. \A f \in Fds : ~FrameReady(client[f])
  BY <1>1 DEF Reading
<1>6. \A f \in Fds : ~FrameReady(client'[f])
  BY <1>2, <1>4, <1>5, RequestsStay
<1>7. cur'.at # "reply"
  BY <1>1 DEF Idle
<1> QED
  BY <1>4, <1>6, <1>7 DEF Reading

(* A frame is a sequence of units.                                         *)
LEMMA FrameUnits ==
    ASSUME NEW kind \in {"answer", "notice"}, NEW id \in Nat
    PROVE  Frame(kind, id) \in Seq(Units)
<1>1. Unit("head", kind, id) \in Units /\ Unit("body", kind, id) \in Units
  BY DEF Unit, Units
<1> DEFINE h == Unit("head", kind, id)
           b == Unit("body", kind, id)
<1>2. Frame(kind, id) = <<h, b>> /\ h \in Units /\ b \in Units
  BY <1>1 DEF Frame
<1> HIDE DEF h, b
<1>3. <<h, b>> \in Seq(Units)
  BY <1>2
<1> QED
  BY <1>2, <1>3

(* The client whose request is answered.                                   *)
LEMMA Answered ==
    ASSUME IInv, NEW p \in Peers, PeerOK(p), link[p] = "open", NEW f \in Fds,
           client[f].peer = p, FrameReady(client[f]), cur.id = client[f].in[1].id,
           link'[p] = "open", toServer'[p] = toServer[p],
           Held(Now', p) = Held(Now, p) \o Frame("answer", cur.id),
           EntryOf(Now', p).in = Consumed(client[f].in),
           UNCHANGED <<peers, got>>
    PROVE  PeerOK(p)'
<1> DEFINE c == AnswerCount(Coming(p))
           a == asked[p]
           x == client[f].in
           y == toServer[p]
           u == x \o y
           m == 1 + Body(x[1].kind)
           g == got[p]
           h == Held(Now, p)
           pending == p \in due
<1>1. /\ Distinct(Now) /\ Now.client = client
      /\ g \in Seq(Units) /\ h \in Seq(Units) /\ Coming(p) \in Seq(Units)
      /\ a \in Seq(Units) /\ Len(a) \in Nat /\ y \in Seq(Units)
      /\ EntryOf(Now, p).in \in Seq(Units)
  BY PeerTypes
<1>2. EntryOf(Now, p) = client[f]
  <2>1. Now.client[f].peer = p
    BY <1>1
  <2>2. EntryOf(Now, p) = Now.client[f]
    <3>1. Distinct(Now)
      BY <1>1
    <3> QED
      BY <2>1, <3>1, EntryIs
  <2> QED
    BY <1>1, <2>2
<1>3. /\ x \in Seq(Units) /\ x # <<>> /\ Len(x) >= m /\ Len(x) \in Nat /\ m \in Nat \ {0}
      /\ Asking(p) = u /\ Coming(p) = g \o h /\ pending \in BOOLEAN
  <2>1. x \in Seq(Units)
    BY <1>1, <1>2
  <2>2. x # <<>> /\ Len(x) >= m
    BY DEF FrameReady
  <2>3. m \in Nat \ {0} /\ Len(x) \in Nat
    BY <2>1, BodyIs
  <2>4. Asking(p) = u /\ Coming(p) = g \o h /\ pending \in BOOLEAN
    BY <1>2 DEF Asking, Coming
  <2> QED
    BY <2>1, <2>2, <2>3, <2>4
<1>4. Requests(u, c, a, pending)
  BY <1>3 DEF PeerOK, AskingOK
<1>5. /\ StreamOK(Coming(p), Len(a)) /\ Even(Coming(p)) /\ c \in Nat
  BY <1>1, HeadsAreFinite DEF PeerOK
<1>6. u # <<>> /\ u[1] = x[1] /\ m <= Len(u)
  <2>1. Len(u) = Len(x) + Len(y) /\ Len(y) \in Nat /\ u \in Seq(Units)
    BY <1>1, <1>3, Joined
  <2>2. \A k \in 1..(Len(x) + Len(y)) : u[k] = IF k <= Len(x) THEN x[k] ELSE y[k - Len(x)]
    BY <1>1, <1>3, JoinedAt
  <2> DEFINE lx == Len(x)
             ly == Len(y)
             lu == Len(u)
  <2>3. lx \in Nat /\ ly \in Nat /\ lu = lx + ly /\ lx >= m /\ m \in Nat \ {0}
    BY <1>3, <2>1
  <2> HIDE DEF lx, ly, lu, m
  <2>4. 1 \in 1..(lx + ly) /\ 1 <= lx /\ m <= lu /\ lu # 0
    BY <2>3
  <2>5. u[1] = x[1]
    BY <2>2, <2>4 DEF lx, ly
  <2>6. m <= Len(u) /\ u # <<>>
    BY <2>4 DEF lu
  <2> QED
    BY <2>5, <2>6
<1>7. /\ Requests(SubSeq(u, 2 + Body(u[1].kind), Len(u)), c + 1, a, pending)
      /\ u[1].id = c + 1 /\ c + 1 <= Len(a)
  <2> HIDE DEF u, c, a, pending
  <2>1. 1 + Body(u[1].kind) <= Len(u)
    BY <1>6
  <2> QED
    BY <1>1, <1>3, <1>4, <1>5, <1>6, <2>1, RequestIsTaken
<1>8. SubSeq(u, m + 1, Len(u)) = SubSeq(x, m + 1, Len(x)) \o y
  <2>1. m \in 1..Len(x)
    BY <1>3
  <2>2. x \in Seq(Units) /\ y \in Seq(Units)
    BY <1>1, <1>3
  <2> HIDE DEF x, y, m
  <2> QED
    BY <2>1, <2>2, LaterPart
<1>9. m + 1 = 2 + Body(x[1].kind)
  <2>1. Body(x[1].kind) \in Nat
    BY BodyIs
  <2> QED
    BY <2>1
<1>10. Asking(p)' = SubSeq(u, 2 + Body(u[1].kind), Len(u))
  <2>1. Consumed(x) = SubSeq(x, m + 1, Len(x))
    BY <1>9 DEF Consumed
  <2>2. Asking(p)' = Consumed(x) \o y
    BY DEF Asking
  <2> QED
    BY <1>6, <1>8, <1>9, <2>1, <2>2
<1>11. cur.id = c + 1
  BY <1>6, <1>7
<1>12. Coming(p)' = (g \o h) \o Frame("answer", c + 1)
  <2> DEFINE fr == Frame("answer", c + 1)
  <2>1. fr \in Seq(Units)
    <3>1. c + 1 \in Nat
      BY <1>5
    <3> QED
      BY <3>1, FrameUnits
  <2>2. Coming(p)' = g \o (h \o fr)
    BY <1>11 DEF Coming
  <2> HIDE DEF fr, g, h
  <2>3. (g \o h) \o fr = g \o (h \o fr)
    <3>1. g \in Seq(Units) /\ h \in Seq(Units) /\ fr \in Seq(Units)
      BY <1>1, <2>1
    <3> QED
      BY <3>1, OneAfterAnother
  <2> QED
    BY <2>2, <2>3 DEF fr
<1>13. /\ StreamOK(Coming(p)', Len(a)) /\ Even(Coming(p)') /\ AnswerCount(Coming(p)') = c + 1
  <2> DEFINE s == Coming(p)
             z == s \o Frame("answer", AnswerCount(s) + 1)
  <2>1. Coming(p)' = z
    BY <1>3, <1>12
  <2>2. Len(s) % 2 = 0 /\ StreamOK(s, Len(a)) /\ AnswerCount(s) + 1 <= Len(a)
    BY <1>5, <1>7 DEF Even
  <2> HIDE DEF s
  <2>3. StreamOK(z, Len(a)) /\ Len(z) % 2 = 0 /\ AnswerCount(z) = AnswerCount(s) + 1
    BY <1>1, <2>2, StreamThenAnswer
  <2> HIDE DEF z
  <2>4. Even(z)
    BY <2>3 DEF Even
  <2>5. AnswerCount(s) = c
    BY DEF s
  <2> QED
    BY <2>1, <2>3, <2>4, <2>5
<1>14. asked'[p] = a /\ (p \in due' <=> p \in due)
  BY DEF peers
<1> HIDE DEF c, a, u, pending
<1>15. Requests(Asking(p)', AnswerCount(Coming(p)'), asked'[p], pending)
  BY <1>7, <1>10, <1>13, <1>14
<1>16. AskingOK(p)'
  <2>1. CASE p \in due
    <3>1. pending = TRUE
      BY <2>1 DEF pending
    <3>2. Requests(Asking(p)', AnswerCount(Coming(p)'), asked'[p], TRUE)
      BY <1>15, <3>1
    <3> QED
      BY <1>14, <2>1, <3>2 DEF AskingOK
  <2>2. CASE p \notin due
    <3>1. pending = FALSE
      BY <2>2 DEF pending
    <3>2. Requests(Asking(p)', AnswerCount(Coming(p)'), asked'[p], FALSE)
      BY <1>15, <3>1
    <3> QED
      BY <1>14, <2>2, <3>2 DEF AskingOK
  <2> QED
    BY <2>1, <2>2
<1> QED
  BY <1>13, <1>14, <1>16 DEF PeerOK

(* The answer is written.                                                  *)
LEMMA SendReplyOrdered ==
    ASSUME IInv, Ordered, Reading, SendReply
    PROVE  Ordered' /\ Reading'
<1>a. PICK f : f = cur.fd
  OBVIOUS
<1> DEFINE fr == Frame("answer", cur.id)
           s == ClientSendFrame(Now, f, fr)
           c == [s.client[f] EXCEPT !.in = Consumed(@)]
           t == [s EXCEPT !.client[f].in = Consumed(@)]
<1>1. /\ cur.at = "reply" /\ s.client[f].peer # NoPeer /\ Becomes(t)
      /\ cur' = [fd |-> f, at |-> "frames"]
      /\ UNCHANGED <<server, backlog, batch, peers, got>>
  BY <1>a DEF SendReply
<1>2. f \in Fds /\ cur.id \in Nat
  BY <1>1, <1>a DEF IInv, CurOK, Idle
<1>3. TableOK(Now) /\ Distinct(Now) /\ Owned(Now) /\ Now.client = client /\ Now.link = link
  BY DEF IInv, Core, Owned, Now
<1>4. fr \in Frames /\ fr \in Seq(Units)
  <2>1. fr \in Frames
    BY <1>2 DEF Frames
  <2>2. fr \in Seq(Units)
    BY <1>2, FrameUnits
  <2> QED
    BY <2>1, <2>2
<1> HIDE DEF fr
<1>5. Good(Now, s)
  BY <1>2, <1>3, <1>4, ClientSendFrameGood
<1>6. s.client[f].peer = client[f].peer /\ client[f].peer # NoPeer
  BY <1>1, <1>2, <1>3, <1>5 DEF Good, Closes
<1>7. Sends(Now, s, f, fr)
  BY <1>2, <1>3, <1>4, <1>6, ClientSendFrameSends
<1> HIDE DEF s
<1>8. s \in Tables /\ TableOK(s) /\ s.client[f] \in Clients
  BY <1>2, <1>5 DEF Good, TableOK, Tables
<1>9. /\ c.peer = s.client[f].peer /\ c.in = Consumed(s.client[f].in) /\ c.out = s.client[f].out
  BY <1>8 DEF Clients
<1>b. t = [s EXCEPT !.client[f] = c]
  BY <1>8 DEF Tables, Clients
<1> HIDE DEF c, t
<1>c. t = [client |-> [s.client EXCEPT ![f] = c], link |-> s.link, toClient |-> s.toClient]
  BY <1>8, <1>b DEF Tables
<1>10. /\ t.client = [s.client EXCEPT ![f] = c] /\ t.link = s.link /\ t.toClient = s.toClient
  BY <1>c
<1>11. \A g \in Fds : t.client[g] = IF g = f THEN c ELSE s.client[g]
  BY <1>8, <1>10 DEF Tables
<1>12. /\ Now' = t /\ client' = t.client /\ link' = s.link /\ toClient' = s.toClient
       /\ \A p \in Peers : toServer'[p] = IF s.link[p] = "shut" THEN <<>> ELSE toServer[p]
  <2>1. /\ client' = t.client /\ link' = t.link /\ toClient' = t.toClient
        /\ toServer' = [p \in Peers |-> IF t.link[p] = "shut" THEN << >> ELSE toServer[p]]
    BY <1>1 DEF Becomes
  <2>2. t = [client |-> t.client, link |-> t.link, toClient |-> t.toClient]
    BY <1>c, <1>10
  <2> QED
    BY <1>10, <2>1, <2>2 DEF Now
<1>13. /\ s.client[f].in = client[f].in /\ Distinct(s)
       /\ \A g \in Fds : g # f => s.client[g] = client[g]
  BY <1>1, <1>3, <1>5, <1>7, ClosesKeeps DEF Sends, Good
<1>14. Distinct(Now')
  BY <1>9, <1>11, <1>12, <1>13 DEF Distinct
<1>15. \A p \in Peers : /\ EntryOf(Now', p).out = EntryOf(s, p).out
                        /\ client[f].peer # p => EntryOf(Now', p) = EntryOf(s, p)
  <2> SUFFICES ASSUME NEW p \in Peers
               PROVE  /\ EntryOf(Now', p).out = EntryOf(s, p).out
                      /\ client[f].peer # p => EntryOf(Now', p) = EntryOf(s, p)
    OBVIOUS
  <2>1. CASE \E g \in Fds : s.client[g].peer = p
    <3>1. PICK g \in Fds : s.client[g].peer = p
      BY <2>1
    <3>2. t.client[g].peer = p
      BY <1>9, <1>11, <3>1
    <3>3. EntryOf(s, p) = s.client[g] /\ EntryOf(Now', p) = t.client[g]
      BY <1>12, <1>13, <1>14, <3>1, <3>2, EntryIs
    <3> QED
      BY <1>6, <1>9, <1>11, <3>1, <3>3
  <2>2. CASE ~\E g \in Fds : s.client[g].peer = p
    <3>1. \A g \in Fds : t.client[g].peer # p
      BY <1>9, <1>11, <2>2
    <3> QED
      BY <1>12, <2>2, <3>1, NoEntry
  <2> QED
    BY <2>1, <2>2
<1>16. ASSUME NEW p \in Peers, alive'[p], client[f].peer # p
       PROVE  PeerOK(p)'
  <2>1. alive[p] /\ PeerOK(p)
    BY <1>1, <1>16 DEF peers, Ordered
  <2>2. /\ EntryOf(s, p) = EntryOf(Now, p) /\ s.link[p] = Now.link[p]
        /\ s.toClient[p] = Now.toClient[p]
    BY <1>2, <1>3, <1>4, <1>5, <1>7, <1>16, SendsLeaves
  <2>3. EntryOf(Now', p) = EntryOf(Now, p)
    BY <1>15, <1>16, <2>2
  <2>4. link'[p] = link[p] /\ toClient'[p] = toClient[p]
    BY <1>12, <2>2 DEF Now
  <2>5. CASE link[p] # "shut"
    <3>1. toServer'[p] = toServer[p]
      BY <1>12, <2>4, <2>5
    <3> QED
      BY <1>1, <2>1, <2>3, <2>4, <3>1, PeerStays DEF peers
  <2>6. CASE link[p] = "shut"
    <3>1. Coming(p)' = Coming(p)
      BY <1>1, <2>3, <2>4 DEF Coming, Held, Now
    <3>2. StreamOK(Coming(p), Len(asked[p])) /\ asked' = asked
      BY <1>1, <2>1 DEF PeerOK, peers
    <3> QED
      BY <2>4, <2>6, <3>1, <3>2 DEF PeerOK
  <2> QED
    BY <2>5, <2>6
<1>17. ASSUME NEW p \in Peers, alive'[p], client[f].peer = p
       PROVE  PeerOK(p)'
  <2>1. alive[p] /\ PeerOK(p)
    BY <1>1, <1>17 DEF peers, Ordered
  <2>2. link[p] = "open"
    BY <1>2, <1>3, <1>17 DEF Owned
  <2>3. FrameReady(client[f]) /\ cur.id = client[f].in[1].id
    BY <1>1, <1>a, <1>6 DEF Reading
  <2>4. s.link[p] = "open"
    <3>1. Owned(s)
      BY <1>3, <1>5, ClosesKeeps DEF Good
    <3> QED
      BY <1>2, <1>6, <1>17, <3>1 DEF Owned
  <2>5. Held(s, p) = Held(Now, p) \o fr
    <3>1. Serves(Now, s, p, fr)
      BY <1>2, <1>3, <1>4, <1>5, <1>7, <1>17, <2>1, SendsServes
    <3> QED
      BY <1>3, <2>2, <2>4, <3>1 DEF Serves
  <2>6. Held(Now', p) = Held(s, p)
    <3>1. Now'.toClient[p] = s.toClient[p]
      BY <1>12 DEF Now
    <3> QED
      BY <1>15, <3>1 DEF Held
  <2>7. EntryOf(Now', p).in = Consumed(client[f].in)
    <3>1. Now'.client[f].peer = p /\ Now'.client[f] = c
      BY <1>2, <1>6, <1>9, <1>11, <1>12, <1>17
    <3>2. EntryOf(Now', p) = Now'.client[f]
      BY <1>2, <1>14, <3>1, EntryIs
    <3> QED
      BY <1>9, <1>13, <3>1, <3>2
  <2>8. link'[p] = "open" /\ toServer'[p] = toServer[p]
    BY <1>12, <2>4
  <2>9. Held(Now', p) = Held(Now, p) \o Frame("answer", cur.id)
    BY <2>5, <2>6 DEF fr
  <2> QED
    BY <1>1, <1>2, <1>17, <2>1, <2>2, <2>3, <2>7, <2>8, <2>9, Answered
<1>18. Reading'
  <2>1. cur'.fd = f /\ cur'.at = "frames"
    BY <1>1
  <2>2. \A g \in Fds : g # f => ~FrameReady(client'[g])
    BY <1>a, <1>11, <1>12, <1>13 DEF Reading
  <2> QED
    BY <2>1, <2>2 DEF Reading
<1> QED
  BY <1>16, <1>17, <1>18 DEF Ordered

(* The process ends, and with it its sockets.                              *)
LEMMA ProcessEndsOrdered ==
    ASSUME IInv, Ordered, NEW file \in {"none", "stale"}, ProcessEnds(file)
    PROVE  Ordered' /\ Reading'
<1> DEFINE nil == <<>>
<1>1. /\ client' = [f \in Fds |-> Free] /\ cur' = Idle
      /\ link' = [p \in Peers |-> IF link[p] = "none" THEN "none" ELSE "shut"]
      /\ toServer' = [p \in Peers |-> IF link[p] = "none" THEN toServer[p] ELSE nil]
      /\ UNCHANGED <<peers, toClient, got>>
  BY DEF ProcessEnds
<1>2. /\ Now.client = client /\ Now.link = link /\ Now.toClient = toClient /\ Owned(Now)
      /\ Now'.client = client' /\ NoPeer \notin Peers
      /\ asked' = asked /\ due' = due /\ alive' = alive
  BY <1>1, UdsAssumption DEF IInv, Core, Now, peers
<1>3. Free.in = nil /\ Free.out = nil /\ Free.peer = NoPeer /\ nil \in Seq(Units)
  BY DEF Free
<1> HIDE DEF nil
<1>4. \A f \in Fds : client'[f] = Free
  BY <1>1
<1>5. \A p \in Peers : EntryOf(Now', p) = Free
  <2> SUFFICES ASSUME NEW p \in Peers PROVE EntryOf(Now', p) = Free
    OBVIOUS
  <2>1. \A f \in Fds : Now'.client[f].peer # p
    BY <1>2, <1>3, <1>4
  <2> QED
    BY <2>1, NoEntry
<1>6. ASSUME NEW p \in Peers, alive'[p]
      PROVE  PeerOK(p)'
  <2>1. PeerOK(p)
    BY <1>2, <1>6 DEF Ordered
  <2>2. CASE link[p] = "none"
    <3>1. \A f \in Fds : Now.client[f].peer # p
      BY <1>2, <2>2 DEF Owned
    <3>2. EntryOf(Now, p) = Free
      BY <3>1, NoEntry
    <3>3. link'[p] = link[p] /\ toServer'[p] = toServer[p]
      BY <1>1, <2>2
    <3>4. toClient'[p] = toClient[p] /\ got'[p] = got[p]
      BY <1>1
    <3>5. EntryOf(Now', p) = EntryOf(Now, p)
      BY <1>5, <3>2
    <3> QED
      BY <1>2, <2>1, <3>3, <3>4, <3>5, PeerStays
  <2>3. CASE link[p] # "none"
    <3> DEFINE g == got[p]
               k == toClient[p]
               o == EntryOf(Now, p).out
    <3>1. link'[p] = "shut"
      BY <1>1, <2>3
    <3>2. /\ g \in Seq(Units) /\ k \in Seq(Units) /\ o \in Seq(Units)
          /\ Len(asked[p]) \in Nat
      <4>1. EntryOf(Now, p) \in Clients /\ got[p] \in Seq(Units) /\ Len(asked[p]) \in Nat
        BY PeerTypes
      <4>2. toClient[p] \in Seq(Units)
        BY DEF IInv, Core, TableOK, Tables, Now
      <4> QED
        BY <4>1, <4>2 DEF Clients
    <3>3. Coming(p)' = g \o (k \o nil)
      BY <1>1, <1>3, <1>5 DEF Coming, Held, Now
    <3>4. Coming(p) = g \o (k \o o)
      BY <1>2 DEF Coming, Held
    <3>5. StreamOK(Coming(p), Len(asked[p]))
      BY <2>1 DEF PeerOK
    <3> HIDE DEF g, k, o
    <3>6. k \o nil = k
      <4>1. k \o <<>> = k
        BY <3>2, NothingMore
      <4> QED
        BY <4>1 DEF nil
    <3>7. (g \o k) \o o = g \o (k \o o) /\ g \o k \in Seq(Units)
      BY <3>2, OneAfterAnother, Joined
    <3>8. StreamOK((g \o k) \o o, Len(asked[p]))
      BY <3>4, <3>5, <3>7
    <3>9. StreamOK(g \o k, Len(asked[p]))
      BY <3>2, <3>7, <3>8, StreamBegins
    <3>10. StreamOK(Coming(p)', Len(asked'[p]))
      BY <1>2, <3>3, <3>6, <3>9
    <3> QED
      BY <3>1, <3>10 DEF PeerOK
  <2> QED
    BY <2>2, <2>3
<1>7. Reading'
  <2>1. ~FrameReady(Free)
    BY <1>3 DEF FrameReady, nil
  <2>2. cur'.at # "reply"
    BY <1>1 DEF Idle
  <2> QED
    BY <1>4, <2>1, <2>2 DEF Reading
<1> QED
  BY <1>6, <1>7 DEF Ordered

(* Every step preserves the order of the answers.                          *)
LEMMA NextOrdered ==
    ASSUME IInv, Ordered, Reading, [Next]_vars
    PROVE  Ordered' /\ Reading'
<1>1. CASE PeerStep
  BY <1>1, ConnectOrdered, SendHeadOrdered, SendBodyOrdered, ReadOrdered, CloseOrdered DEF PeerStep
<1>2. CASE ServerStep
  <2>1. CASE EpollWait
    <3>1. UNCHANGED <<client, link, toClient, got, toServer, peers, cur>>
      BY <2>1 DEF EpollWait
    <3> QED
      BY <3>1, OrderStays DEF peers
  <2>2. CASE Accept
    BY <2>2, AcceptOrdered
  <2>3. CASE ReadStep
    <3>1. CASE ReplyToClosed
      BY <3>1, ProcessEndsOrdered DEF ReplyToClosed
    <3> QED
      BY <2>3, <3>1, HandleRequestOrdered, SendReplyOrdered, ReadDoneOrdered DEF ReadStep
  <2>4. CASE Shutdown
    BY <2>4, ProcessEndsOrdered DEF Shutdown
  <2>5. CASE \E e \in batch : Hangup(e) \/ Receive(e)
    BY <2>5, HangupOrdered, ReceiveOrdered
  <2> QED
    BY <1>2, <2>1, <2>2, <2>3, <2>4, <2>5 DEF ServerStep
<1>3. CASE EmitPropertiesChanged
  BY <1>3, EmitPropertiesChangedOrdered
<1>4. CASE Start
  <2>1. UNCHANGED <<client, link, toClient, got, toServer, peers, cur>>
    BY <1>4 DEF Start
  <2> QED
    BY <2>1, OrderStays DEF peers
<1>5. CASE UNCHANGED vars
  <2>1. UNCHANGED <<client, link, toClient, got, toServer, peers, cur>>
    BY <1>5 DEF vars
  <2> QED
    BY <2>1, OrderStays DEF peers
<1> QED
  BY <1>1, <1>2, <1>3, <1>4, <1>5 DEF Next

(* The order of the answers holds in every state.                          *)
LEMMA OrderInvariant == Spec => [](IInv /\ Ordered /\ Reading)
<1>1. Init => IInv /\ Ordered /\ Reading
  BY InitOK, InitOrdered
<1>2. IInv /\ Ordered /\ Reading /\ [Next]_vars => (IInv /\ Ordered /\ Reading)'
  BY NextKeeps, NextOrdered
<1> QED
  BY <1>1, <1>2, PTL DEF Spec

-----------------------------------------------------------------------------
(* What the clients and the daemon rely on.                                *)

(* A free entry of the table holds nothing, no buffer of the server or of  *)
(* the kernel is filled beyond its bound, whatever is queued while it is   *)
(* full, the client being read is in the table until its request is        *)
(* handled, and the socket file is live exactly while the daemon runs.     *)
THEOREM ServerTypes == Spec => []TypeOK
<1>1. IInv => TypeOK
  <2> SUFFICES ASSUME IInv PROVE TypeOK
    OBVIOUS
  <2>0. /\ Now \in Tables /\ Now.client = client /\ Now.link = link /\ Now.toClient = toClient
        /\ TableOK(Now)
    BY DEF IInv, Core, TableOK, Now
  <2>1. ASSUME NEW f \in Fds
        PROVE  /\ client[f].peer \in Peers \union {NoPeer}
               /\ client[f].peer = NoPeer => client[f] = Free
               /\ Len(client[f].in) <= ReadBuf /\ client[f].used <= WriteBuf
               /\ Len(client[f].out) <= client[f].used
    BY <2>0 DEF TableOK, ClientOK, Clients
  <2>2. ASSUME NEW p \in Peers
        PROVE  /\ link[p] \in {"none", "queued", "open", "shut"}
               /\ Len(toClient[p]) <= SockBuf
    BY <2>0 DEF TableOK, Tables, Links
  <2>3. cur.at \in {"idle", "frames", "reply"} /\ (cur.at = "frames" => client[cur.fd].peer # NoPeer)
    BY DEF IInv, CurOK, Idle
  <2> QED
    BY <2>1, <2>2, <2>3 DEF TypeOK, IInv, Events, Life
<1> QED
  BY <1>1, Invariant, PTL

(* No connection is lost track of: accept, a table that is full, a write   *)
(* that overflows or fails, a hang-up and a descriptor that is used again  *)
(* within a batch of events all keep the table, the links and the listen   *)
(* queue in step (client_close, typio_uds_server_dispatch).                       *)
THEOREM ConnectionsAreKnown == Spec => []ConnectionsAreOwned
<1>1. IInv => ConnectionsAreOwned
  <2> SUFFICES ASSUME IInv, NEW p \in Peers
               PROVE  /\ link[p] = "open" <=> \E f \in Fds : client[f].peer = p
                      /\ \A f, g \in Fds : client[f].peer = p /\ client[g].peer = p => f = g
                      /\ link[p] = "queued" <=> \E k \in DOMAIN backlog : backlog[k] = p
    BY DEF ConnectionsAreOwned
  <2>1. Now.client = client /\ Now.link = link
    BY DEF Now
  <2>2. DOMAIN backlog = 1..Len(backlog)
    BY DEF IInv, Core
  <2> QED
    BY <2>1, <2>2 DEF IInv, Core, Owned, Distinct, Queued
<1> QED
  BY <1>1, Invariant, PTL

(* The bytes a client gets are whole frames, each answer is the one to the *)
(* next request of that client, and no request of an accepted connection is*)
(* lost: it is answered or still to be handled, whatever overflows, blocks *)
(* or closes between the handling of a frame and the writing of its answer,*)
(* a broadcast to the same client in between included (client_enqueue,     *)
(* client_process_read, typio_uds_server_broadcast).                       *)
THEOREM AnswersComeInOrder == Spec => []AnswersInOrder
<1>1. IInv /\ Ordered /\ Reading => AnswersInOrder
  <2> SUFFICES ASSUME IInv, Ordered, Reading, NEW p \in Peers, alive[p]
               PROVE  /\ WholeFrames(Stream(p))
                      /\ \A k \in AnswerHeads(Stream(p)) : Stream(p)[k].id
                           = Cardinality({j \in AnswerHeads(Stream(p)) : j <= k})
                      /\ Cardinality(AnswerHeads(Stream(p))) <= Len(asked[p])
                      /\ \A f \in Fds : client[f].peer = p =>
                           /\ Len(asked[p]) = Cardinality(AnswerHeads(Stream(p)))
                                + Cardinality(Heads(client[f].in \o toServer[p]))
                           /\ cur.fd # f => ~FrameReady(client[f])
    BY DEF AnswersInOrder
  <2>1. PeerOK(p) /\ StreamOK(Coming(p), Len(asked[p]))
    BY DEF Ordered, PeerOK
  <2>2. Stream(p) = Coming(p)
    <3> DEFINE g == got[p]
               k == toClient[p]
               o == EntryOf(Now, p).out
    <3>1. g \in Seq(Units) /\ k \in Seq(Units) /\ o \in Seq(Units)
      <4>1. EntryOf(Now, p) \in Clients /\ got[p] \in Seq(Units)
        BY PeerTypes
      <4>2. toClient[p] \in Seq(Units)
        BY DEF IInv, Core, TableOK, Tables, Now
      <4> QED
        BY <4>1, <4>2 DEF Clients
    <3>2. Coming(p) = g \o (k \o o)
      BY DEF Coming, Held, Now
    <3>3. Stream(p) = g \o k \o o
      <4>1. o = IF \E f \in Fds : client[f].peer = p
                THEN client[CHOOSE f \in Fds : client[f].peer = p].out ELSE <<>>
        BY DEF EntryOf, Now, Free
      <4> HIDE DEF o
      <4> QED
        BY <4>1 DEF Stream
    <3> HIDE DEF g, k, o
    <3>4. (g \o k) \o o = g \o (k \o o)
      BY <3>1, OneAfterAnother
    <3> QED
      BY <3>2, <3>3, <3>4
  <2> DEFINE s == Stream(p)
  <2>3. s = Coming(p)
    BY <2>2
  <2> HIDE DEF s
  <2>4. /\ WholeFrames(s) /\ Cardinality(AnswerHeads(s)) <= Len(asked[p])
        /\ \A k \in AnswerHeads(s) : s[k].id = Cardinality({j \in AnswerHeads(s) : j <= k})
    BY <2>1, <2>3 DEF StreamOK, AnswerCount, Upto
  <2>5. ASSUME NEW f \in Fds, client[f].peer = p
        PROVE  /\ Len(asked[p]) = Cardinality(AnswerHeads(s))
                    + Cardinality(Heads(client[f].in \o toServer[p]))
               /\ cur.fd # f => ~FrameReady(client[f])
    <3>1. Distinct(Now) /\ Owned(Now) /\ Now.client = client /\ Now.link = link
      BY PeerTypes
    <3>2. Now.client[f].peer = p /\ link[p] # "shut"
      BY <2>5, <3>1 DEF Owned
    <3>3. EntryOf(Now, p) = client[f]
      BY <3>1, <3>2, EntryIs
    <3>4. AskingOK(p)
      BY <2>1, <3>2 DEF PeerOK
    <3>5. Len(asked[p]) = AnswerCount(Coming(p)) + Cardinality(Heads(Asking(p)))
      BY <3>4 DEF AskingOK, Requests
    <3>6. Asking(p) = client[f].in \o toServer[p]
      BY <3>3 DEF Asking
    <3> QED
      BY <2>3, <3>5, <3>6 DEF AnswerCount, Reading
  <2> QED
    BY <2>4, <2>5 DEF s
<1> QED
  BY <1>1, OrderInvariant, PTL
=============================================================================
