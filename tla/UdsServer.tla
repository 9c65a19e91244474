----------------------------- MODULE UdsServer -----------------------------
(***************************************************************************)
(* The daemon's Unix socket server (src/daemon/ipc/uds_server.c), the      *)
(* request glue above it (ipc_bus.c) and the clients that connect to it:   *)
(* the command line client (src/cli/src/ipc.rs), which makes one call per  *)
(* process, and programs that keep a connection open.                      *)
(*                                                                         *)
(* A stream is a sequence of units: a frame is its length header followed  *)
(* by its body units, so a read may end in the middle of a frame.  The     *)
(* kernel's part (listen queue, socket buffers, the peer's close) is state *)
(* of its own, because the clients act between any two steps of the        *)
(* server: between epoll_wait and the handling of an event, between two    *)
(* frames of one read, and between a handler's broadcast and its response. *)
(***************************************************************************)
EXTENDS Integers, Sequences, FiniteSets, SequencesExt

CONSTANTS
  Cli,          \* connections of the command line client: one call each
  Watchers,     \* connections that stay open and may pipeline requests
  NoPeer,
  Fds,          \* descriptors for accepted connections: TYPIO_UDS_MAX_CLIENTS
  Listen,       \* the listening descriptor
  Backlog,      \* TYPIO_UDS_BACKLOG
  ReadBuf,      \* TYPIO_UDS_READBUF, in units
  WriteBuf,     \* TYPIO_UDS_WRITEBUF, in units
  SockBuf,      \* the kernel's send buffer, in units
  Kinds,        \* requests in play: "get", "set", "stop", "large"
  MaxRequests,  \* bound: requests per watcher
  MaxChanges,   \* bound: state changes that come from elsewhere
  MaxStarts     \* bound: starts of the daemon

Peers == Cli \union Watchers

ASSUME UdsAssumption ==
  /\ NoPeer \notin Peers /\ Listen \notin Fds
  /\ {Backlog, ReadBuf, WriteBuf, SockBuf, MaxChanges, MaxStarts}
       \subseteq Nat \ {0}
  /\ MaxRequests \in Nat
  /\ Kinds \subseteq {"get", "set", "stop", "large"}

VARIABLES
  up,        \* the daemon runs
  path,      \* the socket file: "none", "stale" (nobody listens), "live"
  starts,    \* starts so far
  stopping,  \* the Stop method was called
  changes,   \* state changes from elsewhere so far
  backlog,   \* connections not yet accepted
  client,    \* descriptor |-> TypioUdsClient
  batch,     \* events returned by epoll_wait and not yet handled
  cur,       \* the client in client_process_read, and where it is
  link,      \* peer |-> "none", "queued", "open", "shut" (by the server)
  alive,     \* peer |-> the client process still has its end open
  asked,     \* peer |-> requests it began to send
  due,       \* peers whose last request still lacks its body
  toServer,  \* peer |-> units sent and not yet received by the daemon
  toClient,  \* peer |-> units the kernel holds for it
  got        \* peer |-> units it has read

server == <<up, path, starts, stopping, changes>>
peers == <<alive, asked, due>>
vars == <<server, backlog, client, batch, cur, link, peers, toServer, toClient, got>>

----------------------------------------------------------------------------
(* Frames *)

Body(kind) == IF kind = "large" THEN ReadBuf ELSE 1
Unit(part, kind, id) == [part |-> part, kind |-> kind, id |-> id]
Rest(u) == [k \in 1 .. Body(u.kind) |-> Unit("body", u.kind, u.id)]

\* What the server sends: the answer to the request with this id, or a
\* notification, which has none.
Frame(kind, id) == <<Unit("head", kind, id), Unit("body", kind, id)>>
Notice == Frame("notice", 0)

\* A free TypioUdsClient: in is rbuf, out is wbuf from wpos to wlen, used is
\* wlen, which counts what was already sent as well.
Free == [peer |-> NoPeer, in |-> << >>, out |-> << >>, used |-> 0]

Used == {f \in Fds : client[f].peer # NoPeer}
Idle == [fd |-> Listen, at |-> "idle"]

Init ==
  /\ up = TRUE /\ path = "live" /\ starts = 1 /\ stopping = FALSE /\ changes = 0
  /\ backlog = << >> /\ batch = {} /\ cur = Idle
  /\ client = [f \in Fds |-> Free]
  /\ link = [p \in Peers |-> "none"] /\ alive = [p \in Peers |-> TRUE]
  /\ asked = [p \in Peers |-> << >>] /\ due = {}
  /\ toServer = [p \in Peers |-> << >>]
  /\ toClient = [p \in Peers |-> << >>]
  /\ got = [p \in Peers |-> << >>]

----------------------------------------------------------------------------
(* Writing.  The server's clients, links and kernel buffers travel         *)
(* together as a record s, as one call may send several times.             *)

\* Op of x, with x evaluated once.
With(x, Op(_)) == CHOOSE y \in {Op(z) : z \in {x}} : TRUE

Now == [client |-> client, link |-> link, toClient |-> toClient]
\* What a client had sent to a connection that is closed is discarded.
Becomes(s) ==
  \E t \in {s} :
    /\ client' = t.client /\ link' = t.link /\ toClient' = t.toClient
    /\ toServer' = [p \in Peers |-> IF t.link[p] = "shut" THEN << >> ELSE toServer[p]]

CloseClient(s, f) ==
  IF s.client[f].peer = NoPeer THEN s
  ELSE [s EXCEPT !.client[f] = Free, !.link[s.client[f].peer] = "shut"]

\* send() fails when the peer has closed its end, takes what the kernel has
\* room for, and would block when there is none.
ClientWrite(s, f) ==
  LET c == s.client[f]
      n == IF Len(c.out) < SockBuf - Len(s.toClient[c.peer])
           THEN Len(c.out) ELSE SockBuf - Len(s.toClient[c.peer])
      left == SubSeq(c.out, n + 1, Len(c.out))
  IN  IF c.out = << >> THEN s
      ELSE IF ~alive[c.peer] THEN CloseClient(s, f)
      ELSE [s EXCEPT !.toClient[c.peer] = @ \o SubSeq(c.out, 1, n),
                     !.client[f].out = left,
                     !.client[f].used = IF left = << >> THEN 0 ELSE @]

ClientEnqueue(s, f, units) ==
  IF s.client[f].peer = NoPeer THEN s
  ELSE IF s.client[f].used + Len(units) > WriteBuf THEN CloseClient(s, f)
  ELSE With([s EXCEPT !.client[f].out = @ \o units, !.client[f].used = @ + Len(units)],
            LAMBDA t : ClientWrite(t, f))

\* The header and the body are queued one after the other; a header that
\* closed the client leaves nothing for the body to be queued to.
ClientSendFrame(s, f, frame) ==
  With(ClientEnqueue(s, f, <<frame[1]>>), LAMBDA t : ClientEnqueue(t, f, <<frame[2]>>))

\* Every client of the table in turn; no client's outcome affects another's.
Merge(s, after) ==
  LET lost == {f \in Fds : s.client[f].peer # after[f].client[f].peer}
  IN  [client |-> [f \in Fds |-> after[f].client[f]],
       link |-> [p \in Peers |-> IF \E f \in lost : s.client[f].peer = p
                                 THEN "shut" ELSE s.link[p]],
       toClient |-> [p \in Peers |->
                       IF \E f \in Fds : s.client[f].peer = p
                       THEN after[CHOOSE f \in Fds : s.client[f].peer = p].toClient[p]
                       ELSE s.toClient[p]]]

Broadcast(s) ==
  With([f \in Fds |-> ClientSendFrame(s, f, Notice)], LAMBDA after : Merge(s, after))

----------------------------------------------------------------------------
(* The clients *)

Connect(p) ==
  /\ link[p] = "none" /\ alive[p]
  /\ path = "live" /\ Len(backlog) < Backlog
  /\ backlog' = Append(backlog, p)
  /\ link' = [link EXCEPT ![p] = "queued"]
  /\ UNCHANGED <<server, client, batch, cur, peers, toServer, toClient, got>>

\* IpcClient::call writes the header and the body with a write_all each; a
\* connection in the listen queue accepts data already.
SendHead(p, kind) ==
  LET u == Unit("head", kind, Len(asked[p]) + 1)
  IN  /\ link[p] \in {"queued", "open"} /\ alive[p] /\ p \notin due
      /\ Len(asked[p]) < IF p \in Cli THEN 1 ELSE MaxRequests
      /\ asked' = [asked EXCEPT ![p] = Append(@, u)]
      /\ due' = due \union {p}
      /\ toServer' = [toServer EXCEPT ![p] = Append(@, u)]
      /\ UNCHANGED <<server, backlog, client, batch, cur, link, alive, toClient, got>>

SendBody(p) ==
  /\ link[p] \in {"queued", "open"} /\ alive[p] /\ p \in due
  /\ due' = due \ {p}
  /\ toServer' = [toServer EXCEPT ![p] = @ \o Rest(Last(asked[p]))]
  /\ UNCHANGED <<server, backlog, client, batch, cur, link, alive, asked, toClient, got>>

\* The client reads what has come; a call reads a single frame, once
\* it has sent its request.
Read(p) ==
  LET n == IF p \in Cli /\ 2 - Len(got[p]) < Len(toClient[p])
           THEN 2 - Len(got[p]) ELSE Len(toClient[p])
  IN  /\ alive[p] /\ n > 0
      /\ p \in Cli => asked[p] # << >> /\ p \notin due
      /\ got' = [got EXCEPT ![p] = @ \o SubSeq(toClient[p], 1, n)]
      /\ toClient' = [toClient EXCEPT ![p] = SubSeq(@, n + 1, Len(@))]
      /\ UNCHANGED <<server, backlog, client, batch, cur, link, peers, toServer>>

\* The process ends: its call returned, the server hung up, or it was killed.
Close(p) ==
  /\ alive[p] /\ link[p] # "none"
  /\ alive' = [alive EXCEPT ![p] = FALSE]
  /\ got' = [got EXCEPT ![p] = << >>] /\ toClient' = [toClient EXCEPT ![p] = << >>]
  /\ UNCHANGED <<server, backlog, client, batch, cur, link, asked, due, toServer>>

----------------------------------------------------------------------------
(* The server *)

AtRest == up /\ batch = {} /\ cur = Idle

\* typio_uds_server_dispatch: the events are those of the moment of the call.
EpollWait ==
  LET ready(f) == toServer[client[f].peer] # << >> \/ ~alive[client[f].peer]
  IN  /\ AtRest /\ ~stopping
      /\ batch' = {[fd |-> f, hup |-> ~alive[client[f].peer]] : f \in {g \in Used : ready(g)}}
           \union (IF backlog # << >> THEN {[fd |-> Listen, hup |-> FALSE]} ELSE {})
      /\ batch' # {}
      /\ UNCHANGED <<server, backlog, client, cur, link, peers, toServer, toClient, got>>

NextEvent(e) == up /\ cur = Idle /\ e \in batch

\* Defect: entries are not looked at
AnyClient == Fds

\* find_free_client; the descriptor of a new connection is one not in use.
FreeClient == Fds \ Used

\* The accept loop; a connection that finds the table full is closed.
Accept ==
  LET e == [fd |-> Listen, hup |-> FALSE]
      p == Head(backlog)
  IN  /\ NextEvent(e) /\ backlog # << >>
      /\ backlog' = Tail(backlog)
      /\ batch' = IF Len(backlog) = 1 THEN batch \ {e} ELSE batch
      /\ IF FreeClient = {}
         THEN /\ link' = [link EXCEPT ![p] = "shut"] /\ UNCHANGED client
              /\ toServer' = [toServer EXCEPT ![p] = << >>]
         ELSE \E f \in FreeClient :
                /\ client' = [client EXCEPT ![f] = [Free EXCEPT !.peer = p]]
                /\ link' = [link EXCEPT ![p] = "open"] /\ UNCHANGED toServer
      /\ UNCHANGED <<server, cur, peers, toClient, got>>

\* EPOLLHUP: the client is closed with whatever it had sent.  The event names
\* a descriptor: the client that has it now may be a newer one.
Hangup(e) ==
  /\ NextEvent(e) /\ e.fd \in Fds /\ e.hup
  /\ batch' = batch \ {e}
  /\ Becomes(CloseClient(Now, e.fd))
  /\ UNCHANGED <<server, backlog, cur, peers, got>>

\* recv() of client_process_read.  It returns 0, and the client is closed,
\* at the end of the stream and when the read buffer has no room left.
Receive(e) ==
  LET f == e.fd
      p == client[f].peer
      room == ReadBuf - Len(client[f].in)
      n == IF room < Len(toServer[p]) THEN room ELSE Len(toServer[p])
  IN  /\ NextEvent(e) /\ f \in Fds /\ ~e.hup
      /\ batch' = batch \ {e}
      /\ IF p = NoPeer
         THEN UNCHANGED <<client, link, toClient, toServer, cur>>
         ELSE IF room = 0 \/ (toServer[p] = << >> /\ ~alive[p])
         THEN Becomes(CloseClient(Now, f)) /\ UNCHANGED cur
         ELSE IF toServer[p] = << >>
         THEN Becomes(ClientWrite(Now, f)) /\ UNCHANGED cur
         ELSE /\ client' = [client EXCEPT ![f].in = @ \o SubSeq(toServer[p], 1, n)]
              /\ toServer' = [toServer EXCEPT ![p] = SubSeq(@, n + 1, Len(@))]
              /\ cur' = [fd |-> f, at |-> "frames"]
              /\ UNCHANGED <<link, toClient>>
      /\ UNCHANGED <<server, backlog, peers, got>>

\* Defect: a frame is taken only when more data follows it
FrameReadyWithNext(c) == c.in # << >> /\ Len(c.in) > 1 + Body(c.in[1].kind)

FrameReady(c) == c.in # << >> /\ Len(c.in) >= 1 + Body(c.in[1].kind)

\* The next complete frame goes to ipc_bus_handle_request.  Its method may
\* change the state, which broadcasts PropertiesChanged to every client, the
\* caller included, before the response exists.
HandleRequest ==
  LET f == cur.fd
      kind == client[f].in[1].kind
  IN  /\ up /\ cur.at = "frames" /\ FrameReady(client[f])
      /\ Becomes(IF kind = "set" THEN Broadcast(Now) ELSE Now)
      /\ stopping' = (stopping \/ kind = "stop")
      /\ cur' = [fd |-> f, at |-> "reply", id |-> client[f].in[1].id]
      /\ UNCHANGED <<up, path, starts, changes, backlog, batch, peers, got>>

\* The daemon's process ends: the kernel closes every connection, and the
\* socket file is left behind unless it was unlinked.
ProcessEnds(file) ==
  /\ up' = FALSE /\ path' = file /\ stopping' = FALSE
  /\ client' = [f \in Fds |-> Free] /\ backlog' = << >> /\ batch' = {} /\ cur' = Idle
  /\ link' = [p \in Peers |-> IF link[p] = "none" THEN "none" ELSE "shut"]
  /\ toServer' = [p \in Peers |-> IF link[p] = "none" THEN toServer[p] ELSE << >>]
  /\ UNCHANGED <<starts, changes, peers, toClient, got>>

\* The response is queued and the frame is consumed.  A client that was
\* closed since the frame was found, by the broadcast or by this send, has
\* rlen = 0 and frame_len = 0: rlen - consumed wraps around and the memmove
\* that follows does not end well.

\* Defect: the whole buffer is consumed, the frames behind included
ConsumedAll(in) == << >>

Consumed(in) == SubSeq(in, 2 + Body(in[1].kind), Len(in))
SendReply ==
  LET f == cur.fd
  IN  /\ up /\ cur.at = "reply"
      /\ \E s \in {ClientSendFrame(Now, f, Frame("answer", cur.id))} :
           /\ s.client[f].peer # NoPeer
           /\ Becomes([s EXCEPT !.client[f].in = Consumed(@)])
      /\ cur' = [fd |-> f, at |-> "frames"]
      /\ UNCHANGED <<server, backlog, batch, peers, got>>

ReplyToClosed ==
  /\ up /\ cur.at = "reply"
  /\ ClientSendFrame(Now, cur.fd, Frame("answer", cur.id)).client[cur.fd].peer = NoPeer
  /\ ProcessEnds("stale")

\* No further complete frame: what is still queued is tried once more.
ReadDone ==
  /\ up /\ cur.at = "frames" /\ ~FrameReady(client[cur.fd])
  /\ Becomes(ClientWrite(Now, cur.fd))
  /\ cur' = Idle
  /\ UNCHANGED <<server, backlog, batch, peers, got>>

\* typio_ipc_bus_emit_properties_changed after a change made elsewhere: a
\* shortcut, the tray, a configuration file.
EmitPropertiesChanged ==
  /\ AtRest /\ changes < MaxChanges
  /\ changes' = changes + 1
  /\ Becomes(Broadcast(Now))
  /\ UNCHANGED <<up, path, starts, stopping, backlog, batch, cur, peers, got>>

\* The event loop sees running = false after the dispatch and the bus is
\* destroyed, which unlinks the socket file.
Shutdown == AtRest /\ stopping /\ ProcessEnds("none")

\* typio_uds_server_new: a file nobody listens on is unlinked, then bind and
\* listen make it this server's.
Start ==
  /\ ~up /\ starts < MaxStarts
  /\ up' = TRUE /\ path' = "live" /\ starts' = starts + 1
  /\ UNCHANGED <<stopping, changes, backlog, client, batch, cur, link, peers,
                 toServer, toClient, got>>

----------------------------------------------------------------------------
PeerStep ==
  \E p \in Peers :
    \/ Connect(p) \/ SendBody(p) \/ Read(p) \/ Close(p)
    \/ \E kind \in Kinds : SendHead(p, kind)

ReadStep == HandleRequest \/ SendReply \/ ReplyToClosed \/ ReadDone
ServerStep ==
  \/ EpollWait \/ Accept \/ ReadStep \/ Shutdown
  \/ \E e \in batch : Hangup(e) \/ Receive(e)

Next == PeerStep \/ ServerStep \/ EmitPropertiesChanged \/ Start

\* The event loop polls the server's epoll descriptor and dispatches it
\* whenever it is readable; clients promise nothing.
Spec == Init /\ [][Next]_vars /\ WF_vars(ServerStep)

----------------------------------------------------------------------------
(* Properties *)

\* A free entry of the table holds nothing, no buffer exceeds its bound, the
\* client being read is in the table until its response, and the socket file
\* is live exactly while the daemon runs: a daemon that died leaves a file
\* that the next one replaces (typio_uds_server_new).
TypeOK ==
  /\ up \in BOOLEAN /\ stopping \in BOOLEAN
  /\ path \in {"none", "stale", "live"} /\ (path = "live" <=> up)
  /\ \A f \in Fds :
       /\ client[f].peer \in Peers \union {NoPeer}
       /\ client[f].peer = NoPeer => client[f] = Free
       /\ Len(client[f].in) <= ReadBuf /\ client[f].used <= WriteBuf
       /\ Len(client[f].out) <= client[f].used
  /\ \A p \in Peers : link[p] \in {"none", "queued", "open", "shut"}
                     /\ Len(toClient[p]) <= SockBuf
  /\ \A e \in batch : e.fd \in Fds \union {Listen} /\ e.hup \in BOOLEAN
  /\ cur.at \in {"idle", "frames", "reply"}
  /\ cur.at = "frames" => client[cur.fd].peer # NoPeer

Stream(p) ==
  got[p] \o toClient[p] \o
    (IF \E f \in Fds : client[f].peer = p
     THEN client[CHOOSE f \in Fds : client[f].peer = p].out ELSE << >>)

Heads(s) == {k \in DOMAIN s : s[k].part = "head"}
AnswerHeads(s) == {k \in Heads(s) : s[k].kind = "answer"}

\* Each header is followed by the body that belongs to it.
WholeFrames(s) ==
  \A k \in DOMAIN s : IF k % 2 = 1 THEN s[k].part = "head"
                      ELSE s[k] = Unit("body", s[k - 1].kind, s[k - 1].id)

\* Whatever overflows, blocks or breaks, the bytes a client gets are whole
\* frames one after the other, the last one possibly cut by the end of the
\* stream (client_enqueue closes a client it cannot queue for).  Pipelined
\* requests are answered in their order, each once and none before it was
\* sent; an accepted connection's requests are each answered or still to be
\* handled; and of a connection that is not being read, no complete request
\* waits in the read buffer (client_process_read).
AnswersInOrder ==
  \A p \in {q \in Peers : alive[q]} :
    LET s == Stream(p)
        answers == AnswerHeads(s)
    IN  /\ WholeFrames(s)
        /\ \A k \in answers : s[k].id = Cardinality({j \in answers : j <= k})
        /\ Cardinality(answers) <= Len(asked[p])
        /\ \A f \in Fds : client[f].peer = p =>
             /\ Len(asked[p]) = Cardinality(answers)
                  + Cardinality(Heads(client[f].in \o toServer[p]))
             /\ cur.fd # f => ~FrameReady(client[f])

\* No connection is lost track of: one that was accepted has one entry of
\* the table, and one that waits has none, also when the table is full and
\* when a descriptor is reused within a batch of events.
ConnectionsAreOwned ==
  \A p \in Peers :
    /\ link[p] = "open" <=> \E f \in Fds : client[f].peer = p
    /\ \A f, g \in Fds : client[f].peer = p /\ client[g].peer = p => f = g
    /\ link[p] = "queued" <=> \E k \in DOMAIN backlog : backlog[k] = p

\* A request that was sent whole is answered or its connection ends: no
\* request waits in a buffer until the client happens to send another.
RequestIsHandled ==
  \A p \in Peers :
    (link[p] \in {"queued", "open"} /\ asked[p] # << >> /\ p \notin due)
      ~> (link[p] = "shut" \/ p \in due
           \/ Cardinality(AnswerHeads(Stream(p))) = Len(asked[p]))

----------------------------------------------------------------------------
(* What the comments and documents say *)

\* cli/src/ipc.rs: "Send a JSON-RPC request and wait for the response."  The
\* frame a call returns is the answer to its request.
CallReturnsItsResponse ==
  \A p \in Cli : Len(got[p]) = 2 => got[p] = Frame("answer", 1)

=============================================================================
