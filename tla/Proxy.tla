------------------------------- MODULE Proxy -------------------------------
(* The WebSocket proxy of src/proxy.rs: `proxy_ws_handler` admits a request, *)
(* `handle_proxy_connection` connects to the Steam host and spawns two tasks *)
(* that copy bytes, `ws_to_tcp` and `tcp_to_ws`; it ends when both have      *)
(* ended.  Bridges share nothing, so the module has one.                     *)
(*                                                                           *)
(* Bytes are numbered from 1 in each direction, so that a lost, repeated or  *)
(* displaced byte shows.  The client, the Steam host and the two sockets are *)
(* external; what a socket holds is bounded by its window, and a task that   *)
(* has nowhere to put its bytes waits.                                       *)
EXTENDS Naturals, Sequences

CONSTANTS
  Token,        \* `token` parameters: records with the text before the last ':' and the number after it
  Lowercase,    \* the lower-case form of each host text (external)
  ALLOWED_HOSTS,
  NoPort,       \* what follows the last ':' is missing or not a number
  BufSize,      \* bytes one read of tcp_to_ws takes at most (8192 in the code)
  WsWindow,     \* frames a WebSocket direction holds
  TcpWindow,    \* bytes a TCP direction holds
  MaxFrame,     \* bound: bytes the client puts into one frame
  MaxBytes      \* bound: bytes each end sends

ASSUME SizesAssumption ==
  /\ BufSize \in Nat \ {0} /\ WsWindow \in Nat \ {0} /\ TcpWindow \in Nat \ {0}
  /\ MaxFrame \in Nat /\ MaxBytes \in Nat

VARIABLES
  phase,      \* of the request: its handler, the connect, the two tasks, the end
  ws_to_tcp,  \* task: off, next (awaits a frame), writing, ended
  data,       \* ws_to_tcp: bytes of the frame not yet written
  tcp_to_ws,  \* task: off, read (awaits bytes), sending, closing, ended
  buf,        \* tcp_to_ws: the bytes of the frame being sent
  socket,     \* the server's side of the WebSocket: active, closed_by_peer, closed_by_us
  client,     \* open, answering (read our Close), closed (sent its Close), gone
  remote,     \* open, finished (sent its FIN), reset
  wsIn, wsOut,          \* frames on the way from and to the client
  tcpOut, tcpIn,        \* bytes on the way to and from the Steam host
  clientSent, remoteSent,   \* how many bytes each end has sent
  clientGot, remoteGot,     \* the bytes each end has received
  sawClose    \* the client has read a Close frame while its connection was open

task1 == <<ws_to_tcp, data>>
task2 == <<tcp_to_ws, buf>>
clientVars == <<client, clientSent, clientGot, sawClose>>
remoteVars == <<remote, remoteSent, remoteGot>>
vars == <<phase, task1, task2, socket, clientVars, remoteVars, wsIn, wsOut, tcpOut, tcpIn>>

Frame == [kind : {"binary", "close", "other"}, data : Seq(Nat)]

Min2(a, b) == IF a <= b THEN a ELSE b

\* The first n bytes of a sequence, and the rest.
Front(s, n) == SubSeq(s, 1, n)
Rest(s, n) == SubSeq(s, n + 1, Len(s))

Init ==
  /\ phase = "request"
  /\ ws_to_tcp = "off" /\ data = <<>> /\ tcp_to_ws = "off" /\ buf = <<>>
  /\ socket = "active" /\ client = "open" /\ remote = "open"
  /\ wsIn = <<>> /\ wsOut = <<>> /\ tcpOut = <<>> /\ tcpIn = <<>>
  /\ clientSent = 0 /\ remoteSent = 0 /\ clientGot = <<>> /\ remoteGot = <<>>
  /\ sawClose = FALSE

-----------------------------------------------------------------------------
(* proxy_ws_handler *)

\* The text before the last ':' and a u16, or 443 where there is none.
parse_host_port(token) ==
  [host |-> token.host, port |-> IF token.port \in 0..65535 THEN token.port ELSE 443]

is_allowed_host(hostname) == Lowercase[hostname] \in ALLOWED_HOSTS

Admitted(token) ==
  LET target == parse_host_port(token)
  IN is_allowed_host(target.host) /\ target.port \in 80..65535

\* 403, before any upgrade.
Refuse ==
  /\ phase = "request"
  /\ \E token \in Token : ~Admitted(token)
  /\ phase' = "refused"
  /\ UNCHANGED <<task1, task2, socket, clientVars, remoteVars, wsIn, wsOut, tcpOut, tcpIn>>

\* The upgrade succeeds and its callback starts to connect.
Approve ==
  /\ phase = "request"
  /\ \E token \in Token : Admitted(token)
  /\ phase' = "connecting"
  /\ UNCHANGED <<task1, task2, socket, clientVars, remoteVars, wsIn, wsOut, tcpOut, tcpIn>>

\* The connection does not become a WebSocket: the callback of the axum crate's
\* WebSocketUpgrade (external) never runs.
UpgradeFails ==
  /\ phase = "request"
  /\ \E token \in Token : Admitted(token)
  /\ phase' = "refused"
  /\ UNCHANGED <<task1, task2, socket, clientVars, remoteVars, wsIn, wsOut, tcpOut, tcpIn>>

-----------------------------------------------------------------------------
(* handle_proxy_connection *)

Connected ==
  /\ phase = "connecting"
  /\ phase' = "bridging"
  /\ ws_to_tcp' = "next" /\ tcp_to_ws' = "read"
  /\ UNCHANGED <<data, buf, socket, clientVars, remoteVars, wsIn, wsOut, tcpOut, tcpIn>>

\* An error, or the 10 seconds are over: the WebSocket is dropped with the future.
ConnectFails ==
  /\ phase = "connecting"
  /\ phase' = "done"
  /\ UNCHANGED <<task1, task2, socket, clientVars, remoteVars, wsIn, wsOut, tcpOut, tcpIn>>

\* join! of the two tasks; the last halves of both connections are dropped.
BothEnded ==
  /\ phase = "bridging"
  /\ ws_to_tcp = "ended" /\ tcp_to_ws = "ended"
  /\ phase' = "done"
  /\ UNCHANGED <<task1, task2, socket, clientVars, remoteVars, wsIn, wsOut, tcpOut, tcpIn>>

\* Variant: one task for both directions, which awaits each send before it goes on.
WsToTcpNext_OneLoop ==
  /\ ws_to_tcp = "next" /\ wsIn # <<>> /\ tcp_to_ws # "sending"
  /\ wsIn' = Tail(wsIn)
  /\ LET frame == Head(wsIn) IN
       \/ /\ frame.kind = "binary"
          /\ ws_to_tcp' = IF frame.data = <<>> THEN "next" ELSE "writing"
          /\ data' = frame.data
          /\ UNCHANGED socket
       \/ /\ frame.kind = "close"
          /\ ws_to_tcp' = "ended"
          /\ socket' = IF socket = "active" THEN "closed_by_peer" ELSE socket
          /\ UNCHANGED data
       \/ /\ frame.kind = "other"
          /\ UNCHANGED <<task1, socket>>
  /\ UNCHANGED <<phase, task2, clientVars, remoteVars, wsOut, tcpOut, tcpIn>>

\* ws_stream.next(): Binary goes to write_all, Close ends the task, the rest is dropped.
WsToTcpNext ==
  /\ ws_to_tcp = "next" /\ wsIn # <<>>
  /\ wsIn' = Tail(wsIn)
  /\ LET frame == Head(wsIn) IN
       \/ /\ frame.kind = "binary"
          /\ ws_to_tcp' = IF frame.data = <<>> THEN "next" ELSE "writing"
          /\ data' = frame.data
          /\ UNCHANGED socket
       \/ /\ frame.kind = "close"
          /\ ws_to_tcp' = "ended"
          /\ socket' = IF socket = "active" THEN "closed_by_peer" ELSE socket
          /\ UNCHANGED data
       \/ /\ frame.kind = "other"
          /\ UNCHANGED <<task1, socket>>
  /\ UNCHANGED <<phase, task2, clientVars, remoteVars, wsOut, tcpOut, tcpIn>>

\* The stream ends or fails: the peer went away without a closing handshake (a frame
\* that violates the protocol is left out).
WsToTcpStreamEnds ==
  /\ ws_to_tcp = "next" /\ wsIn = <<>> /\ client = "gone"
  /\ ws_to_tcp' = "ended"
  /\ UNCHANGED <<phase, data, task2, socket, clientVars, remoteVars, wsIn, wsOut, tcpOut, tcpIn>>

\* Variant: write in the place of write_all.
WsToTcpWrite_Once ==
  /\ ws_to_tcp = "writing" /\ remote # "reset" /\ Len(tcpOut) < TcpWindow
  /\ \E n \in 1..Min2(Len(data), TcpWindow - Len(tcpOut)) : tcpOut' = tcpOut \o Front(data, n)
  /\ data' = <<>> /\ ws_to_tcp' = "next"
  /\ UNCHANGED <<phase, task2, socket, clientVars, remoteVars, wsIn, wsOut, tcpIn>>

\* write_all hands over what the TCP window takes, until all is written.
WsToTcpWrite ==
  /\ ws_to_tcp = "writing" /\ remote # "reset" /\ Len(tcpOut) < TcpWindow
  /\ \E n \in 1..Min2(Len(data), TcpWindow - Len(tcpOut)) :
       /\ tcpOut' = tcpOut \o Front(data, n)
       /\ data' = Rest(data, n)
       /\ ws_to_tcp' = IF n = Len(data) THEN "next" ELSE "writing"
  /\ UNCHANGED <<phase, task2, socket, clientVars, remoteVars, wsIn, wsOut, tcpIn>>

WsToTcpWriteFails ==
  /\ ws_to_tcp = "writing" /\ remote = "reset"
  /\ ws_to_tcp' = "ended" /\ data' = <<>>
  /\ UNCHANGED <<phase, task2, socket, clientVars, remoteVars, wsIn, wsOut, tcpOut, tcpIn>>

\* Variant: the frame is the whole buffer, zeros behind the bytes read.
TcpToWsRead_WholeBuffer ==
  /\ tcp_to_ws = "read" /\ tcpIn # <<>> /\ socket = "active"
  /\ \E n \in 1..Min2(Len(tcpIn), BufSize) :
       tcpIn' = Rest(tcpIn, n) /\ buf' = Front(tcpIn, n) \o [i \in 1..(BufSize - n) |-> 0]
  /\ tcp_to_ws' = "sending"
  /\ UNCHANGED <<phase, task1, socket, clientVars, remoteVars, wsIn, wsOut, tcpOut>>

\* tcp_read.read(&mut buf) returns some bytes, at most a buffer full, and send takes
\* them in the same poll: it refuses them once the peer has closed.
TcpToWsRead ==
  /\ tcp_to_ws = "read" /\ tcpIn # <<>>
  /\ \E n \in 1..Min2(Len(tcpIn), BufSize) :
       /\ tcpIn' = Rest(tcpIn, n)
       /\ \/ socket = "active" /\ tcp_to_ws' = "sending" /\ buf' = Front(tcpIn, n)
          \/ socket # "active" /\ tcp_to_ws' = "ended" /\ UNCHANGED buf
  /\ UNCHANGED <<phase, task1, socket, clientVars, remoteVars, wsIn, wsOut, tcpOut>>

\* Variants: the end of the stream is noticed before what precedes it has been read; an
\* error of read is tried again.
TcpToWsReadEnds_Early ==
  /\ tcp_to_ws = "read" /\ remote # "open"
  /\ \/ socket = "active" /\ tcp_to_ws' = "closing" /\ socket' = "closed_by_us"
     \/ socket # "active" /\ tcp_to_ws' = "ended" /\ UNCHANGED socket
  /\ UNCHANGED <<phase, task1, buf, clientVars, remoteVars, wsIn, wsOut, tcpOut, tcpIn>>

TcpToWsReadEnds_EofOnly ==
  /\ tcp_to_ws = "read" /\ tcpIn = <<>> /\ remote = "finished"
  /\ \/ socket = "active" /\ tcp_to_ws' = "closing" /\ socket' = "closed_by_us"
     \/ socket # "active" /\ tcp_to_ws' = "ended" /\ UNCHANGED socket
  /\ UNCHANGED <<phase, task1, buf, clientVars, remoteVars, wsIn, wsOut, tcpOut, tcpIn>>

\* read returns 0 (EOF) or an error, after the bytes before it: send takes a Close
\* frame, or refuses it, which the code ignores.
TcpToWsReadEnds ==
  /\ tcp_to_ws = "read" /\ tcpIn = <<>> /\ remote # "open"
  /\ \/ socket = "active" /\ tcp_to_ws' = "closing" /\ socket' = "closed_by_us"
     \/ socket # "active" /\ tcp_to_ws' = "ended" /\ UNCHANGED socket
  /\ UNCHANGED <<phase, task1, buf, clientVars, remoteVars, wsIn, wsOut, tcpOut, tcpIn>>

\* What a flush puts on the wire; towards a peer that is gone it is lost.
Flushed(frame) == IF client = "gone" THEN wsOut ELSE Append(wsOut, frame)

\* The flush of a Binary frame ends, and the loop goes on.
TcpToWsSent ==
  /\ tcp_to_ws = "sending" /\ Len(wsOut) < WsWindow
  /\ wsOut' = Flushed([kind |-> "binary", data |-> buf])
  /\ buf' = <<>> /\ tcp_to_ws' = "read"
  /\ UNCHANGED <<phase, task1, socket, clientVars, remoteVars, wsIn, tcpOut, tcpIn>>

\* The flush of the Close frame ends, and with it the task.
TcpToWsClosed ==
  /\ tcp_to_ws = "closing" /\ Len(wsOut) < WsWindow
  /\ wsOut' = Flushed([kind |-> "close", data |-> <<>>])
  /\ tcp_to_ws' = "ended"
  /\ UNCHANGED <<phase, task1, buf, socket, clientVars, remoteVars, wsIn, tcpOut, tcpIn>>

\* A flush of either fails because the peer is gone.
TcpToWsSendFails ==
  /\ tcp_to_ws \in {"sending", "closing"} /\ client = "gone"
  /\ tcp_to_ws' = "ended" /\ buf' = <<>>
  /\ UNCHANGED <<phase, task1, socket, clientVars, remoteVars, wsIn, wsOut, tcpOut, tcpIn>>

-----------------------------------------------------------------------------
(* The client (external): it sends frames, closes, answers our Close, or     *)
(* vanishes, with or without the frames it had on the way.                   *)

ClientSends ==
  /\ phase \in {"connecting", "bridging"} /\ client = "open" /\ Len(wsIn) < WsWindow
  /\ \/ \E n \in 0..Min2(MaxFrame, MaxBytes - clientSent) :
          /\ wsIn' = Append(wsIn, [kind |-> "binary", data |-> [i \in 1..n |-> clientSent + i]])
          /\ clientSent' = clientSent + n
     \/ /\ wsIn' = Append(wsIn, [kind |-> "other", data |-> <<>>])
        /\ UNCHANGED clientSent
  /\ UNCHANGED <<phase, task1, task2, socket, client, clientGot, sawClose, remoteVars,
                 wsOut, tcpOut, tcpIn>>

ClientCloses ==
  /\ phase \in {"connecting", "bridging"} /\ client \in {"open", "answering"}
  /\ Len(wsIn) < WsWindow
  /\ client' = "closed"
  /\ wsIn' = Append(wsIn, [kind |-> "close", data |-> <<>>])
  /\ UNCHANGED <<phase, task1, task2, socket, clientSent, clientGot, sawClose, remoteVars,
                 wsOut, tcpOut, tcpIn>>

\* A client that has closed no longer looks at what arrives.
ClientReads ==
  /\ client # "gone" /\ wsOut # <<>>
  /\ wsOut' = Tail(wsOut)
  /\ LET frame == Head(wsOut) IN
       IF client # "open" THEN UNCHANGED clientVars
       ELSE /\ clientGot' = clientGot \o frame.data
            /\ client' = IF frame.kind = "close" THEN "answering" ELSE "open"
            /\ sawClose' = (frame.kind = "close")
            /\ UNCHANGED clientSent
  /\ UNCHANGED <<phase, task1, task2, socket, remoteVars, wsIn, tcpOut, tcpIn>>

ClientVanishes ==
  /\ phase \in {"connecting", "bridging"} /\ client # "gone"
  /\ client' = "gone" /\ wsOut' = <<>>
  /\ \E n \in 0..Len(wsIn) : wsIn' = Front(wsIn, n)
  /\ UNCHANGED <<phase, task1, task2, socket, clientSent, clientGot, sawClose, remoteVars,
                 tcpOut, tcpIn>>

-----------------------------------------------------------------------------
(* The Steam host (external): it reads, sends, ends its direction, or resets *)
(* the connection, which discards what was on the way.                       *)

RemoteSends ==
  /\ phase = "bridging" /\ remote = "open" /\ Len(tcpIn) < TcpWindow /\ remoteSent < MaxBytes
  /\ tcpIn' = Append(tcpIn, remoteSent + 1)
  /\ remoteSent' = remoteSent + 1
  /\ UNCHANGED <<phase, task1, task2, socket, clientVars, remote, remoteGot, wsIn, wsOut, tcpOut>>

RemoteReads ==
  /\ remote # "reset" /\ tcpOut # <<>>
  /\ remoteGot' = Append(remoteGot, Head(tcpOut))
  /\ tcpOut' = Tail(tcpOut)
  /\ UNCHANGED <<phase, task1, task2, socket, clientVars, remote, remoteSent, wsIn, wsOut, tcpIn>>

RemoteFinishes ==
  /\ phase = "bridging" /\ remote = "open"
  /\ remote' = "finished"
  /\ UNCHANGED <<phase, task1, task2, socket, clientVars, remoteSent, remoteGot, wsIn, wsOut,
                 tcpOut, tcpIn>>

RemoteResets ==
  /\ phase = "bridging" /\ remote # "reset"
  /\ remote' = "reset" /\ tcpOut' = <<>>
  /\ \E n \in 0..Len(tcpIn) : tcpIn' = Front(tcpIn, n)
  /\ UNCHANGED <<phase, task1, task2, socket, clientVars, remoteSent, remoteGot, wsIn, wsOut>>

-----------------------------------------------------------------------------
ConnectEnds == Connected \/ ConnectFails
WsToTcp == WsToTcpNext \/ WsToTcpStreamEnds \/ WsToTcpWrite \/ WsToTcpWriteFails
TcpToWs == TcpToWsRead \/ TcpToWsReadEnds \/ TcpToWsSent \/ TcpToWsClosed \/ TcpToWsSendFails
Client == ClientSends \/ ClientCloses \/ ClientReads \/ ClientVanishes
Remote == RemoteSends \/ RemoteReads \/ RemoteFinishes \/ RemoteResets

Next ==
  \/ Refuse \/ Approve \/ UpgradeFails \/ ConnectEnds \/ BothEnded
  \/ WsToTcp \/ TcpToWs
  \/ Client \/ Remote

Spec == Init /\ [][Next]_vars

\* tokio runs every task that can go on, and the connect has a timeout.  Of the
\* outside world only this is assumed: the host reads, or resets the connection.
Fairness ==
  /\ WF_vars(ConnectEnds) /\ WF_vars(BothEnded)
  /\ WF_vars(WsToTcp) /\ WF_vars(TcpToWs)
  /\ WF_vars(RemoteReads)

FairSpec == Spec /\ Fairness

-----------------------------------------------------------------------------
(* Properties *)

\* Every variable has its type, and what a task holds fits its phase.
TypeOK ==
  /\ phase \in {"request", "refused", "connecting", "bridging", "done"}
  /\ ws_to_tcp \in {"off", "next", "writing", "ended"}
  /\ tcp_to_ws \in {"off", "read", "sending", "closing", "ended"}
  /\ data \in Seq(Nat) /\ buf \in Seq(Nat)
  /\ ws_to_tcp # "writing" => data = <<>>
  /\ tcp_to_ws # "sending" => buf = <<>>
  /\ socket \in {"active", "closed_by_peer", "closed_by_us"}
  /\ client \in {"open", "answering", "closed", "gone"}
  /\ remote \in {"open", "finished", "reset"}
  /\ wsIn \in Seq(Frame) /\ wsOut \in Seq(Frame)
  /\ tcpIn \in Seq(Nat) /\ tcpOut \in Seq(Nat)
  /\ Len(wsIn) <= WsWindow /\ Len(wsOut) <= WsWindow /\ Len(tcpOut) <= TcpWindow
  /\ clientSent \in 0..MaxBytes /\ remoteSent \in 0..MaxBytes
  /\ clientGot \in Seq(Nat) /\ remoteGot \in Seq(Nat)
  /\ sawClose \in BOOLEAN

\* s is the part of a stream that follows its first n bytes.
Continues(s, n) == \A i \in 1..Len(s) : s[i] = n + i

\* What the host has received is the beginning of what the client sent, and the other
\* way round: partial writes, full windows, lost connections and the end of the other
\* direction never drop, repeat or displace a byte of the two copy loops.
StreamsIntact == Continues(remoteGot, 0) /\ Continues(clientGot, 0)

\* A client that sees the proxy's Close frame after the host has ended its stream in
\* order has the whole response: tcp_to_ws sends Close only after all it has read.
CloseMeansComplete ==
  sawClose /\ remote = "finished" => Len(clientGot) = remoteSent

\* A client that closes in order has not cut off its own request: when ws_to_tcp has
\* ended, all that was sent before the Close frame has been written to the host.
CloseLosesNothing ==
  ws_to_tcp = "ended" /\ client = "closed" /\ remote # "reset"
    => Len(remoteGot) + Len(tcpOut) = clientSent

\* Neither direction is ended by the other: the request goes on after the host has
\* finished its response, until the client closes or goes away; the response goes on
\* until the host ends it or the client is no longer there to get it.
DirectionsIndependent ==
  /\ ws_to_tcp = "ended" => client \in {"closed", "gone"} \/ remote = "reset"
  /\ tcp_to_ws = "ended" => client \in {"closed", "gone"} \/ remote # "open"

\* Both directions deliver.  What the client sends reaches the host while both connections
\* last, even if the client never reads and even if the response has ended; what the host
\* sends reaches a client that reads, unless one of them breaks off.
BytesDelivered ==
  /\ \A n \in 1..MaxBytes :
       clientSent >= n ~> \/ Len(remoteGot) >= n
                          \/ client = "gone" \/ remote = "reset"
                          \/ phase = "done" /\ ws_to_tcp = "off"
  /\ WF_vars(ClientReads) =>
       \A n \in 1..MaxBytes :
         remoteSent >= n ~> \/ Len(clientGot) >= n
                            \/ client \in {"closed", "gone"} \/ remote = "reset"

\* Once both ends are through with the connection, the handler ends and frees its
\* sockets.  Neither task has a timeout and neither tells the other, so no less than
\* both ends will do: a host that stays open and silent keeps the bridge of a client
\* that has left.
BridgeEnds ==
  WF_vars(ClientReads) =>
    (phase = "bridging" /\ client \in {"closed", "gone"} /\ remote # "open" ~> phase = "done")
=============================================================================
