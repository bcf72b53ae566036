---------------------------- MODULE ProxyProofs ----------------------------
(* Theorems about Proxy.  The two streams are followed from end to end: what *)
(* an end has received, what the sockets hold and what a task holds are      *)
(* consecutive parts of what the other end sent.                             *)
EXTENDS Proxy, TLAPS

-----------------------------------------------------------------------------
(* Parts of a stream *)

\* Two consecutive parts put together are one part.
LEMMA ContinuesConcat ==
  ASSUME NEW s \in Seq(Nat), NEW t \in Seq(Nat), NEW n \in Nat,
         Continues(s, n), Continues(t, n + Len(s))
  PROVE  s \o t \in Seq(Nat) /\ Len(s \o t) = Len(s) + Len(t) /\ Continues(s \o t, n)
BY DEF Continues

\* A part is cut into two consecutive parts.
LEMMA ContinuesCut ==
  ASSUME NEW s \in Seq(Nat), NEW n \in Nat, NEW k \in 0..Len(s), Continues(s, n)
  PROVE  /\ Front(s, k) \in Seq(Nat) /\ Len(Front(s, k)) = k /\ Continues(Front(s, k), n)
         /\ Rest(s, k) \in Seq(Nat) /\ Len(Rest(s, k)) = Len(s) - k
         /\ Continues(Rest(s, k), n + k)
BY DEF Continues, Front, Rest

\* Nothing continues a stream anywhere.
LEMMA ContinuesEmpty == \A n \in Nat : Continues(<<>>, n)
BY DEF Continues

\* One byte more, and one byte less.
LEMMA ContinuesAppend ==
  ASSUME NEW s \in Seq(Nat), NEW n \in Nat, NEW b \in Nat, Continues(s, n), b = n + Len(s) + 1
  PROVE  /\ Append(s, b) \in Seq(Nat) /\ Len(Append(s, b)) = Len(s) + 1
         /\ Continues(Append(s, b), n)
BY DEF Continues

\* What is left of a part when its first byte is read.
LEMMA ContinuesTail ==
  ASSUME NEW s \in Seq(Nat), NEW n \in Nat, Continues(s, n), s # <<>>
  PROVE  /\ Head(s) = n + 1 /\ Tail(s) \in Seq(Nat) /\ Len(Tail(s)) = Len(s) - 1
         /\ Continues(Tail(s), n + 1)
BY DEF Continues

\* Bytes put together, and what is left of a sequence.
LEMMA ConcatBytes ==
  ASSUME NEW s \in Seq(Nat), NEW t \in Seq(Nat)
  PROVE  s \o t \in Seq(Nat) /\ Len(s \o t) = Len(s) + Len(t)
OBVIOUS

\* What Head and Tail of a queue of frames are.
LEMMA HeadTail ==
  ASSUME NEW q \in Seq(Frame), q # <<>>
  PROVE  /\ Head(q) \in Frame /\ Tail(q) \in Seq(Frame) /\ Head(q) = q[1]
         /\ Len(q) \in Nat \ {0} /\ Len(Tail(q)) = Len(q) - 1 /\ 1 \in 1..Len(q)
         /\ \A i \in 1..Len(Tail(q)) : i + 1 \in 1..Len(q) /\ Tail(q)[i] = q[i + 1]
OBVIOUS

\* What Append to a queue of frames is.
LEMMA AppendFrame ==
  ASSUME NEW q \in Seq(Frame), NEW f \in Frame
  PROVE  /\ Append(q, f) \in Seq(Frame) /\ Len(q) \in Nat /\ Len(Append(q, f)) = Len(q) + 1
         /\ \A i \in 1..Len(Append(q, f)) :
              \/ i = Len(q) + 1 /\ Append(q, f)[i] = f
              \/ i \in 1..Len(q) /\ Append(q, f)[i] = q[i]
OBVIOUS

\* The beginning of a queue of frames is one.
LEMMA FrontFrames ==
  ASSUME NEW q \in Seq(Frame), NEW k \in 0..Len(q)
  PROVE  /\ Front(q, k) \in Seq(Frame) /\ Len(Front(q, k)) = k
         /\ \A i \in 1..k : i \in 1..Len(q) /\ Front(q, k)[i] = q[i]
BY DEF Front

\* The data of a frame is a sequence of bytes.
LEMMA FrameFields ==
  ASSUME NEW f \in Frame
  PROVE  f.data \in Seq(Nat) /\ Len(f.data) \in Nat /\ f.kind \in {"binary", "close", "other"}
BY DEF Frame

-----------------------------------------------------------------------------
(* Parts of a stream that travel in frames *)

\* off says where in the stream each frame of q begins; the frames fill lo to hi.
ChainAt(q, off, lo, hi) ==
  /\ off \in [1..(Len(q) + 1) -> Nat]
  /\ off[1] = lo /\ off[Len(q) + 1] = hi
  /\ \A i \in 1..Len(q) :
       Continues(q[i].data, off[i]) /\ off[i + 1] = off[i] + Len(q[i].data)

Chain(q, lo, hi) == \E off : ChainAt(q, off, lo, hi)

\* An empty queue carries no byte.
LEMMA ChainEmpty == \A n \in Nat : Chain(<<>>, n, n)
<1> SUFFICES ASSUME NEW n \in Nat PROVE Chain(<<>>, n, n)
  OBVIOUS
<1> DEFINE off == [i \in 1..1 |-> n]
<1>1. ChainAt(<<>>, off, n, n)
  BY DEF ChainAt
<1> QED BY <1>1 DEF Chain

\* Frames without data carry no byte.
LEMMA ChainOfNone ==
  ASSUME NEW lo, NEW hi, Chain(<<>>, lo, hi)
  PROVE  lo = hi
BY DEF Chain, ChainAt

\* A frame put at the end of a queue.
LEMMA ChainAppend ==
  ASSUME NEW q \in Seq(Frame), NEW f \in Frame, NEW lo \in Nat, NEW hi \in Nat,
         Chain(q, lo, hi), Continues(f.data, hi)
  PROVE  Chain(Append(q, f), lo, hi + Len(f.data))
<1>1. PICK off : ChainAt(q, off, lo, hi)
  BY DEF Chain
<1> DEFINE L == Len(f.data)
           r == Append(q, f)
           new == [i \in 1..(Len(q) + 2) |-> IF i <= Len(q) + 1 THEN off[i] ELSE hi + L]
<1>2. /\ L \in Nat /\ Len(q) \in Nat /\ Len(r) = Len(q) + 1
      /\ r[Len(q) + 1] = f
      /\ \A i \in 1..Len(q) : r[i] = q[i]
  BY DEF Frame
<1>3. new \in [1..(Len(r) + 1) -> Nat] /\ new[1] = lo /\ new[Len(r) + 1] = hi + L
  BY <1>1, <1>2 DEF ChainAt
<1>4. ASSUME NEW i \in 1..Len(r)
      PROVE  Continues(r[i].data, new[i]) /\ new[i + 1] = new[i] + Len(r[i].data)
  <2>1. CASE i = Len(q) + 1
    BY <2>1, <1>1, <1>2 DEF ChainAt
  <2>2. CASE i \in 1..Len(q)
    BY <2>2, <1>1, <1>2 DEF ChainAt
  <2> QED BY <2>1, <2>2, <1>2
<1> HIDE DEF new, r, L
<1>5. ChainAt(r, new, lo, hi + L)
  BY <1>3, <1>4 DEF ChainAt
<1> QED BY <1>5 DEF Chain, r, L

\* Taking the first frame.
LEMMA ChainTail ==
  ASSUME NEW q \in Seq(Frame), NEW lo \in Nat, NEW hi \in Nat, Chain(q, lo, hi), q # <<>>
  PROVE  /\ Continues(Head(q).data, lo)
         /\ Chain(Tail(q), lo + Len(Head(q).data), hi)
<1>1. PICK off : ChainAt(q, off, lo, hi)
  BY DEF Chain
<1> DEFINE L == Len(Head(q).data)
           r == Tail(q)
           new == [i \in 1..Len(q) |-> off[i + 1]]
<1>2. /\ L \in Nat /\ Len(q) \in Nat \ {0} /\ Len(r) = Len(q) - 1
      /\ Head(q) = q[1]
      /\ \A i \in 1..Len(r) : r[i] = q[i + 1]
  BY DEF Frame
<1>3. off[2] = lo + L /\ Continues(Head(q).data, lo)
  BY <1>1, <1>2 DEF ChainAt
<1>4. new \in [1..(Len(r) + 1) -> Nat] /\ new[1] = lo + L /\ new[Len(r) + 1] = hi
  BY <1>1, <1>2, <1>3 DEF ChainAt
<1>5. ASSUME NEW i \in 1..Len(r)
      PROVE  Continues(r[i].data, new[i]) /\ new[i + 1] = new[i] + Len(r[i].data)
  BY <1>1, <1>2 DEF ChainAt
<1> HIDE DEF new, r, L
<1>6. ChainAt(r, new, lo + L, hi)
  BY <1>4, <1>5 DEF ChainAt
<1> QED BY <1>3, <1>6 DEF Chain, r, L

\* Losing the last frames.
LEMMA ChainFront ==
  ASSUME NEW q \in Seq(Frame), NEW lo \in Nat, NEW hi \in Nat, Chain(q, lo, hi),
         NEW k \in 0..Len(q)
  PROVE  \E h \in Nat : Chain(Front(q, k), lo, h)
<1>1. PICK off : ChainAt(q, off, lo, hi)
  BY DEF Chain
<1> DEFINE r == Front(q, k)
           new == [i \in 1..(k + 1) |-> off[i]]
<1>2. /\ Len(q) \in Nat /\ Len(r) = k
      /\ \A i \in 1..k : r[i] = q[i]
  BY DEF Front
<1>3. new \in [1..(Len(r) + 1) -> Nat] /\ new[1] = lo /\ new[Len(r) + 1] = off[k + 1]
  BY <1>1, <1>2 DEF ChainAt
<1>4. ASSUME NEW i \in 1..Len(r)
      PROVE  Continues(r[i].data, new[i]) /\ new[i + 1] = new[i] + Len(r[i].data)
  <2>1. i \in 1..k /\ i \in 1..Len(q) /\ i \in 1..(k + 1) /\ i + 1 \in 1..(k + 1)
    BY <1>2
  <2>2. r[i] = q[i] /\ new[i] = off[i] /\ new[i + 1] = off[i + 1]
    BY <2>1, <1>2
  <2> HIDE DEF r, new
  <2>3. Continues(q[i].data, off[i]) /\ off[i + 1] = off[i] + Len(q[i].data)
    BY <2>1, <1>1 DEF ChainAt
  <2> QED BY <2>2, <2>3
<1>5. off[k + 1] \in Nat
  <2>1. k + 1 \in 1..(Len(q) + 1)
    BY <1>2
  <2> QED BY <2>1, <1>1 DEF ChainAt
<1> HIDE DEF new, r
<1>6. ChainAt(r, new, lo, off[k + 1])
  BY <1>3, <1>4 DEF ChainAt
<1>7. Chain(r, lo, off[k + 1])
  BY <1>6 DEF Chain
<1> QED BY <1>5, <1>7 DEF r

-----------------------------------------------------------------------------
(* The inductive invariant *)

\* What the phases of tasks, socket and ends say about each other.
Control ==
  /\ phase \in {"request", "refused", "connecting"} =>
       ws_to_tcp = "off" /\ tcp_to_ws = "off" /\ remote = "open"
  /\ ws_to_tcp = "ended" =>
       \/ client = "gone" \/ remote = "reset"
       \/ client = "closed" /\ wsIn = <<>>
  /\ tcp_to_ws = "ended" => client \in {"closed", "gone"} \/ remote # "open"
  /\ socket = "closed_by_peer" => client \in {"closed", "gone"}
  /\ socket = "closed_by_us" => remote # "open" /\ tcpIn = <<>> /\ tcp_to_ws \in {"closing", "ended"}
  /\ tcp_to_ws = "closing" => socket = "closed_by_us"
  /\ sawClose => client # "open" /\ remote # "open"

\* A Close frame is the last one, and comes from somebody who has closed.
Frames ==
  /\ \A i \in 1..Len(wsIn) :
       /\ wsIn[i].kind # "binary" => wsIn[i].data = <<>>
       /\ wsIn[i].kind = "close" => i = Len(wsIn) /\ client \in {"closed", "gone"}
  /\ \A i \in 1..Len(wsOut) :
       /\ wsOut[i].kind # "binary" => wsOut[i].data = <<>>
       /\ wsOut[i].kind = "close" =>
            i = Len(wsOut) /\ tcp_to_ws = "ended" /\ socket = "closed_by_us"

\* The request: received, in the TCP socket, in the task, in frames.
Request ==
  /\ Continues(remoteGot, 0)
  /\ remote # "reset" =>
       /\ Continues(tcpOut, Len(remoteGot))
       /\ Continues(data, Len(remoteGot) + Len(tcpOut))
       /\ \E hi \in Nat :
            /\ Chain(wsIn, Len(remoteGot) + Len(tcpOut) + Len(data), hi)
            /\ client # "gone" => hi = clientSent

\* The response: received, in frames, in the task, in the TCP socket.
Response ==
  /\ Continues(clientGot, 0)
  /\ client = "open" =>
       \E hi \in Nat :
         /\ Chain(wsOut, Len(clientGot), hi)
         /\ Continues(buf, hi)
         /\ Continues(tcpIn, hi + Len(buf))
         /\ remote # "reset" => hi + Len(buf) + Len(tcpIn) = remoteSent

IInv == TypeOK /\ Control /\ Frames /\ Request /\ Response /\ CloseMeansComplete

-----------------------------------------------------------------------------
(* Initial states *)

\* The invariant holds initially.
LEMMA InitIInv == Init => IInv
<1> SUFFICES ASSUME Init PROVE IInv
  OBVIOUS
<1> USE SizesAssumption
<1>0. <<>> \in Seq(Nat) /\ <<>> \in Seq(Frame) /\ Len(<<>>) = 0
  OBVIOUS
<1>1. TypeOK
  <2>1. sawClose \in BOOLEAN
    BY DEF Init
  <2>2. clientSent \in 0..MaxBytes /\ remoteSent \in 0..MaxBytes
    BY DEF Init
  <2>3. Len(wsIn) <= WsWindow /\ Len(wsOut) <= WsWindow /\ Len(tcpOut) <= TcpWindow
    BY DEF Init
  <2> QED BY <1>0, <2>1, <2>2, <2>3, Zenon DEF Init, TypeOK
<1>2. Control /\ Frames /\ CloseMeansComplete
  BY DEF Init, Control, Frames, CloseMeansComplete
<1>3. Request
  <2>1. Chain(wsIn, 0, 0)
    BY ChainEmpty DEF Init
  <2> QED BY <2>1, ContinuesEmpty DEF Init, Request
<1>4. Response
  <2>1. Chain(wsOut, 0, 0)
    BY ChainEmpty DEF Init
  <2> QED BY <2>1, ContinuesEmpty DEF Init, Response
<1> QED BY <1>1, <1>2, <1>3, <1>4 DEF IInv

-----------------------------------------------------------------------------
(* Steps *)

\* What leaves both ends of a stream and all it travels through alone preserves it.
LEMMA RequestKept ==
  ASSUME Request, UNCHANGED <<remoteGot, tcpOut, data, wsIn, clientSent, client, remote>>
  PROVE  Request'
BY DEF Request

\* The same for the response.
LEMMA ResponseKept ==
  ASSUME Response, UNCHANGED <<clientGot, wsOut, buf, tcpIn, remoteSent, client, remote>>
  PROVE  Response'
BY DEF Response

\* Once the client has left the open state, only what it has received matters.
LEMMA ResponseOver ==
  ASSUME Response, UNCHANGED clientGot, client' # "open"
  PROVE  Response'
BY DEF Response, Continues

\* Refuse preserves the invariant.
LEMMA RefuseStep ==
  ASSUME IInv, Refuse
  PROVE  IInv'
<1> USE SizesAssumption
<1>1. TypeOK'
  BY DEF Refuse, IInv, TypeOK, Frame, task1, task2, clientVars, remoteVars
<1>2. Control'
  BY DEF Refuse, IInv, TypeOK, Control, task1, task2, clientVars, remoteVars
<1>3. Frames'
  BY DEF Refuse, IInv, TypeOK, Control, Frames, task1, task2, clientVars, remoteVars
<1>4. Request'
  BY RequestKept DEF Refuse, IInv, task1, task2, clientVars, remoteVars
<1>5. Response'
  BY ResponseKept DEF Refuse, IInv, task1, task2, clientVars, remoteVars
<1>6. CloseMeansComplete'
  BY DEF Refuse, IInv, Control, CloseMeansComplete, task1, task2, clientVars, remoteVars
<1> QED BY <1>1, <1>2, <1>3, <1>4, <1>5, <1>6 DEF IInv

\* Approve preserves the invariant.
LEMMA ApproveStep ==
  ASSUME IInv, Approve
  PROVE  IInv'
<1> USE SizesAssumption
<1>1. TypeOK'
  BY DEF Approve, IInv, TypeOK, Frame, task1, task2, clientVars, remoteVars
<1>2. Control'
  BY DEF Approve, IInv, TypeOK, Control, task1, task2, clientVars, remoteVars
<1>3. Frames'
  BY DEF Approve, IInv, TypeOK, Control, Frames, task1, task2, clientVars, remoteVars
<1>4. Request'
  BY RequestKept DEF Approve, IInv, task1, task2, clientVars, remoteVars
<1>5. Response'
  BY ResponseKept DEF Approve, IInv, task1, task2, clientVars, remoteVars
<1>6. CloseMeansComplete'
  BY DEF Approve, IInv, Control, CloseMeansComplete, task1, task2, clientVars, remoteVars
<1> QED BY <1>1, <1>2, <1>3, <1>4, <1>5, <1>6 DEF IInv

\* UpgradeFails preserves the invariant.
LEMMA UpgradeFailsStep ==
  ASSUME IInv, UpgradeFails
  PROVE  IInv'
<1> USE SizesAssumption
<1>1. TypeOK'
  BY DEF UpgradeFails, IInv, TypeOK, Frame, task1, task2, clientVars, remoteVars
<1>2. Control'
  BY DEF UpgradeFails, IInv, TypeOK, Control, task1, task2, clientVars, remoteVars
<1>3. Frames'
  BY DEF UpgradeFails, IInv, TypeOK, Control, Frames, task1, task2, clientVars, remoteVars
<1>4. Request'
  BY RequestKept DEF UpgradeFails, IInv, task1, task2, clientVars, remoteVars
<1>5. Response'
  BY ResponseKept DEF UpgradeFails, IInv, task1, task2, clientVars, remoteVars
<1>6. CloseMeansComplete'
  BY DEF UpgradeFails, IInv, Control, CloseMeansComplete, task1, task2, clientVars, remoteVars
<1> QED BY <1>1, <1>2, <1>3, <1>4, <1>5, <1>6 DEF IInv

\* Connected preserves the invariant.
LEMMA ConnectedStep ==
  ASSUME IInv, Connected
  PROVE  IInv'
<1> USE SizesAssumption
<1>1. TypeOK'
  <2>1. data = <<>> /\ buf = <<>>
    BY DEF Connected, IInv, TypeOK, Control
  <2> QED BY <2>1 DEF Connected, IInv, TypeOK, clientVars, remoteVars
<1>2. Control'
  BY DEF Connected, IInv, TypeOK, Control, task1, task2, clientVars, remoteVars
<1>3. Frames'
  BY DEF Connected, IInv, TypeOK, Control, Frames, task1, task2, clientVars, remoteVars
<1>4. Request'
  BY RequestKept DEF Connected, IInv, task1, task2, clientVars, remoteVars
<1>5. Response'
  BY ResponseKept DEF Connected, IInv, task1, task2, clientVars, remoteVars
<1>6. CloseMeansComplete'
  BY DEF Connected, IInv, Control, CloseMeansComplete, task1, task2, clientVars, remoteVars
<1> QED BY <1>1, <1>2, <1>3, <1>4, <1>5, <1>6 DEF IInv

\* ConnectFails preserves the invariant.
LEMMA ConnectFailsStep ==
  ASSUME IInv, ConnectFails
  PROVE  IInv'
<1> USE SizesAssumption
<1>1. TypeOK'
  BY DEF ConnectFails, IInv, TypeOK, Frame, task1, task2, clientVars, remoteVars
<1>2. Control'
  BY DEF ConnectFails, IInv, TypeOK, Control, task1, task2, clientVars, remoteVars
<1>3. Frames'
  BY DEF ConnectFails, IInv, TypeOK, Control, Frames, task1, task2, clientVars, remoteVars
<1>4. Request'
  BY RequestKept DEF ConnectFails, IInv, task1, task2, clientVars, remoteVars
<1>5. Response'
  BY ResponseKept DEF ConnectFails, IInv, task1, task2, clientVars, remoteVars
<1>6. CloseMeansComplete'
  BY DEF ConnectFails, IInv, Control, CloseMeansComplete, task1, task2, clientVars, remoteVars
<1> QED BY <1>1, <1>2, <1>3, <1>4, <1>5, <1>6 DEF IInv

\* BothEnded preserves the invariant.
LEMMA BothEndedStep ==
  ASSUME IInv, BothEnded
  PROVE  IInv'
<1> USE SizesAssumption
<1>1. TypeOK'
  BY DEF BothEnded, IInv, TypeOK, Frame, task1, task2, clientVars, remoteVars
<1>2. Control'
  BY DEF BothEnded, IInv, TypeOK, Control, task1, task2, clientVars, remoteVars
<1>3. Frames'
  BY DEF BothEnded, IInv, TypeOK, Control, Frames, task1, task2, clientVars, remoteVars
<1>4. Request'
  BY RequestKept DEF BothEnded, IInv, task1, task2, clientVars, remoteVars
<1>5. Response'
  BY ResponseKept DEF BothEnded, IInv, task1, task2, clientVars, remoteVars
<1>6. CloseMeansComplete'
  BY DEF BothEnded, IInv, Control, CloseMeansComplete, task1, task2, clientVars, remoteVars
<1> QED BY <1>1, <1>2, <1>3, <1>4, <1>5, <1>6 DEF IInv

\* WsToTcpNext preserves the invariant.
LEMMA WsToTcpNextStep ==
  ASSUME IInv, WsToTcpNext
  PROVE  IInv'
<1> USE SizesAssumption
<1>w. wsIn \in Seq(Frame) /\ wsIn # <<>> /\ wsIn' = Tail(wsIn)
  BY DEF WsToTcpNext, IInv, TypeOK
<1>a. /\ Head(wsIn) \in Frame /\ Tail(wsIn) \in Seq(Frame) /\ Head(wsIn) = wsIn[1]
      /\ Len(wsIn) \in Nat \ {0} /\ Len(Tail(wsIn)) = Len(wsIn) - 1 /\ 1 \in 1..Len(wsIn)
      /\ \A i \in 1..Len(Tail(wsIn)) : i + 1 \in 1..Len(wsIn) /\ Tail(wsIn)[i] = wsIn[i + 1]
  BY <1>w, HeadTail
<1>b. /\ Head(wsIn).data \in Seq(Nat) /\ Head(wsIn).kind \in {"binary", "close", "other"}
      /\ Head(wsIn).kind # "binary" => Head(wsIn).data = <<>>
      /\ Head(wsIn).kind = "close" => Len(wsIn) = 1 /\ client \in {"closed", "gone"}
  BY <1>a, FrameFields DEF IInv, Frames
<1>1. TypeOK'
  <2>1. /\ UNCHANGED <<phase, tcp_to_ws, buf, wsOut, tcpOut, tcpIn, client, clientSent, clientGot,
                     sawClose, remote, remoteSent, remoteGot>>
        /\ wsIn' \in Seq(Frame) /\ Len(wsIn') <= WsWindow
    BY <1>a DEF WsToTcpNext, IInv, TypeOK, task2, clientVars, remoteVars
  <2>2. /\ ws_to_tcp' \in {"off", "next", "writing", "ended"} /\ data' \in Seq(Nat)
        /\ ws_to_tcp' # "writing" => data' = <<>>
        /\ socket' \in {"active", "closed_by_peer", "closed_by_us"}
    BY <1>b DEF WsToTcpNext, IInv, TypeOK, task1
  <2> QED BY <2>1, <2>2 DEF IInv, TypeOK
<1>2. Control'
  <2>1. ASSUME Head(wsIn).kind = "close"
        PROVE  client \in {"closed", "gone"} /\ wsIn' = <<>>
    <3>1. Len(Tail(wsIn)) = 0 /\ client \in {"closed", "gone"}
      BY <2>1, <1>a, <1>b
    <3> QED BY <3>1, <1>a, <1>w
  <2>2. ASSUME ws_to_tcp' = "ended" PROVE Head(wsIn).kind = "close"
    BY <2>2 DEF WsToTcpNext, task1
  <2>3. ASSUME socket' # socket PROVE Head(wsIn).kind = "close" /\ socket' = "closed_by_peer"
    BY <2>3 DEF WsToTcpNext, IInv, TypeOK
  <2>4. UNCHANGED <<phase, tcp_to_ws, tcpIn, client, remote, sawClose>>
    BY DEF WsToTcpNext, task2, clientVars, remoteVars
  <2>5. phase \notin {"request", "refused", "connecting"} /\ ws_to_tcp # "ended"
    BY DEF WsToTcpNext, IInv, Control
  <2>6. ws_to_tcp' = "ended" => client' \in {"closed", "gone"} /\ wsIn' = <<>>
    BY <2>1, <2>2, <2>4
  <2>7. \/ socket' = socket
        \/ socket' = "closed_by_peer" /\ client' \in {"closed", "gone"} /\ socket = "active"
    BY <2>1, <2>3, <2>4 DEF WsToTcpNext
  <2> QED BY <2>4, <2>5, <2>6, <2>7 DEF IInv, Control
<1>3. Frames'
  <2>1. \A i \in 1..Len(wsIn') : i + 1 \in 1..Len(wsIn) /\ wsIn'[i] = wsIn[i + 1]
    BY <1>a, <1>w
  <2>2. socket' = socket \/ socket = "active"
    BY DEF WsToTcpNext
  <2>3. UNCHANGED <<client, wsOut, tcp_to_ws>> /\ Len(wsIn') = Len(wsIn) - 1
    BY <1>a DEF WsToTcpNext, task2, clientVars
  <2>4. \A i \in 1..Len(wsIn') : i + 1 = Len(wsIn) => i = Len(wsIn')
    <3>1. Len(wsIn) \in Nat /\ Len(wsIn') \in Nat /\ Len(wsIn) = Len(wsIn') + 1
      BY <1>a, <2>3
    <3> QED BY <3>1
  <2>5. \A i \in 1..Len(wsOut) : wsOut[i].kind = "close" => socket # "active"
    BY DEF IInv, Frames
  <2>6. \A i \in 1..Len(wsIn') :
          /\ wsIn'[i].kind # "binary" => wsIn'[i].data = <<>>
          /\ wsIn'[i].kind = "close" => i = Len(wsIn') /\ client' \in {"closed", "gone"}
    BY <2>1, <2>3, <2>4 DEF IInv, Frames
  <2> QED BY <2>2, <2>3, <2>5, <2>6 DEF IInv, Frames
<1>4. Request'
  <2>0. UNCHANGED <<remote, remoteGot, tcpOut, client, clientSent>>
    BY DEF WsToTcpNext, remoteVars, clientVars
  <2>1. CASE remote = "reset"
    BY <2>0, <2>1 DEF IInv, Request, Continues
  <2>2. CASE remote # "reset"
    <3> DEFINE at == Len(remoteGot) + Len(tcpOut)
    <3>1. at \in Nat /\ Len(data) = 0 /\ data = <<>>
      BY DEF WsToTcpNext, IInv, TypeOK
    <3>2. PICK hi \in Nat : Chain(wsIn, at, hi) /\ (client # "gone" => hi = clientSent)
      BY <2>2, <3>1 DEF IInv, Request
    <3>3. Continues(Head(wsIn).data, at) /\ Chain(Tail(wsIn), at + Len(Head(wsIn).data), hi)
      BY <3>1, <3>2, <1>w, ChainTail
    <3>4. data' = Head(wsIn).data
      BY <1>b, <3>1 DEF WsToTcpNext, task1
    <3>5. Continues(tcpOut', Len(remoteGot'))
      BY <2>0, <2>2 DEF IInv, Request
    <3>6. Continues(data', Len(remoteGot') + Len(tcpOut'))
      BY <2>0, <3>3, <3>4
    <3>7. Chain(wsIn', Len(remoteGot') + Len(tcpOut') + Len(data'), hi)
      BY <2>0, <3>3, <3>4 DEF WsToTcpNext
    <3>8. Continues(remoteGot', 0)
      BY <2>0 DEF IInv, Request
    <3> QED BY <2>0, <3>2, <3>5, <3>6, <3>7, <3>8 DEF Request
  <2> QED BY <2>1, <2>2
<1>5. Response'
  BY ResponseKept DEF WsToTcpNext, IInv, task1, task2, clientVars, remoteVars
<1>6. CloseMeansComplete'
  BY DEF WsToTcpNext, IInv, Control, CloseMeansComplete, task1, task2, clientVars, remoteVars
<1> QED BY <1>1, <1>2, <1>3, <1>4, <1>5, <1>6 DEF IInv

\* WsToTcpStreamEnds preserves the invariant.
LEMMA WsToTcpStreamEndsStep ==
  ASSUME IInv, WsToTcpStreamEnds
  PROVE  IInv'
<1> USE SizesAssumption
<1>1. TypeOK'
  BY DEF WsToTcpStreamEnds, IInv, TypeOK, Frame, task1, task2, clientVars, remoteVars
<1>2. Control'
  BY DEF WsToTcpStreamEnds, IInv, TypeOK, Control, task1, task2, clientVars, remoteVars
<1>3. Frames'
  BY DEF WsToTcpStreamEnds, IInv, TypeOK, Control, Frames, task1, task2, clientVars, remoteVars
<1>4. Request'
  BY RequestKept DEF WsToTcpStreamEnds, IInv, task1, task2, clientVars, remoteVars
<1>5. Response'
  BY ResponseKept DEF WsToTcpStreamEnds, IInv, task1, task2, clientVars, remoteVars
<1>6. CloseMeansComplete'
  BY DEF WsToTcpStreamEnds, IInv, Control, CloseMeansComplete, task1, task2, clientVars, remoteVars
<1> QED BY <1>1, <1>2, <1>3, <1>4, <1>5, <1>6 DEF IInv

\* WsToTcpWrite preserves the invariant.
LEMMA WsToTcpWriteStep ==
  ASSUME IInv, WsToTcpWrite
  PROVE  IInv'
<1> USE SizesAssumption
<1>p. PICK n \in 1..Min2(Len(data), TcpWindow - Len(tcpOut)) :
        /\ tcpOut' = tcpOut \o Front(data, n)
        /\ data' = Rest(data, n)
        /\ ws_to_tcp' = IF n = Len(data) THEN "next" ELSE "writing"
  BY DEF WsToTcpWrite
<1>q. /\ data \in Seq(Nat) /\ tcpOut \in Seq(Nat) /\ remoteGot \in Seq(Nat)
      /\ Len(tcpOut) \in Nat /\ Len(data) \in Nat /\ Len(remoteGot) \in Nat
      /\ Len(tcpOut) < TcpWindow /\ remote # "reset" /\ ws_to_tcp = "writing"
  BY DEF WsToTcpWrite, IInv, TypeOK
<1>r. n \in 0..Len(data) /\ n \in Nat /\ n <= TcpWindow - Len(tcpOut)
  BY <1>q DEF Min2
<1>s. /\ Front(data, n) \in Seq(Nat) /\ Len(Front(data, n)) = n
      /\ Rest(data, n) \in Seq(Nat) /\ Len(Rest(data, n)) = Len(data) - n
  BY <1>q, <1>r DEF Front, Rest
<1>t. tcpOut' \in Seq(Nat) /\ Len(tcpOut') = Len(tcpOut) + n
  BY <1>p, <1>q, <1>s, ConcatBytes
<1>u. UNCHANGED <<phase, tcp_to_ws, buf, socket, client, clientSent, clientGot, sawClose,
                  remote, remoteSent, remoteGot, wsIn, wsOut, tcpIn>>
  BY DEF WsToTcpWrite, task2, clientVars, remoteVars
<1>1. TypeOK'
  <2>1. n = Len(data) => data' = <<>>
    BY <1>p, <1>q, <1>s
  <2>2. /\ data' \in Seq(Nat) /\ Len(tcpOut') <= TcpWindow /\ ws_to_tcp' \in {"next", "writing"}
        /\ ws_to_tcp' # "writing" => data' = <<>>
    BY <1>p, <1>q, <1>r, <1>s, <1>t, <2>1
  <2> QED BY <1>t, <1>u, <2>2 DEF IInv, TypeOK
<1>2. Control'
  BY <1>p, <1>q, <1>u DEF IInv, Control
<1>3. Frames'
  BY <1>u DEF IInv, Frames
<1>4. Request'
  <2>1. /\ Continues(remoteGot, 0) /\ Continues(tcpOut, Len(remoteGot))
        /\ Continues(data, Len(remoteGot) + Len(tcpOut))
    BY <1>q DEF IInv, Request
  <2>2. /\ Continues(Front(data, n), Len(remoteGot) + Len(tcpOut))
        /\ Continues(Rest(data, n), Len(remoteGot) + Len(tcpOut) + n)
    BY <1>q, <1>r, <2>1, ContinuesCut
  <2>3. Continues(tcpOut', Len(remoteGot'))
    BY <1>p, <1>q, <1>s, <1>u, <2>1, <2>2, ContinuesConcat
  <2>4. Len(remoteGot') + Len(tcpOut') = Len(remoteGot) + Len(tcpOut) + n
    BY <1>q, <1>r, <1>t, <1>u
  <2>5. Continues(data', Len(remoteGot') + Len(tcpOut'))
    BY <1>p, <2>2, <2>4
  <2>6. Len(remoteGot') + Len(tcpOut') + Len(data') = Len(remoteGot) + Len(tcpOut) + Len(data)
    <3>1. Len(data') = Len(data) - n
      BY <1>p, <1>s
    <3>2. Len(remoteGot') \in Nat /\ Len(tcpOut') \in Nat /\ Len(data') \in Nat
      BY <1>q, <1>r, <1>t, <1>u, <3>1
    <3>3. Len(remoteGot) \in Nat /\ Len(tcpOut) \in Nat /\ Len(data) \in Nat /\ n \in Nat
      BY <1>q, <1>r
    <3> QED BY <2>4, <3>1, <3>2, <3>3
  <2>7. PICK hi \in Nat :
          /\ Chain(wsIn, Len(remoteGot) + Len(tcpOut) + Len(data), hi)
          /\ client # "gone" => hi = clientSent
    BY <1>q DEF IInv, Request
  <2>8. Chain(wsIn', Len(remoteGot') + Len(tcpOut') + Len(data'), hi)
    BY <1>u, <2>6, <2>7
  <2>9. Continues(remoteGot', 0)
    BY <1>u, <2>1
  <2> QED BY <1>u, <2>3, <2>5, <2>7, <2>8, <2>9 DEF Request
<1>5. Response'
  BY ResponseKept DEF WsToTcpWrite, IInv, task1, task2, clientVars, remoteVars
<1>6. CloseMeansComplete'
  BY DEF WsToTcpWrite, IInv, Control, CloseMeansComplete, task1, task2, clientVars, remoteVars
<1> QED BY <1>1, <1>2, <1>3, <1>4, <1>5, <1>6 DEF IInv

\* WsToTcpWriteFails preserves the invariant.
LEMMA WsToTcpWriteFailsStep ==
  ASSUME IInv, WsToTcpWriteFails
  PROVE  IInv'
<1> USE SizesAssumption
<1>1. TypeOK'
  BY DEF WsToTcpWriteFails, IInv, TypeOK, Frame, task1, task2, clientVars, remoteVars
<1>2. Control'
  BY DEF WsToTcpWriteFails, IInv, TypeOK, Control, task1, task2, clientVars, remoteVars
<1>3. Frames'
  BY DEF WsToTcpWriteFails, IInv, TypeOK, Control, Frames, task1, task2, clientVars, remoteVars
<1>4. Request'
  BY DEF WsToTcpWriteFails, IInv, Request, Continues, remoteVars
<1>5. Response'
  BY ResponseKept DEF WsToTcpWriteFails, IInv, task1, task2, clientVars, remoteVars
<1>6. CloseMeansComplete'
  BY DEF WsToTcpWriteFails, IInv, Control, CloseMeansComplete, task1, task2, clientVars, remoteVars
<1> QED BY <1>1, <1>2, <1>3, <1>4, <1>5, <1>6 DEF IInv

\* TcpToWsRead preserves the invariant.
LEMMA TcpToWsReadStep ==
  ASSUME IInv, TcpToWsRead
  PROVE  IInv'
<1> USE SizesAssumption
<1>p. PICK n \in 1..Min2(Len(tcpIn), BufSize) :
        /\ tcpIn' = Rest(tcpIn, n)
        /\ \/ socket = "active" /\ tcp_to_ws' = "sending" /\ buf' = Front(tcpIn, n)
           \/ socket # "active" /\ tcp_to_ws' = "ended" /\ UNCHANGED buf
  BY DEF TcpToWsRead
<1>q. /\ tcpIn \in Seq(Nat) /\ Len(tcpIn) \in Nat /\ tcp_to_ws = "read"
      /\ buf = <<>> /\ Len(buf) = 0
  BY DEF TcpToWsRead, IInv, TypeOK
<1>r. n \in 0..Len(tcpIn) /\ n \in Nat
  BY <1>q DEF Min2
<1>s. /\ Front(tcpIn, n) \in Seq(Nat) /\ Len(Front(tcpIn, n)) = n
      /\ Rest(tcpIn, n) \in Seq(Nat) /\ Len(Rest(tcpIn, n)) = Len(tcpIn) - n
  BY <1>q, <1>r DEF Front, Rest
<1>u. UNCHANGED <<phase, ws_to_tcp, data, socket, client, clientSent, clientGot, sawClose,
                  remote, remoteSent, remoteGot, wsIn, wsOut, tcpOut>>
  BY DEF TcpToWsRead, task1, clientVars, remoteVars
<1>1. TypeOK'
  <2>0. buf \in Seq(Nat)
    BY DEF IInv, TypeOK
  <2>1. /\ tcp_to_ws' \in {"sending", "ended"} /\ tcpIn' \in Seq(Nat) /\ buf' \in Seq(Nat)
        /\ tcp_to_ws' # "sending" => buf' = <<>>
    BY <1>p, <1>q, <1>s, <2>0
  <2> QED BY <1>u, <2>1 DEF IInv, TypeOK
<1>2. Control'
  <2>1. socket # "closed_by_us"
    BY <1>q DEF IInv, Control
  <2> QED BY <1>p, <1>q, <1>u, <2>1 DEF IInv, TypeOK, Control
<1>3. Frames'
  <2>1. \A i \in 1..Len(wsOut) : wsOut[i].kind # "close"
    BY <1>q DEF IInv, Frames
  <2> QED BY <1>u, <2>1 DEF IInv, Frames
<1>4. Request'
  BY RequestKept DEF TcpToWsRead, IInv, task1, task2, clientVars, remoteVars
<1>5. Response'
  <2>1. CASE client # "open"
    BY <2>1, <1>u, ResponseOver DEF IInv
  <2>2. CASE client = "open"
    <3>1. socket = "active"
      BY <2>2, <1>q DEF IInv, TypeOK, Control
    <3>2. PICK hi \in Nat :
            /\ Chain(wsOut, Len(clientGot), hi)
            /\ Continues(tcpIn, hi + Len(buf))
            /\ remote # "reset" => hi + Len(buf) + Len(tcpIn) = remoteSent
      BY <2>2 DEF IInv, Response
    <3>3. Continues(tcpIn, hi)
      BY <3>2, <1>q
    <3>4. Continues(Front(tcpIn, n), hi) /\ Continues(Rest(tcpIn, n), hi + n)
      BY <3>3, <1>q, <1>r, ContinuesCut
    <3>5. buf' = Front(tcpIn, n) /\ Len(buf') = n /\ tcpIn' = Rest(tcpIn, n)
      BY <3>1, <1>p, <1>s
    <3>6. remote' # "reset" => hi + Len(buf') + Len(tcpIn') = remoteSent'
      BY <3>2, <3>5, <1>q, <1>r, <1>s, <1>u
    <3>7. Continues(clientGot', 0) /\ Chain(wsOut', Len(clientGot'), hi)
      BY <3>2, <1>u DEF IInv, Response
    <3>8. Continues(buf', hi) /\ Continues(tcpIn', hi + Len(buf'))
      BY <3>4, <3>5
    <3> QED BY <3>6, <3>7, <3>8 DEF Response
  <2> QED BY <2>1, <2>2
<1>6. CloseMeansComplete'
  BY DEF TcpToWsRead, IInv, Control, CloseMeansComplete, task1, task2, clientVars, remoteVars
<1> QED BY <1>1, <1>2, <1>3, <1>4, <1>5, <1>6 DEF IInv

\* TcpToWsReadEnds preserves the invariant.
LEMMA TcpToWsReadEndsStep ==
  ASSUME IInv, TcpToWsReadEnds
  PROVE  IInv'
<1> USE SizesAssumption
<1>1. TypeOK'
  BY DEF TcpToWsReadEnds, IInv, TypeOK, Frame, task1, task2, clientVars, remoteVars
<1>2. Control'
  BY DEF TcpToWsReadEnds, IInv, TypeOK, Control, task1, task2, clientVars, remoteVars
<1>3. Frames'
  BY DEF TcpToWsReadEnds, IInv, TypeOK, Control, Frames, task1, task2, clientVars, remoteVars
<1>4. Request'
  BY RequestKept DEF TcpToWsReadEnds, IInv, task1, task2, clientVars, remoteVars
<1>5. Response'
  BY ResponseKept DEF TcpToWsReadEnds, IInv, clientVars, remoteVars
<1>6. CloseMeansComplete'
  BY DEF TcpToWsReadEnds, IInv, Control, CloseMeansComplete, task1, task2, clientVars, remoteVars
<1> QED BY <1>1, <1>2, <1>3, <1>4, <1>5, <1>6 DEF IInv

\* TcpToWsSent preserves the invariant.
LEMMA TcpToWsSentStep ==
  ASSUME IInv, TcpToWsSent
  PROVE  IInv'
<1> USE SizesAssumption
<1> DEFINE f == [kind |-> "binary", data |-> buf]
<1>p. f \in Frame /\ f.kind = "binary" /\ f.data = buf /\ buf \in Seq(Nat)
  BY DEF IInv, TypeOK, Frame
<1>q. wsOut \in Seq(Frame) /\ Len(wsOut) \in Nat /\ Len(wsOut) < WsWindow
  BY DEF TcpToWsSent, IInv, TypeOK
<1>r. /\ Append(wsOut, f) \in Seq(Frame) /\ Len(Append(wsOut, f)) = Len(wsOut) + 1
      /\ \A i \in 1..Len(Append(wsOut, f)) :
           \/ i = Len(wsOut) + 1 /\ Append(wsOut, f)[i] = f
           \/ i \in 1..Len(wsOut) /\ Append(wsOut, f)[i] = wsOut[i]
  BY <1>p, <1>q, AppendFrame
<1>s. \/ client = "gone" /\ wsOut' = wsOut
      \/ client # "gone" /\ wsOut' = Append(wsOut, f)
  BY DEF TcpToWsSent, Flushed
<1> HIDE DEF f
<1>u. UNCHANGED <<phase, ws_to_tcp, data, socket, client, clientSent, clientGot, sawClose,
                  remote, remoteSent, remoteGot, wsIn, tcpOut, tcpIn>>
  BY DEF TcpToWsSent, task1, clientVars, remoteVars
<1>v. /\ wsOut' \in Seq(Frame) /\ Len(wsOut') <= WsWindow
  BY <1>q, <1>r, <1>s
<1>1. TypeOK'
  <2>1. buf' = <<>> /\ tcp_to_ws' = "read" /\ buf' \in Seq(Nat)
    BY DEF TcpToWsSent
  <2> QED BY <1>u, <1>v, <2>1 DEF IInv, TypeOK
<1>2. Control'
  BY <1>u DEF TcpToWsSent, IInv, Control
<1>3. Frames'
  <2>1. \A i \in 1..Len(wsOut) : wsOut[i].kind # "close"
    BY DEF TcpToWsSent, IInv, Frames
  <2>2. \A i \in 1..Len(wsOut') :
          \/ wsOut'[i] = f /\ i = Len(wsOut')
          \/ i \in 1..Len(wsOut) /\ wsOut'[i] = wsOut[i]
    BY <1>q, <1>r, <1>s
  <2> QED BY <1>p, <1>u, <2>1, <2>2 DEF IInv, Frames
<1>4. Request'
  BY RequestKept DEF TcpToWsSent, IInv, task1, task2, clientVars, remoteVars
<1>5. Response'
  <2>1. CASE client # "open"
    BY <2>1, <1>u, ResponseOver DEF IInv
  <2>2. CASE client = "open"
    <3>0. clientGot \in Seq(Nat) /\ Len(clientGot) \in Nat /\ Len(buf) \in Nat
      BY DEF IInv, TypeOK
    <3>1. PICK hi \in Nat :
            /\ Chain(wsOut, Len(clientGot), hi)
            /\ Continues(buf, hi)
            /\ Continues(tcpIn, hi + Len(buf))
            /\ remote # "reset" => hi + Len(buf) + Len(tcpIn) = remoteSent
      BY <2>2 DEF IInv, Response
    <3>2. Chain(wsOut', Len(clientGot'), hi + Len(buf))
      BY <2>2, <3>0, <3>1, <1>p, <1>q, <1>s, <1>u, ChainAppend
    <3>3. buf' = <<>> /\ Len(buf') = 0 /\ hi + Len(buf) \in Nat /\ Continues(buf', hi + Len(buf))
      BY <3>0, ContinuesEmpty DEF TcpToWsSent
    <3>4. Continues(tcpIn', hi + Len(buf) + Len(buf'))
      BY <3>1, <3>3, <1>u
    <3>5. remote' # "reset" => hi + Len(buf) + Len(buf') + Len(tcpIn') = remoteSent'
      BY <3>1, <3>3, <1>u
    <3>6. Continues(clientGot', 0)
      BY <1>u DEF IInv, Response
    <3> QED BY <3>2, <3>3, <3>4, <3>5, <3>6 DEF Response
  <2> QED BY <2>1, <2>2
<1>6. CloseMeansComplete'
  BY DEF TcpToWsSent, IInv, Control, CloseMeansComplete, task1, task2, clientVars, remoteVars
<1> QED BY <1>1, <1>2, <1>3, <1>4, <1>5, <1>6 DEF IInv

\* TcpToWsClosed preserves the invariant.
LEMMA TcpToWsClosedStep ==
  ASSUME IInv, TcpToWsClosed
  PROVE  IInv'
<1> USE SizesAssumption
<1> DEFINE f == [kind |-> "close", data |-> <<>>]
<1>p. f \in Frame /\ f.kind = "close" /\ f.data = <<>> /\ <<>> \in Seq(Nat)
  BY DEF IInv, TypeOK, Frame
<1>q. wsOut \in Seq(Frame) /\ Len(wsOut) \in Nat /\ Len(wsOut) < WsWindow
  BY DEF TcpToWsClosed, IInv, TypeOK
<1>r. /\ Append(wsOut, f) \in Seq(Frame) /\ Len(Append(wsOut, f)) = Len(wsOut) + 1
      /\ \A i \in 1..Len(Append(wsOut, f)) :
           \/ i = Len(wsOut) + 1 /\ Append(wsOut, f)[i] = f
           \/ i \in 1..Len(wsOut) /\ Append(wsOut, f)[i] = wsOut[i]
  BY <1>p, <1>q, AppendFrame
<1>s. \/ client = "gone" /\ wsOut' = wsOut
      \/ client # "gone" /\ wsOut' = Append(wsOut, f)
  BY DEF TcpToWsClosed, Flushed
<1> HIDE DEF f
<1>u. UNCHANGED <<phase, ws_to_tcp, data, socket, client, clientSent, clientGot, sawClose,
                  remote, remoteSent, remoteGot, wsIn, tcpOut, tcpIn>>
  BY DEF TcpToWsClosed, task1, clientVars, remoteVars
<1>v. /\ wsOut' \in Seq(Frame) /\ Len(wsOut') <= WsWindow
  BY <1>q, <1>r, <1>s
<1>1. TypeOK'
  <2>1. tcp_to_ws' = "ended" /\ buf' = buf /\ tcp_to_ws # "sending"
    BY DEF TcpToWsClosed
  <2> QED BY <1>u, <1>v, <2>1 DEF IInv, TypeOK
<1>2. Control'
  BY <1>u DEF TcpToWsClosed, IInv, Control
<1>3. Frames'
  <2>1. \A i \in 1..Len(wsOut) : wsOut[i].kind # "close"
    BY DEF TcpToWsClosed, IInv, Frames
  <2>2. \A i \in 1..Len(wsOut') :
          \/ wsOut'[i] = f /\ i = Len(wsOut')
          \/ i \in 1..Len(wsOut) /\ wsOut'[i] = wsOut[i]
    BY <1>q, <1>r, <1>s
  <2>3. tcp_to_ws' = "ended" /\ socket' = "closed_by_us"
    BY <1>u DEF TcpToWsClosed, IInv, Control
  <2> QED BY <1>p, <1>u, <2>1, <2>2, <2>3 DEF IInv, Frames
<1>4. Request'
  BY RequestKept DEF TcpToWsClosed, IInv, task1, task2, clientVars, remoteVars
<1>5. Response'
  <2>1. CASE client # "open"
    BY <2>1, <1>u, ResponseOver DEF IInv
  <2>2. CASE client = "open"
    <3>0. clientGot \in Seq(Nat) /\ Len(clientGot) \in Nat /\ buf' = buf
      BY DEF TcpToWsClosed, IInv, TypeOK
    <3>1. PICK hi \in Nat :
            /\ Chain(wsOut, Len(clientGot), hi)
            /\ Continues(buf, hi)
            /\ Continues(tcpIn, hi + Len(buf))
            /\ remote # "reset" => hi + Len(buf) + Len(tcpIn) = remoteSent
      BY <2>2 DEF IInv, Response
    <3>2. Continues(f.data, hi) /\ Len(f.data) = 0
      BY <1>p, ContinuesEmpty
    <3>3. Chain(wsOut', Len(clientGot'), hi + 0)
      BY <2>2, <3>0, <3>1, <3>2, <1>p, <1>q, <1>s, <1>u, ChainAppend
    <3>4. Chain(wsOut', Len(clientGot'), hi)
      BY <3>3
    <3>5. Continues(clientGot', 0)
      BY <1>u DEF IInv, Response
    <3> QED BY <3>0, <3>1, <3>4, <3>5, <1>u DEF Response
  <2> QED BY <2>1, <2>2
<1>6. CloseMeansComplete'
  BY DEF TcpToWsClosed, IInv, Control, CloseMeansComplete, task1, task2, clientVars, remoteVars
<1> QED BY <1>1, <1>2, <1>3, <1>4, <1>5, <1>6 DEF IInv

\* TcpToWsSendFails preserves the invariant.
LEMMA TcpToWsSendFailsStep ==
  ASSUME IInv, TcpToWsSendFails
  PROVE  IInv'
<1> USE SizesAssumption
<1>1. TypeOK'
  BY DEF TcpToWsSendFails, IInv, TypeOK, Frame, task1, task2, clientVars, remoteVars
<1>2. Control'
  BY DEF TcpToWsSendFails, IInv, TypeOK, Control, task1, task2, clientVars, remoteVars
<1>3. Frames'
  BY DEF TcpToWsSendFails, IInv, TypeOK, Control, Frames, task1, task2, clientVars, remoteVars
<1>4. Request'
  BY RequestKept DEF TcpToWsSendFails, IInv, task1, task2, clientVars, remoteVars
<1>5. Response'
  BY ResponseOver DEF TcpToWsSendFails, IInv, clientVars
<1>6. CloseMeansComplete'
  BY DEF TcpToWsSendFails, IInv, Control, CloseMeansComplete, task1, task2, clientVars, remoteVars
<1> QED BY <1>1, <1>2, <1>3, <1>4, <1>5, <1>6 DEF IInv

\* ClientSends preserves the invariant.
LEMMA ClientSendsStep ==
  ASSUME IInv, ClientSends
  PROVE  IInv'
<1> USE SizesAssumption
<1> DEFINE Sent(n, f) ==
      /\ wsIn' = Append(wsIn, f)
      /\ f.kind # "close" /\ (f.kind # "binary" => f.data = <<>>)
      /\ f.data \in Seq(Nat) /\ Len(f.data) = n /\ Continues(f.data, clientSent)
      /\ clientSent' = clientSent + n /\ clientSent' <= MaxBytes
<1>z. clientSent \in Nat /\ clientSent <= MaxBytes
  BY DEF IInv, TypeOK
<1>x. \E n \in Nat : \E f \in Frame : Sent(n, f)
  <2>1. ASSUME NEW n \in 0..Min2(MaxFrame, MaxBytes - clientSent),
               clientSent' = clientSent + n,
               wsIn' = Append(wsIn, [kind |-> "binary",
                                     data |-> [i \in 1..n |-> clientSent + i]])
        PROVE  \E m \in Nat : \E f \in Frame : Sent(m, f)
    <3> DEFINE d == [i \in 1..n |-> clientSent + i]
               g == [kind |-> "binary", data |-> d]
    <3>1. n \in Nat /\ n <= MaxBytes - clientSent
      BY <1>z, <2>1 DEF Min2
    <3>2. d \in Seq(Nat) /\ Len(d) = n /\ Continues(d, clientSent)
      BY <1>z, <3>1 DEF Continues
    <3>3. g \in Frame /\ g.kind = "binary" /\ g.data = d
      BY <3>2 DEF Frame
    <3>4. wsIn' = Append(wsIn, g) /\ clientSent' <= MaxBytes
      BY <1>z, <2>1, <3>1
    <3> HIDE DEF g, d
    <3>5. Sent(n, g)
      BY <2>1, <3>2, <3>3, <3>4
    <3> QED BY <3>1, <3>3, <3>5
  <2>2. ASSUME clientSent' = clientSent,
               wsIn' = Append(wsIn, [kind |-> "other", data |-> <<>>])
        PROVE  \E m \in Nat : \E f \in Frame : Sent(m, f)
    <3> DEFINE g == [kind |-> "other", data |-> <<>>]
    <3>1. g \in Frame /\ g.kind = "other" /\ g.data = <<>>
      BY DEF Frame
    <3>2. Continues(<<>>, clientSent) /\ <<>> \in Seq(Nat) /\ Len(<<>>) = 0
      BY <1>z, ContinuesEmpty
    <3>3. Sent(0, g)
      BY <1>z, <2>2, <3>1, <3>2
    <3> QED BY <3>1, <3>3
  <2> QED BY <2>1, <2>2 DEF ClientSends
<1>p. PICK n \in Nat : \E f \in Frame : Sent(n, f)
  BY <1>x
<1>pp. PICK f \in Frame : Sent(n, f)
  BY <1>p
<1>q. wsIn \in Seq(Frame) /\ Len(wsIn) \in Nat /\ Len(wsIn) < WsWindow
  BY DEF ClientSends, IInv, TypeOK
<1>r. /\ Append(wsIn, f) \in Seq(Frame) /\ Len(Append(wsIn, f)) = Len(wsIn) + 1
      /\ \A i \in 1..Len(Append(wsIn, f)) :
           \/ i = Len(wsIn) + 1 /\ Append(wsIn, f)[i] = f
           \/ i \in 1..Len(wsIn) /\ Append(wsIn, f)[i] = wsIn[i]
  BY <1>q, AppendFrame
<1>u. /\ UNCHANGED <<phase, ws_to_tcp, data, tcp_to_ws, buf, socket, client, clientGot, sawClose,
                     remote, remoteSent, remoteGot, wsOut, tcpOut, tcpIn>>
      /\ client = "open"
  BY DEF ClientSends, task1, task2, remoteVars
<1>1. TypeOK'
  <2>1. wsIn' \in Seq(Frame) /\ Len(wsIn') <= WsWindow /\ clientSent' \in 0..MaxBytes
    BY <1>pp, <1>q, <1>r, <1>z
  <2> QED BY <1>u, <2>1 DEF IInv, TypeOK
<1>2. Control'
  BY <1>u DEF IInv, Control
<1>3. Frames'
  <2>1. \A i \in 1..Len(wsIn') :
          \/ i = Len(wsIn') /\ wsIn'[i] = f
          \/ i \in 1..Len(wsIn) /\ wsIn'[i] = wsIn[i]
    BY <1>pp, <1>r
  <2>2. \A i \in 1..Len(wsIn) : wsIn[i].kind # "close"
    BY <1>u DEF IInv, Frames
  <2> QED BY <1>pp, <1>u, <2>1, <2>2 DEF IInv, Frames
<1>4. Request'
  <2>1. CASE remote = "reset"
    BY <2>1, <1>u DEF IInv, Request, Continues
  <2>2. CASE remote # "reset"
    <3> DEFINE at == Len(remoteGot) + Len(tcpOut) + Len(data)
    <3>1. at \in Nat
      BY DEF IInv, TypeOK
    <3>2. Chain(wsIn, at, clientSent)
      BY <2>2, <1>u DEF IInv, Request
    <3>3. Chain(wsIn', at, clientSent')
      BY <1>pp, <1>q, <1>z, <3>1, <3>2, ChainAppend
    <3>4. clientSent' \in Nat
      BY <1>pp, <1>z
    <3> QED BY <2>2, <1>u, <3>3, <3>4 DEF IInv, Request
  <2> QED BY <2>1, <2>2
<1>5. Response'
  BY <1>u, ResponseKept DEF IInv
<1>6. CloseMeansComplete'
  BY <1>u DEF IInv, CloseMeansComplete
<1> QED BY <1>1, <1>2, <1>3, <1>4, <1>5, <1>6 DEF IInv

\* ClientCloses preserves the invariant.
LEMMA ClientClosesStep ==
  ASSUME IInv, ClientCloses
  PROVE  IInv'
<1> USE SizesAssumption
<1> DEFINE f == [kind |-> "close", data |-> <<>>]
<1>p. f \in Frame /\ f.kind = "close" /\ f.data = <<>> /\ wsIn' = Append(wsIn, f)
  BY DEF ClientCloses, Frame
<1> HIDE DEF f
<1>q. wsIn \in Seq(Frame) /\ Len(wsIn) \in Nat /\ Len(wsIn) < WsWindow
  BY DEF ClientCloses, IInv, TypeOK
<1>r. /\ Append(wsIn, f) \in Seq(Frame) /\ Len(Append(wsIn, f)) = Len(wsIn) + 1
      /\ \A i \in 1..Len(Append(wsIn, f)) :
           \/ i = Len(wsIn) + 1 /\ Append(wsIn, f)[i] = f
           \/ i \in 1..Len(wsIn) /\ Append(wsIn, f)[i] = wsIn[i]
  BY <1>p, <1>q, AppendFrame
<1>u. /\ UNCHANGED <<phase, ws_to_tcp, data, tcp_to_ws, buf, socket, clientSent, clientGot,
                     sawClose, remote, remoteSent, remoteGot, wsOut, tcpOut, tcpIn>>
      /\ client \in {"open", "answering"} /\ client' = "closed"
  BY DEF ClientCloses, task1, task2, remoteVars
<1>1. TypeOK'
  <2>1. wsIn' \in Seq(Frame) /\ Len(wsIn') <= WsWindow
    BY <1>p, <1>q, <1>r
  <2> QED BY <1>u, <2>1 DEF IInv, TypeOK
<1>2. Control'
  BY <1>u DEF IInv, Control
<1>3. Frames'
  <2>1. \A i \in 1..Len(wsIn') :
          \/ i = Len(wsIn') /\ wsIn'[i] = f
          \/ i \in 1..Len(wsIn) /\ wsIn'[i] = wsIn[i]
    BY <1>p, <1>r
  <2>2. \A i \in 1..Len(wsIn) : wsIn[i].kind # "close"
    BY <1>u DEF IInv, Frames
  <2> QED BY <1>p, <1>u, <2>1, <2>2 DEF IInv, Frames
<1>4. Request'
  <2>1. CASE remote = "reset"
    BY <2>1, <1>u DEF IInv, Request, Continues
  <2>2. CASE remote # "reset"
    <3> DEFINE at == Len(remoteGot) + Len(tcpOut) + Len(data)
    <3>1. at \in Nat /\ clientSent \in Nat
      BY DEF IInv, TypeOK
    <3>2. Chain(wsIn, at, clientSent)
      BY <2>2, <1>u DEF IInv, Request
    <3>3. Continues(f.data, clientSent) /\ Len(f.data) = 0
      BY <1>p, <3>1, ContinuesEmpty
    <3>4. Chain(wsIn', at, clientSent + 0)
      BY <1>p, <1>q, <3>1, <3>2, <3>3, ChainAppend
    <3>5. Chain(wsIn', at, clientSent)
      BY <3>1, <3>4
    <3> QED BY <2>2, <1>u, <3>1, <3>5 DEF IInv, Request
  <2> QED BY <2>1, <2>2
<1>5. Response'
  BY <1>u, ResponseOver DEF IInv
<1>6. CloseMeansComplete'
  BY <1>u DEF IInv, CloseMeansComplete
<1> QED BY <1>1, <1>2, <1>3, <1>4, <1>5, <1>6 DEF IInv

\* ClientReads preserves the invariant.
LEMMA ClientReadsStep ==
  ASSUME IInv, ClientReads
  PROVE  IInv'
<1> USE SizesAssumption
<1> DEFINE f == Head(wsOut)
<1>w. /\ wsOut \in Seq(Frame) /\ wsOut # <<>> /\ wsOut' = Tail(wsOut)
      /\ UNCHANGED <<phase, ws_to_tcp, data, tcp_to_ws, buf, socket, clientSent,
                     remote, remoteSent, remoteGot, wsIn, tcpOut, tcpIn>>
  BY DEF ClientReads, IInv, TypeOK, task1, task2, clientVars, remoteVars
<1>a. /\ f \in Frame /\ Tail(wsOut) \in Seq(Frame) /\ f = wsOut[1]
      /\ Len(wsOut) \in Nat \ {0} /\ Len(Tail(wsOut)) = Len(wsOut) - 1 /\ 1 \in 1..Len(wsOut)
      /\ \A i \in 1..Len(Tail(wsOut)) : i + 1 \in 1..Len(wsOut) /\ Tail(wsOut)[i] = wsOut[i + 1]
  BY <1>w, HeadTail
<1>b. /\ f.data \in Seq(Nat) /\ f.kind \in {"binary", "close", "other"}
      /\ f.kind # "binary" => f.data = <<>>
      /\ f.kind = "close" => Len(wsOut) = 1 /\ tcp_to_ws = "ended" /\ socket = "closed_by_us"
  BY <1>a, FrameFields DEF IInv, Frames
<1>c. \/ client # "open" /\ UNCHANGED <<client, clientGot, sawClose>>
      \/ /\ client = "open" /\ clientGot' = clientGot \o f.data
         /\ client' = IF f.kind = "close" THEN "answering" ELSE "open"
         /\ sawClose' = (f.kind = "close")
  BY DEF ClientReads, clientVars
<1>d. clientGot \in Seq(Nat) /\ Len(clientGot) \in Nat
  BY DEF IInv, TypeOK
<1> HIDE DEF f
<1>e. clientGot \o f.data \in Seq(Nat) /\ Len(clientGot \o f.data) = Len(clientGot) + Len(f.data)
  BY <1>b, <1>d, ConcatBytes
<1>f. \/ UNCHANGED <<client, sawClose>> /\ client # "open"
      \/ f.kind # "close" /\ client = "open" /\ client' = "open" /\ ~sawClose'
      \/ f.kind = "close" /\ client = "open" /\ client' = "answering"
  BY <1>c
<1>1. TypeOK'
  <2>1. clientGot' \in Seq(Nat)
    BY <1>c, <1>d, <1>e
  <2>2. client' \in {"open", "answering", "closed", "gone"}
    BY <1>c DEF IInv, TypeOK
  <2>3. sawClose' \in BOOLEAN
    <3>1. sawClose \in BOOLEAN
      BY DEF IInv, TypeOK
    <3> QED BY <3>1, <1>c, Zenon
  <2>4. wsOut' \in Seq(Frame) /\ Len(wsOut') <= WsWindow
    BY <1>a, <1>w DEF IInv, TypeOK
  <2> QED BY <1>w, <2>1, <2>2, <2>3, <2>4 DEF IInv, TypeOK
<1>2. Control'
  <2>1. client \in {"closed", "gone"} => client' = client
    BY <1>f
  <2>2. f.kind = "close" => remote # "open"
    BY <1>b DEF IInv, Control
  <2>3. sawClose' => client' # "open" /\ remote # "open"
    BY <1>f, <2>2 DEF IInv, Control
  <2> QED BY <1>w, <2>1, <2>3 DEF IInv, Control
<1>3. Frames'
  <2>1. \A i \in 1..Len(wsOut') : i + 1 \in 1..Len(wsOut) /\ wsOut'[i] = wsOut[i + 1]
    BY <1>a, <1>w
  <2>2. Len(wsOut') = Len(wsOut) - 1
    BY <1>a, <1>w
  <2>3. \A i \in 1..Len(wsOut') : i + 1 = Len(wsOut) => i = Len(wsOut')
    <3>1. Len(wsOut) \in Nat /\ Len(wsOut') \in Nat /\ Len(wsOut) = Len(wsOut') + 1
      BY <1>a, <2>2
    <3> QED BY <3>1
  <2>4. \A i \in 1..Len(wsOut') :
          /\ wsOut'[i].kind # "binary" => wsOut'[i].data = <<>>
          /\ wsOut'[i].kind = "close" =>
               i = Len(wsOut') /\ tcp_to_ws' = "ended" /\ socket' = "closed_by_us"
    BY <1>w, <2>1, <2>3 DEF IInv, Frames
  <2>5. client \in {"closed", "gone"} => client' = client
    BY <1>f
  <2>6. \A i \in 1..Len(wsIn') :
          /\ wsIn'[i].kind # "binary" => wsIn'[i].data = <<>>
          /\ wsIn'[i].kind = "close" => i = Len(wsIn') /\ client' \in {"closed", "gone"}
    BY <1>w, <2>5 DEF IInv, Frames
  <2> QED BY <2>4, <2>6 DEF Frames
<1>4. Request'
  <2>1. client = "gone" <=> client' = "gone"
    BY <1>f
  <2>2. Continues(remoteGot', 0)
    BY <1>w DEF IInv, Request
  <2>3. ASSUME remote' # "reset"
        PROVE  /\ Continues(tcpOut', Len(remoteGot'))
               /\ Continues(data', Len(remoteGot') + Len(tcpOut'))
               /\ \E hi \in Nat :
                    /\ Chain(wsIn', Len(remoteGot') + Len(tcpOut') + Len(data'), hi)
                    /\ client' # "gone" => hi = clientSent'
    BY <1>w, <2>1, <2>3 DEF IInv, Request
  <2> QED BY <2>2, <2>3 DEF Request
<1>5. Response'
  <2>1. CASE client # "open"
    BY <2>1, <1>c, ResponseOver DEF IInv
  <2>2. CASE client = "open"
    <3>1. PICK hi \in Nat :
            /\ Chain(wsOut, Len(clientGot), hi)
            /\ Continues(buf, hi)
            /\ Continues(tcpIn, hi + Len(buf))
            /\ remote # "reset" => hi + Len(buf) + Len(tcpIn) = remoteSent
      BY <2>2 DEF IInv, Response
    <3>2. Continues(f.data, Len(clientGot)) /\ Chain(wsOut', Len(clientGot) + Len(f.data), hi)
      BY <3>1, <1>d, <1>w, ChainTail DEF f
    <3>3. clientGot' = clientGot \o f.data /\ Len(clientGot') = Len(clientGot) + Len(f.data)
      BY <2>2, <1>c, <1>e
    <3>4. Continues(clientGot, 0) /\ Continues(f.data, 0 + Len(clientGot))
      BY <3>2, <1>d DEF IInv, Response
    <3>5. Continues(clientGot', 0)
      BY <3>3, <3>4, <1>b, <1>d, ContinuesConcat
    <3>6. Chain(wsOut', Len(clientGot'), hi)
      BY <3>2, <3>3
    <3> QED BY <3>1, <3>5, <3>6, <1>w DEF Response
  <2> QED BY <2>1, <2>2
<1>6. CloseMeansComplete'
  <2>1. CASE client # "open"
    BY <2>1, <1>c, <1>w DEF IInv, CloseMeansComplete
  <2>2. CASE client = "open" /\ f.kind # "close"
    BY <2>2, <1>f DEF CloseMeansComplete
  <2>3. CASE client = "open" /\ f.kind = "close"
    <3>1. PICK hi \in Nat :
            /\ Chain(wsOut, Len(clientGot), hi)
            /\ remote # "reset" => hi + Len(buf) + Len(tcpIn) = remoteSent
      BY <2>3 DEF IInv, Response
    <3>2. f.data = <<>> /\ Len(f.data) = 0
      BY <2>3, <1>b
    <3>a. Len(wsOut) = 1
      BY <2>3, <1>b
    <3>b. Tail(wsOut) = <<>>
      <4>1. Len(Tail(wsOut)) = 0
        BY <3>a, <1>a
      <4> QED BY <4>1, <1>a
    <3>3. Chain(Tail(wsOut), Len(clientGot) + Len(f.data), hi)
      BY <3>1, <1>d, <1>w, ChainTail DEF f
    <3>c. Chain(<<>>, Len(clientGot), hi)
      <4>1. Len(clientGot) + Len(f.data) = Len(clientGot)
        BY <3>2, <1>d
      <4> QED BY <3>b, <3>3, <4>1
    <3>4. Len(clientGot) = hi
      BY <3>c, ChainOfNone
    <3>5. Len(buf) = 0 /\ Len(tcpIn) = 0
      BY <2>3, <1>b DEF IInv, TypeOK, Control
    <3>6. Len(clientGot') = Len(clientGot)
      BY <2>3, <3>2, <1>c, <1>d, <1>e
    <3> QED BY <3>1, <3>4, <3>5, <3>6, <1>w DEF CloseMeansComplete
  <2> QED BY <2>1, <2>2, <2>3
<1> QED BY <1>1, <1>2, <1>3, <1>4, <1>5, <1>6 DEF IInv

\* ClientVanishes preserves the invariant.
LEMMA ClientVanishesStep ==
  ASSUME IInv, ClientVanishes
  PROVE  IInv'
<1> USE SizesAssumption
<1>p. PICK k \in 0..Len(wsIn) : wsIn' = Front(wsIn, k)
  BY DEF ClientVanishes
<1>q. wsIn \in Seq(Frame) /\ Len(wsIn) \in Nat
  BY DEF IInv, TypeOK
<1>r. /\ wsIn' \in Seq(Frame) /\ Len(wsIn') = k
      /\ \A i \in 1..k : i \in 1..Len(wsIn) /\ wsIn'[i] = wsIn[i]
  BY <1>p, <1>q, FrontFrames
<1>u. /\ UNCHANGED <<phase, ws_to_tcp, data, tcp_to_ws, buf, socket, clientSent, clientGot,
                     sawClose, remote, remoteSent, remoteGot, tcpOut, tcpIn>>
      /\ client' = "gone" /\ wsOut' = <<>>
  BY DEF ClientVanishes, task1, task2, remoteVars
<1>1. TypeOK'
  <2>1. wsOut' \in Seq(Frame) /\ Len(wsOut') <= WsWindow /\ Len(wsIn') <= WsWindow
    BY <1>q, <1>r, <1>u DEF IInv, TypeOK
  <2> QED BY <1>r, <1>u, <2>1 DEF IInv, TypeOK
<1>2. Control'
  BY <1>u DEF IInv, Control
<1>3. Frames'
  <2>1. \A i \in 1..k : i = Len(wsIn) => i = k
    BY <1>q
  <2>2. Len(wsOut') = 0
    BY <1>u
  <2> QED BY <1>r, <1>u, <2>1, <2>2 DEF IInv, Frames
<1>4. Request'
  <2>1. CASE remote = "reset"
    BY <2>1, <1>u DEF IInv, Request, Continues
  <2>2. CASE remote # "reset"
    <3> DEFINE at == Len(remoteGot) + Len(tcpOut) + Len(data)
    <3>1. at \in Nat
      BY DEF IInv, TypeOK
    <3>2. PICK hi \in Nat : Chain(wsIn, at, hi)
      BY <2>2 DEF IInv, Request
    <3>3. \E h \in Nat : Chain(wsIn', at, h)
      BY <1>p, <1>q, <3>1, <3>2, ChainFront
    <3> QED BY <2>2, <1>u, <3>3 DEF IInv, Request
  <2> QED BY <2>1, <2>2
<1>5. Response'
  BY <1>u, ResponseOver DEF IInv
<1>6. CloseMeansComplete'
  BY <1>u DEF IInv, CloseMeansComplete
<1> QED BY <1>1, <1>2, <1>3, <1>4, <1>5, <1>6 DEF IInv

\* RemoteSends preserves the invariant.
LEMMA RemoteSendsStep ==
  ASSUME IInv, RemoteSends
  PROVE  IInv'
<1> USE SizesAssumption
<1>q. /\ tcpIn \in Seq(Nat) /\ Len(tcpIn) \in Nat /\ remoteSent \in Nat /\ remoteSent < MaxBytes
      /\ Len(buf) \in Nat /\ remote = "open"
  BY DEF RemoteSends, IInv, TypeOK
<1>u. /\ UNCHANGED <<phase, ws_to_tcp, data, tcp_to_ws, buf, socket, client, clientSent, clientGot,
                     sawClose, remote, remoteGot, wsIn, wsOut, tcpOut>>
      /\ remoteSent' = remoteSent + 1 /\ tcpIn' = Append(tcpIn, remoteSent + 1)
  BY DEF RemoteSends, task1, task2, clientVars
<1>1. TypeOK'
  BY DEF RemoteSends, IInv, TypeOK, Frame, task1, task2, clientVars, remoteVars
<1>2. Control'
  BY DEF RemoteSends, IInv, TypeOK, Control, task1, task2, clientVars, remoteVars
<1>3. Frames'
  BY DEF RemoteSends, IInv, TypeOK, Control, Frames, task1, task2, clientVars, remoteVars
<1>4. Request'
  BY RequestKept DEF RemoteSends, IInv, task1, task2, clientVars, remoteVars
<1>5. Response'
  <2>1. CASE client # "open"
    BY <2>1, <1>u, ResponseOver DEF IInv
  <2>2. CASE client = "open"
    <3>1. PICK hi \in Nat :
            /\ Chain(wsOut, Len(clientGot), hi)
            /\ Continues(buf, hi)
            /\ Continues(tcpIn, hi + Len(buf))
            /\ hi + Len(buf) + Len(tcpIn) = remoteSent
      BY <2>2, <1>q DEF IInv, Response
    <3>2. hi + Len(buf) \in Nat /\ remoteSent + 1 = hi + Len(buf) + Len(tcpIn) + 1
      BY <3>1, <1>q
    <3>3. Continues(tcpIn', hi + Len(buf)) /\ Len(tcpIn') = Len(tcpIn) + 1
      BY <3>1, <3>2, <1>q, <1>u, ContinuesAppend
    <3>4. Continues(tcpIn', hi + Len(buf'))
      BY <3>3, <1>u
    <3>5. hi + Len(buf') + Len(tcpIn') = remoteSent'
      BY <3>1, <3>3, <1>q, <1>u
    <3>6. /\ Continues(clientGot', 0) /\ Chain(wsOut', Len(clientGot'), hi)
          /\ Continues(buf', hi)
      BY <3>1, <1>u DEF IInv, Response
    <3> QED BY <3>4, <3>5, <3>6 DEF Response
  <2> QED BY <2>1, <2>2
<1>6. CloseMeansComplete'
  BY DEF RemoteSends, IInv, Control, CloseMeansComplete, task1, task2, clientVars, remoteVars
<1> QED BY <1>1, <1>2, <1>3, <1>4, <1>5, <1>6 DEF IInv

\* RemoteReads preserves the invariant.
LEMMA RemoteReadsStep ==
  ASSUME IInv, RemoteReads
  PROVE  IInv'
<1> USE SizesAssumption
<1>t. TypeOK
  BY DEF IInv
<1>q. /\ tcpOut \in Seq(Nat) /\ remoteGot \in Seq(Nat) /\ Len(tcpOut) \in Nat
      /\ Len(remoteGot) \in Nat /\ Len(data) \in Nat /\ remote # "reset" /\ tcpOut # <<>>
  BY <1>t DEF RemoteReads, TypeOK
<1>u. /\ UNCHANGED <<phase, ws_to_tcp, data, tcp_to_ws, buf, socket, client, clientSent, clientGot,
                     sawClose, remote, remoteSent, wsIn, wsOut, tcpIn>>
      /\ remoteGot' = Append(remoteGot, Head(tcpOut)) /\ tcpOut' = Tail(tcpOut)
  BY DEF RemoteReads, task1, task2, clientVars
<1>1. TypeOK'
  <2>1. /\ Head(tcpOut) \in Nat /\ Tail(tcpOut) \in Seq(Nat)
        /\ Len(Tail(tcpOut)) = Len(tcpOut) - 1
    BY <1>q
  <2>2. Len(tcpOut) <= TcpWindow /\ TcpWindow \in Nat
    BY <1>t DEF TypeOK
  <2>3. tcpOut' \in Seq(Nat) /\ Len(tcpOut') <= TcpWindow
    BY <2>1, <2>2, <1>q, <1>u
  <2>4. remoteGot' \in Seq(Nat)
    BY <2>1, <1>q, <1>u
  <2> QED BY <2>3, <2>4, <1>u, <1>t DEF TypeOK, Frame
<1>2. Control'
  BY DEF RemoteReads, IInv, TypeOK, Control, task1, task2, clientVars, remoteVars
<1>3. Frames'
  BY DEF RemoteReads, IInv, TypeOK, Control, Frames, task1, task2, clientVars, remoteVars
<1>4. Request'
  <2>1. /\ Continues(remoteGot, 0) /\ Continues(tcpOut, Len(remoteGot))
        /\ Continues(data, Len(remoteGot) + Len(tcpOut))
    BY <1>q DEF IInv, Request
  <2>2. /\ Head(tcpOut) = Len(remoteGot) + 1 /\ Len(tcpOut') = Len(tcpOut) - 1
        /\ Continues(tcpOut', Len(remoteGot) + 1)
    BY <2>1, <1>q, <1>u, ContinuesTail
  <2>3. Head(tcpOut) \in Nat /\ Head(tcpOut) = 0 + Len(remoteGot) + 1
    BY <2>2, <1>q
  <2>4. Continues(remoteGot', 0) /\ Len(remoteGot') = Len(remoteGot) + 1
    BY <2>1, <2>3, <1>q, <1>u, ContinuesAppend
  <2>5. Continues(tcpOut', Len(remoteGot'))
    BY <2>2, <2>4
  <2>6. Len(remoteGot') + Len(tcpOut') = Len(remoteGot) + Len(tcpOut)
    BY <2>2, <2>4, <1>q
  <2>7. PICK hi \in Nat :
          /\ Chain(wsIn, Len(remoteGot) + Len(tcpOut) + Len(data), hi)
          /\ client # "gone" => hi = clientSent
    BY <1>q DEF IInv, Request
  <2>8. /\ Continues(data', Len(remoteGot') + Len(tcpOut'))
        /\ Chain(wsIn', Len(remoteGot') + Len(tcpOut') + Len(data'), hi)
    BY <2>1, <2>6, <2>7, <1>u
  <2> QED BY <2>4, <2>5, <2>7, <2>8, <1>u DEF Request
<1>5. Response'
  BY ResponseKept DEF RemoteReads, IInv, task1, task2, clientVars, remoteVars
<1>6. CloseMeansComplete'
  BY DEF RemoteReads, IInv, Control, CloseMeansComplete, task1, task2, clientVars, remoteVars
<1> QED BY <1>1, <1>2, <1>3, <1>4, <1>5, <1>6 DEF IInv

\* RemoteFinishes preserves the invariant.
LEMMA RemoteFinishesStep ==
  ASSUME IInv, RemoteFinishes
  PROVE  IInv'
<1> USE SizesAssumption
<1>u. /\ UNCHANGED <<phase, ws_to_tcp, data, tcp_to_ws, buf, socket, client, clientSent, clientGot,
                     sawClose, remoteSent, remoteGot, wsIn, wsOut, tcpOut, tcpIn>>
      /\ remote = "open" /\ remote' = "finished"
  BY DEF RemoteFinishes, task1, task2, clientVars
<1>1. TypeOK'
  BY DEF RemoteFinishes, IInv, TypeOK, Frame, task1, task2, clientVars, remoteVars
<1>2. Control'
  BY DEF RemoteFinishes, IInv, TypeOK, Control, task1, task2, clientVars, remoteVars
<1>3. Frames'
  BY DEF RemoteFinishes, IInv, TypeOK, Control, Frames, task1, task2, clientVars, remoteVars
<1>4. Request'
  <2>1. Continues(remoteGot', 0)
    BY <1>u DEF IInv, Request
  <2>2. /\ Continues(tcpOut', Len(remoteGot'))
        /\ Continues(data', Len(remoteGot') + Len(tcpOut'))
        /\ \E hi \in Nat :
             /\ Chain(wsIn', Len(remoteGot') + Len(tcpOut') + Len(data'), hi)
             /\ client' # "gone" => hi = clientSent'
    BY <1>u DEF IInv, Request
  <2> QED BY <2>1, <2>2 DEF Request
<1>5. Response'
  <2>1. Continues(clientGot', 0)
    BY <1>u DEF IInv, Response
  <2>2. ASSUME client' = "open"
        PROVE  \E hi \in Nat :
                 /\ Chain(wsOut', Len(clientGot'), hi)
                 /\ Continues(buf', hi)
                 /\ Continues(tcpIn', hi + Len(buf'))
                 /\ hi + Len(buf') + Len(tcpIn') = remoteSent'
    BY <1>u, <2>2 DEF IInv, Response
  <2> QED BY <2>1, <2>2 DEF Response
<1>6. CloseMeansComplete'
  BY DEF RemoteFinishes, IInv, Control, CloseMeansComplete, task1, task2, clientVars, remoteVars
<1> QED BY <1>1, <1>2, <1>3, <1>4, <1>5, <1>6 DEF IInv

\* RemoteResets preserves the invariant.
LEMMA RemoteResetsStep ==
  ASSUME IInv, RemoteResets
  PROVE  IInv'
<1> USE SizesAssumption
<1>p. PICK k \in 0..Len(tcpIn) : tcpIn' = Front(tcpIn, k)
  BY DEF RemoteResets
<1>q. tcpIn \in Seq(Nat) /\ Len(tcpIn) \in Nat /\ Len(buf) \in Nat
  BY DEF IInv, TypeOK
<1>r. tcpIn' \in Seq(Nat) /\ Len(tcpIn') = k /\ (tcpIn = <<>> => tcpIn' = <<>>)
  BY <1>p, <1>q DEF Front
<1>u. /\ UNCHANGED <<phase, ws_to_tcp, data, tcp_to_ws, buf, socket, client, clientSent, clientGot,
                     sawClose, remoteSent, remoteGot, wsIn, wsOut>>
      /\ remote' = "reset" /\ tcpOut' = <<>> /\ phase = "bridging"
  BY DEF RemoteResets, task1, task2, clientVars
<1>1. TypeOK'
  <2>1. tcpOut' \in Seq(Nat) /\ Len(tcpOut') <= TcpWindow
    BY <1>u
  <2> QED BY <1>r, <1>u, <2>1 DEF IInv, TypeOK
<1>2. Control'
  BY <1>r, <1>u DEF IInv, Control
<1>3. Frames'
  BY <1>u DEF IInv, Frames
<1>4. Request'
  BY <1>u DEF IInv, Request, Continues
<1>5. Response'
  <2>1. CASE client # "open"
    BY <2>1, <1>u, ResponseOver DEF IInv
  <2>2. CASE client = "open"
    <3>1. PICK hi \in Nat :
            /\ Chain(wsOut, Len(clientGot), hi)
            /\ Continues(buf, hi)
            /\ Continues(tcpIn, hi + Len(buf))
      BY <2>2 DEF IInv, Response
    <3>2. hi + Len(buf) \in Nat
      BY <3>1, <1>q
    <3>3. Continues(tcpIn', hi + Len(buf))
      BY <3>1, <3>2, <1>p, <1>q, ContinuesCut
    <3>4. Continues(clientGot', 0) /\ Continues(tcpIn', hi + Len(buf'))
      BY <3>3, <1>u DEF IInv, Response
    <3> QED BY <3>1, <3>4, <1>u DEF Response
  <2> QED BY <2>1, <2>2
<1>6. CloseMeansComplete'
  BY DEF RemoteResets, IInv, Control, CloseMeansComplete, task1, task2, clientVars, remoteVars
<1> QED BY <1>1, <1>2, <1>3, <1>4, <1>5, <1>6 DEF IInv

\* Every step preserves the invariant.
LEMMA NextIInv ==
  ASSUME IInv, [Next]_vars
  PROVE  IInv'
<1>1. CASE Refuse
  BY <1>1, RefuseStep
<1>2. CASE Approve
  BY <1>2, ApproveStep
<1>3. CASE UpgradeFails
  BY <1>3, UpgradeFailsStep
<1>4. CASE Connected
  BY <1>4, ConnectedStep
<1>5. CASE ConnectFails
  BY <1>5, ConnectFailsStep
<1>6. CASE BothEnded
  BY <1>6, BothEndedStep
<1>7. CASE WsToTcpNext
  BY <1>7, WsToTcpNextStep
<1>8. CASE WsToTcpStreamEnds
  BY <1>8, WsToTcpStreamEndsStep
<1>9. CASE WsToTcpWrite
  BY <1>9, WsToTcpWriteStep
<1>10. CASE WsToTcpWriteFails
  BY <1>10, WsToTcpWriteFailsStep
<1>11. CASE TcpToWsRead
  BY <1>11, TcpToWsReadStep
<1>12. CASE TcpToWsReadEnds
  BY <1>12, TcpToWsReadEndsStep
<1>13. CASE TcpToWsSent
  BY <1>13, TcpToWsSentStep
<1>14. CASE TcpToWsClosed
  BY <1>14, TcpToWsClosedStep
<1>15. CASE TcpToWsSendFails
  BY <1>15, TcpToWsSendFailsStep
<1>16. CASE ClientSends
  BY <1>16, ClientSendsStep
<1>17. CASE ClientCloses
  BY <1>17, ClientClosesStep
<1>18. CASE ClientReads
  BY <1>18, ClientReadsStep
<1>19. CASE ClientVanishes
  BY <1>19, ClientVanishesStep
<1>20. CASE RemoteSends
  BY <1>20, RemoteSendsStep
<1>21. CASE RemoteReads
  BY <1>21, RemoteReadsStep
<1>22. CASE RemoteFinishes
  BY <1>22, RemoteFinishesStep
<1>23. CASE RemoteResets
  BY <1>23, RemoteResetsStep
<1>24. CASE UNCHANGED vars
  <2> USE <1>24 DEF vars, task1, task2, clientVars, remoteVars
  <2>1. TypeOK' /\ Control' /\ Frames' /\ CloseMeansComplete'
    BY DEF IInv, TypeOK, Control, Frames, CloseMeansComplete
  <2>2. Request' /\ Response'
    BY RequestKept, ResponseKept DEF IInv
  <2> QED BY <2>1, <2>2 DEF IInv
<1> QED
  BY <1>1, <1>2, <1>3, <1>4, <1>5, <1>6, <1>7, <1>8, <1>9, <1>10, <1>11, <1>12, <1>13, <1>14, <1>15, <1>16, <1>17, <1>18, <1>19, <1>20, <1>21, <1>22, <1>23, <1>24
  DEF Next, ConnectEnds, WsToTcp, TcpToWs, Client, Remote

\* The invariant holds throughout.
LEMMA Invariance == Spec => []IInv
<1>1. IInv /\ [Next]_vars => IInv'
  BY NextIInv
<1> QED BY InitIInv, <1>1, PTL DEF Spec

-----------------------------------------------------------------------------
(* What follows *)

\* Every state of the bridge is well typed, whatever the windows, the buffer and the
\* number of bytes: no task ever holds more than its socket takes.
THEOREM ProxyTypes == Spec => []TypeOK
<1>1. IInv => TypeOK
  BY DEF IInv
<1> QED BY Invariance, <1>1, PTL

\* For every window, buffer and frame size, both copy loops deliver the beginning of
\* what was sent, in order, without gaps and without repetition.
THEOREM NoByteLostOrMoved == Spec => []StreamsIntact
<1>1. IInv => StreamsIntact
  BY DEF IInv, Request, Response, StreamsIntact
<1> QED BY Invariance, <1>1, PTL

\* A Close frame seen after an orderly end of the host's stream stands for the whole
\* response, however reads, flushes and the client's own frames interleave.
THEOREM CompleteResponse == Spec => []CloseMeansComplete
<1>1. IInv => CloseMeansComplete
  BY DEF IInv
<1> QED BY Invariance, <1>1, PTL

\* A client that closes in order has had its whole request written to a host that did
\* not reset the connection.
THEOREM CompleteRequest == Spec => []CloseLosesNothing
<1>1. IInv => CloseLosesNothing
  <2> SUFFICES ASSUME IInv, ws_to_tcp = "ended", client = "closed", remote # "reset"
               PROVE  Len(remoteGot) + Len(tcpOut) = clientSent
    BY DEF CloseLosesNothing
  <2>1. wsIn = <<>> /\ data = <<>> /\ Len(data) = 0 /\ Len(remoteGot) + Len(tcpOut) \in Nat
    BY DEF IInv, TypeOK, Control
  <2>2. Chain(wsIn, Len(remoteGot) + Len(tcpOut) + Len(data), clientSent)
    BY DEF IInv, Request
  <2>3. Chain(<<>>, Len(remoteGot) + Len(tcpOut), clientSent)
    <3>1. Len(remoteGot) + Len(tcpOut) + Len(data) = Len(remoteGot) + Len(tcpOut)
      BY <2>1
    <3> QED BY <2>1, <2>2, <3>1
  <2> QED BY <2>3, ChainOfNone
<1> QED BY Invariance, <1>1, PTL

\* Neither task is ended by the end of the other.
THEOREM IndependentDirections == Spec => []DirectionsIndependent
<1>1. IInv => DirectionsIndependent
  BY DEF IInv, Control, DirectionsIndependent
<1> QED BY Invariance, <1>1, PTL
=============================================================================
