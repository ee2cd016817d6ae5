-------------------------- MODULE TcpFramingProofs --------------------------
(***************************************************************************)
(* Proofs about TcpFraming, for any threads that send, any packets and     *)
(* lengths, any size of the header and any window, and about ParserList,   *)
(* which parses the packets of version 1.0.                                *)
(*                                                                         *)
(* The framing: a packet that Send answers for as sent is whole in the     *)
(* stream, however the system calls divided it and whichever threads sent  *)
(* beside it, unless its length went out in part (SentMeansWhole); the     *)
(* receiver reads across frames only where one was torn (ReceiverInStep);  *)
(* and what it delivers until then are whole packets, in the order in      *)
(* which their sends began (ImplementsChannel).                            *)
(* The invariant ChannelInv says of every byte in the stream what lies     *)
(* around it, so that no induction over the stream is needed.              *)
(*                                                                         *)
(* The list of parsers: its packets are parsed once and in order, or       *)
(* dropped after its thread has ended (ParsedInOrder), and it outlives who *)
(* uses it (ListOutlivesUsers). It is an instance here; ParseOrder has its *)
(* state and what it promises.                                             *)
(***************************************************************************)
EXTENDS TcpFraming, ParseOrder, SequenceTheorems, FiniteSetTheorems, TLAPS

(* The steps of the list of parsers, about the state that ParseOrder       *)
(* declares.                                                               *)
Parser == INSTANCE ParserList

(* The bytes of a packet in the stream. *)
Whole(p) == HeaderSize + Length[p]

Types ==
  /\ spc \in [Senders -> {"idle", "select", "header", "payload"}]
  /\ packet \in [Senders -> Packets \cup {NoPacket}]
  /\ left \in [Senders -> Nat]
  /\ result \in [Packets -> {"none", "sent", "nothing", "timeout", "failed", "broken",
                             "notConnected"}]
  /\ written \in [Packets -> Nat]

(* Whoever is in Send holds m_sendLock and has a packet nobody answered    *)
(* for yet; without the lock this would be false of two threads at once.   *)
LockInv ==
  \A s \in Senders :
    IF spc[s] = "idle"
    THEN packet[s] = NoPacket
    ELSE sendLock = s /\ packet[s] \in Packets /\ result[packet[s]] = "none"

(* What a thread in Send has written of its packet, and has left; of a     *)
(* length that went out in part, the rest never follows.                   *)
Progress(s) ==
  /\ spc[s] \in {"select", "header"} => written[packet[s]] = 0
  /\ spc[s] = "header" => left[s] = Length[packet[s]]
  /\ spc[s] = "payload" /\ packet[s] \notin cut =>
       written[packet[s]] + left[s] = Whole(packet[s])

(* While the descriptor is the connection's own, bytes of a packet are in  *)
(* the stream only if somebody sends it or has answered for it.            *)
CountInv ==
  fd = "open" =>
    /\ \A s \in Senders : Progress(s)
    /\ \A p \in Packets : Fresh(p) => written[p] = 0
    /\ \A p \in Packets \ cut : result[p] = "sent" => written[p] = Whole(p)

(* The inductive invariant. *)
IInv == Types /\ LockInv /\ CountInv

-----------------------------------------------------------------------------
(* A frame is as long as its header and its packet. *)
LEMMA FrameIsWhole == \A p \in Packets : Len(Frame(p)) = Whole(p)
<1> SUFFICES ASSUME NEW p \in Packets PROVE Len(Frame(p)) = Whole(p)
  OBVIOUS
<1>1. HeaderSize + Length[p] \in Nat
  BY FramingAssumption
<1>2. Frame(p) \in Seq({<<p, i>> : i \in 1..(HeaderSize + Length[p])})
  BY <1>1 DEF Frame
<1>3. DOMAIN Frame(p) = 1..(HeaderSize + Length[p])
  BY DEF Frame
<1>4. QED
  BY <1>1, <1>2, <1>3 DEF Whole

(* The initial states satisfy the invariant. *)
LEMMA InitIInv == Init => IInv
<1> SUFFICES ASSUME Init PROVE IInv
  OBVIOUS
<1> USE FramingAssumption
<1>1. Types
  BY DEF Init, Types
<1>2. LockInv
  BY DEF Init, LockInv
<1>3. CountInv
  BY DEF Init, CountInv, Progress
<1>4. QED
  BY <1>1, <1>2, <1>3 DEF IInv

(* Steps that leave the senders alone can only lose the descriptor.        *)
LEMMA SameIInv ==
  ASSUME IInv, UNCHANGED sendVars, cut' = cut, fd' = "open" => fd = "open"
  PROVE  IInv'
<1>1. UNCHANGED <<sendLock, spc, packet, left, result, written>>
  BY DEF sendVars
<1>2. Types' /\ LockInv'
  BY <1>1 DEF IInv, Types, LockInv
<1>3. \A s \in Senders : Progress(s)' = Progress(s)
  BY <1>1 DEF Progress, Whole
<1>4. \A p \in Packets : Fresh(p)' = Fresh(p)
  BY <1>1 DEF Fresh
<1>5. CountInv'
  BY <1>1, <1>3, <1>4 DEF IInv, CountInv, Whole
<1>6. QED
  BY <1>2, <1>5 DEF IInv

(* Bytes that go out while the descriptor is the connection's own are      *)
(* counted; the counts of other packets do not change.                     *)
LEMMA BytesPut ==
  ASSUME Types, NEW p \in Packets, NEW n \in Nat, PutBytes(p, n)
  PROVE  /\ written' \in [Packets -> Nat]
         /\ fd = "open" => written'[p] = written[p] + n
         /\ \A q \in Packets : q # p => written'[q] = written[q]
<1>1. CASE fd = "foreign"
  <2>1. written' = written
    BY <1>1 DEF PutBytes
  <2>2. QED
    BY <1>1, <2>1 DEF Types
<1>2. CASE fd # "foreign"
  <2>1. written' = [written EXCEPT ![p] = @ + n]
    BY <1>2 DEF PutBytes
  <2>2. QED
    BY <2>1 DEF Types
<1>3. QED
  BY <1>1, <1>2

(* What Answer leaves behind. *)
LEMMA Answered ==
  ASSUME IInv, NEW s \in Senders, spc[s] # "idle",
         NEW how \in {"sent", "nothing", "timeout", "failed", "broken"}, Answer(s, how),
         written' \in [Packets -> Nat], fd' = fd,
         \A q \in Packets : q # packet[s] => written'[q] = written[q],
         cut' = cut,
         how = "sent" /\ fd = "open" /\ packet[s] \notin cut =>
           written'[packet[s]] = Whole(packet[s])
  PROVE  IInv'
<1>1. /\ packet[s] \in Packets /\ sendLock = s /\ result[packet[s]] = "none"
      /\ \A r \in Senders \ {s} : spc[r] = "idle" /\ packet[r] = NoPacket
  BY DEF IInv, LockInv
<1>2. /\ spc' = [spc EXCEPT ![s] = "idle"]
      /\ packet' = [packet EXCEPT ![s] = NoPacket]
      /\ left' = [left EXCEPT ![s] = 0]
      /\ result' = [result EXCEPT ![packet[s]] = how]
  BY DEF Answer
<1>3. Types'
  BY <1>1, <1>2 DEF IInv, Types
<1>4. LockInv'
  BY <1>1, <1>2 DEF IInv, Types, LockInv
<1>5. CountInv'
  <2> SUFFICES ASSUME fd = "open" PROVE CountInv'
    BY DEF CountInv
  <2>1. \A r \in Senders : spc'[r] = "idle"
    BY <1>1, <1>2 DEF IInv, Types
  <2>2. \A p \in Packets : Fresh(p)' => p # packet[s] /\ Fresh(p)
    BY <1>1, <1>2, FramingAssumption DEF IInv, Types, Fresh
  <2>3. \A p \in Packets : p # packet[s] => result'[p] = result[p]
    BY <1>2 DEF IInv, Types
  <2>4. \A p \in Packets \ cut : result'[p] = "sent" => written'[p] = Whole(p)
    BY <1>1, <1>2, <2>3 DEF IInv, Types, CountInv
  <2>5. QED
    BY <2>1, <2>2, <2>4 DEF IInv, CountInv, Progress, Whole
<1>6. QED
  BY <1>3, <1>4, <1>5 DEF IInv

-----------------------------------------------------------------------------
(* Each step of a Send keeps it: *)
LEMMA SendIInv ==
  ASSUME IInv, NEW s \in Senders, NEW p \in Packets, Send(s, p)
  PROVE  IInv'
<1>1. /\ spc[s] = "idle" /\ packet[s] = NoPacket /\ Fresh(p)
      /\ UNCHANGED <<left, written, fd, cut>>
      /\ \A r \in Senders : spc[r] # "idle" => sendLock = r
  BY DEF IInv, LockInv, Send, sockVars, streamVars
<1>2. \A r \in Senders : spc[r] = "idle" /\ packet[r] = NoPacket
  BY <1>1, FramingAssumption DEF IInv, LockInv, Send
<1>3. CASE member
  <2>1. /\ sendLock' = s /\ packet' = [packet EXCEPT ![s] = p]
        /\ spc' = [spc EXCEPT ![s] = "select"] /\ result' = result
    BY <1>3 DEF Send
  <2>2. Types'
    BY <1>1, <2>1 DEF IInv, Types
  <2>3. LockInv'
    BY <1>1, <1>2, <2>1 DEF IInv, Types, LockInv, Fresh
  <2>4. CountInv'
    <3>1. \A q \in Packets : Fresh(q)' => Fresh(q)
      BY <1>1, <1>2, <2>1, FramingAssumption DEF IInv, Types, Fresh
    <3>2. QED
      BY <1>1, <1>2, <2>1, <3>1 DEF IInv, Types, CountInv, Progress, Whole
  <2>5. QED
    BY <2>2, <2>3, <2>4 DEF IInv
<1>4. CASE ~member
  <2>1. result' = [result EXCEPT ![p] = "notConnected"]
        /\ UNCHANGED <<sendLock, packet, spc>>
    BY <1>4 DEF Send
  <2>2. Types'
    BY <1>1, <2>1 DEF IInv, Types
  <2>3. LockInv'
    BY <1>2, <2>1 DEF IInv, Types, LockInv
  <2>4. CountInv'
    BY <1>1, <1>2, <2>1 DEF IInv, Types, CountInv, Progress, Fresh, Whole
  <2>5. QED
    BY <2>2, <2>3, <2>4 DEF IInv
<1>5. QED
  BY <1>3, <1>4

(* the wait for the window, *)
LEMMA SelectIInv ==
  ASSUME IInv, NEW s \in Senders, SelectWritable(s) \/ SelectFails(s)
  PROVE  IInv'
<1>1. /\ spc[s] = "select" /\ written' = written /\ fd' = fd /\ cut' = cut
      /\ packet[s] \in Packets /\ sendLock = s
  BY DEF IInv, LockInv, SelectWritable, SelectFails, sockVars, streamVars
<1>2. CASE \E how \in {"nothing", "timeout", "failed"} : Answer(s, how)
  <2>1. PICK how \in {"nothing", "timeout", "failed"} : Answer(s, how)
    BY <1>2
  <2>2. written' \in [Packets -> Nat]
    BY <1>1 DEF IInv, Types
  <2>3. QED
    BY <1>1, <2>1, <2>2, Answered
<1>3. CASE /\ left' = [left EXCEPT ![s] = Length[packet[s]]]
           /\ spc' = [spc EXCEPT ![s] = "header"]
           /\ UNCHANGED <<sendLock, packet, result>>
  <2>1. Types'
    BY <1>1, <1>3, FramingAssumption DEF IInv, Types
  <2>2. LockInv'
    BY <1>1, <1>3 DEF IInv, Types, LockInv
  <2>3. CountInv'
    BY <1>1, <1>3 DEF IInv, Types, CountInv, Progress, Fresh, Whole
  <2>4. QED
    BY <2>1, <2>2, <2>3 DEF IInv
<1>4. QED
  BY <1>2, <1>3 DEF SelectWritable, SelectFails

(* A step that puts bytes of its packet out and stays in Send. *)
LEMMA Advanced ==
  ASSUME IInv, NEW s \in Senders, spc[s] # "idle",
         NEW n \in Nat, PutBytes(packet[s], n), fd' = fd,
         UNCHANGED <<sendLock, packet, result>>,
         spc' = [spc EXCEPT ![s] = "payload"], left' \in [Senders -> Nat],
         cut' = cut \/ cut' = cut \cup {packet[s]},
         fd = "open" /\ packet[s] \notin cut' =>
           written[packet[s]] + n + left'[s] = Whole(packet[s])
  PROVE  IInv'
<1>1. packet[s] \in Packets /\ sendLock = s /\ result[packet[s]] = "none"
      /\ \A r \in Senders \ {s} : spc[r] = "idle"
  BY DEF IInv, LockInv
<1>2. /\ written' \in [Packets -> Nat]
      /\ fd = "open" => written'[packet[s]] = written[packet[s]] + n
      /\ \A q \in Packets : q # packet[s] => written'[q] = written[q]
  BY <1>1, BytesPut DEF IInv
<1>3. Types'
  BY <1>2 DEF IInv, Types
<1>4. LockInv'
  BY <1>1 DEF IInv, Types, LockInv
<1>5. CountInv'
  <2> SUFFICES ASSUME fd = "open" PROVE CountInv'
    BY DEF CountInv
  <2>1. \A r \in Senders : Progress(r)'
    BY <1>1, <1>2 DEF IInv, Types, Progress, Whole
  <2>2. \A q \in Packets : Fresh(q)' => q # packet[s] /\ Fresh(q)
    BY DEF Fresh
  <2>3. QED
    BY <1>1, <1>2, <2>1, <2>2 DEF IInv, CountInv, Whole
<1>6. QED
  BY <1>3, <1>4, <1>5 DEF IInv

(* the first system call, *)
LEMMA HeaderIInv ==
  ASSUME IInv, NEW s \in Senders, SendHeader(s)
  PROVE  IInv'
<1>1. /\ spc[s] = "header" /\ packet[s] \in Packets /\ fd' = fd
      /\ left[s] \in Nat /\ Length[packet[s]] \in Nat /\ HeaderSize \in Nat
  BY FramingAssumption DEF IInv, Types, LockInv, SendHeader, sockVars
<1>2. CASE /\ \E n \in 1..HeaderSize :
                /\ PutBytes(packet[s], n)
                /\ cut' = IF n < HeaderSize THEN cut \cup {packet[s]} ELSE cut
           /\ spc' = [spc EXCEPT ![s] = "payload"]
           /\ UNCHANGED <<sendLock, packet, left, result>>
  <2>1. PICK n \in 1..HeaderSize :
          /\ PutBytes(packet[s], n)
          /\ cut' = IF n < HeaderSize THEN cut \cup {packet[s]} ELSE cut
    BY <1>2
  <2>2. n \in Nat /\ (packet[s] \notin cut' => n = HeaderSize)
    BY <1>1, <2>1
  <2>3. fd = "open" /\ packet[s] \notin cut' =>
          written[packet[s]] + n + left'[s] = Whole(packet[s])
    BY <1>1, <1>2, <2>2 DEF IInv, CountInv, Progress, Whole
  <2>4. left' \in [Senders -> Nat]
    BY <1>2 DEF IInv, Types
  <2>5. QED
    BY <1>1, <1>2, <2>1, <2>2, <2>3, <2>4, Advanced
<1>3. CASE Answer(s, "broken") /\ UNCHANGED <<written, cut>>
  <2>1. written' \in [Packets -> Nat]
    BY <1>3 DEF IInv, Types
  <2>2. QED
    BY <1>1, <1>3, <2>1, Answered
<1>4. QED
  BY <1>2, <1>3 DEF SendHeader, streamVars

(* and those that follow. *)
LEMMA PayloadIInv ==
  ASSUME IInv, NEW s \in Senders, SendPayload(s)
  PROVE  IInv'
<1>1. /\ spc[s] = "payload" /\ packet[s] \in Packets /\ fd' = fd /\ left[s] \in Nat
      /\ written[packet[s]] \in Nat /\ cut' = cut
  BY DEF IInv, Types, LockInv, SendPayload, sockVars
<1>2. CASE \E n \in 1..left[s] :
             /\ PutBytes(packet[s], n)
             /\ IF n = left[s]
                THEN Answer(s, "sent")
                ELSE left' = [left EXCEPT ![s] = @ - n]
                     /\ UNCHANGED <<sendLock, spc, packet, result>>
  <2>1. PICK n \in 1..left[s] :
             /\ PutBytes(packet[s], n)
             /\ IF n = left[s]
                THEN Answer(s, "sent")
                ELSE left' = [left EXCEPT ![s] = @ - n]
                     /\ UNCHANGED <<sendLock, spc, packet, result>>
    BY <1>2
  <2>2. /\ n \in Nat
        /\ fd = "open" /\ packet[s] \notin cut =>
             written[packet[s]] + left[s] = Whole(packet[s])
    BY <1>1, <2>1 DEF IInv, CountInv, Progress
  <2>3. CASE n = left[s]
    <3>1. /\ written' \in [Packets -> Nat]
          /\ fd = "open" => written'[packet[s]] = written[packet[s]] + n
          /\ \A q \in Packets : q # packet[s] => written'[q] = written[q]
      BY <1>1, <2>1, <2>2, BytesPut DEF IInv
    <3>2. QED
      BY <1>1, <2>1, <2>2, <2>3, <3>1, Answered
  <2>4. CASE n # left[s]
    <3>1. left' = [left EXCEPT ![s] = @ - n] /\ UNCHANGED <<sendLock, spc, packet, result>>
      BY <2>1, <2>4
    <3>2. left[s] - n \in Nat
      BY <1>1, <2>1
    <3>3. left' \in [Senders -> Nat] /\ left'[s] = left[s] - n
      BY <3>1, <3>2 DEF IInv, Types
    <3>4. spc' = [spc EXCEPT ![s] = "payload"]
      BY <1>1, <3>1 DEF IInv, Types
    <3>5. fd = "open" /\ packet[s] \notin cut' =>
            written[packet[s]] + n + left'[s] = Whole(packet[s])
      BY <1>1, <2>2, <3>3
    <3>6. QED
      BY <1>1, <2>1, <2>2, <3>1, <3>3, <3>4, <3>5, Advanced
  <2>5. QED
    BY <2>3, <2>4
<1>3. CASE Answer(s, "failed") /\ UNCHANGED written
  <2>1. written' \in [Packets -> Nat]
    BY <1>3 DEF IInv, Types
  <2>2. QED
    BY <1>1, <1>3, <2>1, Answered
<1>4. QED
  BY <1>2, <1>3 DEF SendPayload

(* So does every step, *)
LEMMA NextIInv == IInv /\ [Next]_vars => IInv'
<1> SUFFICES ASSUME IInv, [Next]_vars PROVE IInv'
  OBVIOUS
<1>1. CASE \E s \in Senders, p \in Packets : Send(s, p)
  BY <1>1, SendIInv
<1>2. CASE \E s \in Senders : Sender(s)
  BY <1>2, SelectIInv, HeaderIInv, PayloadIInv DEF Sender
<1>3. CASE Break \/ CloseSocket \/ Reuse \/ Invalidate
  <2>1. UNCHANGED sendVars /\ cut' = cut /\ (fd' = "open" => fd = "open")
    BY <1>3 DEF Break, CloseSocket, Reuse, Invalidate, streamVars
  <2>2. QED
    BY <2>1, SameIInv
<1>4. CASE Receiver \/ ReceiveAcross \/ ReceiveEnds
  <2>1. UNCHANGED sendVars /\ cut' = cut /\ fd' = fd
    BY <1>4 DEF Receiver, ReceiveHeader, ReceivePayload, ReceiveAcross, ReceiveEnds,
       sockVars, streamVars, offWire
  <2>2. QED
    BY <2>1, SameIInv
<1>5. CASE UNCHANGED vars
  BY <1>5, SameIInv DEF vars, sockVars, streamVars
<1>6. QED
  BY <1>1, <1>2, <1>3, <1>4, <1>5 DEF Next

(* and so it always holds. *)
LEMMA SpecIInv == Spec => []IInv
BY InitIInv, NextIInv, PTL DEF Spec

(* A Send that returned the number of bytes it wrote put the whole frame   *)
(* into the stream, if the descriptor was not closed under it and its      *)
(* length did not go out in part (the loop of epBaseTcpSocket.cpp under    *)
(* m_sendLock).                                                            *)
THEOREM SentIsWhole == Spec => []SentMeansWhole
<1>1. IInv => SentMeansWhole
  BY FrameIsWhole DEF IInv, CountInv, SentMeansWhole
<1>2. QED
  BY <1>1, SpecIInv, PTL

-----------------------------------------------------------------------------
(* The refinement.  The bytes that the receiver has of the packet it reads *)
(* and those under way are one stream of frames, in the order of accepted; *)
(* the first of them is of the packet that is delivered next.              *)

Bytes == Packets \X Nat

Stream == got \o wire

Receiving == rpc \in {"header", "payload"}

StreamTypes ==
  /\ wire \in Seq(Bytes) /\ got \in Seq(Bytes)
  /\ accepted \in Seq(Packets) /\ delivered \in Seq(Packets \cup {Garbage})
  /\ Receiving => delivered \in Seq(Packets)
  /\ fd \in {"open", "closed", "foreign"}

(* Bytes lie behind a torn frame only. *)
TearInv == torn \in BOOLEAN /\ behind \in Nat /\ (behind > 0 => torn)

(* A packet is accepted once, by the thread that is in its send loop.      *)
AcceptedOnce ==
  /\ \A x, y \in 1..Len(accepted) : accepted[x] = accepted[y] => x = y
  /\ \A x \in 1..Len(accepted) :
       \/ result[accepted[x]] # "none"
       \/ \E s \in Senders : spc[s] = "payload" /\ packet[s] = accepted[x]
  /\ \A s \in Senders : spc[s] = "header" => Length[packet[s]] > 0

(* Which packet follows which.                                             *)
Successors == {<<accepted[x], accepted[x + 1]>> : x \in 1..(Len(accepted) - 1)}

(* In the bytes b, wherever a byte is, the frame that it belongs to lies   *)
(* around it as far as b goes, and a frame that may come next lies behind  *)
(* that.  Frames are told by distances, not by induction over the stream.  *)
Framed(b, next) ==
  /\ \A k \in 1..Len(b) : b[k][2] \in 1..Whole(b[k][1])
  /\ \A k, m \in 1..Len(b) :
       LET place == b[k][2] + m - k
       IN  /\ place \in 1..Whole(b[k][1]) => b[m] = <<b[k][1], place>>
           /\ place = Whole(b[k][1]) + 1 =>
                b[m][2] = 1 /\ <<b[k][1], b[m][1]>> \in next

FramesInv ==
  Receiving =>
    /\ Framed(Stream, Successors)
    /\ Len(Stream) > 0 =>
         /\ Len(delivered) < Len(accepted)
         /\ Stream[1] = <<accepted[Len(delivered) + 1], 1>>

(* As long as the connection takes bytes and no frame is torn, the last    *)
(* byte is the last one written of the last packet accepted, and a thread  *)
(* in Send has written all of its packet but what it has left.             *)
LastInv ==
  Receiving /\ fd = "open" /\ ~reset /\ ~torn =>
    /\ \A s \in Senders : spc[s] = "payload" =>
         written[packet[s]] + left[s] = Whole(packet[s])
    /\ \A s \in Senders : spc[s] = "payload" =>
         /\ Len(accepted) > 0 /\ accepted[Len(accepted)] = packet[s]
         /\ left[s] > 0 /\ Len(Stream) > 0
    /\ (\A s \in Senders : spc[s] # "payload") /\ Len(accepted) > 0 =>
         written[accepted[Len(accepted)]] = Whole(accepted[Len(accepted)])
    /\ Len(Stream) > 0 =>
         Stream[Len(Stream)] = <<accepted[Len(accepted)], written[accepted[Len(accepted)]]>>
    /\ Len(Stream) = 0 => Len(delivered) = Len(accepted)

HeaderRead ==
  rpc = "payload" => Len(got) >= HeaderSize /\ IsHeader(SubSeq(got, 1, HeaderSize))

SInv == StreamTypes /\ AcceptedOnce /\ FramesInv /\ LastInv

(* The inductive invariant of the refinement. *)
ChannelInv == IInv /\ SInv /\ HeaderRead /\ TearInv

(* A frame has its header at least. *)
LEMMA WholeType == \A p \in Packets : Whole(p) \in Nat /\ Whole(p) >= HeaderSize
BY FramingAssumption DEF Whole

(* The stream is what was read and, behind it, what is under way. *)
LEMMA StreamShape ==
  ASSUME StreamTypes
  PROVE  /\ Stream \in Seq(Bytes) /\ Len(Stream) = Len(got) + Len(wire)
         /\ Len(Stream) \in Nat /\ Len(got) \in Nat /\ Len(wire) \in Nat
         /\ \A k \in 1..Len(Stream) : /\ Stream[k] \in Bytes
                                      /\ Stream[k][1] \in Packets /\ Stream[k][2] \in Nat
                                      /\ Stream[k] = <<Stream[k][1], Stream[k][2]>>
         /\ \A k \in 1..Len(Stream) :
              Stream[k] = IF k <= Len(got) THEN got[k] ELSE wire[k - Len(got)]
<1>1. /\ Stream \in Seq(Bytes) /\ Len(Stream) = Len(got) + Len(wire)
      /\ \A k \in 1..(Len(got) + Len(wire)) :
           Stream[k] = IF k <= Len(got) THEN got[k] ELSE wire[k - Len(got)]
  BY ConcatProperties DEF StreamTypes, Stream
<1>2. Len(Stream) \in Nat /\ Len(got) \in Nat /\ Len(wire) \in Nat
  BY <1>1, LenProperties DEF StreamTypes
<1>3. \A k \in 1..Len(Stream) : Stream[k] \in Bytes
  BY <1>1, ElementOfSeq
<1>4. \A b \in Bytes : b[1] \in Packets /\ b[2] \in Nat /\ b = <<b[1], b[2]>>
  BY DEF Bytes
<1>5. QED
  BY <1>1, <1>2, <1>3, <1>4

(* A step that changes neither the stream nor the packets keeps the        *)
(* frames.                                                                 *)
LEMMA FramesStay ==
  ASSUME FramesInv, Stream' = Stream, accepted' = accepted, delivered' = delivered,
         Receiving' => Receiving
  PROVE  FramesInv'
<1>1. Successors' = Successors
  BY DEF Successors
<1>2. Framed(Stream, Successors)' <=> Framed(Stream, Successors)
  BY <1>1 DEF Framed, Whole
<1>3. QED
  BY <1>2 DEF FramesInv

(* Steps that leave the stream, what is accepted and delivered, and the    *)
(* send loops alone.                                                       *)
LEMMA StreamStays ==
  ASSUME SInv, StreamTypes', Stream' = Stream, accepted' = accepted, delivered' = delivered,
         written' = written, Receiving' => Receiving,
         fd' = "open" /\ ~reset' => fd = "open" /\ ~reset, torn' = torn,
         \A s \in Senders : spc'[s] = "payload" <=> spc[s] = "payload",
         \A s \in Senders : spc[s] = "payload" => packet'[s] = packet[s] /\ left'[s] = left[s],
         \A p \in Packets : result[p] # "none" => result'[p] # "none",
         \A s \in Senders : spc'[s] = "header" => Length[packet'[s]] > 0
  PROVE  SInv'
<1>1. AcceptedOnce'
  <2>1. \A x \in 1..Len(accepted) : accepted[x] \in Packets
    BY ElementOfSeq DEF SInv, StreamTypes
  <2>2. QED
    BY <2>1 DEF SInv, AcceptedOnce
<1>2. FramesInv'
  BY FramesStay DEF SInv
<1>3. LastInv'
  BY DEF SInv, LastInv, Whole
<1>4. QED
  BY <1>1, <1>2, <1>3 DEF SInv

(* The initial states satisfy the invariant of the stream. *)
LEMMA InitSInv == Init => SInv /\ HeaderRead /\ TearInv
<1> SUFFICES ASSUME Init PROVE SInv /\ HeaderRead /\ TearInv
  OBVIOUS
<1>1. StreamTypes /\ Len(Stream) = 0 /\ Len(accepted) = 0 /\ Len(delivered) = 0
  BY StreamShape, EmptySeq DEF Init, StreamTypes
<1>2. AcceptedOnce
  BY <1>1 DEF Init, AcceptedOnce
<1>3. FramesInv /\ LastInv
  BY <1>1 DEF Init, FramesInv, Framed, LastInv
<1>4. HeaderRead
  BY DEF Init, HeaderRead
<1>5. TearInv
  <2>1. torn = FALSE /\ behind = 0
    BY DEF Init
  <2>2. 0 \in Nat /\ ~(0 > 0)
    OBVIOUS
  <2>3. QED
    BY <2>1, <2>2, Zenon DEF TearInv
<1>6. QED
  BY <1>1, <1>2, <1>3, <1>4, <1>5 DEF SInv

-----------------------------------------------------------------------------
(* Bytes that enter the stream.                                            *)

(* A system call that sends n bytes of a packet puts them behind the       *)
(* stream.                                                                 *)
LEMMA StreamGrows ==
  ASSUME Types, StreamTypes, NEW p \in Packets, NEW n \in Nat, fd # "foreign", ~torn,
         PutBytes(p, n), got' = got
  PROVE  /\ wire' \in Seq(Bytes)
         /\ Len(Stream') = Len(Stream) + n
         /\ \A k \in 1..Len(Stream) : Stream'[k] = Stream[k]
         /\ \A m \in 1..Len(Stream') : m > Len(Stream) =>
              Stream'[m] = <<p, written[p] + m - Len(Stream)>>
<1> DEFINE new == [i \in 1..n |-> <<p, written[p] + i>>]
<1>1. wire' = wire \o new
  BY DEF PutBytes
<1>2. written[p] \in Nat
  BY DEF Types
<1>3. new \in Seq(Bytes) /\ Len(new) = n
  <2>1. new \in [1..n -> Bytes]
    BY <1>2 DEF Bytes
  <2>2. QED
    BY <2>1
<1>4. \A m \in 1..n : new[m] = <<p, written[p] + m>>
  OBVIOUS
<1> HIDE DEF new
<1>5. /\ wire' \in Seq(Bytes) /\ Len(wire') = Len(wire) + n
      /\ \A i \in 1..(Len(wire) + n) :
           wire'[i] = IF i <= Len(wire) THEN wire[i] ELSE new[i - Len(wire)]
  BY <1>1, <1>3, ConcatProperties DEF StreamTypes
<1>6. Len(got) \in Nat /\ Len(wire) \in Nat
  BY LenProperties DEF StreamTypes
<1>7. /\ Len(Stream') = Len(got) + Len(wire')
      /\ \A k \in 1..(Len(got) + Len(wire')) :
           Stream'[k] = IF k <= Len(got) THEN got[k] ELSE wire'[k - Len(got)]
  BY <1>5, ConcatProperties DEF StreamTypes, Stream
<1>8. /\ Len(Stream) = Len(got) + Len(wire)
      /\ \A k \in 1..Len(Stream) :
           Stream[k] = IF k <= Len(got) THEN got[k] ELSE wire[k - Len(got)]
  BY StreamShape
<1>9. ASSUME NEW k \in 1..Len(Stream) PROVE Stream'[k] = Stream[k]
  <2>1. CASE k <= Len(got)
    <3>1. k \in 1..(Len(got) + Len(wire'))
      BY <1>5, <1>6, <1>8
    <3>2. QED
      BY <1>7, <1>8, <2>1, <3>1
  <2>2. CASE k > Len(got)
    <3>1. k - Len(got) \in 1..Len(wire)
      BY <1>6, <1>8, <2>2
    <3>2. wire'[k - Len(got)] = wire[k - Len(got)]
      BY <1>5, <1>6, <3>1
    <3>3. k \in 1..(Len(got) + Len(wire'))
      BY <1>5, <1>6, <1>8
    <3>4. QED
      BY <1>7, <1>8, <2>2, <3>2, <3>3
  <2>3. QED
    BY <1>6, <1>8, <2>1, <2>2
<1>10. ASSUME NEW m \in 1..Len(Stream'), m > Len(Stream)
       PROVE  Stream'[m] = <<p, written[p] + m - Len(Stream)>>
  <2>1. m - Len(Stream) \in 1..n /\ m - Len(got) \in 1..Len(wire') /\ m > Len(got)
    BY <1>5, <1>6, <1>7, <1>8, <1>10
  <2>2. Stream'[m] = wire'[m - Len(got)]
    BY <1>7, <2>1, <1>6
  <2>3. wire'[m - Len(got)] = new[m - Len(Stream)]
    <3>1. m - Len(got) > Len(wire) /\ m - Len(got) <= Len(wire) + n
      BY <1>5, <1>6, <1>8, <1>10, <2>1
    <3>2. (m - Len(got)) - Len(wire) = m - Len(Stream)
      BY <1>6, <1>8
    <3> DEFINE j == m - Len(got)
    <3>3. j \in 1..(Len(wire) + n) /\ ~(j <= Len(wire)) /\ j - Len(wire) = m - Len(Stream)
      BY <1>5, <1>6, <2>1, <3>1, <3>2
    <3> HIDE DEF j
    <3>4. wire'[j] = new[m - Len(Stream)]
      BY <1>5, <3>3
    <3>5. QED
      BY <3>4 DEF j
  <2>4. new[m - Len(Stream)] = <<p, written[p] + (m - Len(Stream))>>
    BY <1>4, <2>1
  <2>5. written[p] + (m - Len(Stream)) = written[p] + m - Len(Stream)
    BY <1>2, <1>6, <1>8
  <2>6. QED
    BY <2>2, <2>3, <2>4, <2>5
<1>11. Len(Stream') = Len(Stream) + n
  BY <1>5, <1>6, <1>7, <1>8
<1>12. QED
  BY <1>5, <1>9, <1>10, <1>11

(* The bytes w + 1, w + 2, ... of packet p behind byte w of it.            *)
LEMMA FrameGoesOn ==
  ASSUME NEW s \in Seq(Bytes), NEW t \in Seq(Bytes), NEW next, Framed(s, next),
         NEW p \in Packets, NEW w \in Nat, w > 0,
         Len(s) > 0, s[Len(s)] = <<p, w>>, Len(t) >= Len(s), w + Len(t) - Len(s) <= Whole(p),
         \A k \in 1..Len(s) : t[k] = s[k],
         \A m \in 1..Len(t) : m > Len(s) => t[m] = <<p, w + m - Len(s)>>
  PROVE  Framed(t, next)
<1> DEFINE L == Len(s)
<1>1. L \in Nat /\ Len(t) \in Nat /\ Whole(p) \in Nat
  BY LenProperties, WholeType
<1>2. ASSUME NEW k \in 1..L
      PROVE  s[k] = <<s[k][1], s[k][2]>> /\ s[k][2] \in Nat /\ Whole(s[k][1]) \in Nat
  <2>1. s[k] \in Packets \X Nat
    BY ElementOfSeq DEF Bytes
  <2>2. QED
    BY <2>1, WholeType
<1>3. \A m \in 1..Len(t) : m > L => t[m][1] = p /\ t[m][2] = w + m - L
  OBVIOUS
<1> HIDE DEF L
<1>4. ASSUME NEW k \in 1..Len(t) PROVE t[k][2] \in 1..Whole(t[k][1])
  BY <1>1, <1>3, SMTT(20) DEF L, Framed
<1>5. ASSUME NEW k \in 1..Len(t), NEW m \in 1..Len(t)
      PROVE  LET place == t[k][2] + m - k
             IN  /\ place \in 1..Whole(t[k][1]) => t[m] = <<t[k][1], place>>
                 /\ place = Whole(t[k][1]) + 1 =>
                      t[m][2] = 1 /\ <<t[k][1], t[m][1]>> \in next
  <2>1. CASE k <= L /\ m <= L
    <3>1. k \in 1..L /\ m \in 1..L
      BY <1>1, <2>1
    <3>2. t[k] = s[k] /\ t[m] = s[m]
      BY <3>1 DEF L
    <3>3. QED
      BY <3>1, <3>2 DEF L, Framed
  <2>2. CASE k <= L /\ m > L
    <3> DEFINE q == s[k][1]
               i == s[k][2]
    <3>1. /\ k \in 1..L /\ L \in 1..L /\ t[k] = s[k] /\ i \in 1..Whole(q) /\ i \in Nat
          /\ Whole(q) \in Nat
      BY <1>1, <1>2, <2>2 DEF L, Framed
    <3>2. i + L - k \in 1..Whole(q) => <<p, w>> = <<q, i + L - k>>
      BY <3>1 DEF L, Framed
    <3>3. t[m] = <<p, w + m - L>> /\ m <= Len(t)
      <4>1. t[m] = <<p, w + m - L>>
        BY <2>2, Zenon DEF L
      <4>2. m <= Len(t)
        BY <1>1
      <4>3. QED
        BY <4>1, <4>2
    <3> HIDE DEF q, i
    <3>4. CASE i + L - k \in 1..Whole(q)
      <4>1. p = q /\ w = i + L - k
        BY <3>2, <3>4
      <4>2. w + m - L = i + m - k /\ w + m - L <= Whole(p)
        BY <1>1, <3>1, <3>3, <4>1 DEF L
      <4>3. QED
        BY <1>1, <3>1, <3>3, <4>1, <4>2 DEF q, i
    <3>5. CASE i + L - k > Whole(q)
      <4>1. i + m - k > Whole(q) + 1
        BY <1>1, <2>2, <3>1, <3>5
      <4>2. QED
        BY <1>1, <3>1, <4>1 DEF q, i
    <3>6. i + L - k \in 1..Whole(q) \/ i + L - k > Whole(q)
      BY <1>1, <3>1
    <3>7. QED
      BY <3>4, <3>5, <3>6
  <2>3. CASE k > L /\ m <= L
    <3>1. t[k][1] = p /\ t[k][2] + m - k = w + m - L /\ t[m] = s[m]
      BY <1>1, <1>3, <2>3 DEF L
    <3>2. w + m - L <= Whole(p)
      BY <1>1, <2>3 DEF L
    <3>3. s[L][1] = p /\ s[L][2] = w /\ L \in 1..L /\ m \in 1..L
      BY <1>1, <2>3 DEF L
    <3>4. w + m - L \in 1..Whole(p) => s[m] = <<p, w + m - L>>
      BY <3>3 DEF L, Framed
    <3>5. QED
      BY <1>1, <3>1, <3>2, <3>4
  <2>4. CASE k > L /\ m > L
    <3>1. t[k][1] = p /\ t[k][2] + m - k = w + m - L /\ t[m] = <<p, w + m - L>>
      BY <1>1, <1>3, <2>4, SMTT(20) DEF L
    <3>2. w + m - L <= Whole(p)
      BY <1>1 DEF L
    <3>3. QED
      BY <1>1, <3>1, <3>2
  <2>5. QED
    BY <1>1, <2>1, <2>2, <2>3, <2>4
<1>6. QED
  BY <1>4, <1>5 DEF Framed

(* The first bytes of the frame of p behind the end of a frame.            *)
LEMMA FrameBegins ==
  ASSUME NEW s \in Seq(Bytes), NEW t \in Seq(Bytes), NEW next, Framed(s, next),
         NEW p \in Packets, NEW a \in Packets,
         Len(s) > 0 => s[Len(s)] = <<a, Whole(a)>> /\ <<a, p>> \in next,
         Len(t) >= Len(s), Len(t) - Len(s) <= Whole(p),
         \A k \in 1..Len(s) : t[k] = s[k],
         \A m \in 1..Len(t) : m > Len(s) => t[m] = <<p, m - Len(s)>>
  PROVE  Framed(t, next)
<1> DEFINE L == Len(s)
<1>1. L \in Nat /\ Len(t) \in Nat /\ Whole(p) \in Nat /\ Whole(a) \in Nat
  BY LenProperties, WholeType
<1>2. ASSUME NEW k \in 1..L
      PROVE  s[k] = <<s[k][1], s[k][2]>> /\ s[k][2] \in Nat /\ Whole(s[k][1]) \in Nat
  <2>1. s[k] \in Packets \X Nat
    BY ElementOfSeq DEF Bytes
  <2>2. QED
    BY <2>1, WholeType
<1>3. \A m \in 1..Len(t) : m > L => t[m][1] = p /\ t[m][2] = m - L
  OBVIOUS
<1> HIDE DEF L
<1>4. ASSUME NEW k \in 1..Len(t) PROVE t[k][2] \in 1..Whole(t[k][1])
  BY <1>1, <1>3 DEF L, Framed
<1>5. ASSUME NEW k \in 1..Len(t), NEW m \in 1..Len(t)
      PROVE  LET place == t[k][2] + m - k
             IN  /\ place \in 1..Whole(t[k][1]) => t[m] = <<t[k][1], place>>
                 /\ place = Whole(t[k][1]) + 1 =>
                      t[m][2] = 1 /\ <<t[k][1], t[m][1]>> \in next
  <2>1. CASE k <= L /\ m <= L
    <3>1. k \in 1..L /\ m \in 1..L
      BY <1>1, <2>1
    <3>2. t[k] = s[k] /\ t[m] = s[m]
      BY <3>1 DEF L
    <3>3. QED
      BY <3>1, <3>2 DEF L, Framed
  <2>2. CASE k <= L /\ m > L
    <3> DEFINE q == s[k][1]
               i == s[k][2]
    <3>1. /\ k \in 1..L /\ L \in 1..L /\ L > 0 /\ t[k] = s[k] /\ i \in 1..Whole(q)
          /\ i \in Nat /\ Whole(q) \in Nat
      BY <1>1, <1>2, <2>2 DEF L, Framed
    <3>2. i + L - k \in 1..Whole(q) => <<a, Whole(a)>> = <<q, i + L - k>>
      BY <3>1 DEF L, Framed
    <3>3. t[m] = <<p, m - L>> /\ m <= Len(t) /\ <<a, p>> \in next
      BY <2>2, <3>1 DEF L
    <3> HIDE DEF q, i
    <3>4. CASE i + L - k \in 1..Whole(q)
      <4>1. a = q /\ Whole(q) = i + L - k
        BY <3>2, <3>4
      <4>2. i + m - k = Whole(q) + (m - L)
        BY <1>1, <3>1, <4>1
      <4>3. i + m - k = Whole(q) + 1 => m - L = 1
        BY <1>1, <3>1, <4>2
      <4>4. i + m - k > Whole(q)
        BY <1>1, <2>2, <3>1, <4>2
      <4>5. QED
        BY <1>1, <3>1, <3>3, <4>1, <4>3, <4>4 DEF q, i
    <3>5. CASE i + L - k > Whole(q)
      <4>1. i + m - k > Whole(q) + 1
        BY <1>1, <2>2, <3>1, <3>5
      <4>2. QED
        BY <1>1, <3>1, <4>1 DEF q, i
    <3>6. i + L - k \in 1..Whole(q) \/ i + L - k > Whole(q)
      BY <1>1, <3>1
    <3>7. QED
      BY <3>4, <3>5, <3>6
  <2>3. CASE k > L /\ m <= L
    <3>1. t[k][1] = p /\ t[k][2] + m - k = m - L
      BY <1>1, <1>3, <2>3 DEF L
    <3>2. QED
      BY <1>1, <2>3, <3>1
  <2>4. CASE k > L /\ m > L
    <3>1. t[k][1] = p /\ t[k][2] + m - k = m - L /\ t[m] = <<p, m - L>>
      BY <1>1, <1>3, <2>4 DEF L
    <3>2. m - L <= Whole(p)
      BY <1>1 DEF L
    <3>3. QED
      BY <1>1, <3>1, <3>2
  <2>5. QED
    BY <1>1, <2>1, <2>2, <2>3, <2>4
<1>6. QED
  BY <1>4, <1>5 DEF Framed

(* Without the first n bytes.                                              *)
LEMMA FrameLeaves ==
  ASSUME NEW s \in Seq(Bytes), NEW t \in Seq(Bytes), NEW next, Framed(s, next),
         NEW n \in Nat, Len(s) = Len(t) + n,
         \A k \in 1..Len(t) : t[k] = s[k + n]
  PROVE  Framed(t, next)
<1>1. Len(s) \in Nat /\ Len(t) \in Nat
  BY LenProperties
<1>2. \A k \in 1..Len(t) : k + n \in 1..Len(s) /\ t[k] = s[k + n]
  BY <1>1
<1>3. \A k \in 1..Len(t) : t[k][2] \in Nat
  BY ElementOfSeq DEF Bytes
<1>4. ASSUME NEW k \in 1..Len(t), NEW m \in 1..Len(t)
      PROVE  t[k][2] + (m + n) - (k + n) = t[k][2] + m - k
  BY <1>3
<1>5. ASSUME NEW k \in 1..Len(t) PROVE t[k][2] \in 1..Whole(t[k][1])
  BY <1>2 DEF Framed
<1>6. ASSUME NEW k \in 1..Len(t), NEW m \in 1..Len(t)
      PROVE  LET place == t[k][2] + m - k
             IN  /\ place \in 1..Whole(t[k][1]) => t[m] = <<t[k][1], place>>
                 /\ place = Whole(t[k][1]) + 1 =>
                      t[m][2] = 1 /\ <<t[k][1], t[m][1]>> \in next
  <2> DEFINE x == k + n
             y == m + n
  <2>1. x \in 1..Len(s) /\ y \in 1..Len(s) /\ t[k] = s[x] /\ t[m] = s[y]
    BY <1>2
  <2>2. s[x][2] + y - x = t[k][2] + m - k
    BY <1>4, <2>1
  <2> HIDE DEF x, y
  <2>3. QED
    BY <2>1, <2>2 DEF Framed
<1>7. QED
  BY <1>5, <1>6 DEF Framed

-----------------------------------------------------------------------------
(* The steps of Send that write.                                           *)

(* More packets that may follow do no harm. *)
LEMMA FramedMore ==
  ASSUME NEW b, NEW next, NEW more, Framed(b, next), next \subseteq more
  PROVE  Framed(b, more)
BY DEF Framed

(* A packet that is accepted follows the last one. *)
LEMMA AcceptedGrows ==
  ASSUME StreamTypes, NEW p \in Packets, accepted' = Append(accepted, p)
  PROVE  /\ Len(accepted) \in Nat /\ Len(accepted') = Len(accepted) + 1
         /\ accepted' \in Seq(Packets) /\ accepted'[Len(accepted) + 1] = p
         /\ \A x \in 1..Len(accepted) : accepted'[x] = accepted[x] /\ accepted[x] \in Packets
         /\ Successors \subseteq Successors'
         /\ Len(accepted) > 0 => <<accepted[Len(accepted)], p>> \in Successors'
<1>1. /\ Len(accepted) \in Nat /\ Len(accepted') = Len(accepted) + 1
      /\ accepted' \in Seq(Packets) /\ accepted'[Len(accepted) + 1] = p
      /\ \A x \in 1..Len(accepted) : accepted'[x] = accepted[x] /\ accepted[x] \in Packets
  BY LenProperties, ElementOfSeq, AppendProperties DEF StreamTypes
<1>2. ASSUME NEW pair \in Successors PROVE pair \in Successors'
  <2>1. PICK x \in 1..(Len(accepted) - 1) : pair = <<accepted[x], accepted[x + 1]>>
    BY DEF Successors
  <2>2. /\ x \in 1..Len(accepted) /\ x + 1 \in 1..Len(accepted)
        /\ x \in 1..(Len(accepted') - 1)
    BY <1>1
  <2>3. pair = <<accepted'[x], accepted'[x + 1]>>
    BY <1>1, <2>1, <2>2
  <2>4. QED
    BY <2>2, <2>3 DEF Successors
<1>3. ASSUME Len(accepted) > 0 PROVE <<accepted[Len(accepted)], p>> \in Successors'
  <2>1. Len(accepted) \in 1..(Len(accepted') - 1) /\ Len(accepted) \in 1..Len(accepted)
    BY <1>1, <1>3
  <2>2. <<accepted[Len(accepted)], p>> =
          <<accepted'[Len(accepted)], accepted'[Len(accepted) + 1]>>
    BY <1>1, <2>1
  <2>3. QED
    BY <2>1, <2>2 DEF Successors
<1>4. QED
  BY <1>1, <1>2, <1>3

(* The first system call of a Send keeps the frames, *)
LEMMA HeaderSInv ==
  ASSUME ChannelInv, NEW s \in Senders, SendHeader(s), StreamTypes'
  PROVE  SInv'
<1> DEFINE p == packet[s]
<1>1. /\ spc[s] = "header" /\ p \in Packets /\ result[p] = "none" /\ sendLock = s
      /\ \A r \in Senders \ {s} : spc[r] = "idle"
      /\ fd' = fd /\ reset' = reset /\ got' = got /\ rpc' = rpc /\ delivered' = delivered
      /\ Length[p] > 0 /\ StreamTypes /\ Types
  BY DEF ChannelInv, IInv, LockInv, SInv, AcceptedOnce, SendHeader, sockVars, recvVars
<1>2. CASE /\ Alive
           /\ \E n \in 1..HeaderSize :
                PutBytes(p, n) /\ torn' = (torn \/ (n < HeaderSize /\ fd = "open"))
           /\ accepted' = Append(accepted, p)
           /\ spc' = [spc EXCEPT ![s] = "payload"] /\ UNCHANGED <<packet, left, result>>
  <2>0. PICK n \in 1..HeaderSize :
          PutBytes(p, n) /\ torn' = (torn \/ (n < HeaderSize /\ fd = "open"))
    BY <1>2
  <2>1. /\ Len(accepted) \in Nat /\ Len(accepted') = Len(accepted) + 1
        /\ accepted'[Len(accepted) + 1] = p
        /\ \A x \in 1..Len(accepted) : accepted'[x] = accepted[x] /\ accepted[x] \in Packets
        /\ Successors \subseteq Successors'
        /\ Len(accepted) > 0 => <<accepted[Len(accepted)], p>> \in Successors'
    BY <1>1, <1>2, AcceptedGrows
  <2>2. spc'[s] = "payload" /\ \A r \in Senders \ {s} : spc'[r] = "idle"
    BY <1>1, <1>2 DEF Types
  <2>3. AcceptedOnce'
    <3>1. \A x \in 1..Len(accepted) : result[accepted[x]] # "none"
      BY <1>1 DEF ChannelInv, SInv, AcceptedOnce
    <3>2. \A x \in 1..Len(accepted) : accepted[x] # p
      BY <1>1, <3>1
    <3>3. \A x \in 1..Len(accepted') : x \in 1..Len(accepted) \/ x = Len(accepted) + 1
      BY <2>1
    <3>4. \A x, y \in 1..Len(accepted') : accepted'[x] = accepted'[y] => x = y
      BY <2>1, <3>2, <3>3 DEF ChannelInv, SInv, AcceptedOnce
    <3>5. ASSUME NEW x \in 1..Len(accepted')
          PROVE  \/ result'[accepted'[x]] # "none"
                 \/ spc'[s] = "payload" /\ packet'[s] = accepted'[x]
      BY <1>2, <2>1, <2>2, <3>1, <3>3
    <3>6. QED
      BY <2>2, <3>4, <3>5 DEF AcceptedOnce
  <2>4. CASE fd = "foreign" \/ torn
    <3>1. Stream' = Stream
      BY <1>1, <2>0, <2>4 DEF PutBytes, Stream
    <3>2. FramesInv'
      <4> SUFFICES ASSUME Receiving' PROVE FramesInv'
        BY DEF FramesInv
      <4>1. Framed(Stream, Successors) /\ Receiving
        BY <1>1 DEF Receiving, ChannelInv, SInv, FramesInv
      <4>2. Framed(Stream, Successors')
        BY <2>1, <4>1, FramedMore
      <4>3. Framed(Stream, Successors)'
        BY <3>1, <4>2 DEF Framed, Whole
      <4>4. Len(delivered) \in Nat
        BY <1>1, LenProperties DEF StreamTypes
      <4>5. Len(Stream) > 0 =>
              /\ Len(delivered) < Len(accepted')
              /\ Stream[1] = <<accepted'[Len(delivered) + 1], 1>>
        BY <2>1, <4>1, <4>4 DEF ChannelInv, SInv, FramesInv
      <4>6. QED
        BY <1>1, <3>1, <4>3, <4>5 DEF FramesInv
    <3>3. LastInv'
      BY <1>1, <2>0, <2>4 DEF LastInv
    <3>4. QED
      BY <2>3, <3>2, <3>3 DEF SInv
  <2>5. CASE fd # "foreign" /\ ~torn
    <3>1. fd = "open" /\ ~reset /\ ~torn
      BY <1>1, <1>2, <2>5 DEF Alive, StreamTypes
    <3>2. HeaderSize \in Nat \ {0} /\ n \in Nat \ {0} /\ n <= HeaderSize /\ Length[p] \in Nat
      BY <1>1, FramingAssumption
    <3>3. /\ Len(Stream') = Len(Stream) + n
          /\ \A k \in 1..Len(Stream) : Stream'[k] = Stream[k]
          /\ \A m \in 1..Len(Stream') : m > Len(Stream) =>
               Stream'[m] = <<p, written[p] + m - Len(Stream)>>
      BY <1>1, <2>0, <2>5, <3>2, StreamGrows
    <3>4. written[p] = 0 /\ left[s] = Length[p] /\ written'[p] = n
      <4>1. written[p] = 0 /\ left[s] = Length[p]
        BY <1>1, <3>1 DEF ChannelInv, IInv, CountInv, Progress
      <4>2. written'[p] = written[p] + n
        BY <1>1, <2>0, <3>1, <3>2, BytesPut
      <4>3. QED
        BY <3>2, <4>1, <4>2
    <3>5. /\ Stream \in Seq(Bytes) /\ Stream' \in Seq(Bytes)
          /\ Len(Stream) \in Nat /\ Len(Stream') \in Nat /\ Len(delivered) \in Nat
      BY <1>1, ConcatProperties, LenProperties DEF StreamTypes, Stream
    <3> SUFFICES ASSUME Receiving' PROVE FramesInv' /\ LastInv'
      BY <2>3 DEF SInv, FramesInv, LastInv
    <3>6. Receiving /\ Framed(Stream, Successors)
      BY <1>1 DEF Receiving, ChannelInv, SInv, FramesInv
    <3>7. Len(Stream) > 0 =>
            /\ Len(accepted) > 0
            /\ Stream[Len(Stream)] = <<accepted[Len(accepted)], Whole(accepted[Len(accepted)])>>
      <4>1. Len(Stream) > 0 => Len(accepted) > 0
        BY <2>1, <3>5, <3>6 DEF ChannelInv, SInv, FramesInv
      <4>2. \A r \in Senders : spc[r] # "payload"
        BY <1>1
      <4>3. QED
        BY <3>1, <3>6, <4>1, <4>2 DEF ChannelInv, SInv, LastInv
    <3>8. \A m \in 1..Len(Stream') : m > Len(Stream) => Stream'[m] = <<p, m - Len(Stream)>>
      BY <3>3, <3>4, <3>5
    <3>9. PICK a \in Packets : Len(accepted) > 0 => a = accepted[Len(accepted)]
      <4>1. Len(accepted) > 0 => accepted[Len(accepted)] \in Packets
        BY <2>1
      <4>2. QED
        BY <1>1, <4>1
    <3>10. /\ Len(Stream') >= Len(Stream) /\ Len(Stream') - Len(Stream) <= Whole(p)
           /\ Whole(p) \in Nat
      BY <3>2, <3>3, <3>5 DEF Whole
    <3>11. Framed(Stream, Successors')
      BY <2>1, <3>6, FramedMore
    <3>12. Framed(Stream', Successors')
      BY <1>1, <2>1, <3>3, <3>5, <3>7, <3>8, <3>9, <3>10, <3>11, FrameBegins
    <3>13. Framed(Stream, Successors)'
      BY <3>12 DEF Framed, Whole
    <3>14. /\ Len(delivered) < Len(accepted')
           /\ Stream'[1] = <<accepted'[Len(delivered) + 1], 1>>
      <4>1. CASE Len(Stream) = 0
        <5>1. Len(delivered) = Len(accepted)
          BY <3>1, <3>6, <4>1 DEF ChannelInv, SInv, LastInv
        <5>2. Stream'[1] = <<p, 1>>
          BY <3>2, <3>3, <3>8, <4>1
        <5>3. QED
          BY <2>1, <5>1, <5>2
      <4>2. CASE Len(Stream) > 0
        <5>1. Len(delivered) < Len(accepted) /\ Stream[1] = <<accepted[Len(delivered) + 1], 1>>
          BY <3>6, <4>2 DEF ChannelInv, SInv, FramesInv
        <5>2. Len(delivered) + 1 \in 1..Len(accepted) /\ Stream'[1] = Stream[1]
          BY <2>1, <3>3, <3>5, <4>2, <5>1
        <5>3. QED
          BY <2>1, <3>5, <5>1, <5>2
      <4>3. QED
        BY <3>5, <4>1, <4>2
    <3>15. FramesInv'
      BY <1>1, <3>13, <3>14 DEF FramesInv
    <3>16. LastInv'
      <4> SUFFICES ASSUME ~torn' PROVE LastInv'
        BY DEF LastInv
      <4>0. n = HeaderSize
        <5>1. ~(n < HeaderSize /\ fd = "open")
          BY <2>0, Zenon
        <5>2. QED
          BY <3>1, <3>2, <5>1
      <4>1. Len(Stream') \in 1..Len(Stream') /\ Len(Stream') > Len(Stream)
        BY <3>2, <3>3, <3>5
      <4>2. Stream'[Len(Stream')] = <<p, written'[p]>>
        BY <3>2, <3>3, <3>4, <3>5, <3>8, <4>1
      <4>3. /\ Len(accepted') > 0 /\ accepted'[Len(accepted')] = p /\ packet'[s] = p
            /\ left'[s] > 0 /\ Len(Stream') > 0
        BY <1>1, <1>2, <2>1, <3>4, <3>5, <4>1
      <4>4. \A r \in Senders : spc'[r] = "payload" => r = s
        BY <2>2
      <4>5. written'[p] + left'[s] = Whole(p)
        BY <1>2, <3>2, <3>4, <4>0 DEF Whole
      <4>6. QED
        BY <2>2, <3>5, <4>2, <4>3, <4>4, <4>5 DEF LastInv, Whole
    <3>17. QED
      BY <3>15, <3>16
  <2>6. QED
    BY <2>4, <2>5
<1>3. CASE Answer(s, "broken") /\ UNCHANGED <<streamVars, written, accepted>>
  <2>1. /\ spc' = [spc EXCEPT ![s] = "idle"] /\ result' = [result EXCEPT ![p] = "broken"]
        /\ packet' = [packet EXCEPT ![s] = NoPacket] /\ left' = [left EXCEPT ![s] = 0]
    BY <1>3 DEF Answer
  <2>2. Stream' = Stream /\ accepted' = accepted /\ written' = written /\ torn' = torn
    BY <1>1, <1>3 DEF Stream, streamVars
  <2>3. \A r \in Senders : spc'[r] = "idle" /\ spc[r] # "payload"
    BY <1>1, <2>1 DEF Types
  <2>4. \A q \in Packets : result[q] # "none" => result'[q] # "none"
    BY <1>1, <2>1 DEF Types
  <2>5. QED
    BY <1>1, <2>2, <2>3, <2>4, StreamStays DEF ChannelInv, Receiving
<1>4. QED
  BY <1>2, <1>3 DEF SendHeader

(* and so do those that follow. *)
LEMMA PayloadSInv ==
  ASSUME ChannelInv, NEW s \in Senders, SendPayload(s), StreamTypes'
  PROVE  SInv'
<1> DEFINE p == packet[s]
<1>1. /\ spc[s] = "payload" /\ p \in Packets /\ sendLock = s /\ left[s] \in Nat
      /\ \A r \in Senders \ {s} : spc[r] = "idle"
      /\ fd' = fd /\ reset' = reset /\ got' = got /\ rpc' = rpc /\ delivered' = delivered
      /\ accepted' = accepted /\ StreamTypes /\ Types
  BY DEF ChannelInv, IInv, Types, LockInv, SInv, SendPayload, sockVars, recvVars
<1>2. CASE /\ Alive
           /\ \E n \in 1..left[s] :
                /\ PutBytes(p, n)
                /\ IF n = left[s]
                   THEN Answer(s, "sent")
                   ELSE left' = [left EXCEPT ![s] = @ - n]
                        /\ UNCHANGED <<sendLock, spc, packet, result>>
           /\ torn' = torn
  <2>1. PICK n \in 1..left[s] :
             /\ PutBytes(p, n)
             /\ IF n = left[s]
                THEN Answer(s, "sent")
                ELSE left' = [left EXCEPT ![s] = @ - n]
                     /\ UNCHANGED <<sendLock, spc, packet, result>>
    BY <1>2
  <2>2. n \in Nat \ {0} /\ n <= left[s]
    BY <1>1
  <2>3. /\ \A r \in Senders : spc'[r] = "payload" => r = s
        /\ \A r \in Senders : spc'[r] # "header"
        /\ \/ n = left[s] /\ spc'[s] = "idle" /\ result'[p] = "sent"
           \/ n < left[s] /\ spc'[s] = "payload" /\ packet'[s] = p /\ left'[s] = left[s] - n
              /\ result' = result
        /\ \A q \in Packets : q # p => result'[q] = result[q]
    <3>1. CASE n = left[s]
      BY <1>1, <2>1, <3>1 DEF Answer, Types
    <3>2. CASE n # left[s]
      BY <1>1, <2>1, <2>2, <3>2 DEF Types
    <3>3. QED
      BY <3>1, <3>2
  <2>4. AcceptedOnce'
    <3>1. \A x \in 1..Len(accepted) : accepted[x] \in Packets
      BY <1>1, ElementOfSeq DEF StreamTypes
    <3>2. ASSUME NEW x \in 1..Len(accepted)
          PROVE  \/ result'[accepted[x]] # "none"
                 \/ spc'[s] = "payload" /\ packet'[s] = accepted[x]
      <4>1. result[accepted[x]] # "none" \/ accepted[x] = p
        BY <1>1 DEF ChannelInv, SInv, AcceptedOnce
      <4>2. QED
        BY <2>3, <3>1, <4>1
    <3>3. QED
      BY <1>1, <2>3, <3>2 DEF ChannelInv, SInv, AcceptedOnce
  <2>5. CASE fd = "foreign" \/ torn
    <3>1. Stream' = Stream
      BY <1>1, <2>1, <2>5 DEF PutBytes, Stream
    <3>2. FramesInv'
      BY <1>1, <3>1, FramesStay DEF ChannelInv, SInv, Receiving
    <3>3. LastInv'
      BY <1>1, <1>2, <2>5 DEF LastInv
    <3>4. QED
      BY <2>4, <3>2, <3>3 DEF SInv
  <2>6. CASE fd # "foreign" /\ ~torn
    <3>1. fd = "open" /\ ~reset /\ ~torn
      BY <1>1, <1>2, <2>6 DEF Alive, StreamTypes
    <3> SUFFICES ASSUME Receiving' PROVE FramesInv' /\ LastInv'
      BY <2>4 DEF SInv, FramesInv, LastInv
    <3>2. Receiving /\ Framed(Stream, Successors)
      BY <1>1 DEF Receiving, ChannelInv, SInv, FramesInv
    <3>3. /\ Len(Stream') = Len(Stream) + n
          /\ \A k \in 1..Len(Stream) : Stream'[k] = Stream[k]
          /\ \A m \in 1..Len(Stream') : m > Len(Stream) =>
               Stream'[m] = <<p, written[p] + m - Len(Stream)>>
      BY <1>1, <2>1, <2>2, <2>6, StreamGrows
    <3>4. /\ Stream \in Seq(Bytes) /\ Stream' \in Seq(Bytes)
          /\ Len(Stream) \in Nat /\ Len(Stream') \in Nat
      BY <1>1, ConcatProperties, LenProperties DEF StreamTypes, Stream
    <3>5. /\ Len(accepted) > 0 /\ accepted[Len(accepted)] = p /\ Len(Stream) > 0
          /\ Stream[Len(Stream)] = <<p, written[p]>>
      BY <1>1, <3>1, <3>2 DEF ChannelInv, SInv, LastInv
    <3>6. /\ written[p] \in Nat /\ written[p] + left[s] = Whole(p) /\ written'[p] = written[p] + n
          /\ Whole(p) \in Nat
      <4>1. written[p] + left[s] = Whole(p)
        BY <1>1, <3>1, <3>2 DEF ChannelInv, SInv, LastInv
      <4>2. written'[p] = written[p] + n
        BY <1>1, <2>1, <2>2, <3>1, BytesPut
      <4>3. QED
        BY <1>1, <4>1, <4>2, WholeType DEF Types
    <3>7. written[p] > 0
      <4>1. Len(Stream) \in 1..Len(Stream) /\ Stream[Len(Stream)][1] = p
            /\ Stream[Len(Stream)][2] = written[p]
        BY <3>4, <3>5
      <4>2. written[p] \in 1..Whole(p)
        BY <3>2, <4>1 DEF Framed
      <4>3. QED
        BY <3>6, <4>2
    <3>8. Len(Stream') >= Len(Stream) /\ written[p] + Len(Stream') - Len(Stream) <= Whole(p)
      BY <1>1, <2>2, <3>3, <3>4, <3>6
    <3>9. Framed(Stream', Successors)
      BY <1>1, <3>2, <3>3, <3>4, <3>5, <3>6, <3>7, <3>8, FrameGoesOn
    <3>10. Framed(Stream, Successors)'
      BY <1>1, <3>9 DEF Framed, Whole, Successors
    <3>11. FramesInv'
      <4>1. Stream'[1] = Stream[1] /\ Len(Stream) > 0
        BY <3>3, <3>4, <3>5
      <4>2. Len(delivered) < Len(accepted) /\ Stream[1] = <<accepted[Len(delivered) + 1], 1>>
        BY <3>2, <3>5 DEF ChannelInv, SInv, FramesInv
      <4>3. QED
        BY <1>1, <3>10, <4>1, <4>2 DEF FramesInv
    <3>12. Stream'[Len(Stream')] = <<p, written'[p]>> /\ Len(Stream') > 0
      <4>1. Len(Stream') \in 1..Len(Stream') /\ Len(Stream') > Len(Stream)
        BY <2>2, <3>3, <3>4
      <4>2. Stream'[Len(Stream')] = <<p, written[p] + Len(Stream') - Len(Stream)>>
        BY <3>3, <4>1
      <4>3. written[p] + Len(Stream') - Len(Stream) = written'[p]
        BY <2>2, <3>3, <3>4, <3>6
      <4>4. QED
        BY <3>4, <4>1, <4>2, <4>3
    <3>13. /\ spc'[s] = "payload" => /\ packet'[s] = p /\ left'[s] > 0
                                      /\ written'[p] + left'[s] = Whole(p)
           /\ spc'[s] # "payload" => written'[p] = Whole(p)
      BY <1>1, <2>2, <2>3, <3>6
    <3>14. LastInv'
      BY <1>1, <2>3, <3>5, <3>12, <3>13 DEF LastInv, Whole
    <3>15. QED
      BY <3>11, <3>14
  <2>7. QED
    BY <2>5, <2>6
<1>3. CASE /\ Answer(s, "failed") /\ torn' = (torn \/ (fd = "open" /\ ~reset))
           /\ UNCHANGED <<wire, written>>
  <2>1. /\ \A r \in Senders : spc'[r] # "payload" /\ spc'[r] # "header"
        /\ result'[p] = "failed"
        /\ \A q \in Packets : q # p => result'[q] = result[q]
    BY <1>1, <1>3 DEF Answer, Types
  <2>2. AcceptedOnce'
    <3>1. \A x \in 1..Len(accepted) : accepted[x] \in Packets
      BY <1>1, ElementOfSeq DEF StreamTypes
    <3>2. ASSUME NEW x \in 1..Len(accepted) PROVE result'[accepted[x]] # "none"
      <4>1. result[accepted[x]] # "none" \/ accepted[x] = p
        BY <1>1 DEF ChannelInv, SInv, AcceptedOnce
      <4>2. QED
        BY <2>1, <3>1, <4>1
    <3>3. QED
      BY <1>1, <2>1, <3>2 DEF ChannelInv, SInv, AcceptedOnce
  <2>3. Stream' = Stream
    BY <1>1, <1>3 DEF Stream
  <2>4. FramesInv'
    BY <1>1, <2>3, FramesStay DEF ChannelInv, SInv, Receiving
  <2>5. LastInv'
    BY <1>1, <1>3 DEF LastInv
  <2>6. QED
    BY <2>2, <2>4, <2>5 DEF SInv
<1>4. QED
  BY <1>2, <1>3 DEF SendPayload

-----------------------------------------------------------------------------
(* The steps of the receiver.                                              *)

(* A read moves bytes from the wire to the packet that is read. *)
LEMMA BytesTaken ==
  ASSUME StreamTypes, NEW n \in Nat, TakeBytes(n)
  PROVE  /\ wire' \in Seq(Bytes) /\ got \o SubSeq(wire, 1, n) \in Seq(Bytes)
         /\ (got \o SubSeq(wire, 1, n)) \o wire' = Stream
         /\ Len(got \o SubSeq(wire, 1, n)) = Len(got) + n
<1> DEFINE taken == SubSeq(wire, 1, n)
<1>1. /\ wire \in Seq(Bytes) /\ got \in Seq(Bytes) /\ Len(wire) \in Nat /\ n <= Len(wire)
      /\ wire' = SubSeq(wire, n + 1, Len(wire))
      /\ \A i \in 1..Len(wire) : wire[i] \in Bytes
  BY LenProperties, ElementOfSeq DEF StreamTypes, TakeBytes
<1>2. taken \in Seq(Bytes) /\ Len(taken) = n
  <2>1. \A i \in 1..n : wire[i] \in Bytes
    BY <1>1
  <2>2. n \in Int /\ 1 \in Int
    OBVIOUS
  <2>3. taken \in Seq(Bytes) /\ Len(taken) = IF 1 <= n THEN n - 1 + 1 ELSE 0
    BY <2>1, <2>2, SubSeqProperties
  <2>4. QED
    BY <2>3
<1>3. wire' \in Seq(Bytes)
  <2>1. \A i \in (n + 1)..Len(wire) : wire[i] \in Bytes
    BY <1>1
  <2>2. n + 1 \in Int /\ Len(wire) \in Int
    BY <1>1
  <2>3. QED
    BY <1>1, <2>1, <2>2, SubSeqProperties
<1>4. taken \o wire' = wire
  <2>1. 1 \in 1..(Len(wire) + 1) /\ n \in (1 - 1)..Len(wire) /\ Len(wire) \in n..Len(wire)
    BY <1>1
  <2>2. SubSeq(wire, 1, n) \o SubSeq(wire, n + 1, Len(wire)) = SubSeq(wire, 1, Len(wire))
    BY <1>1, <2>1, ConcatAdjacentSubSeq
  <2>3. SubSeq(wire, 1, Len(wire)) = wire
    BY <1>1, SubSeqFull
  <2>4. QED
    BY <1>1, <2>2, <2>3
<1> HIDE DEF taken
<1>5. (got \o taken) \o wire' = got \o (taken \o wire')
  <2>1. \A x, y, z \in Seq(Bytes) : (x \o y) \o z = x \o (y \o z)
    BY ConcatAssociative
  <2>2. QED
    BY <1>1, <1>2, <1>3, <2>1
<1>6. got \o taken \in Seq(Bytes) /\ Len(got \o taken) = Len(got) + n
  BY <1>1, <1>2, ConcatProperties
<1>7. QED
  BY <1>3, <1>4, <1>5, <1>6 DEF taken, Stream

(* A packet is delivered only if the bytes read are its whole frame: it is *)
(* the next of those accepted, and what is left begins with the frame of   *)
(* the one after it.                                                       *)
LEMMA DeliverySInv ==
  ASSUME ChannelInv, StreamTypes', Receiving, NEW p \in Packets, Frame(p) \in Seq(Bytes),
         Frame(p) \o wire' = Stream, got' = <<>>, delivered' = Append(delivered, p),
         accepted' = accepted, UNCHANGED sendVars, UNCHANGED sockVars, torn' = torn
  PROVE  /\ SInv'
         /\ Len(delivered) < Len(accepted) /\ p = accepted[Len(delivered) + 1]
<1> DEFINE L == Len(Stream)
           M == Len(wire')
           d == Len(delivered)
           N == Len(accepted)
           W == Whole(p)
<1>1. /\ UNCHANGED <<spc, packet, left, result, written, fd, reset>>
      /\ StreamTypes /\ Framed(Stream, Successors)
      /\ W \in Nat /\ W > 0 /\ M \in Nat /\ d \in Nat /\ N \in Nat /\ L \in Nat
      /\ Len(delivered') = d + 1
  BY WholeType, LenProperties, StreamShape, AppendProperties, FramingAssumption
     DEF sendVars, sockVars, ChannelInv, SInv, FramesInv, StreamTypes
<1>2. Len(Frame(p)) = W /\ Frame(p)[1] = <<p, 1>>
  <2>1. 1 \in 1..(HeaderSize + Length[p])
    BY <1>1 DEF Whole
  <2>2. QED
    BY <2>1, FrameIsWhole DEF Frame
<1>3. Stream' = wire'
  <2>1. wire' \in Seq(Bytes)
    BY DEF StreamTypes
  <2>2. QED
    BY <2>1, ConcatEmptySeq DEF Stream
<1>4. /\ L = W + M
      /\ Stream[1] = <<p, 1>>
      /\ \A k \in 1..M : Stream'[k] = Stream[k + W]
  <2>1. /\ Len(Frame(p) \o wire') = Len(Frame(p)) + Len(wire')
        /\ \A i \in 1..(Len(Frame(p)) + Len(wire')) :
             (Frame(p) \o wire')[i] =
               IF i <= Len(Frame(p)) THEN Frame(p)[i] ELSE wire'[i - Len(Frame(p))]
    BY ConcatProperties DEF StreamTypes
  <2>2. L = W + M
    BY <1>2, <2>1
  <2>3. Stream[1] = <<p, 1>>
    BY <1>1, <1>2, <2>1
  <2>4. ASSUME NEW k \in 1..M PROVE wire'[k] = Stream[k + W]
    <3>1. k + W \in 1..(W + M) /\ ~(k + W <= W) /\ k + W - W = k
      BY <1>1
    <3>2. QED
      BY <1>2, <2>1, <3>1
  <2>5. QED
    BY <1>3, <2>2, <2>3, <2>4
<1>5. d < N /\ p = accepted[d + 1]
  <2>1. L > 0
    BY <1>1, <1>4
  <2>2. d < N /\ Stream[1] = <<accepted[d + 1], 1>>
    BY <2>1 DEF ChannelInv, SInv, FramesInv
  <2>3. QED
    BY <1>4, <2>2
<1>6. ASSUME NEW x \in 1..N, accepted[x] = p PROVE x = d + 1
  <2>1. d + 1 \in 1..N
    BY <1>1, <1>5
  <2>2. QED
    BY <1>5, <1>6, <2>1 DEF ChannelInv, SInv, AcceptedOnce
<1>7. AcceptedOnce'
  BY <1>1 DEF ChannelInv, SInv, AcceptedOnce
<1> HIDE DEF L, M, d, N, W
<1>8. FramesInv'
  <2>1. Framed(Stream', Successors)
    <3>1. Stream \in Seq(Bytes) /\ Stream' \in Seq(Bytes) /\ Len(Stream') = M
      BY <1>1, <1>3, StreamShape DEF StreamTypes, M
    <3>2. /\ W \in Nat /\ Len(Stream) = Len(Stream') + W
          /\ \A k \in 1..Len(Stream') : Stream'[k] = Stream[k + W]
      BY <1>1, <1>4, <3>1 DEF L
    <3>3. QED
      BY <1>1, <3>1, <3>2, FrameLeaves
  <2>2. Framed(Stream, Successors)'
    BY <2>1 DEF Framed, Successors, Whole
  <2>3. ASSUME M > 0 PROVE d + 1 < N /\ Stream'[1] = <<accepted[d + 2], 1>>
    <3> DEFINE m == W + 1
    <3>1. /\ 1 \in 1..L /\ m \in 1..L /\ Stream[1][1] = p /\ Stream[1][2] = 1
          /\ Stream[1][2] + m - 1 = W + 1 /\ Stream'[1] = Stream[m]
      BY <1>1, <1>4, <2>3
    <3> HIDE DEF m
    <3>2. Stream[m][2] = 1 /\ <<p, Stream[m][1]>> \in Successors
      BY <1>1, <3>1 DEF Framed, L, W
    <3>3. PICK x \in 1..(N - 1) : <<p, Stream[m][1]>> = <<accepted[x], accepted[x + 1]>>
      BY <3>2 DEF Successors, N
    <3>4. x = d + 1
      BY <1>1, <1>6, <3>3
    <3>5. Stream[m] = <<Stream[m][1], Stream[m][2]>>
      BY <1>1, <3>1, StreamShape DEF L
    <3>6. QED
      BY <1>1, <3>1, <3>2, <3>3, <3>4, <3>5
  <2>4. Len(Stream') = M /\ Len(delivered') + 1 = d + 2
    BY <1>1, <1>3 DEF M
  <2>5. QED
    BY <1>1, <2>2, <2>3, <2>4 DEF FramesInv, N
<1>9. LastInv'
  <2> SUFFICES ASSUME fd = "open", ~reset, ~torn PROVE LastInv'
    BY <1>1 DEF LastInv
  <2>1. /\ Stream[L] = <<accepted[N], written[accepted[N]]>>
        /\ \A s \in Senders : spc[s] = "payload" => accepted[N] = packet[s] /\ left[s] > 0
        /\ (\A s \in Senders : spc[s] # "payload") => written[accepted[N]] = Whole(accepted[N])
    BY <1>1, <1>4, <1>5 DEF ChannelInv, SInv, LastInv, L, N
  <2>2. ASSUME M = 0 PROVE accepted[N] = p /\ written[p] = W
    <3>1. /\ 1 \in 1..L /\ L \in 1..L /\ Stream[1][1] = p /\ Stream[1][2] = 1
          /\ Stream[1][2] + L - 1 = W /\ W \in 1..W
      BY <1>1, <1>4, <2>2
    <3>2. Stream[L] = <<p, W>>
      BY <1>1, <3>1 DEF Framed, L, W
    <3>3. QED
      BY <2>1, <3>2
  <2>3. ASSUME NEW s \in Senders, spc[s] = "payload" PROVE M > 0
    <3> SUFFICES ASSUME M = 0 PROVE FALSE
      BY <1>1
    <3>1. packet[s] = p /\ written[p] = W /\ left[s] > 0
      BY <2>1, <2>2, <2>3
    <3>2. written[packet[s]] + left[s] = Whole(packet[s]) /\ left[s] \in Nat
      BY <2>3 DEF ChannelInv, IInv, Types, SInv, LastInv
    <3>3. QED
      BY <1>1, <3>1, <3>2 DEF W
  <2>4. M = 0 => d + 1 = N
    BY <1>1, <1>5, <1>6, <2>2
  <2>5. M > 0 => Stream'[M] = Stream[L]
    BY <1>1, <1>4, SMTT(20)
  <2>6. Len(Stream') = M
    BY <1>3 DEF M
  <2>7. N > 0
    BY <1>1, <1>5
  <2>8. \A s \in Senders : spc[s] = "payload" => written[packet[s]] + left[s] = Whole(packet[s])
    BY DEF ChannelInv, SInv, LastInv
  <2>9. QED
    BY <1>1, <2>1, <2>3, <2>4, <2>5, <2>6, <2>7, <2>8 DEF LastInv, N, Whole
<1>10. QED
  BY <1>5, <1>7, <1>8, <1>9 DEF SInv, d, N


(* Who takes bytes for a header has all of it. *)
LEMMA HeaderIsWhole ==
  \A b \in Seq(Bytes) : IsHeader(b) => Len(b) = HeaderSize
<1> SUFFICES ASSUME NEW b \in Seq(Bytes), IsHeader(b) PROVE Len(b) = HeaderSize
  OBVIOUS
<1>1. PICK p \in Packets : b = SubSeq(Frame(p), 1, HeaderSize)
  BY DEF IsHeader
<1>2. Whole(p) \in Nat /\ HeaderSize \in Nat \ {0} /\ Whole(p) >= HeaderSize
  BY FramingAssumption, WholeType
<1>3. \A i \in 1..HeaderSize : Frame(p)[i] \in Bytes
  BY <1>2 DEF Frame, Whole, Bytes
<1>4. Len(SubSeq(Frame(p), 1, HeaderSize)) = HeaderSize
  BY <1>2, <1>3, SubSeqProperties
<1>5. QED
  BY <1>1, <1>4

(* A read of a packet that the stream begins with takes its frame. *)
LEMMA ReadInFrame ==
  ASSUME SInv, Receiving, NEW b \in Seq(Bytes), NEW w \in Seq(Bytes), b \o w = Stream,
         Len(b) > 0
  PROVE  \E q \in Packets : \A m \in 1..Len(b) : m <= Whole(q) => b[m] = <<q, m>>
<1>1. /\ Len(b) \in Nat /\ Len(w) \in Nat /\ Len(Stream) = Len(b) + Len(w)
      /\ \A m \in 1..Len(b) : Stream[m] = b[m]
  <2>1. /\ Len(b \o w) = Len(b) + Len(w)
        /\ \A m \in 1..(Len(b) + Len(w)) :
             (b \o w)[m] = IF m <= Len(b) THEN b[m] ELSE w[m - Len(b)]
    BY ConcatProperties
  <2>2. Len(b) \in Nat /\ Len(w) \in Nat
    BY LenProperties
  <2>3. QED
    BY <2>1, <2>2
<1> DEFINE q == accepted[Len(delivered) + 1]
<1>2. Len(delivered) < Len(accepted) /\ Stream[1] = <<q, 1>> /\ Framed(Stream, Successors)
  BY <1>1 DEF SInv, FramesInv
<1>3. q \in Packets
  <2>1. /\ Len(delivered) \in Nat /\ Len(accepted) \in Nat
        /\ \A i \in 1..Len(accepted) : accepted[i] \in Packets
    BY LenProperties, ElementOfSeq DEF SInv, StreamTypes
  <2>2. QED
    BY <1>2, <2>1
<1> HIDE DEF q
<1>4. ASSUME NEW m \in 1..Len(b), m <= Whole(q) PROVE b[m] = <<q, m>>
  <2>1. /\ 1 \in 1..Len(Stream) /\ m \in 1..Len(Stream) /\ m \in 1..Whole(q)
        /\ Stream[1][1] = q /\ Stream[1][2] = 1 /\ Stream[1][2] + m - 1 = m
    BY <1>1, <1>2, <1>3, <1>4, WholeType
  <2>2. Stream[m] = <<q, m>>
    BY <1>2, <2>1 DEF Framed
  <2>3. QED
    BY <1>1, <2>2
<1>5. QED
  BY <1>3, <1>4

(* A frame, byte by byte; and its first bytes. *)
LEMMA FrameBytes ==
  ASSUME NEW p \in Packets
  PROVE  /\ Frame(p) \in Seq(Bytes) /\ Len(Frame(p)) = Whole(p)
         /\ \A m \in 1..Whole(p) : Frame(p)[m] = <<p, m>>
<1>1. Whole(p) \in Nat /\ Frame(p) = [i \in 1..Whole(p) |-> <<p, i>>]
  BY WholeType DEF Frame, Whole
<1>2. \A i \in 1..Whole(p) : <<p, i>> \in Bytes
  BY <1>1 DEF Bytes
<1>3. Frame(p) \in Seq(Bytes)
  BY <1>1, <1>2
<1>4. \A m \in 1..Whole(p) : Frame(p)[m] = <<p, m>>
  BY <1>1, Zenon
<1>5. QED
  BY <1>3, <1>4, FrameIsWhole

LEMMA FirstBytes ==
  ASSUME NEW b \in Seq(Bytes), Len(b) >= HeaderSize
  PROVE  /\ SubSeq(b, 1, HeaderSize) \in Seq(Bytes)
         /\ Len(SubSeq(b, 1, HeaderSize)) = HeaderSize
         /\ \A m \in 1..HeaderSize : SubSeq(b, 1, HeaderSize)[m] = b[m]
<1>1. HeaderSize \in Nat \ {0} /\ Len(b) \in Nat
  BY FramingAssumption, LenProperties
<1>2. \A m \in 1..HeaderSize : b[m] \in Bytes
  <2>1. \A m \in 1..Len(b) : b[m] \in Bytes
    BY ElementOfSeq
  <2>2. QED
    BY <1>1, <2>1
<1> DEFINE h == SubSeq(b, 1, HeaderSize)
<1>3. /\ h \in Seq(Bytes) /\ Len(h) = IF 1 <= HeaderSize THEN HeaderSize - 1 + 1 ELSE 0
      /\ \A m \in 1..(HeaderSize - 1 + 1) : h[m] = b[1 + m - 1]
  <2>1. 1 \in Int /\ HeaderSize \in Int
    BY <1>1
  <2>2. QED
    BY <1>2, <2>1, SubSeqProperties
<1> HIDE DEF h
<1>4. /\ HeaderSize - 1 + 1 = HeaderSize /\ 1 <= HeaderSize
      /\ \A m \in 1..HeaderSize : 1 + m - 1 = m
  BY <1>1
<1>5. QED
  BY <1>3, <1>4 DEF h

(* Bytes as long as a header that a frame lies around are its header. *)
LEMMA HeaderInFrame ==
  ASSUME NEW b \in Seq(Bytes), Len(b) = HeaderSize, NEW q \in Packets,
         \A m \in 1..Len(b) : m <= Whole(q) => b[m] = <<q, m>>
  PROVE  IsHeader(b)
<1>1. HeaderSize \in Nat \ {0} /\ Whole(q) \in Nat /\ Whole(q) >= HeaderSize
  BY FramingAssumption, WholeType
<1> DEFINE h == SubSeq(Frame(q), 1, HeaderSize)
<1>2. /\ h \in Seq(Bytes) /\ Len(h) = HeaderSize
      /\ \A m \in 1..HeaderSize : h[m] = Frame(q)[m]
  BY <1>1, FrameBytes, FirstBytes
<1> HIDE DEF h
<1>3. ASSUME NEW m \in 1..Len(b) PROVE b[m] = h[m]
  <2>1. m \in 1..HeaderSize /\ m \in 1..Whole(q) /\ m <= Whole(q)
    BY <1>1
  <2>2. b[m] = <<q, m>> /\ Frame(q)[m] = <<q, m>> /\ h[m] = Frame(q)[m]
    BY <1>2, <2>1, FrameBytes
  <2>3. QED
    BY <2>2
<1>4. b = h
  BY <1>2, <1>3, SeqEqual
<1>5. QED
  BY <1>4 DEF h, IsHeader

(* Bytes that are as long as the frame whose header they begin with, and   *)
(* that a frame lies around, are that frame.                               *)
LEMMA WholeInFrame ==
  ASSUME NEW b \in Seq(Bytes), NEW p \in Packets, Len(b) = Whole(p),
         SubSeq(b, 1, HeaderSize) = SubSeq(Frame(p), 1, HeaderSize),
         NEW q \in Packets, \A m \in 1..Len(b) : m <= Whole(q) => b[m] = <<q, m>>
  PROVE  b = Frame(p)
<1>1. /\ HeaderSize \in Nat \ {0} /\ Whole(p) \in Nat /\ Whole(p) >= HeaderSize
      /\ Whole(q) \in Nat /\ Whole(q) >= HeaderSize
      /\ 1 \in 1..HeaderSize /\ 1 \in 1..Whole(p) /\ 1 <= Whole(q)
  BY FramingAssumption, WholeType
<1>2. q = p
  <2>1. b[1] = Frame(p)[1]
    <3>1. SubSeq(b, 1, HeaderSize)[1] = b[1]
      BY <1>1, FirstBytes
    <3>2. SubSeq(Frame(p), 1, HeaderSize)[1] = Frame(p)[1]
      BY <1>1, FrameBytes, FirstBytes
    <3>3. QED
      BY <3>1, <3>2, Zenon
  <2>2. b[1] = <<q, 1>> /\ Frame(p)[1] = <<p, 1>>
    BY <1>1, FrameBytes
  <2>3. <<q, 1>> = <<p, 1>>
    BY <2>1, <2>2, Zenon
  <2>4. QED
    BY <2>3
<1>3. ASSUME NEW m \in 1..Len(b) PROVE b[m] = Frame(p)[m]
  <2>1. m \in 1..Whole(p) /\ m <= Whole(p)
    BY <1>1
  <2>2. b[m] = <<p, m>> /\ Frame(p)[m] = <<p, m>>
    BY <1>2, <2>1, FrameBytes
  <2>3. QED
    BY <2>2
<1>4. QED
  BY <1>3, FrameBytes, SeqEqual

(* A read stays in step and keeps the frames; and if it completes a packet, *)
(* that is the next one accepted.                                           *)
LEMMA ReceiveSInv ==
  ASSUME ChannelInv, StreamTypes', ReceiveHeader \/ ReceivePayload
  PROVE  /\ SInv' /\ HeaderRead' /\ ReceiverInStep' /\ accepted' = accepted
         /\ \/ delivered' = delivered
            \/ /\ Len(delivered) < Len(accepted)
               /\ delivered' = Append(delivered, accepted[Len(delivered) + 1])
<1>1. /\ UNCHANGED sendVars /\ UNCHANGED sockVars /\ accepted' = accepted /\ Receiving
      /\ UNCHANGED <<spc, packet, left, result, written, fd, reset, torn>>
      /\ StreamTypes /\ SInv /\ HeaderSize \in Nat \ {0}
  BY FramingAssumption
     DEF ReceiveHeader, ReceivePayload, sendVars, sockVars, offWire, ChannelInv, SInv, Receiving
<1>2. ASSUME Stream' = Stream, delivered' = delivered PROVE SInv'
  BY <1>1, <1>2, StreamStays DEF SInv, AcceptedOnce
<1>3. CASE ReceiveHeader
  <2>1. PICK n \in 1..(HeaderSize - Len(got)) :
          /\ TakeBytes(n)
          /\ got' = got \o SubSeq(wire, 1, n)
          /\ rpc' = CASE Len(got') < HeaderSize -> "header"
                      [] IsHeader(got') -> "payload"
                      [] OTHER -> "garbled"
    BY <1>3 DEF ReceiveHeader
  <2>2. Len(got) \in Nat /\ n \in Nat /\ Len(got) + n <= HeaderSize
    BY <1>1, LenProperties DEF StreamTypes
  <2>3. /\ Stream' = Stream /\ got' \in Seq(Bytes) /\ Len(got') = Len(got) + n
    BY <1>1, <2>1, <2>2, BytesTaken DEF Stream
  <2>4. delivered' = delivered
    BY <1>3 DEF ReceiveHeader
  <2> DEFINE short == Len(got') < HeaderSize
             known == IsHeader(got')
  <2>5. known => Len(got') = HeaderSize
    BY <2>3, HeaderIsWhole
  <2>6. ASSUME ~short PROVE known
    <3>1. Len(got') = HeaderSize /\ Len(got') > 0
      BY <1>1, <2>2, <2>3, <2>6
    <3>2. got' \o wire' = Stream /\ wire' \in Seq(Bytes)
      BY <2>3 DEF Stream, StreamTypes
    <3>3. PICK q \in Packets : \A m \in 1..Len(got') : m <= Whole(q) => got'[m] = <<q, m>>
      BY <1>1, <2>3, <3>1, <3>2, ReadInFrame
    <3>4. QED
      BY <2>3, <3>1, <3>3, HeaderInFrame
  <2>7. rpc' = CASE short -> "header" [] known -> "payload" [] OTHER -> "garbled"
    BY <2>1
  <2>8. short <=> ~known
    BY <1>1, <2>3, <2>5, <2>6
  <2> HIDE DEF short, known
  <2>9. ASSUME short PROVE rpc' = "header"
    BY <2>7, <2>8, <2>9, ZenonT(30)
  <2>10. ASSUME known PROVE rpc' = "payload"
    BY <2>7, <2>8, <2>10, ZenonT(30)
  <2>11. ReceiverInStep'
    BY <2>8, <2>9, <2>10 DEF ReceiverInStep
  <2>12. HeaderRead'
    <3> SUFFICES ASSUME rpc' = "payload"
                 PROVE  Len(got') >= HeaderSize /\ IsHeader(SubSeq(got', 1, HeaderSize))
      BY DEF HeaderRead, IsHeader, Frame
    <3>1. known /\ Len(got') = HeaderSize
      BY <2>5, <2>8, <2>9
    <3>2. SubSeq(got', 1, HeaderSize) = got'
      BY <2>3, <3>1, SubSeqFull
    <3>3. QED
      BY <1>1, <3>1, <3>2 DEF known, IsHeader
  <2>13. QED
    BY <1>1, <1>2, <2>3, <2>4, <2>11, <2>12
<1>4. CASE ReceivePayload
  <2> DEFINE p == HeaderOf(SubSeq(got, 1, HeaderSize))
             missing == Len(Frame(p)) - Len(got)
  <2>1. PICK n \in 1..missing :
          LET b == got \o SubSeq(wire, 1, n)
          IN  /\ TakeBytes(n)
              /\ \/ n < missing /\ got' = b /\ UNCHANGED <<rpc, delivered>>
                 \/ /\ n = missing
                    /\ got' = <<>>
                    /\ \/ b = Frame(p) /\ rpc' = "header"
                          /\ delivered' = Append(delivered, p)
                       \/ b # Frame(p) /\ rpc' = "garbled" /\ UNCHANGED delivered
    BY <1>4 DEF ReceivePayload
  <2>2. /\ rpc = "payload" /\ IsHeader(SubSeq(got, 1, HeaderSize)) /\ Len(got) >= HeaderSize
        /\ Len(got) \in Nat /\ n \in Nat
    BY <1>1, <1>4, LenProperties DEF ReceivePayload, ChannelInv, HeaderRead, StreamTypes
  <2>3. p \in Packets
    BY <2>2 DEF IsHeader, HeaderOf
  <2> HIDE DEF p, missing
  <2> DEFINE b == got \o SubSeq(wire, 1, n)
  <2>4. /\ wire' \in Seq(Bytes) /\ b \in Seq(Bytes) /\ b \o wire' = Stream
        /\ Len(b) = Len(got) + n /\ TakeBytes(n)
    BY <1>1, <2>1, <2>2, BytesTaken
  <2>5. SubSeq(b, 1, HeaderSize) = SubSeq(got, 1, HeaderSize)
    <3>1. \A i \in 1..Len(wire) : wire[i] \in Bytes
      BY <1>1, ElementOfSeq DEF StreamTypes
    <3>2. n <= Len(wire) /\ Len(wire) \in Nat
      BY <1>1, <2>4, LenProperties DEF TakeBytes, StreamTypes
    <3>3. \A i \in 1..n : wire[i] \in Bytes
      BY <2>2, <3>1, <3>2
    <3>4. SubSeq(wire, 1, n) \in Seq(Bytes)
      BY <2>2, <3>3, SubSeqProperties
    <3>5. got \in Seq(Bytes) /\ 1 \in 1..Len(got) /\ HeaderSize \in 1..Len(got)
      BY <1>1, <2>2 DEF StreamTypes
    <3>6. QED
      BY <3>4, <3>5, SubSeqOfConcat1
  <2>6. CASE got' = b /\ UNCHANGED <<rpc, delivered>>
    <3>1. Stream' = Stream
      BY <2>4, <2>6 DEF Stream
    <3>2. SubSeq(got', 1, HeaderSize) = SubSeq(got, 1, HeaderSize)
      BY <2>6, <2>5
    <3>3. HeaderRead'
      <4>1. Len(got') >= HeaderSize
        BY <1>1, <2>2, <2>4, <2>6
      <4>2. IsHeader(SubSeq(got', 1, HeaderSize))
        BY <2>2, <3>2
      <4>3. IsHeader(SubSeq(got, 1, HeaderSize))'
        BY <1>1, <4>2 DEF IsHeader, Frame
      <4>4. QED
        BY <4>1, <4>3 DEF HeaderRead
    <3>4. QED
      BY <1>1, <1>2, <2>2, <2>6, <3>1, <3>3 DEF ReceiverInStep
  <2>7. CASE got' = <<>> /\ b = Frame(p) /\ rpc' = "header" /\ delivered' = Append(delivered, p)
    <3>1. SInv' /\ Len(delivered) < Len(accepted) /\ p = accepted[Len(delivered) + 1]
      BY <1>1, <2>3, <2>4, <2>7, DeliverySInv
    <3>2. HeaderRead'
      BY <2>7 DEF HeaderRead
    <3>3. QED
      BY <1>1, <2>7, <3>1, <3>2 DEF ReceiverInStep
  <2>8. ASSUME n = missing, b # Frame(p) PROVE FALSE
    <3>1. /\ Len(b) = Whole(p) /\ Len(b) > 0
          /\ SubSeq(got, 1, HeaderSize) = SubSeq(Frame(p), 1, HeaderSize)
      BY <1>1, <2>2, <2>3, <2>4, <2>8, FrameIsWhole, WholeType
         DEF missing, p, IsHeader, HeaderOf
    <3>2. SubSeq(b, 1, HeaderSize) = SubSeq(got, 1, HeaderSize)
      BY <2>5
    <3>3. PICK q \in Packets : \A m \in 1..Len(b) : m <= Whole(q) => b[m] = <<q, m>>
      BY <1>1, <2>4, <3>1, ReadInFrame
    <3>4. b = Frame(p)
      BY <2>3, <2>4, <3>1, <3>2, <3>3, WholeInFrame
    <3>5. QED
      BY <2>8, <3>4
  <2>9. QED
    BY <2>1, <2>6, <2>7, <2>8
<1>5. QED
  BY <1>3, <1>4

-----------------------------------------------------------------------------
(* Each action keeps the types of the stream. *)
LEMMA TypesStep ==
  ASSUME ChannelInv, [Next]_vars
  PROVE  StreamTypes'
<1>1. /\ StreamTypes /\ Types
      /\ \A s \in Senders : spc[s] # "idle" => packet[s] \in Packets
  BY DEF ChannelInv, SInv, IInv, LockInv
<1>2. ASSUME UNCHANGED <<wire, got, accepted, delivered>>, fd' \in {"open", "closed", "foreign"}
      PROVE  (Receiving' => Receiving) => StreamTypes'
  BY <1>1, <1>2 DEF StreamTypes
<1>3. CASE \E s \in Senders, p \in Packets : Send(s, p)
  BY <1>1, <1>2, <1>3 DEF Send, sockVars, streamVars, recvVars, StreamTypes, Receiving
<1>4. ASSUME NEW s \in Senders, SelectWritable(s) \/ SelectFails(s) PROVE StreamTypes'
  BY <1>1, <1>2, <1>4 DEF SelectWritable, SelectFails, sockVars, streamVars, recvVars,
     StreamTypes, Receiving
<1>5. ASSUME NEW p \in Packets, NEW n \in Nat, PutBytes(p, n) PROVE wire' \in Seq(Bytes)
  <2>1. CASE fd = "foreign"
    BY <1>1, <1>5, <2>1 DEF PutBytes, StreamTypes
  <2>2. CASE fd # "foreign" /\ torn
    BY <1>1, <1>5, <2>2 DEF PutBytes, StreamTypes
  <2>3. CASE fd # "foreign" /\ ~torn
    <3> DEFINE new == [i \in 1..n |-> <<p, written[p] + i>>]
    <3>1. new \in Seq(Bytes)
      <4>1. written[p] \in Nat
        BY <1>1 DEF Types
      <4>2. new \in [1..n -> Bytes]
        BY <4>1 DEF Bytes
      <4>3. QED
        BY <4>2
    <3>2. wire' = wire \o new
      BY <1>5, <2>3 DEF PutBytes
    <3> HIDE DEF new
    <3>3. QED
      BY <1>1, <3>1, <3>2, ConcatProperties DEF StreamTypes
  <2>4. QED
    BY <2>1, <2>2, <2>3
<1>6. ASSUME NEW s \in Senders, SendHeader(s) PROVE StreamTypes'
  <2>1. /\ packet[s] \in Packets /\ fd' = fd /\ got' = got /\ UNCHANGED <<delivered, rpc>>
        /\ HeaderSize \in Nat
    BY <1>1, <1>6, FramingAssumption DEF SendHeader, sockVars, recvVars
  <2>2. CASE /\ \E n \in 1..HeaderSize : PutBytes(packet[s], n)
             /\ accepted' = Append(accepted, packet[s])
    <3>1. accepted' \in Seq(Packets)
      BY <1>1, <2>1, <2>2, AppendProperties DEF StreamTypes
    <3>2. wire' \in Seq(Bytes)
      BY <1>5, <2>1, <2>2
    <3>3. QED
      BY <1>1, <2>1, <3>1, <3>2 DEF StreamTypes, Receiving
  <2>3. CASE UNCHANGED <<streamVars, written, accepted>>
    BY <1>1, <2>1, <2>3 DEF streamVars, StreamTypes, Receiving
  <2>4. QED
    BY <1>6, <2>2, <2>3 DEF SendHeader
<1>7. ASSUME NEW s \in Senders, SendPayload(s) PROVE StreamTypes'
  <2>1. /\ packet[s] \in Packets /\ fd' = fd /\ got' = got /\ UNCHANGED <<delivered, rpc>>
        /\ left[s] \in Nat /\ accepted' = accepted
    BY <1>1, <1>7 DEF SendPayload, sockVars, recvVars, Types
  <2>2. CASE \E n \in 1..left[s] : PutBytes(packet[s], n)
    <3>1. wire' \in Seq(Bytes)
      BY <1>5, <2>1, <2>2
    <3>2. QED
      BY <1>1, <2>1, <3>1 DEF StreamTypes, Receiving
  <2>3. CASE UNCHANGED wire
    BY <1>1, <2>1, <2>3 DEF StreamTypes, Receiving
  <2>4. QED
    BY <1>7, <2>2, <2>3 DEF SendPayload
<1>8. CASE Break \/ CloseSocket \/ Reuse \/ Invalidate
  BY <1>1, <1>8 DEF Break, CloseSocket, Reuse, Invalidate, streamVars, recvVars, StreamTypes,
     Receiving
<1>9. CASE ReceiveHeader
  <2>1. PICK n \in 1..(HeaderSize - Len(got)) :
          TakeBytes(n) /\ got' = got \o SubSeq(wire, 1, n)
    BY <1>9 DEF ReceiveHeader
  <2>2. n \in Nat
    BY <1>1, FramingAssumption, LenProperties DEF StreamTypes
  <2>3. wire' \in Seq(Bytes) /\ got' \in Seq(Bytes)
    BY <1>1, <2>1, <2>2, BytesTaken
  <2>4. QED
    BY <1>1, <1>9, <2>3 DEF ReceiveHeader, sockVars, StreamTypes, Receiving
<1>10. CASE ReceivePayload
  <2> DEFINE p == HeaderOf(SubSeq(got, 1, HeaderSize))
             missing == Len(Frame(p)) - Len(got)
  <2>1. PICK n \in 1..missing :
          LET b == got \o SubSeq(wire, 1, n)
          IN  /\ TakeBytes(n)
              /\ \/ got' = b /\ UNCHANGED delivered
                 \/ got' = <<>> /\ delivered' = Append(delivered, p)
                 \/ got' = <<>> /\ UNCHANGED delivered
    BY <1>10 DEF ReceivePayload
  <2>2. IsHeader(SubSeq(got, 1, HeaderSize))
    BY <1>10 DEF ReceivePayload, ChannelInv, HeaderRead
  <2>3. p \in Packets
    BY <2>2 DEF IsHeader, HeaderOf
  <2>4. n \in Nat
    <3>1. Len(Frame(p)) \in Nat /\ Len(got) \in Nat
      BY <1>1, <2>3, FrameIsWhole, WholeType, LenProperties DEF StreamTypes
    <3>2. QED
      BY <3>1
  <2> HIDE DEF p, missing
  <2>5. wire' \in Seq(Bytes) /\ got \o SubSeq(wire, 1, n) \in Seq(Bytes)
    BY <1>1, <2>1, <2>4, BytesTaken
  <2>6. got' \in Seq(Bytes)
    BY <2>1, <2>5, EmptySeq
  <2>7. delivered' \in Seq(Packets) /\ delivered' \in Seq(Packets \cup {Garbage})
    <3>1. delivered \in Seq(Packets) /\ delivered \in Seq(Packets \cup {Garbage})
      BY <1>1, <1>10 DEF StreamTypes, Receiving, ReceivePayload
    <3>2. Append(delivered, p) \in Seq(Packets)
      BY <2>3, <3>1, AppendProperties
    <3>3. p \in Packets \cup {Garbage}
      BY <2>3
    <3>4. Append(delivered, p) \in Seq(Packets \cup {Garbage})
      BY <3>1, <3>3, AppendProperties
    <3>5. QED
      BY <2>1, <3>1, <3>2, <3>4
  <2>8. QED
    BY <1>1, <1>10, <2>5, <2>6, <2>7 DEF ReceivePayload, sockVars, StreamTypes
<1>11. CASE ReceiveEnds
  BY <1>1, <1>11 DEF ReceiveEnds, sockVars, streamVars, StreamTypes, Receiving
<1>12. CASE UNCHANGED vars
  BY <1>1, <1>2, <1>12 DEF vars, sockVars, streamVars, recvVars, StreamTypes, Receiving
<1>13. CASE ReceiveAcross
  <2>1. delivered \in Seq(Packets \cup {Garbage})
        /\ Append(delivered, Garbage) \in Seq(Packets \cup {Garbage})
    <3>1. delivered \in Seq(Packets \cup {Garbage}) /\ Garbage \in Packets \cup {Garbage}
      BY <1>1 DEF StreamTypes
    <3>2. QED
      BY <3>1, AppendProperties
  <2>2. QED
    BY <1>1, <1>13, <2>1 DEF ReceiveAcross, sockVars, StreamTypes, Receiving
<1>14. QED
  BY <1>3, <1>4, <1>6, <1>7, <1>8, <1>9, <1>10, <1>11, <1>12, <1>13 DEF Next, Sender, Receiver

(* A frame once torn stays torn, and bytes go behind it only then.         *)
LEMMA TearStep ==
  ASSUME Types, TearInv, [Next]_vars
  PROVE  TearInv' /\ (torn => torn')
<1>1. ASSUME NEW p, NEW n \in Nat, PutBytes(p, n)
      PROVE  behind' \in Nat /\ (behind' > 0 => torn)
  BY <1>1 DEF PutBytes, TearInv
<1>2. ASSUME NEW s \in Senders, SendHeader(s) PROVE TearInv' /\ (torn => torn')
  <2>1. CASE \E n \in 1..HeaderSize :
               PutBytes(packet[s], n) /\ torn' = (torn \/ (n < HeaderSize /\ fd = "open"))
    BY <1>1, <2>1, FramingAssumption DEF TearInv
  <2>2. CASE UNCHANGED streamVars
    BY <2>2 DEF streamVars, TearInv
  <2>3. QED
    BY <1>2, <2>1, <2>2 DEF SendHeader
<1>3. ASSUME NEW s \in Senders, SendPayload(s) PROVE TearInv' /\ (torn => torn')
  <2>1. left[s] \in Nat
    BY DEF Types
  <2>2. CASE (\E n \in 1..left[s] : PutBytes(packet[s], n)) /\ UNCHANGED torn
    BY <1>1, <2>1, <2>2 DEF TearInv
  <2>3. CASE torn' = (torn \/ (fd = "open" /\ ~reset)) /\ behind' = behind
    BY <2>3 DEF TearInv
  <2>4. QED
    BY <1>3, <2>2, <2>3 DEF SendPayload
<1>4. ASSUME UNCHANGED <<torn, behind>> PROVE TearInv' /\ (torn => torn')
  BY <1>4 DEF TearInv
<1>5. CASE Break \/ CloseSocket \/ Reuse \/ Invalidate \/ Receiver \/ ReceiveEnds \/ UNCHANGED vars
  BY <1>4, <1>5 DEF Break, CloseSocket, Reuse, Invalidate, Receiver, ReceiveHeader,
     ReceivePayload, ReceiveEnds, vars, streamVars, offWire
<1>6. CASE ReceiveAcross
  BY <1>6 DEF ReceiveAcross, TearInv
<1>7. ASSUME NEW s \in Senders, NEW p \in Packets, Send(s, p) PROVE UNCHANGED <<torn, behind>>
  BY <1>7 DEF Send, streamVars
<1>8. ASSUME NEW s \in Senders, SelectWritable(s) \/ SelectFails(s)
      PROVE  UNCHANGED <<torn, behind>>
  BY <1>8 DEF SelectWritable, SelectFails, streamVars
<1>9. QED
  BY <1>2, <1>3, <1>4, <1>5, <1>6, <1>7, <1>8 DEF Next, Sender

(* Every step maps to a step of the channel or a stutter.                  *)
LEMMA NextChannel ==
  ASSUME ChannelInv, [Next]_vars
  PROVE  ChannelInv' /\ [Channel!Next]_<<accepted, torn, delivered>>
<1>1. IInv'
  BY NextIInv DEF ChannelInv
<1>2. StreamTypes' /\ TearInv' /\ (torn => torn') /\ torn \in BOOLEAN /\ torn' \in BOOLEAN
  BY TypesStep, TearStep DEF ChannelInv, IInv, TearInv
<1>3. /\ StreamTypes /\ Types /\ SInv /\ HeaderRead /\ AcceptedOnce
      /\ \A s \in Senders : spc[s] # "idle" => packet[s] \in Packets /\ sendLock = s
      /\ \A s \in Senders : spc[s] = "idle" => packet[s] = NoPacket
  BY DEF ChannelInv, SInv, IInv, LockInv
<1>4. ASSUME UNCHANGED <<got, rpc>> PROVE HeaderRead'
  BY <1>3, <1>4 DEF HeaderRead, IsHeader, Frame
<1>5. ASSUME UNCHANGED <<wire, got, rpc, accepted, delivered, written, torn>>,
             fd' = "open" /\ ~reset' => fd = "open" /\ ~reset,
             \A s \in Senders : spc'[s] = "payload" <=> spc[s] = "payload",
             \A s \in Senders : spc[s] = "payload" => packet'[s] = packet[s] /\ left'[s] = left[s],
             \A p \in Packets : result[p] # "none" => result'[p] # "none",
             \A s \in Senders : spc'[s] = "header" => Length[packet'[s]] > 0
      PROVE  SInv' /\ HeaderRead' /\ UNCHANGED <<accepted, torn, delivered>>
  <2>1. Stream' = Stream /\ (Receiving' => Receiving)
    BY <1>5 DEF Stream, Receiving
  <2>2. SInv'
    BY <1>2, <1>3, <1>5, <2>1, StreamStays
  <2>3. QED
    BY <1>4, <1>5, <2>2
<1>6. ASSUME NEW s \in Senders, NEW p \in Packets, Send(s, p)
      PROVE  SInv' /\ HeaderRead' /\ UNCHANGED <<accepted, torn, delivered>>
  <2>1. /\ spc[s] = "idle" /\ result[p] = "none"
        /\ UNCHANGED <<wire, got, rpc, accepted, delivered, written, left, fd, reset, torn>>
    BY <1>6 DEF Send, Fresh, sockVars, streamVars, recvVars
  <2>2. CASE /\ packet' = [packet EXCEPT ![s] = p] /\ spc' = [spc EXCEPT ![s] = "select"]
             /\ UNCHANGED result
    BY <1>3, <1>5, <2>1, <2>2 DEF Types, AcceptedOnce
  <2>3. CASE result' = [result EXCEPT ![p] = "notConnected"] /\ UNCHANGED <<packet, spc>>
    BY <1>3, <1>5, <2>1, <2>3 DEF Types, AcceptedOnce
  <2>4. QED
    BY <1>6, <2>2, <2>3 DEF Send
<1>7. ASSUME NEW s \in Senders, SelectWritable(s) \/ SelectFails(s)
      PROVE  SInv' /\ HeaderRead' /\ UNCHANGED <<accepted, torn, delivered>>
  <2>1. /\ spc[s] = "select" /\ packet[s] \in Packets
        /\ UNCHANGED <<wire, got, rpc, accepted, delivered, written, fd, reset, torn>>
    BY <1>3, <1>7 DEF SelectWritable, SelectFails, sockVars, streamVars, recvVars
  <2>2. CASE \E how \in {"nothing", "timeout", "failed"} : Answer(s, how)
    <3>1. PICK how \in {"nothing", "timeout", "failed"} : Answer(s, how)
      BY <2>2
    <3>2. /\ spc' = [spc EXCEPT ![s] = "idle"] /\ packet' = [packet EXCEPT ![s] = NoPacket]
          /\ left' = [left EXCEPT ![s] = 0] /\ result' = [result EXCEPT ![packet[s]] = how]
      BY <3>1 DEF Answer
    <3>3. QED
      BY <1>3, <1>5, <2>1, <3>2 DEF Types, AcceptedOnce
  <2>3. CASE /\ Length[packet[s]] > 0 /\ left' = [left EXCEPT ![s] = Length[packet[s]]]
             /\ spc' = [spc EXCEPT ![s] = "header"] /\ UNCHANGED <<sendLock, packet, result>>
    BY <1>3, <1>5, <2>1, <2>3 DEF Types, AcceptedOnce
  <2>4. QED
    BY <1>7, <2>2, <2>3 DEF SelectWritable, SelectFails
<1>8. ASSUME NEW s \in Senders, SendHeader(s)
      PROVE  /\ SInv' /\ HeaderRead'
             /\ \/ UNCHANGED <<accepted, torn, delivered>>
                \/ accepted' = Append(accepted, packet[s]) /\ packet[s] \in Packets
                   /\ delivered' = delivered
  <2>1. UNCHANGED <<got, rpc, delivered>> /\ packet[s] \in Packets
    BY <1>3, <1>8 DEF SendHeader, recvVars
  <2>2. SInv'
    BY <1>2, <1>8, HeaderSInv
  <2>3. UNCHANGED <<accepted, torn>> \/ accepted' = Append(accepted, packet[s])
    BY <1>8 DEF SendHeader, streamVars
  <2>4. QED
    BY <1>4, <2>1, <2>2, <2>3
<1>9. ASSUME NEW s \in Senders, SendPayload(s)
      PROVE  SInv' /\ HeaderRead' /\ UNCHANGED <<accepted, delivered>>
  <2>1. UNCHANGED <<got, rpc, accepted, delivered>>
    BY <1>9 DEF SendPayload, recvVars
  <2>2. QED
    BY <1>2, <1>4, <1>9, <2>1, PayloadSInv
<1>10. CASE Break \/ CloseSocket \/ Reuse \/ Invalidate
  <2>1. /\ UNCHANGED <<wire, got, rpc, accepted, delivered, written, spc, packet, left, result>>
        /\ torn' = torn /\ (fd' = "open" /\ ~reset' => fd = "open" /\ ~reset)
    BY <1>10 DEF Break, CloseSocket, Reuse, Invalidate, sendVars, streamVars, recvVars
  <2>2. SInv' /\ HeaderRead' /\ UNCHANGED <<accepted, torn, delivered>>
    BY <1>3, <1>5, <2>1 DEF AcceptedOnce
  <2>3. QED
    BY <1>1, <1>2, <2>2 DEF ChannelInv
<1>11. CASE Receiver
  <2>1. /\ SInv' /\ HeaderRead' /\ accepted' = accepted
        /\ \/ delivered' = delivered
           \/ /\ Len(delivered) < Len(accepted)
              /\ delivered' = Append(delivered, accepted[Len(delivered) + 1])
    BY <1>2, <1>11, ReceiveSInv DEF Receiver
  <2>2. torn' = torn /\ Receiving
    BY <1>11 DEF Receiver, ReceiveHeader, ReceivePayload, Receiving, offWire
  <2>3. \A i \in 1..Len(delivered) : delivered[i] # Garbage
    BY <1>3, <2>2, ElementOfSeq, FramingAssumption DEF StreamTypes
  <2>4. QED
    BY <1>1, <1>2, <2>1, <2>2, <2>3 DEF ChannelInv, Channel!Next, Channel!Deliver
<1>12. CASE ReceiveEnds
  <2>1. /\ UNCHANGED <<wire, got, accepted, delivered, written, spc, packet, left, result>>
        /\ UNCHANGED <<fd, reset, torn>> /\ rpc' = "ended"
    BY <1>12 DEF ReceiveEnds, sendVars, sockVars, streamVars
  <2>2. ~Receiving' /\ HeaderRead'
    BY <2>1 DEF Receiving, HeaderRead
  <2>3. SInv'
    BY <1>2, <1>3, <2>1, <2>2 DEF SInv, AcceptedOnce, FramesInv, LastInv
  <2>4. QED
    BY <1>1, <1>2, <2>1, <2>2, <2>3 DEF ChannelInv
<1>13. CASE UNCHANGED vars
  <2>1. /\ UNCHANGED <<wire, got, rpc, accepted, delivered, written, spc, packet, left, result>>
        /\ UNCHANGED <<fd, reset, torn>>
    BY <1>13 DEF vars, sendVars, sockVars, streamVars, recvVars
  <2>2. SInv' /\ HeaderRead' /\ UNCHANGED <<accepted, torn, delivered>>
    BY <1>3, <1>5, <2>1 DEF AcceptedOnce
  <2>3. QED
    BY <1>1, <1>2, <2>2 DEF ChannelInv
<1>14. ASSUME NEW s \in Senders, Sender(s)
       PROVE  ChannelInv' /\ [Channel!Next]_<<accepted, torn, delivered>>
  BY <1>1, <1>2, <1>7, <1>8, <1>9, <1>14
     DEF Sender, ChannelInv, Channel!Next, Channel!Accept, Channel!Tear
<1>15. CASE \E s \in Senders, p \in Packets : Send(s, p)
  BY <1>1, <1>2, <1>6, <1>15 DEF ChannelInv
<1>16. CASE ReceiveAcross
  <2>1. /\ UNCHANGED <<wire, got, accepted, written, spc, packet, left, result>>
        /\ UNCHANGED <<fd, reset, torn>> /\ rpc' = "garbled" /\ torn
        /\ delivered' = delivered \/ delivered' = Append(delivered, Garbage)
    BY <1>16 DEF ReceiveAcross, ChannelInv, TearInv, sendVars, sockVars
  <2>2. ~Receiving' /\ HeaderRead'
    BY <2>1 DEF Receiving, HeaderRead
  <2>3. SInv'
    BY <1>2, <1>3, <2>1, <2>2 DEF SInv, AcceptedOnce, FramesInv, LastInv
  <2>4. QED
    BY <1>1, <1>2, <2>1, <2>2, <2>3 DEF ChannelInv, Channel!Next, Channel!DeliverGarbage
<1>17. QED
  BY <1>10, <1>11, <1>12, <1>13, <1>14, <1>15, <1>16 DEF Next

(* Packets arrive whole, once, in the order in which their sends began,    *)
(* for any threads in BaseTcpSocket::Send, any lengths, and however system *)
(* calls divide the bytes, the length's among them (epBaseTcpSocket.cpp,   *)
(* epAsyncTcpClient.cpp), until a call leaves a frame torn; a connection   *)
(* that ends loses the last ones only.                                     *)
THEOREM FramingKeepsChannel == Spec => ImplementsChannel
<1>1. Init => ChannelInv /\ Channel!Init
  BY InitIInv, InitSInv DEF ChannelInv, Init, Channel!Init
<1>2. ChannelInv /\ [Next]_vars => ChannelInv' /\ [Channel!Next]_<<accepted, torn, delivered>>
  BY NextChannel
<1>3. QED
  BY <1>1, <1>2, PTL DEF Spec, ImplementsChannel, Channel!Spec

(* Each step keeps the receiver in step. *)
LEMMA NextInStep ==
  ASSUME ChannelInv, ReceiverInStep, [Next]_vars
  PROVE  ReceiverInStep'
<1>1. CASE Receiver
  BY <1>1, TypesStep, ReceiveSInv DEF Receiver
<1>2. CASE ReceiveEnds
  BY <1>2 DEF ReceiveEnds, ReceiverInStep
<1>3. ASSUME UNCHANGED recvVars PROVE ReceiverInStep'
  BY <1>3, TearStep DEF recvVars, ReceiverInStep, ChannelInv, IInv
<1>4. CASE UNCHANGED vars
  BY <1>3, <1>4 DEF vars
<1>5. CASE Break \/ CloseSocket \/ Reuse \/ Invalidate
  BY <1>3, <1>5 DEF Break, CloseSocket, Reuse, Invalidate
<1>6. ASSUME NEW s \in Senders, NEW p \in Packets, Send(s, p) PROVE ReceiverInStep'
  BY <1>3, <1>6 DEF Send
<1>7. ASSUME NEW s \in Senders, Sender(s) PROVE ReceiverInStep'
  BY <1>3, <1>7 DEF Sender, SelectWritable, SelectFails, SendHeader, SendPayload
<1>8. CASE ReceiveAcross
  BY <1>8 DEF ReceiveAcross, ReceiverInStep, ChannelInv, TearInv
<1>9. QED
  BY <1>1, <1>2, <1>4, <1>5, <1>6, <1>7, <1>8 DEF Next

(* The receiver takes bytes of one packet for another's length or content  *)
(* only behind a torn frame, whatever parts of frames the system calls of  *)
(* Send and receive move and wherever the connection ends                  *)
(* (epBaseTcpSocket.cpp, epBaseTcpClient.cpp, epAsyncTcpClient.cpp).       *)
THEOREM ReceiverKeepsStep == Spec => []ReceiverInStep
<1>1. Init => ChannelInv /\ ReceiverInStep
  BY InitIInv, InitSInv DEF ChannelInv, Init, ReceiverInStep
<1>2. ChannelInv /\ ReceiverInStep /\ [Next]_vars => ChannelInv' /\ ReceiverInStep'
  BY NextChannel, NextInStep
<1>3. QED
  BY <1>1, <1>2, PTL DEF Spec

(* What Send answers is true and the receiver keeps to the frames, for any *)
(* threads, lengths and system calls (epBaseTcpSocket.cpp).                *)
THEOREM FramingKeepsSound == Spec => []FramingIsSound
BY SentIsWhole, ReceiverKeepsStep, PTL DEF FramingIsSound

-----------------------------------------------------------------------------
(* The list of parsers (version 1.0).                                      *)

(* ParserList sees its state, its promises and the library through an      *)
(* instance here; they are the same.                                       *)
LEMMA SameCardinality == \A S : Parser!Cardinality(S) = Cardinality(S)
BY Zenon DEF Parser!Cardinality, Cardinality

(* The set of a sequence's elements is the same, *)
LEMMA SameSet == \A s : Parser!ToSet(s) = ToSet(s)
BY DEF Parser!ToSet, ToSet

(* the holders of the list are, *)
LEMMA SameHolders == Parser!Holders = Holders
BY DEF Parser!Holders, Holders, Parser!Using, Using, Parser!Releasing, Releasing

(* and a promise of the instance is the promise. *)
LEMMA SamePromises ==
  /\ Parser!ParsedInOrder => ParsedInOrder
  /\ Parser!ListOutlivesUsers => ListOutlivesUsers
<1>1. Parser!ListTypeOK <=> ListTypeOK
  BY SameCardinality DEF Parser!ListTypeOK, ListTypeOK, Parser!ParserPackets, ParserPackets
<1>2. Parser!OnTheWay = OnTheWay
  BY DEF Parser!OnTheWay, OnTheWay
<1>3. ASSUME NEW p, NEW way PROVE Parser!InOrder(p, way) <=> InOrder(p, way)
  BY DEF Parser!InOrder, InOrder
<1>4. Parser!ParsedInOrder => ParsedInOrder
  BY <1>1, <1>2, <1>3, SameSet DEF Parser!ParsedInOrder, ParsedInOrder
<1>5. Parser!ListOutlivesUsers => ListOutlivesUsers
  BY SameHolders, SameCardinality DEF Parser!ListOutlivesUsers, ListOutlivesUsers
<1>. QED
  BY <1>4, <1>5

-----------------------------------------------------------------------------

(* Where an actor can be. *)
Places == Parser!Using \cup Parser!Releasing \cup {"leave", "none", "idle", "kill", "killing", "done"}

ParserTypes ==
  /\ options \in [shared : BOOLEAN, limit : Nat] /\ options \in Options
  /\ list \in {"none", "alive", "freed"} /\ refs \in Nat
  /\ queue \in Seq(Parser!ParserPackets)
  /\ room \in BOOLEAN /\ stop \in BOOLEAN /\ missed \in BOOLEAN
  /\ ppc \in {"none", "loop", "suspend", "suspended", "parse"}
  /\ current \in Parser!ParserPackets \cup {Nobody}
  /\ ppc = "parse" => current \in Parser!ParserPackets
  /\ pc \in [Workers \cup {App, Server} -> Places]
  /\ target \in [{App, Server} -> Workers \cup {Nobody}]
  /\ sock \in [Workers -> BOOLEAN] /\ listed \in [Workers -> BOOLEAN]
  /\ received \in [Workers -> 0..MaxPackets]
  /\ parsed \in [Workers -> Seq(1..MaxPackets)]
  /\ dropped \subseteq Parser!ParserPackets
  /\ workers \subseteq Workers

(* Whose list it is, and where its connections and the server may be.      *)
PlaceInv ==
  /\ options.shared \/ \E w \in Workers : workers = {w}
  /\ \A w \in Workers : pc[w] \in Parser!Using \cup Parser!Releasing \cup {"leave", "none"}
  /\ ~options.shared => pc[Server] \notin Parser!Releasing

(* The list is there from the beginning, or from when its connection       *)
(* begins; and it is freed by its last holder.                             *)
ListInv ==
  /\ list = "none" =>
       /\ ~options.shared /\ refs = 0 /\ ppc = "none" /\ queue = <<>> /\ dropped = {}
       /\ \A w \in workers : pc[w] = "begin"
  /\ list # "none" /\ ~options.shared => \A w \in workers : pc[w] # "begin"
  /\ list = "freed" => Parser!Holders = {} /\ refs = 0 /\ ppc = "none" /\ queue = <<>>
  /\ ~options.shared =>
       \A w \in workers : pc[w] \in {"leave", "none"} \/ ~listed[w] => list = "freed"

(* Who clears a list has waited for its thread; so has the server before   *)
(* it gives a shared one back.                                             *)
ThreadInv ==
  /\ \A a \in workers \cup {Server} :
       /\ pc[a] = "clear" => ppc = "none"
       /\ pc[a] = "release" /\ (~options.shared \/ a = Server) => ppc = "none"
  /\ options.shared /\ pc[Server] \notin {"idle", "stop", "wake", "join"} => ppc = "none"
  /\ dropped # {} => ppc = "none"

(* Every holder is counted, until the last one destroys the list.          *)
HolderCount ==
  /\ refs # 0 => refs = Cardinality(Parser!Holders)
  /\ refs = 0 => \A a \in Parser!Holders :
       /\ pc[a] \in {"stop", "clear", "release"} /\ ppc = "none"
       /\ \A b \in Parser!Holders : b = a
       /\ pc[a] = "release" => queue = <<>>

(* The inductive invariant of the list. *)
ParserIInv == ParserTypes /\ PlaceInv /\ ListInv /\ ThreadInv /\ HolderCount

(* The packets.  What was parsed, p, and what is on its way, account for   *)
(* what was received, rec, except for what was dropped, drop.              *)
Accounted(p, way, rec, drop) ==
  /\ Parser!InOrder(p, way)
  /\ \A w \in Workers :
       ToSet(p[w]) \cup {q[2] : q \in {r \in ToSet(way) : r[1] = w}}
         = {i \in 1..rec[w] : <<w, i>> \notin drop}

(* Nothing is dropped that was not received. *)
PacketInv ==
  /\ Accounted(parsed, Parser!OnTheWay, received, dropped)
  /\ \A w \in Workers, i \in 1..MaxPackets : <<w, i>> \in dropped => i <= received[w]

-----------------------------------------------------------------------------
(* Each action keeps the types, *)
LEMMA ParserTypesStep == ParserIInv /\ [Parser!Next]_(Parser!vars) => ParserTypes'
<1> SUFFICES ASSUME ParserIInv, [Parser!Next]_(Parser!vars) PROVE ParserTypes'
  OBVIOUS
<1> USE ParserListAssumption DEF ParserIInv, ParserTypes, Places, Parser!Using,
      Parser!Releasing
<1>0. /\ App \in Workers \cup {App, Server} /\ Server \in Workers \cup {App, Server}
      /\ App # Server /\ App \notin Workers /\ Server \notin Workers
  OBVIOUS
<1>1. ASSUME Parser!Stopped, UNCHANGED parsed,
           UNCHANGED <<Parser!setting, list, refs, dropped, missed, pc, target, Parser!workerVars>>
      PROVE  ParserTypes'
  BY <1>1, <1>0 DEF Parser!Stopped, Parser!setting, Parser!listVars, Parser!threadVars,
     Parser!workerVars, Parser!Go
<1>2. ASSUME Parser!Empty, UNCHANGED parsed,
           UNCHANGED <<Parser!setting, list, refs, dropped, missed, pc, target, Parser!workerVars>>
      PROVE  ParserTypes'
  BY <1>2, <1>0 DEF Parser!Empty, Parser!setting, Parser!listVars, Parser!threadVars,
     Parser!workerVars, Parser!Go
<1>3. ASSUME Parser!Take, UNCHANGED parsed,
           UNCHANGED <<Parser!setting, list, refs, dropped, missed, pc, target, Parser!workerVars>>
      PROVE  ParserTypes'
  BY <1>3, <1>0 DEF Parser!Take, Parser!setting, Parser!listVars, Parser!threadVars,
     Parser!workerVars, Parser!Go
<1>4. ASSUME Parser!Suspend, UNCHANGED parsed,
           UNCHANGED <<Parser!setting, list, refs, dropped, missed, pc, target, Parser!workerVars>>
      PROVE  ParserTypes'
  BY <1>4, <1>0 DEF Parser!Suspend, Parser!setting, Parser!listVars, Parser!threadVars,
     Parser!workerVars, Parser!Go
<1>5. ASSUME Parser!ParsePacket,
           UNCHANGED <<Parser!setting, list, refs, dropped, missed, pc, target, Parser!workerVars>>
      PROVE  ParserTypes'
  <2>1. current[1] \in Workers /\ current[2] \in 1..MaxPackets
    BY <1>5 DEF Parser!ParsePacket, Parser!ParserPackets
  <2>2. parsed' \in [Workers -> Seq(1..MaxPackets)]
    BY <1>5, <2>1 DEF Parser!ParsePacket
  <2>. QED
    BY <1>5, <1>0, <2>2 DEF Parser!ParsePacket, Parser!setting, Parser!listVars,
       Parser!threadVars, Parser!workerVars, Parser!Go
<1>6. ASSUME NEW w \in workers, Parser!Begin(w), UNCHANGED <<Parser!setting, target>>
      PROVE  ParserTypes'
  BY <1>6, <1>0 DEF Parser!Begin, Parser!setting, Parser!listVars, Parser!threadVars,
     Parser!workerVars, Parser!Go
<1>7. ASSUME NEW w \in workers, Parser!Look(w), UNCHANGED <<Parser!setting, target>>
      PROVE  ParserTypes'
  BY <1>7, <1>0 DEF Parser!Look, Parser!Resume, Parser!setting, Parser!listVars,
     Parser!threadVars, Parser!workerVars, Parser!Go
<1>8. ASSUME NEW w \in workers, Parser!Count(w), UNCHANGED <<Parser!setting, target>>
      PROVE  ParserTypes'
  BY <1>8, <1>0 DEF Parser!Count, Parser!setting, Parser!listVars, Parser!threadVars,
     Parser!workerVars, Parser!Go
<1>9. ASSUME NEW w \in workers, Parser!WaitForListSizeDecrease(w),
           UNCHANGED <<Parser!setting, target>>
      PROVE  ParserTypes'
  BY <1>9, <1>0 DEF Parser!WaitForListSizeDecrease, Parser!setting, Parser!listVars,
     Parser!threadVars, Parser!workerVars, Parser!Go
<1>10. ASSUME NEW w \in workers, Parser!Leave(w), UNCHANGED <<Parser!setting, target>>
      PROVE  ParserTypes'
  BY <1>10, <1>0 DEF Parser!Leave, Parser!setting, Parser!listVars, Parser!threadVars,
     Parser!workerVars, Parser!Go
<1>11. ASSUME NEW w \in workers, Parser!End(w), UNCHANGED <<Parser!setting, target>>
      PROVE  ParserTypes'
  BY <1>11, <1>0 DEF Parser!End, Parser!setting, Parser!listVars, Parser!threadVars,
     Parser!workerVars, Parser!Go
<1>12. ASSUME NEW w \in workers, Parser!Receive(w), UNCHANGED <<Parser!setting, target>>
      PROVE  ParserTypes'
  <2>1. received' \in [Workers -> 0..MaxPackets] /\ <<w, received[w] + 1>> \in Parser!ParserPackets
    BY <1>12 DEF Parser!Receive, Parser!ParserPackets
  <2>2. queue' \in Seq(Parser!ParserPackets)
    BY <1>12, <2>1 DEF Parser!Receive
  <2>. QED
    BY <1>12, <1>0, <2>1, <2>2 DEF Parser!Receive, Parser!setting, Parser!listVars,
       Parser!threadVars, Parser!workerVars, Parser!Go
<1>13. ASSUME NEW a \in workers \cup {Server}, Parser!StopParse(a),
           UNCHANGED <<Parser!setting, target>>
      PROVE  ParserTypes'
  BY <1>13, <1>0, ZenonT(30) DEF Parser!StopParse, Parser!setting, Parser!listVars, Parser!threadVars,
     Parser!workerVars, Parser!Go
<1>14. ASSUME NEW a \in workers \cup {Server}, Parser!Wake(a),
           UNCHANGED <<Parser!setting, target>>
      PROVE  ParserTypes'
  BY <1>14, <1>0 DEF Parser!Wake, Parser!Resume, Parser!setting, Parser!listVars,
     Parser!threadVars, Parser!workerVars, Parser!Go
<1>15. ASSUME NEW a \in workers \cup {Server}, Parser!Join(a),
           UNCHANGED <<Parser!setting, target>>
      PROVE  ParserTypes'
  BY <1>15, <1>0 DEF Parser!Join, Parser!setting, Parser!listVars, Parser!threadVars,
     Parser!workerVars, Parser!Go
<1>16. ASSUME NEW a \in workers \cup {Server}, Parser!Clear(a),
           UNCHANGED <<Parser!setting, target>>
      PROVE  ParserTypes'
  <2>1. ToSet(queue) \subseteq Parser!ParserPackets
    BY DEF ToSet
  <2>2. queue' \in Seq(Parser!ParserPackets) /\ dropped' \subseteq Parser!ParserPackets
    BY <1>16, <2>1, SameSet DEF Parser!Clear
  <2>. QED
    BY <1>16, <1>0, <2>2 DEF Parser!Clear, Parser!setting, Parser!listVars,
       Parser!threadVars, Parser!workerVars, Parser!Go
<1>17. ASSUME NEW a \in workers \cup {Server}, Parser!ReleaseObj(a),
           UNCHANGED <<Parser!setting, target>>
      PROVE  ParserTypes'
  BY <1>17, <1>0 DEF Parser!ReleaseObj, Parser!setting, Parser!listVars, Parser!threadVars,
     Parser!workerVars, Parser!Go
<1>18. ASSUME NEW w \in workers, Parser!KillConnection(w)
      PROVE  ParserTypes'
  BY <1>18, <1>0 DEF Parser!KillConnection, Parser!setting, Parser!listVars,
     Parser!threadVars, Parser!workerVars, Parser!Go
<1>19. ASSUME NEW a \in {App, Server}, Parser!Kill(a)
      PROVE  ParserTypes'
  BY <1>19, <1>0, ZenonT(30) DEF Parser!Kill, Parser!Back, Parser!setting, Parser!listVars,
     Parser!threadVars, Parser!workerVars, Parser!Go
<1>20. ASSUME NEW a \in {App, Server}, Parser!KillJoin(a)
      PROVE  ParserTypes'
  BY <1>20, <1>0 DEF Parser!KillJoin, Parser!Back, Parser!setting, Parser!listVars,
     Parser!threadVars, Parser!workerVars, Parser!Go
<1>21. ASSUME Parser!StopServer
      PROVE  ParserTypes'
  BY <1>21, <1>0 DEF Parser!StopServer, Parser!setting, Parser!listVars, Parser!threadVars,
     Parser!workerVars, Parser!Go
<1>22. ASSUME Parser!KillNext
      PROVE  ParserTypes'
  <2>1. target' \in [{App, Server} -> Workers \cup {Nobody}]
    BY <1>22, Zenon DEF Parser!KillNext
  <2>2. pc' \in [Workers \cup {App, Server} -> Places]
    BY <1>22, <1>0 DEF Parser!KillNext, Parser!Go
  <2>. QED
    BY <1>22, <2>1, <2>2 DEF Parser!KillNext, Parser!setting, Parser!listVars,
       Parser!threadVars, Parser!workerVars
<1>23. CASE UNCHANGED Parser!vars
  BY <1>23, <1>0 DEF Parser!vars, Parser!setting, Parser!listVars, Parser!threadVars,
     Parser!workerVars, Parser!Go
<1>. QED
  BY <1>1, <1>2, <1>3, <1>4, <1>5, <1>6, <1>7, <1>8, <1>9, <1>10, <1>11, <1>12, <1>13,
     <1>14, <1>15, <1>16, <1>17, <1>18, <1>19, <1>20, <1>21, <1>22, <1>23
  DEF Parser!Next, Parser!ParserStep, Parser!WorkerStep, Parser!PeerStep, Parser!AppStep,
      Parser!ServerStep, Parser!Release

-----------------------------------------------------------------------------
(* the places, *)
LEMMA PlaceStep == ParserIInv /\ [Parser!Next]_(Parser!vars) => PlaceInv'
<1> SUFFICES ASSUME ParserIInv, [Parser!Next]_(Parser!vars) PROVE PlaceInv'
  OBVIOUS
<1> USE ParserListAssumption DEF Places, Parser!Using, Parser!Releasing
<1>0. /\ App \in Workers \cup {App, Server} /\ Server \in Workers \cup {App, Server}
      /\ App # Server /\ App \notin Workers /\ Server \notin Workers
      /\ pc \in [Workers \cup {App, Server} -> Places] /\ workers \subseteq Workers
      /\ PlaceInv
  BY DEF ParserIInv, ParserTypes
<1>1. ASSUME Parser!Stopped, UNCHANGED parsed,
           UNCHANGED <<Parser!setting, list, refs, dropped, missed, pc, target, Parser!workerVars>>
      PROVE  PlaceInv'
  BY <1>1, <1>0 DEF Parser!Stopped, Parser!setting, Parser!listVars, Parser!threadVars,
     Parser!workerVars, Parser!Go, PlaceInv
<1>2. ASSUME Parser!Empty, UNCHANGED parsed,
           UNCHANGED <<Parser!setting, list, refs, dropped, missed, pc, target, Parser!workerVars>>
      PROVE  PlaceInv'
  BY <1>2, <1>0 DEF Parser!Empty, Parser!setting, Parser!listVars, Parser!threadVars,
     Parser!workerVars, Parser!Go, PlaceInv
<1>3. ASSUME Parser!Take, UNCHANGED parsed,
           UNCHANGED <<Parser!setting, list, refs, dropped, missed, pc, target, Parser!workerVars>>
      PROVE  PlaceInv'
  BY <1>3, <1>0 DEF Parser!Take, Parser!setting, Parser!listVars, Parser!threadVars,
     Parser!workerVars, Parser!Go, PlaceInv
<1>4. ASSUME Parser!Suspend, UNCHANGED parsed,
           UNCHANGED <<Parser!setting, list, refs, dropped, missed, pc, target, Parser!workerVars>>
      PROVE  PlaceInv'
  BY <1>4, <1>0 DEF Parser!Suspend, Parser!setting, Parser!listVars, Parser!threadVars,
     Parser!workerVars, Parser!Go, PlaceInv
<1>5. ASSUME Parser!ParsePacket,
           UNCHANGED <<Parser!setting, list, refs, dropped, missed, pc, target, Parser!workerVars>>
      PROVE  PlaceInv'
  BY <1>5, <1>0 DEF Parser!ParsePacket, Parser!setting, Parser!listVars, Parser!threadVars,
     Parser!workerVars, Parser!Go, PlaceInv
<1>6. ASSUME NEW w \in workers, Parser!Begin(w), UNCHANGED <<Parser!setting, target>>
      PROVE  PlaceInv'
  BY <1>6, <1>0 DEF Parser!Begin, Parser!setting, Parser!listVars, Parser!threadVars,
     Parser!workerVars, Parser!Go, PlaceInv
<1>7. ASSUME NEW w \in workers, Parser!Look(w), UNCHANGED <<Parser!setting, target>>
      PROVE  PlaceInv'
  BY <1>7, <1>0 DEF Parser!Look, Parser!Resume, Parser!setting, Parser!listVars,
     Parser!threadVars, Parser!workerVars, Parser!Go, PlaceInv
<1>8. ASSUME NEW w \in workers, Parser!Count(w), UNCHANGED <<Parser!setting, target>>
      PROVE  PlaceInv'
  BY <1>8, <1>0 DEF Parser!Count, Parser!setting, Parser!listVars, Parser!threadVars,
     Parser!workerVars, Parser!Go, PlaceInv
<1>9. ASSUME NEW w \in workers, Parser!WaitForListSizeDecrease(w),
           UNCHANGED <<Parser!setting, target>>
      PROVE  PlaceInv'
  BY <1>9, <1>0 DEF Parser!WaitForListSizeDecrease, Parser!setting, Parser!listVars,
     Parser!threadVars, Parser!workerVars, Parser!Go, PlaceInv
<1>10. ASSUME NEW w \in workers, Parser!Leave(w), UNCHANGED <<Parser!setting, target>>
      PROVE  PlaceInv'
  BY <1>10, <1>0 DEF Parser!Leave, Parser!setting, Parser!listVars, Parser!threadVars,
     Parser!workerVars, Parser!Go, PlaceInv
<1>11. ASSUME NEW w \in workers, Parser!End(w), UNCHANGED <<Parser!setting, target>>
      PROVE  PlaceInv'
  BY <1>11, <1>0 DEF Parser!End, Parser!setting, Parser!listVars, Parser!threadVars,
     Parser!workerVars, Parser!Go, PlaceInv
<1>12. ASSUME NEW w \in workers, Parser!Receive(w), UNCHANGED <<Parser!setting, target>>
      PROVE  PlaceInv'
  BY <1>12, <1>0 DEF Parser!Receive, Parser!setting, Parser!listVars, Parser!threadVars,
     Parser!workerVars, Parser!Go, PlaceInv
<1>13. ASSUME NEW a \in workers \cup {Server}, Parser!StopParse(a),
           UNCHANGED <<Parser!setting, target>>
      PROVE  PlaceInv'
  BY <1>13, <1>0 DEF Parser!StopParse, Parser!setting, Parser!listVars, Parser!threadVars,
     Parser!workerVars, Parser!Go, PlaceInv
<1>14. ASSUME NEW a \in workers \cup {Server}, Parser!Wake(a),
           UNCHANGED <<Parser!setting, target>>
      PROVE  PlaceInv'
  BY <1>14, <1>0 DEF Parser!Wake, Parser!Resume, Parser!setting, Parser!listVars,
     Parser!threadVars, Parser!workerVars, Parser!Go, PlaceInv
<1>15. ASSUME NEW a \in workers \cup {Server}, Parser!Join(a),
           UNCHANGED <<Parser!setting, target>>
      PROVE  PlaceInv'
  BY <1>15, <1>0 DEF Parser!Join, Parser!setting, Parser!listVars, Parser!threadVars,
     Parser!workerVars, Parser!Go, PlaceInv
<1>16. ASSUME NEW a \in workers \cup {Server}, Parser!Clear(a),
           UNCHANGED <<Parser!setting, target>>
      PROVE  PlaceInv'
  BY <1>16, <1>0 DEF Parser!Clear, Parser!setting, Parser!listVars, Parser!threadVars,
     Parser!workerVars, Parser!Go, PlaceInv
<1>17. ASSUME NEW a \in workers \cup {Server}, Parser!ReleaseObj(a),
           UNCHANGED <<Parser!setting, target>>
      PROVE  PlaceInv'
  BY <1>17, <1>0 DEF Parser!ReleaseObj, Parser!setting, Parser!listVars, Parser!threadVars,
     Parser!workerVars, Parser!Go, PlaceInv
<1>18. ASSUME NEW w \in workers, Parser!KillConnection(w)
      PROVE  PlaceInv'
  BY <1>18, <1>0 DEF Parser!KillConnection, Parser!setting, Parser!listVars,
     Parser!threadVars, Parser!workerVars, Parser!Go, PlaceInv
<1>19. ASSUME NEW a \in {App, Server}, Parser!Kill(a)
      PROVE  PlaceInv'
  BY <1>19, <1>0 DEF Parser!Kill, Parser!Back, Parser!setting, Parser!listVars,
     Parser!threadVars, Parser!workerVars, Parser!Go, PlaceInv
<1>20. ASSUME NEW a \in {App, Server}, Parser!KillJoin(a)
      PROVE  PlaceInv'
  BY <1>20, <1>0 DEF Parser!KillJoin, Parser!Back, Parser!setting, Parser!listVars,
     Parser!threadVars, Parser!workerVars, Parser!Go, PlaceInv
<1>21. ASSUME Parser!StopServer
      PROVE  PlaceInv'
  BY <1>21, <1>0 DEF Parser!StopServer, Parser!setting, Parser!listVars, Parser!threadVars,
     Parser!workerVars, Parser!Go, PlaceInv
<1>22. ASSUME Parser!KillNext
      PROVE  PlaceInv'
  BY <1>22, <1>0 DEF Parser!KillNext, Parser!setting, Parser!listVars, Parser!threadVars,
     Parser!workerVars, Parser!Go, PlaceInv
<1>23. CASE UNCHANGED Parser!vars
  BY <1>23, <1>0 DEF Parser!vars, Parser!setting, Parser!listVars, Parser!threadVars,
     Parser!workerVars, Parser!Go, PlaceInv
<1>. QED
  BY <1>1, <1>2, <1>3, <1>4, <1>5, <1>6, <1>7, <1>8, <1>9, <1>10, <1>11, <1>12, <1>13,
     <1>14, <1>15, <1>16, <1>17, <1>18, <1>19, <1>20, <1>21, <1>22, <1>23
  DEF Parser!Next, Parser!ParserStep, Parser!WorkerStep, Parser!PeerStep, Parser!AppStep,
      Parser!ServerStep, Parser!Release

(* and what is known of the thread. *)
LEMMA ThreadStep == ParserIInv /\ [Parser!Next]_(Parser!vars) => ThreadInv'
<1> SUFFICES ASSUME ParserIInv, [Parser!Next]_(Parser!vars) PROVE ThreadInv'
  OBVIOUS
<1> USE ParserListAssumption DEF Places, Parser!Using, Parser!Releasing
<1>0. /\ App \in Workers \cup {App, Server} /\ Server \in Workers \cup {App, Server}
      /\ App # Server /\ App \notin Workers /\ Server \notin Workers
      /\ pc \in [Workers \cup {App, Server} -> Places] /\ workers \subseteq Workers
      /\ PlaceInv /\ ThreadInv /\ ListInv
      /\ ppc \in {"none", "loop", "suspend", "suspended", "parse"}
  BY DEF ParserIInv, ParserTypes
<1>1. ASSUME Parser!Stopped, UNCHANGED parsed,
           UNCHANGED <<Parser!setting, list, refs, dropped, missed, pc, target, Parser!workerVars>>
      PROVE  ThreadInv'
  BY <1>1, <1>0 DEF Parser!Stopped, Parser!setting, Parser!listVars, Parser!threadVars,
     Parser!workerVars, Parser!Go, ThreadInv, PlaceInv, ListInv
<1>2. ASSUME Parser!Empty, UNCHANGED parsed,
           UNCHANGED <<Parser!setting, list, refs, dropped, missed, pc, target, Parser!workerVars>>
      PROVE  ThreadInv'
  BY <1>2, <1>0 DEF Parser!Empty, Parser!setting, Parser!listVars, Parser!threadVars,
     Parser!workerVars, Parser!Go, ThreadInv, PlaceInv, ListInv
<1>3. ASSUME Parser!Take, UNCHANGED parsed,
           UNCHANGED <<Parser!setting, list, refs, dropped, missed, pc, target, Parser!workerVars>>
      PROVE  ThreadInv'
  BY <1>3, <1>0 DEF Parser!Take, Parser!setting, Parser!listVars, Parser!threadVars,
     Parser!workerVars, Parser!Go, ThreadInv, PlaceInv, ListInv
<1>4. ASSUME Parser!Suspend, UNCHANGED parsed,
           UNCHANGED <<Parser!setting, list, refs, dropped, missed, pc, target, Parser!workerVars>>
      PROVE  ThreadInv'
  BY <1>4, <1>0 DEF Parser!Suspend, Parser!setting, Parser!listVars, Parser!threadVars,
     Parser!workerVars, Parser!Go, ThreadInv, PlaceInv, ListInv
<1>5. ASSUME Parser!ParsePacket,
           UNCHANGED <<Parser!setting, list, refs, dropped, missed, pc, target, Parser!workerVars>>
      PROVE  ThreadInv'
  BY <1>5, <1>0 DEF Parser!ParsePacket, Parser!setting, Parser!listVars, Parser!threadVars,
     Parser!workerVars, Parser!Go, ThreadInv, PlaceInv, ListInv
<1>6. ASSUME NEW w \in workers, Parser!Begin(w), UNCHANGED <<Parser!setting, target>>
      PROVE  ThreadInv'
  BY <1>6, <1>0 DEF Parser!Begin, Parser!setting, Parser!listVars, Parser!threadVars,
     Parser!workerVars, Parser!Go, ThreadInv, PlaceInv, ListInv
<1>7. ASSUME NEW w \in workers, Parser!Look(w), UNCHANGED <<Parser!setting, target>>
      PROVE  ThreadInv'
  BY <1>7, <1>0 DEF Parser!Look, Parser!Resume, Parser!setting, Parser!listVars,
     Parser!threadVars, Parser!workerVars, Parser!Go, ThreadInv, PlaceInv, ListInv
<1>8. ASSUME NEW w \in workers, Parser!Count(w), UNCHANGED <<Parser!setting, target>>
      PROVE  ThreadInv'
  BY <1>8, <1>0 DEF Parser!Count, Parser!setting, Parser!listVars, Parser!threadVars,
     Parser!workerVars, Parser!Go, ThreadInv, PlaceInv, ListInv
<1>9. ASSUME NEW w \in workers, Parser!WaitForListSizeDecrease(w),
           UNCHANGED <<Parser!setting, target>>
      PROVE  ThreadInv'
  BY <1>9, <1>0 DEF Parser!WaitForListSizeDecrease, Parser!setting, Parser!listVars,
     Parser!threadVars, Parser!workerVars, Parser!Go, ThreadInv, PlaceInv, ListInv
<1>10. ASSUME NEW w \in workers, Parser!Leave(w), UNCHANGED <<Parser!setting, target>>
      PROVE  ThreadInv'
  BY <1>10, <1>0 DEF Parser!Leave, Parser!setting, Parser!listVars, Parser!threadVars,
     Parser!workerVars, Parser!Go, ThreadInv, PlaceInv, ListInv
<1>11. ASSUME NEW w \in workers, Parser!End(w), UNCHANGED <<Parser!setting, target>>
      PROVE  ThreadInv'
  BY <1>11, <1>0 DEF Parser!End, Parser!setting, Parser!listVars, Parser!threadVars,
     Parser!workerVars, Parser!Go, ThreadInv, PlaceInv, ListInv
<1>12. ASSUME NEW w \in workers, Parser!Receive(w), UNCHANGED <<Parser!setting, target>>
      PROVE  ThreadInv'
  BY <1>12, <1>0 DEF Parser!Receive, Parser!setting, Parser!listVars, Parser!threadVars,
     Parser!workerVars, Parser!Go, ThreadInv, PlaceInv, ListInv
<1>13. ASSUME NEW a \in workers \cup {Server}, Parser!StopParse(a),
           UNCHANGED <<Parser!setting, target>>
      PROVE  ThreadInv'
  BY <1>13, <1>0 DEF Parser!StopParse, Parser!setting, Parser!listVars, Parser!threadVars,
     Parser!workerVars, Parser!Go, ThreadInv, PlaceInv, ListInv
<1>14. ASSUME NEW a \in workers \cup {Server}, Parser!Wake(a),
           UNCHANGED <<Parser!setting, target>>
      PROVE  ThreadInv'
  BY <1>14, <1>0 DEF Parser!Wake, Parser!Resume, Parser!setting, Parser!listVars,
     Parser!threadVars, Parser!workerVars, Parser!Go, ThreadInv, PlaceInv, ListInv
<1>15. ASSUME NEW a \in workers \cup {Server}, Parser!Join(a),
           UNCHANGED <<Parser!setting, target>>
      PROVE  ThreadInv'
  BY <1>15, <1>0 DEF Parser!Join, Parser!setting, Parser!listVars, Parser!threadVars,
     Parser!workerVars, Parser!Go, ThreadInv, PlaceInv, ListInv
<1>16. ASSUME NEW a \in workers \cup {Server}, Parser!Clear(a),
           UNCHANGED <<Parser!setting, target>>
      PROVE  ThreadInv'
  BY <1>16, <1>0 DEF Parser!Clear, Parser!setting, Parser!listVars, Parser!threadVars,
     Parser!workerVars, Parser!Go, ThreadInv, PlaceInv, ListInv
<1>17. ASSUME NEW a \in workers \cup {Server}, Parser!ReleaseObj(a),
           UNCHANGED <<Parser!setting, target>>
      PROVE  ThreadInv'
  BY <1>17, <1>0 DEF Parser!ReleaseObj, Parser!setting, Parser!listVars, Parser!threadVars,
     Parser!workerVars, Parser!Go, ThreadInv, PlaceInv, ListInv
<1>18. ASSUME NEW w \in workers, Parser!KillConnection(w)
      PROVE  ThreadInv'
  BY <1>18, <1>0 DEF Parser!KillConnection, Parser!setting, Parser!listVars,
     Parser!threadVars, Parser!workerVars, Parser!Go, ThreadInv, PlaceInv, ListInv
<1>19. ASSUME NEW a \in {App, Server}, Parser!Kill(a)
      PROVE  ThreadInv'
  BY <1>19, <1>0 DEF Parser!Kill, Parser!Back, Parser!setting, Parser!listVars,
     Parser!threadVars, Parser!workerVars, Parser!Go, ThreadInv, PlaceInv, ListInv
<1>20. ASSUME NEW a \in {App, Server}, Parser!KillJoin(a)
      PROVE  ThreadInv'
  BY <1>20, <1>0 DEF Parser!KillJoin, Parser!Back, Parser!setting, Parser!listVars,
     Parser!threadVars, Parser!workerVars, Parser!Go, ThreadInv, PlaceInv, ListInv
<1>21. ASSUME Parser!StopServer
      PROVE  ThreadInv'
  BY <1>21, <1>0 DEF Parser!StopServer, Parser!setting, Parser!listVars, Parser!threadVars,
     Parser!workerVars, Parser!Go, ThreadInv, PlaceInv, ListInv
<1>22. ASSUME Parser!KillNext
      PROVE  ThreadInv'
  BY <1>22, <1>0 DEF Parser!KillNext, Parser!setting, Parser!listVars, Parser!threadVars,
     Parser!workerVars, Parser!Go, ThreadInv, PlaceInv, ListInv
<1>23. CASE UNCHANGED Parser!vars
  BY <1>23, <1>0 DEF Parser!vars, Parser!setting, Parser!listVars, Parser!threadVars,
     Parser!workerVars, Parser!Go, ThreadInv, PlaceInv, ListInv
<1>. QED
  BY <1>1, <1>2, <1>3, <1>4, <1>5, <1>6, <1>7, <1>8, <1>9, <1>10, <1>11, <1>12, <1>13,
     <1>14, <1>15, <1>16, <1>17, <1>18, <1>19, <1>20, <1>21, <1>22, <1>23
  DEF Parser!Next, Parser!ParserStep, Parser!WorkerStep, Parser!PeerStep, Parser!AppStep,
      Parser!ServerStep, Parser!Release

-----------------------------------------------------------------------------
(* Who is a holder. *)
LEMMA WhoHolds ==
  ASSUME NEW a
  PROVE  a \in Parser!Holders <=>
           \/ a \in workers /\ list # "none" /\ pc[a] \in Parser!Using
           \/ a \in workers /\ pc[a] \in Parser!Releasing
           \/ a = Server /\ pc[a] \in Parser!Releasing
           \/ a = Server /\ options.shared /\ pc[a] = "idle"
  BY DEF Parser!Holders

(* The holders of a list can be counted. *)
LEMMA HoldersFinite ==
  ASSUME workers \subseteq Workers
  PROVE  IsFiniteSet(Parser!Holders) /\ Cardinality(Parser!Holders) \in Nat
<1>1. IsFiniteSet(Workers \cup {Server})
  BY ParserListAssumption, FS_AddElement
<1>2. Parser!Holders \subseteq Workers \cup {Server}
  BY DEF Parser!Holders
<1>. QED
  BY <1>1, <1>2, FS_Subset, FS_CardinalityType

(* Each action keeps the list and the count of its holders. *)
LEMMA CountStep == ParserIInv /\ [Parser!Next]_(Parser!vars) => ListInv' /\ HolderCount'
<1> SUFFICES ASSUME ParserIInv, [Parser!Next]_(Parser!vars) PROVE ListInv' /\ HolderCount'
  OBVIOUS
<1> USE ParserListAssumption DEF Places, Parser!Using, Parser!Releasing
<1>0. /\ App \in Workers \cup {App, Server} /\ Server \in Workers \cup {App, Server}
      /\ App # Server /\ App \notin Workers /\ Server \notin Workers
      /\ pc \in [Workers \cup {App, Server} -> Places] /\ workers \subseteq Workers
      /\ PlaceInv /\ ThreadInv /\ ListInv /\ HolderCount
      /\ ppc \in {"none", "loop", "suspend", "suspended", "parse"}
      /\ listed \in [Workers -> BOOLEAN]
  BY DEF ParserIInv, ParserTypes
<1>1. ASSUME Parser!Stopped, UNCHANGED parsed,
           UNCHANGED <<Parser!setting, list, refs, dropped, missed, pc, target, Parser!workerVars>>
      PROVE  ListInv' /\ HolderCount'
  <2>1. Parser!Holders' = Parser!Holders
    BY <1>1, <1>0 DEF Parser!Stopped, Parser!setting, Parser!listVars, Parser!threadVars,
       Parser!workerVars, Parser!Go, Parser!Holders, PlaceInv, ListInv
  <2>2. HolderCount'
    BY <1>1, <1>0, <2>1, WhoHolds DEF Parser!Stopped, Parser!setting, Parser!listVars,
       Parser!threadVars, Parser!workerVars, Parser!Go, HolderCount, ListInv
  <2>3. ListInv'
    BY <1>1, <1>0, <2>1, WhoHolds DEF Parser!Stopped, Parser!setting, Parser!listVars,
       Parser!threadVars, Parser!workerVars, Parser!Go, ListInv, PlaceInv
  <2>. QED
    BY <2>2, <2>3
<1>2. ASSUME Parser!Empty, UNCHANGED parsed,
           UNCHANGED <<Parser!setting, list, refs, dropped, missed, pc, target, Parser!workerVars>>
      PROVE  ListInv' /\ HolderCount'
  <2>1. Parser!Holders' = Parser!Holders
    BY <1>2, <1>0 DEF Parser!Empty, Parser!setting, Parser!listVars, Parser!threadVars,
       Parser!workerVars, Parser!Go, Parser!Holders, PlaceInv, ListInv
  <2>2. HolderCount'
    BY <1>2, <1>0, <2>1, WhoHolds DEF Parser!Empty, Parser!setting, Parser!listVars,
       Parser!threadVars, Parser!workerVars, Parser!Go, HolderCount, ListInv
  <2>3. ListInv'
    BY <1>2, <1>0, <2>1, WhoHolds DEF Parser!Empty, Parser!setting, Parser!listVars,
       Parser!threadVars, Parser!workerVars, Parser!Go, ListInv, PlaceInv
  <2>. QED
    BY <2>2, <2>3
<1>3. ASSUME Parser!Take, UNCHANGED parsed,
           UNCHANGED <<Parser!setting, list, refs, dropped, missed, pc, target, Parser!workerVars>>
      PROVE  ListInv' /\ HolderCount'
  <2>1. Parser!Holders' = Parser!Holders
    BY <1>3, <1>0 DEF Parser!Take, Parser!setting, Parser!listVars, Parser!threadVars,
       Parser!workerVars, Parser!Go, Parser!Holders, PlaceInv, ListInv
  <2>2. HolderCount'
    BY <1>3, <1>0, <2>1, WhoHolds DEF Parser!Take, Parser!setting, Parser!listVars,
       Parser!threadVars, Parser!workerVars, Parser!Go, HolderCount, ListInv
  <2>3. ListInv'
    BY <1>3, <1>0, <2>1, WhoHolds DEF Parser!Take, Parser!setting, Parser!listVars,
       Parser!threadVars, Parser!workerVars, Parser!Go, ListInv, PlaceInv
  <2>. QED
    BY <2>2, <2>3
<1>4. ASSUME Parser!Suspend, UNCHANGED parsed,
           UNCHANGED <<Parser!setting, list, refs, dropped, missed, pc, target, Parser!workerVars>>
      PROVE  ListInv' /\ HolderCount'
  <2>1. Parser!Holders' = Parser!Holders
    BY <1>4, <1>0 DEF Parser!Suspend, Parser!setting, Parser!listVars, Parser!threadVars,
       Parser!workerVars, Parser!Go, Parser!Holders, PlaceInv, ListInv
  <2>2. HolderCount'
    BY <1>4, <1>0, <2>1, WhoHolds DEF Parser!Suspend, Parser!setting, Parser!listVars,
       Parser!threadVars, Parser!workerVars, Parser!Go, HolderCount, ListInv
  <2>3. ListInv'
    BY <1>4, <1>0, <2>1, WhoHolds DEF Parser!Suspend, Parser!setting, Parser!listVars,
       Parser!threadVars, Parser!workerVars, Parser!Go, ListInv, PlaceInv
  <2>. QED
    BY <2>2, <2>3
<1>5. ASSUME Parser!ParsePacket,
           UNCHANGED <<Parser!setting, list, refs, dropped, missed, pc, target, Parser!workerVars>>
      PROVE  ListInv' /\ HolderCount'
  <2>1. Parser!Holders' = Parser!Holders
    BY <1>5, <1>0 DEF Parser!ParsePacket, Parser!setting, Parser!listVars,
       Parser!threadVars, Parser!workerVars, Parser!Go, Parser!Holders, PlaceInv, ListInv
  <2>2. HolderCount'
    BY <1>5, <1>0, <2>1, WhoHolds DEF Parser!ParsePacket, Parser!setting, Parser!listVars,
       Parser!threadVars, Parser!workerVars, Parser!Go, HolderCount, ListInv
  <2>3. ListInv'
    BY <1>5, <1>0, <2>1, WhoHolds DEF Parser!ParsePacket, Parser!setting, Parser!listVars,
       Parser!threadVars, Parser!workerVars, Parser!Go, ListInv, PlaceInv
  <2>. QED
    BY <2>2, <2>3
<1>6. ASSUME NEW w \in workers, Parser!Begin(w), UNCHANGED <<Parser!setting, target>>
      PROVE  ListInv' /\ HolderCount'
  <2>1. CASE options.shared
    <3>1. UNCHANGED <<list, refs, ppc, queue, listed, dropped, workers, options>>
      BY <1>6, <2>1 DEF Parser!Begin, Parser!setting, Parser!workerVars
    <3>2. pc[w] = "begin" /\ pc' = [pc EXCEPT ![w] = "receive"] /\ list # "none"
      BY <1>6, <1>0, <2>1 DEF Parser!Begin, Parser!Go, ListInv
    <3>3. Parser!Holders' = Parser!Holders
      BY <1>0, <3>1, <3>2 DEF Parser!Holders
    <3>4. HolderCount'
      BY <1>0, <3>1, <3>2, <3>3, WhoHolds DEF HolderCount
    <3>5. ListInv'
      BY <1>0, <2>1, <3>1, <3>2, <3>3, WhoHolds DEF ListInv
    <3>. QED
      BY <3>4, <3>5
  <2>2. CASE ~options.shared
    <3>1. /\ UNCHANGED <<listed, workers, options>>
          /\ list' = "alive" /\ refs' = 1
          /\ pc[w] = "begin" /\ pc' = [pc EXCEPT ![w] = "receive"]
      BY <1>6, <2>2 DEF Parser!Begin, Parser!setting, Parser!workerVars, Parser!Go
    <3>2. list = "none" /\ workers = {w} /\ pc[Server] \notin Parser!Releasing
      BY <1>0, <2>2, <3>1 DEF ListInv, PlaceInv
    <3>3. Parser!Holders' = {w}
      BY <1>0, <2>2, <3>1, <3>2 DEF Parser!Holders
    <3>4. Cardinality({w}) = 1
      BY FS_Singleton
    <3>5. HolderCount'
      BY <3>1, <3>3, <3>4 DEF HolderCount
    <3>6. \A v \in workers : listed[v] /\ pc[v] = "begin"
      BY <1>0, <2>2, <3>2 DEF ListInv
    <3>7. ListInv'
      BY <1>0, <2>2, <3>1, <3>2, <3>6 DEF ListInv
    <3>. QED
      BY <3>5, <3>7
  <2>. QED
    BY <2>1, <2>2
<1>7. ASSUME NEW w \in workers, Parser!Look(w), UNCHANGED <<Parser!setting, target>>
      PROVE  ListInv' /\ HolderCount'
  <2>1. Parser!Holders' = Parser!Holders
    BY <1>7, <1>0 DEF Parser!Look, Parser!Resume, Parser!setting, Parser!listVars,
       Parser!threadVars, Parser!workerVars, Parser!Go, Parser!Holders, PlaceInv, ListInv
  <2>2. HolderCount'
    BY <1>7, <1>0, <2>1, WhoHolds DEF Parser!Look, Parser!Resume, Parser!setting,
       Parser!listVars, Parser!threadVars, Parser!workerVars, Parser!Go, HolderCount,
       ListInv
  <2>3. ListInv'
    BY <1>7, <1>0, <2>1, WhoHolds DEF Parser!Look, Parser!Resume, Parser!setting,
       Parser!listVars, Parser!threadVars, Parser!workerVars, Parser!Go, ListInv, PlaceInv
  <2>. QED
    BY <2>2, <2>3
<1>8. ASSUME NEW w \in workers, Parser!Count(w), UNCHANGED <<Parser!setting, target>>
      PROVE  ListInv' /\ HolderCount'
  <2>1. Parser!Holders' = Parser!Holders
    BY <1>8, <1>0 DEF Parser!Count, Parser!setting, Parser!listVars, Parser!threadVars,
       Parser!workerVars, Parser!Go, Parser!Holders, PlaceInv, ListInv
  <2>2. HolderCount'
    BY <1>8, <1>0, <2>1, WhoHolds DEF Parser!Count, Parser!setting, Parser!listVars,
       Parser!threadVars, Parser!workerVars, Parser!Go, HolderCount, ListInv
  <2>3. ListInv'
    BY <1>8, <1>0, <2>1, WhoHolds DEF Parser!Count, Parser!setting, Parser!listVars,
       Parser!threadVars, Parser!workerVars, Parser!Go, ListInv, PlaceInv
  <2>. QED
    BY <2>2, <2>3
<1>9. ASSUME NEW w \in workers, Parser!WaitForListSizeDecrease(w),
           UNCHANGED <<Parser!setting, target>>
      PROVE  ListInv' /\ HolderCount'
  <2>1. Parser!Holders' = Parser!Holders
    BY <1>9, <1>0 DEF Parser!WaitForListSizeDecrease, Parser!setting, Parser!listVars,
       Parser!threadVars, Parser!workerVars, Parser!Go, Parser!Holders, PlaceInv, ListInv
  <2>2. HolderCount'
    BY <1>9, <1>0, <2>1, WhoHolds DEF Parser!WaitForListSizeDecrease, Parser!setting,
       Parser!listVars, Parser!threadVars, Parser!workerVars, Parser!Go, HolderCount,
       ListInv
  <2>3. ListInv'
    BY <1>9, <1>0, <2>1, WhoHolds DEF Parser!WaitForListSizeDecrease, Parser!setting,
       Parser!listVars, Parser!threadVars, Parser!workerVars, Parser!Go, ListInv, PlaceInv
  <2>. QED
    BY <2>2, <2>3
<1>10. ASSUME NEW w \in workers, Parser!Leave(w), UNCHANGED <<Parser!setting, target>>
      PROVE  ListInv' /\ HolderCount'
  <2>1. Parser!Holders' = Parser!Holders
    BY <1>10, <1>0 DEF Parser!Leave, Parser!setting, Parser!listVars, Parser!threadVars,
       Parser!workerVars, Parser!Go, Parser!Holders, PlaceInv, ListInv
  <2>2. HolderCount'
    BY <1>10, <1>0, <2>1, WhoHolds DEF Parser!Leave, Parser!setting, Parser!listVars,
       Parser!threadVars, Parser!workerVars, Parser!Go, HolderCount, ListInv
  <2>3. ListInv'
    BY <1>10, <1>0, <2>1, WhoHolds DEF Parser!Leave, Parser!setting, Parser!listVars,
       Parser!threadVars, Parser!workerVars, Parser!Go, ListInv, PlaceInv
  <2>. QED
    BY <2>2, <2>3
<1>11. ASSUME NEW w \in workers, Parser!End(w), UNCHANGED <<Parser!setting, target>>
      PROVE  ListInv' /\ HolderCount'
  <2>1. Parser!Holders' = Parser!Holders
    BY <1>11, <1>0 DEF Parser!End, Parser!setting, Parser!listVars, Parser!threadVars,
       Parser!workerVars, Parser!Go, Parser!Holders, PlaceInv, ListInv
  <2>2. HolderCount'
    BY <1>11, <1>0, <2>1, WhoHolds DEF Parser!End, Parser!setting, Parser!listVars,
       Parser!threadVars, Parser!workerVars, Parser!Go, HolderCount, ListInv
  <2>3. ListInv'
    BY <1>11, <1>0, <2>1, WhoHolds DEF Parser!End, Parser!setting, Parser!listVars,
       Parser!threadVars, Parser!workerVars, Parser!Go, ListInv, PlaceInv
  <2>. QED
    BY <2>2, <2>3
<1>12. ASSUME NEW w \in workers, Parser!Receive(w), UNCHANGED <<Parser!setting, target>>
      PROVE  ListInv' /\ HolderCount'
  <2>1. Parser!Holders' = Parser!Holders
    BY <1>12, <1>0 DEF Parser!Receive, Parser!setting, Parser!listVars, Parser!threadVars,
       Parser!workerVars, Parser!Go, Parser!Holders, PlaceInv, ListInv
  <2>2. HolderCount'
    BY <1>12, <1>0, <2>1, WhoHolds DEF Parser!Receive, Parser!setting, Parser!listVars,
       Parser!threadVars, Parser!workerVars, Parser!Go, HolderCount, ListInv
  <2>3. ListInv'
    BY <1>12, <1>0, <2>1, WhoHolds DEF Parser!Receive, Parser!setting, Parser!listVars,
       Parser!threadVars, Parser!workerVars, Parser!Go, ListInv, PlaceInv
  <2>. QED
    BY <2>2, <2>3
<1>13. ASSUME NEW a \in workers \cup {Server}, Parser!StopParse(a),
           UNCHANGED <<Parser!setting, target>>
      PROVE  ListInv' /\ HolderCount'
  <2>1. Parser!Holders' = Parser!Holders
    BY <1>13, <1>0 DEF Parser!StopParse, Parser!setting, Parser!listVars,
       Parser!threadVars, Parser!workerVars, Parser!Go, Parser!Holders, PlaceInv, ListInv
  <2>2. HolderCount'
    BY <1>13, <1>0, <2>1, WhoHolds DEF Parser!StopParse, Parser!setting, Parser!listVars,
       Parser!threadVars, Parser!workerVars, Parser!Go, HolderCount, ListInv
  <2>3. ListInv'
    BY <1>13, <1>0, <2>1, WhoHolds DEF Parser!StopParse, Parser!setting, Parser!listVars,
       Parser!threadVars, Parser!workerVars, Parser!Go, ListInv, PlaceInv
  <2>. QED
    BY <2>2, <2>3
<1>14. ASSUME NEW a \in workers \cup {Server}, Parser!Wake(a),
           UNCHANGED <<Parser!setting, target>>
      PROVE  ListInv' /\ HolderCount'
  <2>1. Parser!Holders' = Parser!Holders
    BY <1>14, <1>0 DEF Parser!Wake, Parser!Resume, Parser!setting, Parser!listVars,
       Parser!threadVars, Parser!workerVars, Parser!Go, Parser!Holders, PlaceInv, ListInv
  <2>2. HolderCount'
    BY <1>14, <1>0, <2>1, WhoHolds DEF Parser!Wake, Parser!Resume, Parser!setting,
       Parser!listVars, Parser!threadVars, Parser!workerVars, Parser!Go, HolderCount,
       ListInv
  <2>3. ListInv'
    BY <1>14, <1>0, <2>1, WhoHolds DEF Parser!Wake, Parser!Resume, Parser!setting,
       Parser!listVars, Parser!threadVars, Parser!workerVars, Parser!Go, ListInv, PlaceInv
  <2>. QED
    BY <2>2, <2>3
<1>15. ASSUME NEW a \in workers \cup {Server}, Parser!Join(a),
           UNCHANGED <<Parser!setting, target>>
      PROVE  ListInv' /\ HolderCount'
  <2>1. Parser!Holders' = Parser!Holders
    BY <1>15, <1>0 DEF Parser!Join, Parser!setting, Parser!listVars, Parser!threadVars,
       Parser!workerVars, Parser!Go, Parser!Holders, PlaceInv, ListInv
  <2>2. HolderCount'
    BY <1>15, <1>0, <2>1, WhoHolds DEF Parser!Join, Parser!setting, Parser!listVars,
       Parser!threadVars, Parser!workerVars, Parser!Go, HolderCount, ListInv
  <2>3. ListInv'
    BY <1>15, <1>0, <2>1, WhoHolds DEF Parser!Join, Parser!setting, Parser!listVars,
       Parser!threadVars, Parser!workerVars, Parser!Go, ListInv, PlaceInv
  <2>. QED
    BY <2>2, <2>3
<1>16. ASSUME NEW a \in workers \cup {Server}, Parser!Clear(a),
           UNCHANGED <<Parser!setting, target>>
      PROVE  ListInv' /\ HolderCount'
  <2>1. Parser!Holders' = Parser!Holders
    BY <1>16, <1>0 DEF Parser!Clear, Parser!setting, Parser!listVars, Parser!threadVars,
       Parser!workerVars, Parser!Go, Parser!Holders, PlaceInv, ListInv
  <2>2. HolderCount'
    BY <1>16, <1>0, <2>1, WhoHolds DEF Parser!Clear, Parser!setting, Parser!listVars,
       Parser!threadVars, Parser!workerVars, Parser!Go, HolderCount, ListInv
  <2>3. ListInv'
    BY <1>16, <1>0, <2>1, WhoHolds DEF Parser!Clear, Parser!setting, Parser!listVars,
       Parser!threadVars, Parser!workerVars, Parser!Go, ListInv, PlaceInv
  <2>. QED
    BY <2>2, <2>3
<1>17. ASSUME NEW a \in workers \cup {Server}, Parser!ReleaseObj(a),
           UNCHANGED <<Parser!setting, target>>
      PROVE  ListInv' /\ HolderCount'
  <2> DEFINE h == Parser!Holders
  <2>1. /\ pc[a] = "release" /\ a \in h /\ list # "none" /\ list # "freed"
        /\ a \in Workers \cup {App, Server} /\ refs \in Nat
    <3>1. pc[a] = "release" /\ a \in h
      BY <1>17, WhoHolds DEF Parser!ReleaseObj
    <3>2. list # "freed"
      BY <1>0, <3>1 DEF ListInv
    <3>3. list # "none"
      BY <1>0, <3>1 DEF ListInv, PlaceInv
    <3>. QED
      BY <1>0, <3>1, <3>2, <3>3 DEF ParserIInv, ParserTypes
  <2>2. IsFiniteSet(h) /\ Cardinality(h) \in Nat
    BY <1>0, HoldersFinite
  <2>3. /\ IsFiniteSet(h \ {a})
        /\ Cardinality(h \ {a}) = IF a \in h THEN Cardinality(h) - 1 ELSE Cardinality(h)
    BY <2>2, FS_RemoveElement
  <2>4. Cardinality(h \ {a}) = Cardinality(h) - 1
    BY <2>1, <2>3
  <2>5. Cardinality(h) = 1 => h = {a}
    <3>1. Cardinality(h \ {a}) = 0 => h \ {a} = {}
      BY <2>3, FS_EmptySet
    <3>. QED
      BY <2>1, <2>2, <2>4, <3>1
  <2>6. UNCHANGED <<queue, ppc, listed, workers, options, dropped>>
    BY <1>17 DEF Parser!ReleaseObj, Parser!setting, Parser!workerVars, Parser!threadVars
  <2>7. CASE refs > 1
    <3>1. refs' = refs - 1 /\ pc' = [pc EXCEPT ![a] = "leave"] /\ UNCHANGED list
      BY <1>17, <2>1, <2>7 DEF Parser!ReleaseObj, Parser!Go
    <3>2. Parser!Holders' = h \ {a}
      BY <1>0, <2>1, <2>6, <3>1 DEF Parser!Holders
    <3>3. refs = Cardinality(h) /\ refs' = Cardinality(Parser!Holders') /\ refs' # 0
      BY <1>0, <2>1, <2>4, <2>7, <3>1, <3>2 DEF HolderCount
    <3>4. options.shared
      <4> SUFFICES ASSUME ~options.shared PROVE FALSE
        OBVIOUS
      <4>1. PICK v \in Workers : workers = {v}
        BY <1>0 DEF PlaceInv
      <4>2. h = {v}
        BY <1>0, <2>1, <4>1, WhoHolds DEF PlaceInv
      <4>3. Cardinality({v}) = 1
        BY FS_Singleton
      <4>. QED
        BY <2>7, <3>3, <4>2, <4>3
    <3>5. HolderCount'
      BY <3>3 DEF HolderCount
    <3>6. ListInv'
      BY <2>1, <2>6, <3>1, <3>4 DEF ListInv
    <3>. QED
      BY <3>5, <3>6
  <2>8. CASE refs = 1
    <3>1. refs' = 0 /\ pc' = [pc EXCEPT ![a] = "stop"] /\ UNCHANGED list
      BY <1>17, <2>1, <2>8 DEF Parser!ReleaseObj, Parser!Go
    <3>2. h = {a}
      BY <1>0, <2>5, <2>8 DEF HolderCount
    <3>3. Parser!Holders' = h
      BY <1>0, <2>1, <2>6, <3>1 DEF Parser!Holders
    <3>4. ppc = "none"
      <4>1. CASE ~options.shared \/ a = Server
        BY <1>0, <2>1, <4>1 DEF ThreadInv
      <4>2. CASE options.shared /\ a # Server
        <5>1. Server \notin h
          BY <3>2, <4>2
        <5>. QED
          BY <1>0, <4>2, <5>1, WhoHolds DEF ThreadInv
      <4>. QED
        BY <4>1, <4>2
    <3>5. HolderCount'
      BY <1>0, <2>1, <2>6, <3>1, <3>2, <3>3, <3>4 DEF HolderCount
    <3>6. ListInv'
      BY <1>0, <2>1, <2>6, <3>1 DEF ListInv
    <3>. QED
      BY <3>5, <3>6
  <2>9. CASE refs = 0
    <3>1. UNCHANGED refs /\ pc' = [pc EXCEPT ![a] = "leave"] /\ list' = "freed"
      BY <1>17, <2>1, <2>9 DEF Parser!ReleaseObj, Parser!Go
    <3>2. h = {a} /\ ppc = "none" /\ queue = <<>>
      BY <1>0, <2>1, <2>9 DEF HolderCount
    <3>3. Parser!Holders' = {}
      <4>1. Parser!Holders' = h \ {a}
        BY <1>0, <2>1, <2>6, <3>1 DEF Parser!Holders
      <4>. QED
        BY <3>2, <4>1
    <3>4. HolderCount'
      BY <2>9, <3>1, <3>3 DEF HolderCount
    <3>5. ListInv'
      BY <1>0, <2>1, <2>6, <2>9, <3>1, <3>2, <3>3 DEF ListInv
    <3>. QED
      BY <3>4, <3>5
  <2>. QED
    BY <2>1, <2>7, <2>8, <2>9
<1>18. ASSUME NEW w \in workers, Parser!KillConnection(w)
      PROVE  ListInv' /\ HolderCount'
  <2>1. Parser!Holders' = Parser!Holders
    BY <1>18, <1>0 DEF Parser!KillConnection, Parser!setting, Parser!listVars,
       Parser!threadVars, Parser!workerVars, Parser!Go, Parser!Holders, PlaceInv, ListInv
  <2>2. HolderCount'
    BY <1>18, <1>0, <2>1, WhoHolds DEF Parser!KillConnection, Parser!setting,
       Parser!listVars, Parser!threadVars, Parser!workerVars, Parser!Go, HolderCount,
       ListInv
  <2>3. ListInv'
    BY <1>18, <1>0, <2>1, WhoHolds DEF Parser!KillConnection, Parser!setting,
       Parser!listVars, Parser!threadVars, Parser!workerVars, Parser!Go, ListInv, PlaceInv
  <2>. QED
    BY <2>2, <2>3
<1>19. ASSUME NEW a \in {App, Server}, Parser!Kill(a)
      PROVE  ListInv' /\ HolderCount'
  <2>1. Parser!Holders' = Parser!Holders
    BY <1>19, <1>0 DEF Parser!Kill, Parser!Back, Parser!setting, Parser!listVars,
       Parser!threadVars, Parser!workerVars, Parser!Go, Parser!Holders, PlaceInv, ListInv
  <2>2. HolderCount'
    BY <1>19, <1>0, <2>1, WhoHolds DEF Parser!Kill, Parser!Back, Parser!setting,
       Parser!listVars, Parser!threadVars, Parser!workerVars, Parser!Go, HolderCount,
       ListInv
  <2>3. ListInv'
    BY <1>19, <1>0, <2>1, WhoHolds DEF Parser!Kill, Parser!Back, Parser!setting,
       Parser!listVars, Parser!threadVars, Parser!workerVars, Parser!Go, ListInv, PlaceInv
  <2>. QED
    BY <2>2, <2>3
<1>20. ASSUME NEW a \in {App, Server}, Parser!KillJoin(a)
      PROVE  ListInv' /\ HolderCount'
  <2>1. Parser!Holders' = Parser!Holders
    BY <1>20, <1>0 DEF Parser!KillJoin, Parser!Back, Parser!setting, Parser!listVars,
       Parser!threadVars, Parser!workerVars, Parser!Go, Parser!Holders, PlaceInv, ListInv
  <2>2. HolderCount'
    BY <1>20, <1>0, <2>1, WhoHolds DEF Parser!KillJoin, Parser!Back, Parser!setting,
       Parser!listVars, Parser!threadVars, Parser!workerVars, Parser!Go, HolderCount,
       ListInv
  <2>3. ListInv'
    BY <1>20, <1>0, <2>1, WhoHolds DEF Parser!KillJoin, Parser!Back, Parser!setting,
       Parser!listVars, Parser!threadVars, Parser!workerVars, Parser!Go, ListInv, PlaceInv
  <2>. QED
    BY <2>2, <2>3
<1>21. ASSUME Parser!StopServer
      PROVE  ListInv' /\ HolderCount'
  <2>1. Parser!Holders' = Parser!Holders
    BY <1>21, <1>0 DEF Parser!StopServer, Parser!setting, Parser!listVars,
       Parser!threadVars, Parser!workerVars, Parser!Go, Parser!Holders, PlaceInv, ListInv
  <2>2. HolderCount'
    BY <1>21, <1>0, <2>1, WhoHolds DEF Parser!StopServer, Parser!setting, Parser!listVars,
       Parser!threadVars, Parser!workerVars, Parser!Go, HolderCount, ListInv
  <2>3. ListInv'
    BY <1>21, <1>0, <2>1, WhoHolds DEF Parser!StopServer, Parser!setting, Parser!listVars,
       Parser!threadVars, Parser!workerVars, Parser!Go, ListInv, PlaceInv
  <2>. QED
    BY <2>2, <2>3
<1>22. ASSUME Parser!KillNext
      PROVE  ListInv' /\ HolderCount'
  <2>1. Parser!Holders' = Parser!Holders
    BY <1>22, <1>0 DEF Parser!KillNext, Parser!setting, Parser!listVars, Parser!threadVars,
       Parser!workerVars, Parser!Go, Parser!Holders, PlaceInv, ListInv
  <2>2. HolderCount'
    BY <1>22, <1>0, <2>1, WhoHolds DEF Parser!KillNext, Parser!setting, Parser!listVars,
       Parser!threadVars, Parser!workerVars, Parser!Go, HolderCount, ListInv
  <2>3. ListInv'
    BY <1>22, <1>0, <2>1, WhoHolds DEF Parser!KillNext, Parser!setting, Parser!listVars,
       Parser!threadVars, Parser!workerVars, Parser!Go, ListInv, PlaceInv
  <2>. QED
    BY <2>2, <2>3
<1>23. CASE UNCHANGED Parser!vars
  BY <1>23, <1>0 DEF Parser!vars, Parser!setting, Parser!listVars, Parser!threadVars,
     Parser!workerVars, HolderCount, ListInv, Parser!Holders
<1>. QED
  BY <1>1, <1>2, <1>3, <1>4, <1>5, <1>6, <1>7, <1>8, <1>9, <1>10, <1>11, <1>12, <1>13,
     <1>14, <1>15, <1>16, <1>17, <1>18, <1>19, <1>20, <1>21, <1>22, <1>23
  DEF Parser!Next, Parser!ParserStep, Parser!WorkerStep, Parser!PeerStep, Parser!AppStep,
      Parser!ServerStep, Parser!Release

-----------------------------------------------------------------------------
(* The initial states satisfy the invariant, *)
LEMMA InitParser == Parser!Init => ParserIInv
<1> SUFFICES ASSUME Parser!Init PROVE ParserIInv
  OBVIOUS
<1> USE ParserListAssumption
<1>0. /\ App \in Workers \cup {App, Server} /\ Server \in Workers \cup {App, Server}
      /\ App # Server /\ App \notin Workers /\ Server \notin Workers
      /\ options \in [shared : BOOLEAN, limit : Nat] /\ options \in Options
  BY DEF Parser!Init
<1>1. /\ workers \subseteq Workers /\ IsFiniteSet(workers)
      /\ options.shared \/ \E w \in Workers : workers = {w}
  <2>1. workers \in IF options.shared THEN {Workers} ELSE {{w} : w \in Workers}
    BY DEF Parser!Init
  <2>2. CASE options.shared
    BY <2>1, <2>2
  <2>3. CASE ~options.shared
    <3>1. PICK w \in Workers : workers = {w}
      BY <2>1, <2>3
    <3>. QED
      BY <3>1, FS_Singleton
  <2>. QED
    BY <2>2, <2>3
<1>2. Cardinality(workers) \in Nat
  BY <1>1, FS_CardinalityType
<1>3. refs = 0 \/ refs = Cardinality(workers) + 1
  BY SameCardinality DEF Parser!Init
<1>4. /\ pc = [a \in Workers \cup {App, Server} |->
                 IF a \in workers THEN "begin" ELSE IF a \in Workers THEN "none" ELSE "idle"]
      /\ queue = <<>> /\ dropped = {} /\ \A w \in workers : listed[w]
  BY <1>1 DEF Parser!Init
<1>5. ParserTypes
  <2>1. list \in {"none", "alive", "freed"} /\ ppc \in {"none", "loop"} /\ refs \in Nat
    BY <1>2, <1>3 DEF Parser!Init
  <2>2. pc \in [Workers \cup {App, Server} -> Places]
    BY <1>4 DEF Places, Parser!Using
  <2>3. /\ received \in [Workers -> 0..MaxPackets]
        /\ parsed \in [Workers -> Seq(1..MaxPackets)]
        /\ sock \in [Workers -> BOOLEAN] /\ listed \in [Workers -> BOOLEAN]
        /\ target \in [{App, Server} -> Workers \cup {Nobody}]
        /\ queue \in Seq(Parser!ParserPackets)
    BY DEF Parser!Init
  <2>. QED
    BY <1>0, <1>1, <2>1, <2>2, <2>3 DEF Parser!Init, ParserTypes
<1>6. PlaceInv
  BY <1>0, <1>1, <1>4 DEF PlaceInv, Parser!Using, Parser!Releasing
<1>7. CASE options.shared
  <2>1. list = "alive" /\ refs = Cardinality(workers) + 1 /\ ppc = "loop"
    BY <1>7, SameCardinality DEF Parser!Init
  <2>2. Parser!Holders = workers \cup {Server}
    BY <1>0, <1>1, <1>4, <1>7, <2>1 DEF Parser!Holders, Parser!Using, Parser!Releasing
  <2>3. Cardinality(workers \cup {Server})
          = IF Server \in workers THEN Cardinality(workers) ELSE Cardinality(workers) + 1
    BY <1>1, FS_AddElement
  <2>4. HolderCount
    BY <1>0, <1>1, <1>2, <2>1, <2>2, <2>3 DEF HolderCount
  <2>5. ListInv /\ ThreadInv
    BY <1>0, <1>1, <1>4, <1>7, <2>1 DEF ListInv, ThreadInv
  <2>. QED
    BY <1>5, <1>6, <2>4, <2>5 DEF ParserIInv
<1>8. CASE ~options.shared
  <2>1. list = "none" /\ refs = 0 /\ ppc = "none"
    BY <1>8 DEF Parser!Init
  <2>2. Parser!Holders = {}
    BY <1>0, <1>1, <1>4, <1>8, <2>1 DEF Parser!Holders, Parser!Using, Parser!Releasing
  <2>3. HolderCount
    BY <2>1, <2>2 DEF HolderCount
  <2>4. ListInv /\ ThreadInv
    BY <1>0, <1>1, <1>4, <1>8, <2>1 DEF ListInv, ThreadInv
  <2>. QED
    BY <1>5, <1>6, <2>3, <2>4 DEF ParserIInv
<1>. QED
  BY <1>7, <1>8

(* and so do all that are reached. *)
LEMMA ParserInvariance == Parser!Spec => []ParserIInv
<1>1. ParserIInv /\ [Parser!Next]_(Parser!vars) => ParserIInv'
  BY ParserTypesStep, PlaceStep, ThreadStep, CountStep DEF ParserIInv
<1>. QED
  BY InitParser, <1>1, PTL DEF Parser!Spec

(* The list of parsers is counted right and freed by its last holder, when *)
(* its thread has ended, and a connection that was taken off the list of   *)
(* the server has given back a list of its own (epParserList.cpp and       *)
(* killConnection, epBaseServerWorker.cpp 329-361).                        *)
THEOREM HoldersKeepList == Parser!Spec => []ListOutlivesUsers
<1>1. ASSUME ParserIInv PROVE Parser!ListOutlivesUsers
  <2> USE <1>1
  <2>1. CASE refs # 0
    BY <2>1, SameCardinality DEF ParserIInv, HolderCount, ListInv, Parser!ListOutlivesUsers
  <2>2. CASE refs = 0
    <3>1. CASE Parser!Holders = {}
      BY <2>2, <3>1, FS_EmptySet, SameCardinality DEF ParserIInv, ListInv,
         Parser!ListOutlivesUsers
    <3>2. CASE Parser!Holders # {}
      <4>1. PICK a \in Parser!Holders : TRUE
        BY <3>2
      <4>2. Parser!Holders = {a}
        BY <2>2, <4>1 DEF ParserIInv, HolderCount
      <4>3. Cardinality({a}) = 1
        BY FS_Singleton
      <4>4. Cardinality(Parser!Holders) = 1
        BY <4>2, <4>3
      <4>. QED
        BY <2>2, <4>4, SameCardinality DEF ParserIInv, ListInv, Parser!ListOutlivesUsers
    <3>. QED
      BY <3>1, <3>2
  <2>. QED
    BY <2>1, <2>2
<1>. QED
  BY ParserInvariance, <1>1, SamePromises, PTL

-----------------------------------------------------------------------------
(* In other words, number by number. *)
AllOf(p, way, rec, drop, w) ==
  \A i : (\/ \E k \in DOMAIN p[w] : p[w][k] = i
          \/ \E k \in DOMAIN way : way[k][1] = w /\ way[k][2] = i)
         <=> (i \in 1..rec[w] /\ <<w, i>> \notin drop)

(* Both say the same. *)
LEMMA Accounting ==
  ASSUME NEW p, NEW way, NEW rec, NEW drop
  PROVE  Accounted(p, way, rec, drop)
         <=> Parser!InOrder(p, way) /\ \A w \in Workers : AllOf(p, way, rec, drop, w)
<1> DEFINE L(w) == ToSet(p[w]) \cup {q[2] : q \in {r \in ToSet(way) : r[1] = w}}
           R(w) == {i \in 1..rec[w] : <<w, i>> \notin drop}
<1>1. ASSUME NEW w, NEW i
      PROVE  i \in L(w) <=> \/ \E k \in DOMAIN p[w] : p[w][k] = i
                            \/ \E k \in DOMAIN way : way[k][1] = w /\ way[k][2] = i
  BY DEF ToSet
<1>2. ASSUME NEW w, NEW i PROVE i \in R(w) <=> i \in 1..rec[w] /\ <<w, i>> \notin drop
  OBVIOUS
<1>3. ASSUME NEW w PROVE L(w) = R(w) <=> \A i : i \in L(w) <=> i \in R(w)
  OBVIOUS
<1>4. Accounted(p, way, rec, drop) <=> Parser!InOrder(p, way) /\ \A w \in Workers : L(w) = R(w)
  BY DEF Accounted
<1> HIDE DEF L, R
<1>5. ASSUME NEW w PROVE L(w) = R(w) <=> AllOf(p, way, rec, drop, w)
  <2> DEFINE P(i) == \/ \E k \in DOMAIN p[w] : p[w][k] = i
                     \/ \E k \in DOMAIN way : way[k][1] = w /\ way[k][2] = i
             Q(i) == i \in 1..rec[w] /\ <<w, i>> \notin drop
  <2>1. \A i : i \in L(w) <=> P(i)
    BY <1>1
  <2>2. \A i : i \in R(w) <=> Q(i)
    BY <1>2
  <2>3. AllOf(p, way, rec, drop, w) <=> \A i : P(i) <=> Q(i)
    BY DEF AllOf
  <2> HIDE DEF P, Q
  <2>. QED
    BY <1>3, <2>1, <2>2, <2>3
<1>. QED
  BY <1>4, <1>5

(* Receive appends the next packet of its connection. *)
LEMMA ReceiveAccounted ==
  ASSUME NEW p \in [Workers -> Seq(1..MaxPackets)], NEW way \in Seq(Parser!ParserPackets),
         NEW rec \in [Workers -> 0..MaxPackets], NEW drop, NEW w \in Workers,
         rec[w] < MaxPackets,
         \A i \in 1..MaxPackets : <<w, i>> \in drop => i <= rec[w],
         Accounted(p, way, rec, drop)
  PROVE  Accounted(p, Append(way, <<w, rec[w] + 1>>), [rec EXCEPT ![w] = @ + 1], drop)
<1> DEFINE n == Len(way) + 1
           c == <<w, rec[w] + 1>>
           way2 == Append(way, c)
           rec2 == [rec EXCEPT ![w] = @ + 1]
<1> USE ParserListAssumption
<1>1. /\ Len(way) \in Nat /\ DOMAIN way = 1..Len(way)
      /\ c \in Parser!ParserPackets /\ c[1] = w /\ c[2] = rec[w] + 1
  BY DEF Parser!ParserPackets
<1>2. /\ DOMAIN way2 = 1..n /\ way2[n] = c
      /\ \A k \in 1..Len(way) : way2[k] = way[k]
  BY <1>1
<1>3. /\ \A v \in Workers : rec2[v] = IF v = w THEN rec[w] + 1 ELSE rec[v]
      /\ \A v \in Workers : rec[v] \in Nat
  OBVIOUS
<1>4. \A k \in DOMAIN way : way[k][1] \in Workers /\ way[k][2] \in 1..MaxPackets
  BY DEF Parser!ParserPackets
<1>5. \A v \in Workers : \A i : (\/ \E k \in DOMAIN p[v] : p[v][k] = i
                             \/ \E k \in DOMAIN way : way[k][1] = v /\ way[k][2] = i)
                            <=> (i \in 1..rec[v] /\ <<v, i>> \notin drop)
  BY Accounting DEF AllOf
<1> HIDE DEF c, way2, rec2
<1>6. Parser!InOrder(p, way2)
  <2> SUFFICES ASSUME NEW v \in Workers
               PROVE  /\ \A i, j \in DOMAIN p[v] : i < j => p[v][i] < p[v][j]
                      /\ \A i, j \in DOMAIN way2 :
                           i < j /\ way2[i][1] = v /\ way2[j][1] = v => way2[i][2] < way2[j][2]
                      /\ \A i \in DOMAIN p[v], j \in DOMAIN way2 :
                           way2[j][1] = v => p[v][i] < way2[j][2]
    BY DEF Parser!InOrder
  <2>1. /\ \A i, j \in DOMAIN p[v] : i < j => p[v][i] < p[v][j]
        /\ \A i, j \in DOMAIN way :
             i < j /\ way[i][1] = v /\ way[j][1] = v => way[i][2] < way[j][2]
        /\ \A i \in DOMAIN p[v], j \in DOMAIN way : way[j][1] = v => p[v][i] < way[j][2]
    BY Accounting DEF Parser!InOrder
  <2>2. ASSUME NEW i \in DOMAIN way2, NEW j \in DOMAIN way2, i < j,
               way2[i][1] = v, way2[j][1] = v
        PROVE  way2[i][2] < way2[j][2]
    <3>1. i \in 1..Len(way) /\ i \in DOMAIN way /\ way2[i] = way[i]
      BY <1>1, <1>2, <2>2
    <3>2. CASE j \in 1..Len(way)
      BY <1>1, <1>2, <2>1, <2>2, <3>1, <3>2
    <3>3. CASE j = n
      <4>1. v = w /\ way2[j][2] = rec[w] + 1
        BY <1>1, <1>2, <2>2, <3>3
      <4>2. way[i][2] \in 1..rec[w]
        <5>1. \E k \in DOMAIN way : way[k][1] = w /\ way[k][2] = way[i][2]
          BY <2>2, <3>1, <4>1
        <5>. QED
          BY <1>5, <5>1
      <4>. QED
        BY <1>3, <3>1, <4>1, <4>2
    <3>. QED
      BY <1>1, <1>2, <3>2, <3>3
  <2>3. ASSUME NEW i \in DOMAIN p[v], NEW j \in DOMAIN way2, way2[j][1] = v
        PROVE  p[v][i] < way2[j][2]
    <3>1. CASE j \in 1..Len(way)
      BY <1>1, <1>2, <2>1, <2>3, <3>1
    <3>2. CASE j = n
      <4>1. v = w /\ way2[j][2] = rec[w] + 1
        BY <1>1, <1>2, <2>3, <3>2
      <4>2. p[v][i] \in 1..rec[v]
        <5>1. \E k \in DOMAIN p[v] : p[v][k] = p[v][i]
          OBVIOUS
        <5>. QED
          BY <1>5, <5>1
      <4>. QED
        BY <1>3, <4>1, <4>2
    <3>3. j \in 1..Len(way) \/ j = n
      BY <1>1, <1>2, SMTT(20)
    <3>. QED
      BY <3>1, <3>2, <3>3
  <2>. QED
    BY <2>1, <2>2, <2>3
<1>7. ASSUME NEW v \in Workers, NEW i
      PROVE  (\/ \E k \in DOMAIN p[v] : p[v][k] = i
              \/ \E k \in DOMAIN way2 : way2[k][1] = v /\ way2[k][2] = i)
             <=> (i \in 1..rec2[v] /\ <<v, i>> \notin drop)
  <2>1. (\E k \in DOMAIN way2 : way2[k][1] = v /\ way2[k][2] = i)
          <=> \/ \E k \in DOMAIN way : way[k][1] = v /\ way[k][2] = i
              \/ v = w /\ i = rec[w] + 1
    <3>1. ASSUME NEW k \in DOMAIN way2
          PROVE  k = n \/ (k \in DOMAIN way /\ way2[k] = way[k])
      BY <1>1, <1>2
    <3>2. ASSUME NEW k \in DOMAIN way
          PROVE  k \in DOMAIN way2 /\ way2[k] = way[k]
      BY <1>1, <1>2
    <3>3. n \in DOMAIN way2 /\ way2[n][1] = w /\ way2[n][2] = rec[w] + 1
      BY <1>1, <1>2
    <3>. QED
      BY <3>1, <3>2, <3>3
  <2>2. (i \in 1..rec2[v] /\ <<v, i>> \notin drop)
          <=> \/ i \in 1..rec[v] /\ <<v, i>> \notin drop
              \/ v = w /\ i = rec[w] + 1
    <3>1. rec[w] + 1 \in 1..MaxPackets /\ <<w, rec[w] + 1>> \notin drop
      BY <1>3
    <3>. QED
      BY <1>3, <3>1
  <2>. QED
    BY <1>5, <2>1, <2>2
<1>8. Accounted(p, way2, rec2, drop)
  <2>1. \A v \in Workers : AllOf(p, way2, rec2, drop, v)
    BY <1>7 DEF AllOf
  <2>. QED
    BY <1>6, <2>1, Accounting
<1>. QED
  BY <1>8 DEF c, way2, rec2

(* ParsePacket takes the front, which is the next packet of its connection. *)
LEMMA ParseAccounted ==
  ASSUME NEW p \in [Workers -> Seq(1..MaxPackets)], NEW q \in Seq(Parser!ParserPackets),
         NEW c \in Parser!ParserPackets, NEW rec, NEW drop,
         Accounted(p, <<c>> \o q, rec, drop)
  PROVE  Accounted([p EXCEPT ![c[1]] = Append(@, c[2])], q, rec, drop)
<1> DEFINE way == <<c>> \o q
           p2 == [p EXCEPT ![c[1]] = Append(@, c[2])]
           u == c[1]
           x == c[2]
           m == Len(p[u])
<1> USE ParserListAssumption
<1>1. u \in Workers /\ x \in 1..MaxPackets
  BY DEF Parser!ParserPackets
<1>2. /\ Len(q) \in Nat /\ DOMAIN q = 1..Len(q)
      /\ DOMAIN way = 1..(Len(q) + 1) /\ way[1] = c
      /\ \A k \in 1..Len(q) : way[k + 1] = q[k]
  OBVIOUS
<1>3. /\ m \in Nat /\ DOMAIN p[u] = 1..m /\ DOMAIN p2[u] = 1..(m + 1)
      /\ p2[u][m + 1] = x
      /\ \A k \in 1..m : p2[u][k] = p[u][k]
      /\ \A v \in Workers : v # u => p2[v] = p[v]
  BY <1>1
<1>4. \A v \in Workers : \A i : (\/ \E k \in DOMAIN p[v] : p[v][k] = i
                             \/ \E k \in DOMAIN way : way[k][1] = v /\ way[k][2] = i)
                            <=> (i \in 1..rec[v] /\ <<v, i>> \notin drop)
  BY Accounting DEF AllOf
<1>5. ASSUME NEW v \in Workers
      PROVE  /\ \A i, j \in DOMAIN p[v] : i < j => p[v][i] < p[v][j]
             /\ \A i, j \in DOMAIN way :
                  i < j /\ way[i][1] = v /\ way[j][1] = v => way[i][2] < way[j][2]
             /\ \A i \in DOMAIN p[v], j \in DOMAIN way : way[j][1] = v => p[v][i] < way[j][2]
  BY Accounting DEF Parser!InOrder
<1> HIDE DEF way, p2, u, x, m
<1>c. c[1] = u /\ c[2] = x
  BY DEF u, x
<1>6. ASSUME NEW v \in Workers, NEW i \in DOMAIN q, NEW j \in DOMAIN q, i < j,
             q[i][1] = v, q[j][1] = v
      PROVE  q[i][2] < q[j][2]
  <2>1. i + 1 \in DOMAIN way /\ j + 1 \in DOMAIN way /\ way[i + 1] = q[i] /\ way[j + 1] = q[j]
        /\ i + 1 < j + 1
    BY <1>2, <1>6
  <2>. QED
    BY <1>5, <1>6, <2>1
<1>7. ASSUME NEW v \in Workers, NEW i \in DOMAIN p2[v], NEW j \in DOMAIN q, q[j][1] = v
      PROVE  p2[v][i] < q[j][2]
  <2>1. j + 1 \in DOMAIN way /\ way[j + 1] = q[j] /\ 1 \in DOMAIN way /\ 1 < j + 1
    BY <1>2
  <2>2. CASE v # u \/ i # m + 1
    <3>1. i \in DOMAIN p[v] /\ p2[v][i] = p[v][i]
      <4>1. CASE v # u
        BY <1>3, <4>1
      <4>2. CASE v = u /\ i # m + 1
        <5>1. i \in 1..(m + 1)
          BY <1>3, <4>2
        <5>2. i \in 1..m
          BY <1>3, <4>2, <5>1
        <5>. QED
          BY <1>3, <4>2, <5>2
      <4>. QED
        BY <2>2, <4>1, <4>2
    <3>. QED
      BY <1>5, <1>7, <2>1, <3>1
  <2>3. CASE v = u /\ i = m + 1
    <3>1. p2[v][i] = x /\ way[1][1] = v /\ way[1][2] = x
      BY <1>2, <1>3, <1>c, <2>3
    <3>. QED
      BY <1>5, <1>7, <2>1, <3>1
  <2>. QED
    BY <2>2, <2>3
<1>8. ASSUME NEW v \in Workers, NEW i \in DOMAIN p2[v], NEW j \in DOMAIN p2[v], i < j
      PROVE  p2[v][i] < p2[v][j]
  <2>1. CASE v # u
    BY <1>3, <1>5, <1>8, <2>1
  <2>2. CASE v = u
    <3>1. i \in DOMAIN p[u] /\ p2[u][i] = p[u][i]
      BY <1>3, <1>8, <2>2
    <3>2. CASE j \in 1..m
      BY <1>1, <1>3, <1>5, <1>8, <2>2, <3>1, <3>2
    <3>3. CASE j = m + 1
      <4>1. 1 \in DOMAIN way /\ way[1][1] = u /\ way[1][2] = x
        BY <1>2, <1>c
      <4>2. p[u][i] < x
        BY <1>1, <1>5, <3>1, <4>1
      <4>. QED
        BY <1>3, <2>2, <3>1, <3>3, <4>2
    <3>. QED
      BY <1>3, <2>2, <3>2, <3>3
  <2>. QED
    BY <2>1, <2>2
<1>9. ASSUME NEW v \in Workers, NEW i
      PROVE  (\/ \E k \in DOMAIN p2[v] : p2[v][k] = i
              \/ \E k \in DOMAIN q : q[k][1] = v /\ q[k][2] = i)
             <=> (\/ \E k \in DOMAIN p[v] : p[v][k] = i
                  \/ \E k \in DOMAIN way : way[k][1] = v /\ way[k][2] = i)
  <2>1. (\E k \in DOMAIN way : way[k][1] = v /\ way[k][2] = i)
          <=> \/ \E k \in DOMAIN q : q[k][1] = v /\ q[k][2] = i
              \/ v = u /\ i = x
    <3>1. ASSUME NEW k \in DOMAIN way
          PROVE  k = 1 \/ (k - 1 \in DOMAIN q /\ way[k] = q[k - 1])
      BY <1>2
    <3>2. ASSUME NEW k \in DOMAIN q
          PROVE  k + 1 \in DOMAIN way /\ way[k + 1] = q[k]
      BY <1>2
    <3>3. 1 \in DOMAIN way /\ way[1][1] = u /\ way[1][2] = x
      BY <1>2, <1>c
    <3>. QED
      BY <3>1, <3>2, <3>3
  <2>2. (\E k \in DOMAIN p2[v] : p2[v][k] = i)
          <=> \/ \E k \in DOMAIN p[v] : p[v][k] = i
              \/ v = u /\ i = x
    <3>1. CASE v = u
      <4>1. ASSUME NEW k \in DOMAIN p2[u]
            PROVE  k = m + 1 \/ (k \in DOMAIN p[u] /\ p2[u][k] = p[u][k])
        BY <1>3
      <4>2. ASSUME NEW k \in DOMAIN p[u]
            PROVE  k \in DOMAIN p2[u] /\ p2[u][k] = p[u][k]
        BY <1>3
      <4>3. m + 1 \in DOMAIN p2[u] /\ p2[u][m + 1] = x
        BY <1>3
      <4>. QED
        BY <3>1, <4>1, <4>2, <4>3
    <3>2. CASE v # u
      BY <1>3, <3>2
    <3>. QED
      BY <3>1, <3>2
  <2>. QED
    BY <2>1, <2>2
<1>10. Parser!InOrder(p2, q)
  BY <1>6, <1>7, <1>8 DEF Parser!InOrder
<1>11. Accounted(p2, q, rec, drop)
  <2>1. ASSUME NEW v \in Workers PROVE AllOf(p2, q, rec, drop, v)
    <3> DEFINE P(i) == \/ \E k \in DOMAIN p2[v] : p2[v][k] = i
                       \/ \E k \in DOMAIN q : q[k][1] = v /\ q[k][2] = i
               P0(i) == \/ \E k \in DOMAIN p[v] : p[v][k] = i
                        \/ \E k \in DOMAIN way : way[k][1] = v /\ way[k][2] = i
               Q(i) == i \in 1..rec[v] /\ <<v, i>> \notin drop
    <3>1. \A i : P(i) <=> P0(i)
      BY <1>9
    <3>2. \A i : P0(i) <=> Q(i)
      BY <1>4
    <3>3. AllOf(p2, q, rec, drop, v) <=> \A i : P(i) <=> Q(i)
      BY DEF AllOf
    <3> HIDE DEF P, P0, Q
    <3>. QED
      BY <3>1, <3>2, <3>3
  <2>. QED
    BY <1>10, <2>1, Accounting
<1>. QED
  BY <1>11 DEF p2, u, x

(* Clear drops what is on its way. *)
LEMMA ClearAccounted ==
  ASSUME NEW p \in [Workers -> Seq(1..MaxPackets)], NEW way \in Seq(Parser!ParserPackets),
         NEW rec, NEW drop,
         Accounted(p, way, rec, drop)
  PROVE  Accounted(p, <<>>, rec, drop \cup ToSet(way))
<1>1. ASSUME NEW v \in Workers
      PROVE  /\ \A i, j \in DOMAIN p[v] : i < j => p[v][i] < p[v][j]
             /\ \A i \in DOMAIN p[v], j \in DOMAIN way : way[j][1] = v => p[v][i] < way[j][2]
  BY Accounting DEF Parser!InOrder
<1>2. Parser!InOrder(p, <<>>)
  BY <1>1 DEF Parser!InOrder
<1>3. \A v \in Workers : \A i : (\/ \E k \in DOMAIN p[v] : p[v][k] = i
                             \/ \E k \in DOMAIN way : way[k][1] = v /\ way[k][2] = i)
                            <=> (i \in 1..rec[v] /\ <<v, i>> \notin drop)
  BY Accounting DEF AllOf
<1> DEFINE drop2 == drop \cup ToSet(way)
<1>4. ASSUME NEW v \in Workers, NEW i
      PROVE  (\E k \in DOMAIN p[v] : p[v][k] = i)
             <=> (i \in 1..rec[v] /\ <<v, i>> \notin drop2)
  <2>1. <<v, i>> \in ToSet(way) <=> \E k \in DOMAIN way : way[k][1] = v /\ way[k][2] = i
    BY DEF ToSet, Parser!ParserPackets
  <2>2. ASSUME NEW k \in DOMAIN p[v], p[v][k] = i,
               NEW l \in DOMAIN way, way[l][1] = v, way[l][2] = i
        PROVE  FALSE
    <3>1. p[v][k] < way[l][2]
      BY <1>1, <2>2
    <3>2. p[v][k] \in 1..MaxPackets
      <4> DEFINE T == 1..MaxPackets
      <4>1. p[v] \in Seq(T)
        OBVIOUS
      <4> HIDE DEF T
      <4>2. ASSUME NEW s \in Seq(T), NEW m \in DOMAIN s PROVE s[m] \in T
        OBVIOUS
      <4>3. p[v][k] \in T
        BY <2>2, <4>1, <4>2
      <4>. QED
        BY <4>3 DEF T
    <3>4. i < i /\ i \in Nat
      BY <2>2, <3>1, <3>2, ParserListAssumption
    <3>. QED
      BY <3>4
  <2>. QED
    BY <1>3, <2>1, <2>2
<1>5. Accounted(p, <<>>, rec, drop2)
  <2>1. ASSUME NEW v \in Workers, NEW i
        PROVE  (\/ \E k \in DOMAIN p[v] : p[v][k] = i
                \/ \E k \in DOMAIN <<>> : <<>>[k][1] = v /\ <<>>[k][2] = i)
               <=> (i \in 1..rec[v] /\ <<v, i>> \notin drop2)
    BY <1>4
  <2> HIDE DEF drop2
  <2>2. \A v \in Workers : AllOf(p, <<>>, rec, drop2, v)
    BY <2>1 DEF AllOf
  <2>. QED
    BY <1>2, <2>2, Accounting
<1>. QED
  BY <1>5

-----------------------------------------------------------------------------
(* Each action keeps the packets accounted for. *)
LEMMA PacketStep == ParserIInv /\ PacketInv /\ [Parser!Next]_(Parser!vars) => PacketInv'
<1> SUFFICES ASSUME ParserIInv, PacketInv, [Parser!Next]_(Parser!vars) PROVE PacketInv'
  OBVIOUS
<1> USE ParserListAssumption
<1>0. /\ ppc \in {"none", "loop", "suspend", "suspended", "parse"}
      /\ workers \subseteq Workers /\ workers \subseteq Workers \cup {App, Server}
      /\ PlaceInv /\ ThreadInv /\ ListInv /\ PacketInv
  BY DEF ParserIInv, ParserTypes
<1>f. ASSUME UNCHANGED <<parsed, received, dropped>>, Parser!OnTheWay' = Parser!OnTheWay
      PROVE  PacketInv'
  BY <1>f, <1>0 DEF PacketInv
<1>1. ASSUME Parser!Stopped, UNCHANGED parsed,
           UNCHANGED <<Parser!setting, list, refs, dropped, missed, pc, target, Parser!workerVars>>
      PROVE  PacketInv'
  <2>1. UNCHANGED <<parsed, received, dropped>> /\ Parser!OnTheWay' = Parser!OnTheWay
    BY <1>1, <1>0 DEF Parser!Stopped, Parser!setting, Parser!listVars, Parser!threadVars,
       Parser!workerVars, Parser!Go, Parser!OnTheWay, ListInv, PlaceInv
  <2>. QED
    BY <1>f, <2>1
<1>2. ASSUME Parser!Empty, UNCHANGED parsed,
           UNCHANGED <<Parser!setting, list, refs, dropped, missed, pc, target, Parser!workerVars>>
      PROVE  PacketInv'
  <2>1. UNCHANGED <<parsed, received, dropped>> /\ Parser!OnTheWay' = Parser!OnTheWay
    BY <1>2, <1>0 DEF Parser!Empty, Parser!setting, Parser!listVars, Parser!threadVars,
       Parser!workerVars, Parser!Go, Parser!OnTheWay, ListInv, PlaceInv
  <2>. QED
    BY <1>f, <2>1
<1>3. ASSUME Parser!Take, UNCHANGED parsed,
           UNCHANGED <<Parser!setting, list, refs, dropped, missed, pc, target, Parser!workerVars>>
      PROVE  PacketInv'
  <2>1. /\ queue \in Seq(Parser!ParserPackets) /\ queue # <<>>
        /\ queue' = Tail(queue) /\ current' = Head(queue) /\ ppc = "loop" /\ ppc' = "parse"
        /\ UNCHANGED <<parsed, received, dropped>>
    BY <1>3 DEF ParserIInv, ParserTypes, Parser!Take, Parser!workerVars
  <2>2. <<Head(queue)>> \o Tail(queue) = <<>> \o queue
    BY <2>1
  <2>3. Parser!OnTheWay' = Parser!OnTheWay
    BY <2>1, <2>2 DEF Parser!OnTheWay
  <2>. QED
    BY <1>f, <2>1, <2>3
<1>4. ASSUME Parser!Suspend, UNCHANGED parsed,
           UNCHANGED <<Parser!setting, list, refs, dropped, missed, pc, target, Parser!workerVars>>
      PROVE  PacketInv'
  <2>1. UNCHANGED <<parsed, received, dropped>> /\ Parser!OnTheWay' = Parser!OnTheWay
    BY <1>4, <1>0 DEF Parser!Suspend, Parser!setting, Parser!listVars, Parser!threadVars,
       Parser!workerVars, Parser!Go, Parser!OnTheWay, ListInv, PlaceInv
  <2>. QED
    BY <1>f, <2>1
<1>5. ASSUME Parser!ParsePacket,
           UNCHANGED <<Parser!setting, list, refs, dropped, missed, pc, target, Parser!workerVars>>
      PROVE  PacketInv'
  <2>1. /\ parsed \in [Workers -> Seq(1..MaxPackets)] /\ queue \in Seq(Parser!ParserPackets)
        /\ current \in Parser!ParserPackets
        /\ parsed' = [parsed EXCEPT ![current[1]] = Append(@, current[2])]
        /\ ppc = "parse" /\ ppc' = "loop" /\ queue' = queue
        /\ UNCHANGED <<received, dropped>>
    BY <1>5 DEF ParserIInv, ParserTypes, Parser!ParsePacket, Parser!workerVars
  <2>2. Parser!OnTheWay = <<current>> \o queue /\ Parser!OnTheWay' = queue
    BY <2>1 DEF Parser!OnTheWay
  <2>3. Accounted(parsed, <<current>> \o queue, received, dropped)
    BY <1>0, <2>2 DEF PacketInv
  <2>4. Accounted([parsed EXCEPT ![current[1]] = Append(@, current[2])], queue, received, dropped)
    BY <2>1, <2>3, ParseAccounted
  <2>. QED
    BY <1>0, <2>1, <2>2, <2>4 DEF PacketInv
<1>6. ASSUME NEW w \in workers, Parser!Begin(w), UNCHANGED <<Parser!setting, target>>
      PROVE  PacketInv'
  <2>1. UNCHANGED <<parsed, received, dropped>> /\ Parser!OnTheWay' = Parser!OnTheWay
    BY <1>6, <1>0 DEF Parser!Begin, Parser!setting, Parser!listVars, Parser!threadVars,
       Parser!workerVars, Parser!Go, Parser!OnTheWay, ListInv, PlaceInv
  <2>. QED
    BY <1>f, <2>1
<1>7. ASSUME NEW w \in workers, Parser!Look(w), UNCHANGED <<Parser!setting, target>>
      PROVE  PacketInv'
  <2>1. UNCHANGED <<parsed, received, dropped>> /\ Parser!OnTheWay' = Parser!OnTheWay
    BY <1>7, <1>0 DEF Parser!Look, Parser!Resume, Parser!setting, Parser!listVars,
       Parser!threadVars, Parser!workerVars, Parser!Go, Parser!OnTheWay, ListInv, PlaceInv
  <2>. QED
    BY <1>f, <2>1
<1>8. ASSUME NEW w \in workers, Parser!Count(w), UNCHANGED <<Parser!setting, target>>
      PROVE  PacketInv'
  <2>1. UNCHANGED <<parsed, received, dropped>> /\ Parser!OnTheWay' = Parser!OnTheWay
    BY <1>8, <1>0 DEF Parser!Count, Parser!setting, Parser!listVars, Parser!threadVars,
       Parser!workerVars, Parser!Go, Parser!OnTheWay, ListInv, PlaceInv
  <2>. QED
    BY <1>f, <2>1
<1>9. ASSUME NEW w \in workers, Parser!WaitForListSizeDecrease(w),
           UNCHANGED <<Parser!setting, target>>
      PROVE  PacketInv'
  <2>1. UNCHANGED <<parsed, received, dropped>> /\ Parser!OnTheWay' = Parser!OnTheWay
    BY <1>9, <1>0 DEF Parser!WaitForListSizeDecrease, Parser!setting, Parser!listVars,
       Parser!threadVars, Parser!workerVars, Parser!Go, Parser!OnTheWay, ListInv, PlaceInv
  <2>. QED
    BY <1>f, <2>1
<1>10. ASSUME NEW w \in workers, Parser!Leave(w), UNCHANGED <<Parser!setting, target>>
      PROVE  PacketInv'
  <2>1. UNCHANGED <<parsed, received, dropped>> /\ Parser!OnTheWay' = Parser!OnTheWay
    BY <1>10, <1>0 DEF Parser!Leave, Parser!setting, Parser!listVars, Parser!threadVars,
       Parser!workerVars, Parser!Go, Parser!OnTheWay, ListInv, PlaceInv
  <2>. QED
    BY <1>f, <2>1
<1>11. ASSUME NEW w \in workers, Parser!End(w), UNCHANGED <<Parser!setting, target>>
      PROVE  PacketInv'
  <2>1. UNCHANGED <<parsed, received, dropped>> /\ Parser!OnTheWay' = Parser!OnTheWay
    BY <1>11, <1>0 DEF Parser!End, Parser!setting, Parser!listVars, Parser!threadVars,
       Parser!workerVars, Parser!Go, Parser!OnTheWay, ListInv, PlaceInv
  <2>. QED
    BY <1>f, <2>1
<1>12. ASSUME NEW w \in workers, Parser!Receive(w), UNCHANGED <<Parser!setting, target>>
      PROVE  PacketInv'
  <2>1. /\ parsed \in [Workers -> Seq(1..MaxPackets)] /\ queue \in Seq(Parser!ParserPackets)
        /\ received \in [Workers -> 0..MaxPackets] /\ w \in Workers
        /\ ppc = "parse" => current \in Parser!ParserPackets
        /\ received[w] < MaxPackets
        /\ received' = [received EXCEPT ![w] = @ + 1]
        /\ queue' = Append(queue, <<w, received[w] + 1>>)
        /\ UNCHANGED <<parsed, dropped, ppc, current>>
    BY <1>12, <1>0 DEF ParserIInv, ParserTypes, Parser!Receive, Parser!threadVars
  <2>2. <<w, received[w] + 1>> \in Parser!ParserPackets
    BY <2>1 DEF Parser!ParserPackets
  <2>3. Parser!OnTheWay \in Seq(Parser!ParserPackets)
    BY <2>1 DEF Parser!OnTheWay
  <2>4. Parser!OnTheWay' = Append(Parser!OnTheWay, <<w, received[w] + 1>>)
    <3>1. CASE ppc = "parse"
      <4>1. <<current>> \o Append(queue, <<w, received[w] + 1>>)
              = Append(<<current>> \o queue, <<w, received[w] + 1>>)
        BY <2>1, <2>2, <3>1
      <4>. QED
        BY <2>1, <3>1, <4>1 DEF Parser!OnTheWay
    <3>2. CASE ppc # "parse"
      <4>1. <<>> \o Append(queue, <<w, received[w] + 1>>)
              = Append(<<>> \o queue, <<w, received[w] + 1>>)
        BY <2>1, <2>2, <3>2
      <4>. QED
        BY <2>1, <3>2, <4>1 DEF Parser!OnTheWay
    <3>. QED
      BY <3>1, <3>2
  <2>5. \A i \in 1..MaxPackets : <<w, i>> \in dropped => i <= received[w]
    BY <1>0, <2>1 DEF PacketInv
  <2>6. Accounted(parsed, Parser!OnTheWay, received, dropped)
    BY <1>0 DEF PacketInv
  <2>7. Accounted(parsed, Append(Parser!OnTheWay, <<w, received[w] + 1>>),
                  [received EXCEPT ![w] = @ + 1], dropped)
    BY <2>1, <2>3, <2>5, <2>6, ReceiveAccounted
  <2>8. Accounted(parsed, Parser!OnTheWay, received, dropped)'
    BY <2>1, <2>4, <2>7
  <2>9. ASSUME NEW v \in Workers, NEW i \in 1..MaxPackets, <<v, i>> \in dropped
        PROVE  i <= received'[v]
    <3>1. i <= received[v]
      BY <1>0, <2>9 DEF PacketInv
    <3>. QED
      BY <2>1, <3>1
  <2>. QED
    BY <2>1, <2>8, <2>9 DEF PacketInv
<1>13. ASSUME NEW a \in workers \cup {Server}, Parser!StopParse(a),
           UNCHANGED <<Parser!setting, target>>
      PROVE  PacketInv'
  <2>1. UNCHANGED <<parsed, received, dropped>> /\ Parser!OnTheWay' = Parser!OnTheWay
    BY <1>13, <1>0 DEF Parser!StopParse, Parser!setting, Parser!listVars,
       Parser!threadVars, Parser!workerVars, Parser!Go, Parser!OnTheWay, ListInv, PlaceInv
  <2>. QED
    BY <1>f, <2>1
<1>14. ASSUME NEW a \in workers \cup {Server}, Parser!Wake(a),
           UNCHANGED <<Parser!setting, target>>
      PROVE  PacketInv'
  <2>1. UNCHANGED <<parsed, received, dropped>> /\ Parser!OnTheWay' = Parser!OnTheWay
    BY <1>14, <1>0 DEF Parser!Wake, Parser!Resume, Parser!setting, Parser!listVars,
       Parser!threadVars, Parser!workerVars, Parser!Go, Parser!OnTheWay, ListInv, PlaceInv
  <2>. QED
    BY <1>f, <2>1
<1>15. ASSUME NEW a \in workers \cup {Server}, Parser!Join(a),
           UNCHANGED <<Parser!setting, target>>
      PROVE  PacketInv'
  <2>1. UNCHANGED <<parsed, received, dropped>> /\ Parser!OnTheWay' = Parser!OnTheWay
    BY <1>15, <1>0 DEF Parser!Join, Parser!setting, Parser!listVars, Parser!threadVars,
       Parser!workerVars, Parser!Go, Parser!OnTheWay, ListInv, PlaceInv
  <2>. QED
    BY <1>f, <2>1
<1>16. ASSUME NEW a \in workers \cup {Server}, Parser!Clear(a),
           UNCHANGED <<Parser!setting, target>>
      PROVE  PacketInv'
  <2>1. /\ parsed \in [Workers -> Seq(1..MaxPackets)] /\ queue \in Seq(Parser!ParserPackets)
        /\ received \in [Workers -> 0..MaxPackets]
        /\ queue' = <<>> /\ dropped' = dropped \cup ToSet(queue)
        /\ ppc = "none" /\ UNCHANGED <<parsed, received, ppc>>
    BY <1>16, <1>0, SameSet DEF ParserIInv, ParserTypes, Parser!Clear, ThreadInv,
       Parser!threadVars, Parser!workerVars
  <2>2. Parser!OnTheWay = queue /\ Parser!OnTheWay' = <<>>
    BY <2>1 DEF Parser!OnTheWay
  <2>3. Accounted(parsed, queue, received, dropped)
    BY <1>0, <2>2 DEF PacketInv
  <2>4. Accounted(parsed, <<>>, received, dropped \cup ToSet(queue))
    BY <2>1, <2>3, ClearAccounted
  <2>5. ASSUME NEW v \in Workers, NEW i \in 1..MaxPackets, <<v, i>> \in dropped'
        PROVE  i <= received[v]
    <3>1. CASE <<v, i>> \in dropped
      BY <1>0, <3>1 DEF PacketInv
    <3>2. CASE <<v, i>> \in ToSet(queue)
      <4>1. PICK k \in DOMAIN queue : queue[k] = <<v, i>>
        BY <3>2 DEF ToSet
      <4>2. queue[k][1] = v /\ queue[k][2] = i
        BY <4>1
      <4>3. AllOf(parsed, queue, received, dropped, v)
        BY <2>3, Accounting
      <4>4. i \in 1..received[v]
        BY <4>2, <4>3 DEF AllOf
      <4>. QED
        BY <2>1, <4>4
    <3>. QED
      BY <2>1, <2>5, <3>1, <3>2
  <2>. QED
    BY <2>1, <2>2, <2>4, <2>5 DEF PacketInv
<1>17. ASSUME NEW a \in workers \cup {Server}, Parser!ReleaseObj(a),
           UNCHANGED <<Parser!setting, target>>
      PROVE  PacketInv'
  <2>1. UNCHANGED <<parsed, received, dropped>> /\ Parser!OnTheWay' = Parser!OnTheWay
    BY <1>17, <1>0 DEF Parser!ReleaseObj, Parser!setting, Parser!listVars,
       Parser!threadVars, Parser!workerVars, Parser!Go, Parser!OnTheWay, ListInv, PlaceInv
  <2>. QED
    BY <1>f, <2>1
<1>18. ASSUME NEW w \in workers, Parser!KillConnection(w)
      PROVE  PacketInv'
  <2>1. UNCHANGED <<parsed, received, dropped>> /\ Parser!OnTheWay' = Parser!OnTheWay
    BY <1>18, <1>0 DEF Parser!KillConnection, Parser!setting, Parser!listVars,
       Parser!threadVars, Parser!workerVars, Parser!Go, Parser!OnTheWay, ListInv, PlaceInv
  <2>. QED
    BY <1>f, <2>1
<1>19. ASSUME NEW a \in {App, Server}, Parser!Kill(a)
      PROVE  PacketInv'
  <2>1. UNCHANGED <<parsed, received, dropped>> /\ Parser!OnTheWay' = Parser!OnTheWay
    BY <1>19, <1>0 DEF Parser!Kill, Parser!Back, Parser!setting, Parser!listVars,
       Parser!threadVars, Parser!workerVars, Parser!Go, Parser!OnTheWay, ListInv, PlaceInv
  <2>. QED
    BY <1>f, <2>1
<1>20. ASSUME NEW a \in {App, Server}, Parser!KillJoin(a)
      PROVE  PacketInv'
  <2>1. UNCHANGED <<parsed, received, dropped>> /\ Parser!OnTheWay' = Parser!OnTheWay
    BY <1>20, <1>0 DEF Parser!KillJoin, Parser!Back, Parser!setting, Parser!listVars,
       Parser!threadVars, Parser!workerVars, Parser!Go, Parser!OnTheWay, ListInv, PlaceInv
  <2>. QED
    BY <1>f, <2>1
<1>21. ASSUME Parser!StopServer
      PROVE  PacketInv'
  <2>1. UNCHANGED <<parsed, received, dropped>> /\ Parser!OnTheWay' = Parser!OnTheWay
    BY <1>21, <1>0 DEF Parser!StopServer, Parser!setting, Parser!listVars,
       Parser!threadVars, Parser!workerVars, Parser!Go, Parser!OnTheWay, ListInv, PlaceInv
  <2>. QED
    BY <1>f, <2>1
<1>22. ASSUME Parser!KillNext
      PROVE  PacketInv'
  <2>1. UNCHANGED <<parsed, received, dropped>> /\ Parser!OnTheWay' = Parser!OnTheWay
    BY <1>22, <1>0 DEF Parser!KillNext, Parser!setting, Parser!listVars, Parser!threadVars,
       Parser!workerVars, Parser!Go, Parser!OnTheWay, ListInv, PlaceInv
  <2>. QED
    BY <1>f, <2>1
<1>23. CASE UNCHANGED Parser!vars
  <2>1. UNCHANGED <<parsed, received, dropped>> /\ Parser!OnTheWay' = Parser!OnTheWay
    BY <1>23, <1>0 DEF Parser!vars, Parser!setting, Parser!listVars, Parser!threadVars,
       Parser!workerVars, Parser!Go, Parser!OnTheWay, ListInv, PlaceInv
  <2>. QED
    BY <1>f, <2>1
<1>. QED
  BY <1>1, <1>2, <1>3, <1>4, <1>5, <1>6, <1>7, <1>8, <1>9, <1>10, <1>11, <1>12, <1>13,
     <1>14, <1>15, <1>16, <1>17, <1>18, <1>19, <1>20, <1>21, <1>22, <1>23
  DEF Parser!Next, Parser!ParserStep, Parser!WorkerStep, Parser!PeerStep, Parser!AppStep,
      Parser!ServerStep, Parser!Release

(* No packet is unaccounted for in the beginning. *)
LEMMA InitPackets == Parser!Init => PacketInv
<1> SUFFICES ASSUME Parser!Init PROVE PacketInv
  OBVIOUS
<1>1. /\ Parser!OnTheWay = <<>> /\ dropped = {}
      /\ \A w \in Workers : parsed[w] = <<>> /\ received[w] = 0
  BY DEF Parser!Init, Parser!OnTheWay
<1>2. Parser!InOrder(parsed, Parser!OnTheWay)
  BY <1>1 DEF Parser!InOrder
<1>3. \A w \in Workers : AllOf(parsed, Parser!OnTheWay, received, dropped, w)
  BY <1>1 DEF AllOf
<1>. QED
  BY <1>1, <1>2, <1>3, Accounting DEF PacketInv

(* The invariant has the types that the promise states. *)
LEMMA TypesHold == ParserIInv => Parser!ListTypeOK
<1> SUFFICES ASSUME ParserIInv PROVE Parser!ListTypeOK
  OBVIOUS
<1> USE ParserListAssumption
<1>1. refs <= Cardinality(Workers) + 1
  <2>1. IsFiniteSet(Workers \cup {Server}) /\ Server \notin Workers
        /\ Cardinality(Workers \cup {Server}) = Cardinality(Workers) + 1
    <3>1. /\ IsFiniteSet(Workers \cup {Server})
          /\ Cardinality(Workers \cup {Server})
               = IF Server \in Workers THEN Cardinality(Workers) ELSE Cardinality(Workers) + 1
      BY FS_AddElement
    <3>. QED
      BY <3>1
  <2>2. Parser!Holders \subseteq Workers \cup {Server}
    BY DEF ParserIInv, ParserTypes, Parser!Holders
  <2>3. Cardinality(Parser!Holders) <= Cardinality(Workers \cup {Server})
    BY <2>1, <2>2, FS_Subset
  <2>4. Cardinality(Workers) \in Nat
    BY FS_CardinalityType
  <2>5. refs = 0 \/ refs = Cardinality(Parser!Holders)
    BY DEF ParserIInv, HolderCount
  <2> HIDE DEF Parser!Holders
  <2>. QED
    BY <2>1, <2>3, <2>4, <2>5
<1>2. Cardinality(Workers) + 1 \in Nat
  BY FS_CardinalityType
<1>3. refs \in 0..(Cardinality(Workers) + 1)
  BY <1>1, <1>2 DEF ParserIInv, ParserTypes
<1>. QED
  BY <1>3, SameCardinality DEF ParserIInv, ParserTypes, Parser!ListTypeOK, Places,
     Parser!Using, Parser!Releasing

(* Every packet that was received is parsed, on its way to be, or dropped, *)
(* once and in the order of its connection, and none is dropped before the *)
(* thread has ended (epParserList.cpp 124-144, 179-184).                   *)
THEOREM PacketsParsedInOrder == Parser!Spec => []ParsedInOrder
<1>1. ParserIInv /\ PacketInv /\ [Parser!Next]_(Parser!vars) => PacketInv'
  BY PacketStep
<1>2. ParserIInv /\ PacketInv => Parser!ParsedInOrder
  BY TypesHold, SameSet DEF PacketInv, Accounted, Parser!ParsedInOrder, ParserIInv,
     ThreadInv
<1>. QED
  BY ParserInvariance, InitPackets, <1>1, <1>2, SamePromises, PTL DEF Parser!Spec
=============================================================================
