----------------------------- MODULE TcpFraming -----------------------------
(***************************************************************************)
(* How packets cross a TCP connection: BaseTcpSocket::Send                 *)
(* (epBaseTcpSocket.cpp) called by several threads of the application on   *)
(* one connection, the byte stream, and the receiving loop of the client   *)
(* at the other end (epAsyncTcpClient.cpp, epBaseTcpClient.cpp).  A packet *)
(* is sent as its length, HeaderSize bytes, and then its bytes; system     *)
(* calls may write or read less than asked for, or fail.  Send goes on to  *)
(* the bytes of the packet after part of a length, and leaves a packet     *)
(* half sent when a call fails, without closing the connection: then the   *)
(* frame is torn, and what is sent next is read as the rest of it.         *)
(* Meanwhile killConnection, which does not take m_sendLock, may close the *)
(* descriptor, and the accept loop may get the same descriptor number for  *)
(* a new connection.                                                       *)
(***************************************************************************)
EXTENDS Naturals, SequencesExt, Functions

CONSTANTS
  Senders,     (* threads that call Send                                   *)
  Packets,     (* the packets                                              *)
  Length,      (* the byte size of each packet                             *)
  HeaderSize,  (* the bytes of the length, 4 in the code                   *)
  Window,      (* bytes the connection takes before a sender has to wait   *)
  Free, NoPacket,
  Garbage      (* a packet put together from the bytes of several         *)

ASSUME FramingAssumption ==
  /\ Length \in [Packets -> Nat]
  /\ HeaderSize \in Nat \ {0}
  /\ Window \in Nat \ {0}
  /\ Free \notin Senders
  /\ NoPacket \notin Packets
  /\ Garbage \notin Packets

VARIABLES
  sendLock,     (* holder of m_sendLock                                    *)
  spc,          (* where each sender is in Send                            *)
  packet,       (* the packet each sender sends                            *)
  left,         (* its local variable length                               *)
  result,       (* history: what Send answered for each packet             *)
  written,      (* history: bytes of each frame that entered the stream    *)
  member,       (* m_clientSocket # INVALID_SOCKET                         *)
  fd,           (* what the descriptor number is: open, closed, or foreign: another connection *)
  reset,        (* the connection broke                                    *)
  wire,         (* the byte stream; a byte is <<packet, place in its frame>> *)
  torn,         (* a frame was left incomplete on the open connection      *)
  behind,       (* how many bytes are under way behind the torn frame      *)
  cut,          (* history: packets of whose length only a part was sent   *)
  strayed,      (* history: bytes of this connection went into another     *)
  got,          (* bytes the receiver has of the header or the payload     *)
  rpc,          (* the receiver: header, payload, ended, or garbled        *)
  accepted, delivered   (* history, see PacketChannel                      *)

sendVars == <<sendLock, spc, packet, left, result, written>>
sockVars == <<member, fd, reset>>
streamVars == <<wire, torn, behind, cut, strayed>>
offWire == <<torn, behind, cut, strayed>>
recvVars == <<got, rpc, delivered>>
vars == <<sendVars, sockVars, streamVars, recvVars, accepted>>

TypeOK ==
  /\ sendLock \in Senders \cup {Free}
  /\ spc \in [Senders -> {"idle", "select", "header", "payload"}]
  /\ packet \in [Senders -> Packets \cup {NoPacket}]
  /\ \A s \in Senders : packet[s] # NoPacket => sendLock = s
  /\ left \in [Senders -> Nat]
  /\ result \in [Packets -> {"none", "sent", "nothing", "timeout", "failed", "broken",
                             "notConnected"}]
  /\ written \in [Packets -> Nat]
  /\ {member, reset, strayed, torn} \subseteq BOOLEAN
  /\ behind \in Nat /\ cut \subseteq Packets
  /\ fd \in {"open", "closed", "foreign"}
  /\ Range(wire) \cup Range(got) \subseteq Packets \X Nat
  /\ rpc \in {"header", "payload", "ended", "garbled"}
  /\ accepted \in Seq(Packets) /\ delivered \in Seq(Packets \cup {Garbage})

Init ==
  /\ sendLock = Free
  /\ spc = [s \in Senders |-> "idle"]
  /\ packet = [s \in Senders |-> NoPacket]
  /\ left = [s \in Senders |-> 0]
  /\ result = [p \in Packets |-> "none"]
  /\ written = [p \in Packets |-> 0]
  /\ member = TRUE /\ fd = "open" /\ reset = FALSE
  /\ wire = <<>> /\ strayed = FALSE
  /\ torn = FALSE /\ behind = 0 /\ cut = {}
  /\ got = <<>> /\ rpc = "header"
  /\ accepted = <<>> /\ delivered = <<>>

-----------------------------------------------------------------------------
(* Send.                                                                   *)

(* Every packet is sent once.                                              *)
Fresh(p) == result[p] = "none" /\ \A s \in Senders : packet[s] # p

(* Return from Send, dropping the lock. *)
Answer(s, how) ==
  /\ result' = [result EXCEPT ![packet[s]] = how]
  /\ packet' = [packet EXCEPT ![s] = NoPacket]
  /\ spc' = [spc EXCEPT ![s] = "idle"]
  /\ left' = [left EXCEPT ![s] = 0]
  /\ sendLock' = Free

(* Take the lock; without a descriptor there is nothing to do.             *)
Send(s, p) ==
  /\ spc[s] = "idle"
  /\ sendLock = Free
  /\ Fresh(p)
  /\ \/ /\ member
        /\ sendLock' = s
        /\ packet' = [packet EXCEPT ![s] = p]
        /\ spc' = [spc EXCEPT ![s] = "select"]
        /\ UNCHANGED result
     \/ /\ ~member
        /\ result' = [result EXCEPT ![p] = "notConnected"]
        /\ UNCHANGED <<sendLock, packet, spc>>
  /\ UNCHANGED <<left, written, sockVars, streamVars, recvVars, accepted>>

Alive == fd # "closed" /\ (reset => fd = "foreign")

(* select answers that the descriptor is writable, that the time is up, or *)
(* an error.                                                               *)
SelectWritable(s) ==
  /\ spc[s] = "select"
  /\ Alive
  /\ \/ Length[packet[s]] = 0 /\ Answer(s, "nothing")
     \/ /\ Length[packet[s]] > 0
        /\ left' = [left EXCEPT ![s] = Length[packet[s]]]
        /\ spc' = [spc EXCEPT ![s] = "header"]
        /\ UNCHANGED <<sendLock, packet, result>>
  /\ UNCHANGED <<written, sockVars, streamVars, recvVars, accepted>>

SelectFails(s) ==
  /\ spc[s] = "select"
  /\ \/ Answer(s, "timeout")
     \/ ~Alive /\ Answer(s, "failed")
  /\ UNCHANGED <<written, sockVars, streamVars, recvVars, accepted>>

(* The next n bytes of the frame of p go out: into this connection's       *)
(* stream, or, if the descriptor number was given away, into another's.    *)
(* Behind a torn frame no byte is where a frame would have it.             *)
PutBytes(p, n) ==
  IF fd = "foreign"
  THEN strayed' = TRUE /\ UNCHANGED <<wire, behind, written>>
  ELSE /\ Len(wire) + behind + n <= Window
       /\ IF torn
          THEN behind' = behind + n /\ UNCHANGED wire
          ELSE wire' = wire \o [i \in 1..n |-> <<p, written[p] + i>>] /\ UNCHANGED behind
       /\ written' = [written EXCEPT ![p] = @ + n]
       /\ UNCHANGED strayed

(* send(&length, 4), once: what it leaves of the length is never sent.     *)
SendHeader(s) ==
  /\ spc[s] = "header"
  /\ \/ /\ Alive
        /\ \E n \in 1..HeaderSize :
             /\ PutBytes(packet[s], n)
             /\ cut' = IF n < HeaderSize THEN cut \cup {packet[s]} ELSE cut
             /\ torn' = (torn \/ (n < HeaderSize /\ fd = "open"))
        /\ accepted' = Append(accepted, packet[s])
        /\ spc' = [spc EXCEPT ![s] = "payload"]
        /\ UNCHANGED <<sendLock, packet, left, result>>
     \/ /\ Answer(s, "broken")
        /\ UNCHANGED <<streamVars, written, accepted>>
  /\ UNCHANGED <<sockVars, recvVars>>

(* Mutant: Send gives the whole packet for sent after one send call. *)
SendPayloadOnce(s) ==
  /\ spc[s] = "payload"
  /\ \E n \in 1..left[s] : PutBytes(packet[s], n) /\ Alive /\ Answer(s, "sent")
  /\ UNCHANGED <<torn, cut, sockVars, recvVars, accepted>>

(* send of what is left, until nothing is or an error, on which Send       *)
(* returns in the middle of the packet.                                    *)
SendPayload(s) ==
  /\ spc[s] = "payload"
  /\ \/ /\ Alive
        /\ \E n \in 1..left[s] :
             /\ PutBytes(packet[s], n)
             /\ IF n = left[s]
                THEN Answer(s, "sent")
                ELSE left' = [left EXCEPT ![s] = @ - n]
                     /\ UNCHANGED <<sendLock, spc, packet, result>>
        /\ UNCHANGED torn
     \/ /\ Answer(s, "failed")
        /\ torn' = (torn \/ (fd = "open" /\ ~reset))
        /\ UNCHANGED <<wire, behind, strayed, written>>
  /\ UNCHANGED <<cut, sockVars, recvVars, accepted>>

Sender(s) == SelectWritable(s) \/ SelectFails(s) \/ SendHeader(s) \/ SendPayload(s)

-----------------------------------------------------------------------------
(* The end of the connection.                                              *)

(* The network or the peer breaks it; what was under way is lost.          *)
Break ==
  /\ ~reset
  /\ reset' = TRUE
  /\ UNCHANGED <<sendVars, member, fd, streamVars, recvVars, accepted>>

(* closesocket in killConnection ... *)
CloseSocket ==
  /\ fd = "open"
  /\ member
  /\ fd' = "closed"
  /\ UNCHANGED <<sendVars, member, reset, streamVars, recvVars, accepted>>

(* ... after which accept may hand out the number again ...                *)
Reuse ==
  /\ fd = "closed"
  /\ fd' = "foreign"
  /\ UNCHANGED <<sendVars, member, reset, streamVars, recvVars, accepted>>

(* ... before m_clientSocket = INVALID_SOCKET, which every later system    *)
(* call reads.                                                             *)
Invalidate ==
  /\ fd # "open"
  /\ member
  /\ member' = FALSE
  /\ fd' = "closed"
  /\ UNCHANGED <<sendVars, reset, streamVars, recvVars, accepted>>

-----------------------------------------------------------------------------
(* The receiving loop of the peer.                                         *)

Frame(p) == [i \in 1..(HeaderSize + Length[p]) |-> <<p, i>>]

(* Is b the header of some packet, and which?                              *)
IsHeader(b) == \E p \in Packets : b = SubSeq(Frame(p), 1, HeaderSize)
HeaderOf(b) == CHOOSE p \in Packets : b = SubSeq(Frame(p), 1, HeaderSize)

(* recv of n bytes of those that are missing.                              *)
TakeBytes(n) ==
  /\ n <= Len(wire)
  /\ wire' = SubSeq(wire, n + 1, Len(wire))

(* receive(m_recvSizePacket)                                               *)
ReceiveHeader ==
  /\ rpc = "header"
  /\ \E n \in 1..(HeaderSize - Len(got)) :
       /\ TakeBytes(n)
       /\ got' = got \o SubSeq(wire, 1, n)
       /\ rpc' = CASE Len(got') < HeaderSize -> "header"
                   [] IsHeader(got') -> "payload"
                   [] OTHER -> "garbled"
  /\ UNCHANGED <<sendVars, sockVars, offWire, delivered, accepted>>

(* Mutant: one recv is taken for the whole packet. *)
ReceivePayloadShort ==
  /\ rpc = "payload"
  /\ LET p == HeaderOf(SubSeq(got, 1, HeaderSize))
     IN  \E n \in 1..(Len(Frame(p)) - Len(got)) :
           TakeBytes(n) /\ delivered' = Append(delivered, p)
  /\ got' = <<>> /\ rpc' = "header"
  /\ UNCHANGED <<sendVars, sockVars, offWire, accepted>>

(* Mutant: the packet goes to a processor and to OnReceived. *)
ReceivePayloadTwice ==
  /\ rpc = "payload"
  /\ LET p == HeaderOf(SubSeq(got, 1, HeaderSize))
         missing == Len(Frame(p)) - Len(got)
     IN  TakeBytes(missing) /\ delivered' = delivered \o <<p, p>>
  /\ got' = <<>> /\ rpc' = "header"
  /\ UNCHANGED <<sendVars, sockVars, offWire, accepted>>

(* receive of the packet itself, as many bytes as the header says; then the packet *)
(* goes to OnReceived or to a packet processor.                            *)
ReceivePayload ==
  /\ rpc = "payload"
  /\ LET p == HeaderOf(SubSeq(got, 1, HeaderSize))
         missing == Len(Frame(p)) - Len(got)
     IN  \E n \in 1..missing :
           LET b == got \o SubSeq(wire, 1, n)
           IN  /\ TakeBytes(n)
               /\ \/ n < missing /\ got' = b /\ UNCHANGED <<rpc, delivered>>
                  \/ /\ n = missing
                     /\ got' = <<>>
                     /\ \/ b = Frame(p) /\ rpc' = "header"
                           /\ delivered' = Append(delivered, p)
                        \/ b # Frame(p) /\ rpc' = "garbled" /\ UNCHANGED delivered
  /\ UNCHANGED <<sendVars, sockVars, offWire, accepted>>

(* The bytes behind a torn frame are taken for the rest of it: from here   *)
(* lengths and packets are what those bytes happen to say; the first such  *)
(* packet that is delivered stands for all of them.                        *)
ReceiveAcross ==
  /\ rpc # "ended"
  /\ wire = <<>> /\ behind > 0
  /\ behind' = 0
  /\ rpc' = "garbled"
  /\ \/ UNCHANGED delivered
     \/ Garbage \notin Range(delivered) /\ delivered' = Append(delivered, Garbage)
  /\ UNCHANGED <<sendVars, sockVars, wire, torn, cut, strayed, got, accepted>>

(* recv answers 0 at the end of the stream, or an error.                   *)
ReceiveEnds ==
  /\ rpc # "ended"
  /\ reset \/ (fd # "open" /\ wire = <<>> /\ behind = 0)
  /\ rpc' = "ended"
  /\ UNCHANGED <<sendVars, sockVars, streamVars, got, delivered, accepted>>

Receiver == ReceiveHeader \/ ReceivePayload

-----------------------------------------------------------------------------
Next ==
  \/ \E s \in Senders, p \in Packets : Send(s, p)
  \/ \E s \in Senders : Sender(s)
  \/ Break
  \/ CloseSocket
  \/ Reuse
  \/ Invalidate
  \/ Receiver
  \/ ReceiveAcross
  \/ ReceiveEnds

Spec == Init /\ [][Next]_vars

(* A thread in Send and the receiving thread keep running, and a           *)
(* killConnection that closed the descriptor goes on.                      *)
Fairness ==
  /\ \A s \in Senders : WF_vars(Sender(s))
  /\ WF_vars(Invalidate)
  /\ WF_vars(Receiver)
  /\ WF_vars(ReceiveEnds)

FairSpec == Spec /\ Fairness

-----------------------------------------------------------------------------
(* Packets arrive whole, once, in the order of their sends, and nothing    *)
(* else does, until a frame is torn.                                       *)
Channel == INSTANCE PacketChannel
ImplementsChannel == Channel!Spec

(* A Send that returned the number of bytes it wrote put the whole frame   *)
(* into the stream, if the descriptor was not closed under it and its      *)
(* length did not go out in part.                                          *)
SentMeansWhole ==
  \A p \in Packets \ cut : result[p] = "sent" /\ member /\ fd = "open" =>
                             written[p] = Len(Frame(p))

(* Whatever parts of packets the system calls of Send and receive move,    *)
(* and wherever the connection ends, the receiver takes bytes of one       *)
(* packet for another's length or content only if a frame was torn.        *)
ReceiverInStep == rpc = "garbled" => torn

(* What Send answers is true, and the receiver keeps to the frames.        *)
FramingIsSound == SentMeansWhole /\ ReceiverInStep

(* A frame that is in the stream before any is torn arrives, also if the   *)
(* sender closes the connection after it, unless the connection breaks.    *)
WholeIsDelivered ==
  \A p \in Packets :
    (written[p] = Len(Frame(p)) /\ ~torn) ~> p \in Range(delivered) \/ reset

(* Every packet that Send answered for as sent, by the number of its bytes *)
(* and with SEND_STATUS_SUCCESS, is delivered unless the connection ends.  *)
(* It does not hold: behind a torn frame nothing arrives as it was sent.   *)
SentIsDelivered ==
  \A p \in Packets :
    result[p] = "sent" ~> p \in Range(delivered) \/ reset \/ fd # "open"

(* A Send that reports SEND_STATUS_SUCCESS for a packet with bytes in it   *)
(* sent them.  It does not hold: "broken" is the answer to a failed send   *)
(* of the length, which also sets SEND_STATUS_SUCCESS.                     *)
SuccessMeansSent ==
  \A p \in Packets :
    result[p] \in {"sent", "broken"} /\ fd = "open" => written[p] = Len(Frame(p))

(* Bytes of this connection go to its own peer.                            *)
NoBytesStray == ~strayed
=============================================================================
