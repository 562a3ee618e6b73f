------------------------------ MODULE Framing ------------------------------
(***************************************************************************)
(* Packets over one direction of a TCP connection: MyMagicMessage writes a *)
(* packet whose first bytes hold its length, the kernel takes and delivers *)
(* the bytes in pieces of any size, and the receiver cuts packets out of   *)
(* its read buffer.  `receiver` says which of the two implementations it   *)
(* is: the server's (MyServant::handlePackets), fed by a client that       *)
(* writes each packet once and looks at no result, or the client's         *)
(* (MyProxy::onRead), fed by a channel's write buffer.                     *)
(*                                                                         *)
(* Bytes are their places in the stream: packet p is the bytes above       *)
(* Start[p] up to Start[p + 1].  A client that writes only a part of a     *)
(* packet tears the stream: what follows that place is other data, and     *)
(* nothing is said of a receiver that has to look at it.                   *)
(*                                                                         *)
(* Bound: a read leaves the read buffer within its capacity (SKBuffer has  *)
(* what happens when it grows).                                            *)
(***************************************************************************)
EXTENDS Naturals, Sequences

CONSTANTS
  NumPackets,
  Start,     \* where packets start
  PrefixLen, \* bytes of the length field: 4 in the code
  HeadLen    \* bytes of the whole head: 20 in the code

Packets == 1 .. NumPackets
PacketLen(p) == Start[p + 1] - Start[p]
Total == Start[NumPackets + 1]

ASSUME FramingAssumption ==
  /\ NumPackets \in Nat
  /\ PrefixLen \in Nat /\ HeadLen \in Nat /\ PrefixLen < HeadLen
  /\ Start \in [1 .. NumPackets + 1 -> Nat]
  /\ Start[1] = 0
  /\ \A p \in Packets : PacketLen(p) >= HeadLen

VARIABLES
  receiver,  \* "server" or "client"
  sent,      \* packets handed to the sender
  taken,     \* bytes the kernel has taken
  tear,      \* how far the stream is whole
  hungUp,    \* the sender has closed its socket
  arrived,   \* bytes the receiver has read
  cut,       \* bytes fetched out of its read buffer
  got,       \* the packets fetched, by first and last place
  mode         \* the receiver: waiting, cutting, spinning, closed, or at the tear

senderVars == <<sent, taken, tear, hungUp>>
streamVars == <<receiver, sent, taken, tear, hungUp, arrived, cut, got, mode>>

StreamInit ==
  /\ receiver \in {"server", "client"}
  /\ sent = 0 /\ taken = 0 /\ tear = Total /\ hungUp = FALSE
  /\ arrived = 0 /\ cut = 0 /\ got = <<>>
  /\ mode = "wait"
-----------------------------------------------------------------------------
(* The sender. *)

(* encode(), and sendPayload's task or sendResponse's copy: in order. *)
Send ==
  /\ sent < NumPackets
  /\ sent' = sent + 1
  /\ UNCHANGED <<receiver, taken, tear, hungUp, arrived, cut, got, mode>>

Unwritten == Start[sent + 1] - taken

(* sendPayload's task: one write() of a packet; what it did not take is    *)
(* forgotten.                                                              *)
ClientWrite ==
  /\ receiver = "server" /\ ~hungUp
  /\ \E p \in 1 .. sent :
       /\ Start[p] = taken
       /\ taken' = Start[p + 1]
       /\ \E k \in 0 .. PacketLen(p) :
            tear' = IF k < PacketLen(p) /\ tear = Total THEN Start[p] + k ELSE tear
  /\ UNCHANGED <<receiver, sent, hungUp, arrived, cut, got, mode>>

(* MyTcpChannel::onWrite: write() until it takes no more; the connection   *)
(* is closed unless it took everything.                                    *)
ServerWrite ==
  /\ receiver = "client" /\ ~hungUp /\ Unwritten > 0
  /\ \E k \in 0 .. Unwritten :
       /\ taken' = taken + k
       /\ hungUp' = (k < Unwritten)
  /\ UNCHANGED <<receiver, sent, tear, arrived, cut, got, mode>>

HangUp ==
  /\ ~hungUp
  /\ hungUp' = TRUE
  /\ UNCHANGED <<receiver, sent, taken, tear, arrived, cut, got, mode>>
-----------------------------------------------------------------------------
(* The receiver. *)

(* onRead() takes what there is.  When it meets the end of the stream the  *)
(* connection is closed, whatever else it has read.                        *)
Read ==
  /\ mode = "wait"
  /\ \E k \in 1 .. taken - arrived :
       /\ arrived' = arrived + k
       /\ mode' = "cut"
  /\ UNCHANGED <<receiver, senderVars, cut, got>>

ReadEnd ==
  /\ mode = "wait" /\ hungUp
  /\ arrived' = taken
  /\ mode' = "closed"
  /\ UNCHANGED <<receiver, senderVars, cut, got>>

Unread == arrived - cut
Whole(place) == place <= tear

(* Mutant: a length without the packet's own prefix. *)
PacketLengthAfterPrefix ==
  IF Unread <= PrefixLen THEN 0
  ELSE PacketLen(CHOOSE p \in Packets : Start[p] = cut) - PrefixLen

(* getPacketLength: the first packet's length, and 0 for a buffer that     *)
(* holds no more than the length field.                                    *)
PacketLength ==
  IF Unread <= PrefixLen THEN 0
  ELSE PacketLen(CHOOSE p \in Packets : Start[p] = cut)

(* Mutant: a packet that ends with the buffer counts as incomplete. *)
CutDoneStrict ==
  /\ mode = "cut" /\ (Unread > PrefixLen => Whole(cut + PrefixLen))
  /\ PacketLength >= Unread
  /\ mode' = "wait"
  /\ UNCHANGED <<receiver, senderVars, arrived, cut, got>>

(* The loop over the packets in the buffer.  isPacketComplete() holds for  *)
(* a length of 0: the server removes the channel and looks at the same     *)
(* bytes for ever, the client leaves the loop.                             *)
CutDone ==
  /\ mode = "cut" /\ (Unread > PrefixLen => Whole(cut + PrefixLen))
  /\ \/ Unread = 0
     \/ Unread > 0 /\ PacketLength > Unread
     \/ Unread > 0 /\ PacketLength = 0 /\ receiver = "client"
  /\ mode' = "wait"
  /\ UNCHANGED <<receiver, senderVars, arrived, cut, got>>

CutNothing ==
  /\ mode = "cut" /\ receiver = "server"
  /\ Unread > 0 /\ PacketLength = 0
  /\ mode' = "spin"
  /\ UNCHANGED <<receiver, senderVars, arrived, cut, got>>

(* fetchPacket() / fetchPayload(), and decode() in the handler. *)
CutPacket ==
  /\ mode = "cut" /\ PacketLength > 0 /\ PacketLength <= Unread
  /\ Whole(cut + PacketLength)
  /\ got' = Append(got, <<cut, cut + PacketLength>>)
  /\ cut' = cut + PacketLength
  /\ UNCHANGED <<receiver, senderVars, arrived, mode>>

(* The bytes looked at are not those of the packet. *)
Misread ==
  /\ mode = "cut" /\ Unread > PrefixLen
  /\ \/ ~Whole(cut + PrefixLen)
     \/ PacketLength <= Unread /\ ~Whole(cut + PacketLength)
  /\ mode' = "torn"
  /\ UNCHANGED <<receiver, senderVars, arrived, cut, got>>

Cut == CutDone \/ CutNothing \/ CutPacket \/ Misread

StreamNext ==
  \/ Send \/ ClientWrite \/ ServerWrite \/ HangUp
  \/ Read \/ ReadEnd \/ Cut

(* Loops run what they were given; what the kernel has taken it delivers.  *)
StreamFairness ==
  /\ WF_streamVars(ServerWrite \/ ClientWrite)
  /\ WF_streamVars(Read) /\ WF_streamVars(Cut)

StreamSpec == StreamInit /\ [][StreamNext]_streamVars /\ StreamFairness
-----------------------------------------------------------------------------
StreamTypeOK ==
  /\ receiver \in {"server", "client"}
  /\ sent \in 0 .. NumPackets
  /\ taken \in Nat /\ arrived \in Nat /\ cut \in Nat
  /\ tear \in Nat
  /\ hungUp \in BOOLEAN
  /\ got \in Seq(Nat \X Nat)
  /\ mode \in {"wait", "cut", "spin", "closed", "torn"}

(* However the stream is cut into pieces, the receiver fetches the packets *)
(* that were sent, whole, in order and each once.                          *)
InOrder == \A i \in DOMAIN got : i <= sent /\ got[i] = <<Start[i], Start[i + 1]>>

(* Only a server can be led off the stream, by a client whose packet went  *)
(* out in part: a server closes rather than go on after a short write.     *)
TornByClientOnly == mode = "torn" => receiver = "server" /\ tear < Total

(* A receiver that waits for data has not got the next packet whole: no    *)
(* packet lies in the read buffer unfetched, however it came to be whole.  *)
NoneOverlooked ==
  mode = "wait" => Len(got) = NumPackets \/ arrived < Start[Len(got) + 2]

(* Only a server, and only by a piece no longer than the length field, is  *)
(* led to look at the same bytes for ever.                                 *)
SpinsOnShortOnly ==
  mode = "spin" => receiver = "server" /\ Unread \in 1 .. PrefixLen

(* Both directions of the stream keep packets whole and notice them. *)
PacketsWhole ==
  InOrder /\ TornByClientOnly /\ NoneOverlooked /\ SpinsOnShortOnly

(* Every packet sent is fetched, unless the connection ends, the stream is *)
(* torn, or the server met a piece no longer than a length field.          *)
Delivered ==
  \A p \in Packets :
    (sent >= p) ~> (Len(got) >= p \/ hungUp \/ tear < Total \/ mode = "spin")

(* What the comment in handlePackets says: a packet that is not complete   *)
(* waits for more data.                                                    *)
IncompleteWaits == mode # "spin"
=============================================================================
