---------------------------- MODULE PacketTunnel ----------------------------
(***************************************************************************)
(* iogateway/PacketTunnelIOGateway: Messages are cut into fragments that   *)
(* are packed into packets of at most MTU bytes, sent over a network that  *)
(* may lose, duplicate and reorder them, and put together again by the     *)
(* receiver, which keeps one ReceiveState for every sender it knows.  Here *)
(* is one sender; the others only compete for the receiver's table.        *)
(*                                                                         *)
(* The k-th Message has MessageSize[k] bytes.  Byte i of a Message can     *)
(* only be received as byte i of a buffer, so a buffer is described by the *)
(* number of the Message each of its bytes came from.                      *)
(***************************************************************************)
EXTENDS Naturals, Sequences, FiniteSets, SequencesExt

CONSTANTS
  MessageSize,    \* the flattened sizes of the Messages, in order
  HeaderSize,     \* FRAGMENT_HEADER_SIZE
  MTU,            \* _maxTransferUnit
  IdSpace,        \* _sendMessageIDCounter counts modulo this (2^32)
  FaultSets,      \* the combinations of faults that may happen
  MaxInFlight,    \* bound: packets in the network
  MaxFaults       \* bound: duplicated packets and evictions

Faults == {"lose", "duplicate", "reorder", "crowd"}

ASSUME TunnelAssumption ==
  /\ MessageSize \in Seq(Nat \ {0})
  /\ HeaderSize \in Nat /\ MTU \in Nat /\ MTU > HeaderSize
  /\ {IdSpace, MaxInFlight, MaxFaults} \subseteq Nat
  /\ IdSpace > Len(MessageSize)
  /\ FaultSets \subseteq SUBSET Faults

VARIABLES
  accepted,   \* how many Messages were added to the outgoing queue
  popped,     \* how many of them were taken from it
  offset,     \* _currentOutputBufferOffset, or NoBuffer between Messages
  nextId,     \* _sendMessageIDCounter
  packet,     \* the fragments in _outputPacketBuffer
  packetSize, \* _outputPacketSize
  inOutput,   \* whether the sender is inside DoOutput
  net,        \* the packets on their way
  reading,    \* what is left to read of the packet in _inputPacketBuffer
  state,      \* the sender's entry in _receiveStates, or NoState
  got,        \* what the receiver was given: the Message, or Mixed
  faults,     \* the faults of this behaviour
  happened    \* how many there were, not counting losses

sendVars == <<accepted, popped, offset, nextId, packet, packetSize, inOutput>>
recvVars == <<reading, state, got>>
vars == <<sendVars, recvVars, net, faults, happened>>

NoBuffer == 0        \* _currentOutputBuffers is empty
Mixed    == 0        \* a buffer whose bytes do not make up one Message
Junk     == 0        \* a byte that was not received

(* No entry for the sender: its id is none that a fragment may have.       *)
NoState == [id |-> IdSpace, off |-> 0, buf |-> <<>>]

Init ==
  /\ accepted = 0 /\ popped = 0 /\ offset = NoBuffer /\ nextId = 0
  /\ packet = <<>> /\ packetSize = 0 /\ inOutput = FALSE /\ net = <<>>
  /\ reading = <<>> /\ state = NoState /\ got = <<>>
  /\ faults \in FaultSets /\ happened = 0

Fault(f) == f \in faults /\ happened < MaxFaults /\ happened' = happened + 1

-----------------------------------------------------------------------------
(* The sender *)

(* The server calls DoOutput only if this holds.                           *)
HasBytesToOutput == offset # NoBuffer \/ popped < accepted

AddOutgoingMessage ==
  /\ accepted < Len(MessageSize) /\ accepted' = accepted + 1
  /\ UNCHANGED <<popped, offset, nextId, packet, packetSize, inOutput,
                 recvVars, net, faults, happened>>

DoOutput ==
  /\ ~ inOutput /\ HasBytesToOutput /\ inOutput' = TRUE
  /\ UNCHANGED <<accepted, popped, offset, nextId, packet, packetSize,
                 recvVars, net, faults, happened>>

(* Bytes of a Message that fit into the packet after a fragment header     *)
Room == MTU - (packetSize + HeaderSize)

CanAdd == packetSize + HeaderSize < MTU /\ HasBytesToOutput

NextId(done) == IF done THEN (nextId + 1) % IdSpace ELSE nextId

(* Step 1 of the loop: one more fragment goes into the packet.             *)
AddFragment ==
  /\ inOutput /\ CanAdd
  /\ LET msg  == IF offset = NoBuffer THEN popped + 1 ELSE popped
         off  == IF offset = NoBuffer THEN 0 ELSE offset
         left == MessageSize[msg] - off
         size == IF left < Room THEN left ELSE Room
         done == off + size = MessageSize[msg] IN
     /\ packet' = Append(packet, [id |-> nextId, off |-> off, size |-> size,
                                  total |-> MessageSize[msg], msg |-> msg])
     /\ packetSize' = packetSize + HeaderSize + size
     /\ popped' = msg
     /\ offset' = IF done THEN NoBuffer ELSE off + size
     /\ nextId' = NextId(done)
  /\ UNCHANGED <<accepted, inOutput, recvVars, net, faults, happened>>

(* Step 2: the packet is written; the loop may go on or end (maxBytes).    *)
WritePacket(more) ==
  /\ inOutput /\ ~ CanAdd /\ packetSize > 0 /\ Len(net) < MaxInFlight
  /\ net' = Append(net, packet) /\ packet' = <<>> /\ packetSize' = 0
  /\ inOutput' = more
  /\ UNCHANGED <<accepted, popped, offset, nextId, recvVars, faults, happened>>

(* The socket takes no bytes now: the packet is held until the next call,  *)
(* or there was none to write.                                             *)
OutputEnds ==
  /\ inOutput /\ ~ CanAdd /\ inOutput' = FALSE
  /\ UNCHANGED <<accepted, popped, offset, nextId, packet, packetSize,
                 recvVars, net, faults, happened>>

-----------------------------------------------------------------------------
(* The receiver: DoInput                                                   *)

NewState(f) == [id |-> f.id, off |-> 0, buf |-> [i \in 1 .. f.total |-> Junk]]

(* Mutant: a fragment's place in its Message is not compared.              *)
Accepts_AnyOffset(rs, f) ==
  f.id = rs.id /\ f.total = Len(rs.buf) /\ f.off + f.size <= Len(rs.buf)

(* Mutant: off by one, the fragment that ends a Message does not fit.      *)
Accepts_NotLast(rs, f) ==
  /\ f.id = rs.id /\ f.total = Len(rs.buf) /\ f.off = rs.off
  /\ f.off + f.size < Len(rs.buf)

Accepts(rs, f) ==
  /\ f.id = rs.id /\ f.total = Len(rs.buf) /\ f.off = rs.off
  /\ f.off + f.size <= Len(rs.buf)

Cleared(rs) == [id |-> rs.id, off |-> 0, buf |-> <<>>]

(* What HandleIncomingByteBuffer makes of a buffer                         *)
MessageIn(buf) ==
  IF \E k \in DOMAIN MessageSize : Len(buf) = MessageSize[k] /\ ToSet(buf) = {k}
  THEN Head(buf) ELSE Mixed

(* The state for fragment f: only one that begins a Message makes a state  *)
(* for a sender without one; it also replaces an unfinished Message.       *)
Begun(f) == IF f.off = 0 /\ f.id # state.id THEN NewState(f) ELSE state

Filled(rs, f) ==
  [id  |-> rs.id,
   off |-> rs.off + f.size,
   buf |-> [i \in DOMAIN rs.buf |->
              IF i \in f.off + 1 .. f.off + f.size THEN f.msg ELSE rs.buf[i]]]

(* One read of the DataIO: the next packet, or another one if the network  *)
(* does not keep the order.                                                *)
DoInput(i) ==
  /\ reading = <<>>
  /\ i \in DOMAIN net /\ (i = 1 \/ "reorder" \in faults)
  /\ reading' = net[i]
  /\ net' = RemoveAt(net, i)
  /\ UNCHANGED <<sendVars, state, got, faults, happened>>

(* The loop of DoInput: one fragment of the packet.  One that is not the   *)
(* one awaited makes the receiver drop the Message (this leaves NoState as *)
(* it is), and one that completes its Message has it delivered.            *)
HandleFragment ==
  /\ reading # <<>> /\ reading' = Tail(reading)
  /\ LET f == Head(reading)
         rs == Begun(f) IN
     \/ /\ ~ Accepts(rs, f)
        /\ state' = Cleared(rs) /\ got' = got
     \/ /\ Accepts(rs, f) /\ rs.off + f.size < Len(rs.buf)
        /\ state' = Filled(rs, f) /\ got' = got
     \/ /\ Accepts(rs, f) /\ rs.off + f.size = Len(rs.buf)
        /\ state' = Cleared(rs)
        /\ got' = Append(got, MessageIn(Filled(rs, f).buf))
  /\ UNCHANGED <<sendVars, net, faults, happened>>

(* Packets from more than MAX_NUM_RECEIVE_STATES other senders push the    *)
(* state out of the receiver's table.                                      *)
CrowdOut ==
  /\ Fault("crowd") /\ reading = <<>> /\ state' = NoState
  /\ UNCHANGED <<sendVars, reading, got, net, faults>>

-----------------------------------------------------------------------------
(* The network *)

Lose(i) ==
  /\ "lose" \in faults /\ i \in DOMAIN net
  /\ net' = RemoveAt(net, i)
  /\ UNCHANGED <<sendVars, recvVars, faults, happened>>

Duplicate(i) ==
  /\ Fault("duplicate") /\ i \in DOMAIN net
  /\ net' = InsertAt(net, i, net[i])
  /\ UNCHANGED <<sendVars, recvVars, faults>>

-----------------------------------------------------------------------------
SenderSteps ==
  \/ AddFragment \/ OutputEnds \/ DoOutput
  \/ \E more \in BOOLEAN : WritePacket(more)

Next ==
  \/ AddOutgoingMessage \/ SenderSteps \/ HandleFragment \/ CrowdOut
  \/ \E i \in 1 .. MaxInFlight + MaxFaults : DoInput(i) \/ Lose(i) \/ Duplicate(i)

Spec == Init /\ [][Next]_vars

(* The server calls DoOutput while there is something to output; the       *)
(* socket does not refuse packets for ever, and what arrives is read.      *)
FairSpec ==
  /\ Spec
  /\ WF_vars(SenderSteps) /\ SF_vars(\E more \in BOOLEAN : WritePacket(more))
  /\ WF_vars(HandleFragment \/ \E i \in 1 .. MaxInFlight : DoInput(i))

-----------------------------------------------------------------------------
(* The state of the sender and the receiver: no packet exceeds the MTU,    *)
(* and no fragment is written outside of the receiver's buffer.            *)
TunnelTypeOK ==
  /\ accepted \in 0 .. Len(MessageSize) /\ popped \in 0 .. accepted
  /\ nextId \in 0 .. IdSpace - 1 /\ inOutput \in BOOLEAN
  /\ offset = NoBuffer \/ offset \in 1 .. MessageSize[popped] - 1
  /\ packetSize \in 0 .. MTU /\ (packetSize = 0 => packet = <<>>)
  /\ state.id \in 0 .. IdSpace /\ state.off \in 0 .. Len(state.buf)

(* Packets may be lost, and the receiver may forget the sender, but each   *)
(* packet is read at most once and in its turn.  (A packet that is read    *)
(* twice and holds more than one whole Message is delivered twice.)        *)
Kind == faults \subseteq {"lose", "crowd"}

Channel == INSTANCE MessageChannel WITH sent <- accepted, ordered <- Kind

(* See MessageChannel: whatever packets are lost, duplicated or reordered, *)
(* the receiver is given whole Messages and never one put together from    *)
(* the fragments of two (DoInputImplementation).                           *)
ImplementsChannel == Channel!Spec

(* A network without faults delivers every Message, however the Messages   *)
(* are cut up and packed together: when all is read, all was received      *)
(* (DoOutputImplementation), and no packet ever exceeds the MTU.           *)
NothingDropped ==
  /\ TunnelTypeOK
  /\ faults = {} /\ net = <<>> /\ packet = <<>> /\ reading = <<>>
        /\ offset = NoBuffer =>
       got = [k \in 1 .. popped |-> k]

(* Every Message that is accepted is sent: nothing stays behind in the     *)
(* buffers of the gateway (HasBytesToOutput).                              *)
EverythingIsSent ==
  \A k \in DOMAIN MessageSize :
    accepted >= k ~> popped >= k /\ packet = <<>>
=============================================================================
