------------------------------- MODULE Socket -------------------------------
(***************************************************************************)
(* The Socket extension (lua-executor/Extensions/Socket): TCP and UDP for  *)
(* scripts, its bytes in buffers of the ByteBuffer extension.  One socket, *)
(* the peer of its TCP connection or the hosts that send it datagrams, and *)
(* a script that uses them as FireWatch does: numbered fields of one and   *)
(* two bytes in turn, as an opcode and a size, go both ways.               *)
(*                                                                         *)
(* A call that waits is a step that is taken when the wait is over; those  *)
(* that transfer all of a buffer take several.                             *)
(***************************************************************************)
EXTENDS ByteBuffer, SequencesExt

CONSTANTS
    Endian,      \* the byte order the script chooses for its buffers
    PeerEndian,  \* the one the peer uses
    Capacity,    \* bound: the capacity of the script's buffers
    MaxFields    \* bound: fields sent in each direction

ASSUME SocketAssumption ==
    /\ {Endian, PeerEndian} \subseteq Endians
    /\ ByteOrder(Endian) = ByteOrder(PeerEndian)
    /\ {Capacity, MaxFields} \subseteq Nat \ {0}

VARIABLES
    socket,     \* what Socket.Open returned
    al,         \* the socket of the library below it, socket_tcp or socket_udp
    call,       \* the call that is under way, and the bytes it transferred
    fresh,      \* the buffer Receive or ReceiveAll allocated last
    allocated,  \* buffers they allocated that were not released
    inbox,      \* where the script puts what it received
    values,     \* the fields it read from there
    outbox,     \* where it puts what it sends
    written,    \* fields it wrote to there
    wire,       \* bytes of the TCP connection that wait to be received
    datagrams,  \* the same for UDP: the fields, each in a datagram of its own
    produced,   \* fields that were sent to the script
    arrived,    \* bytes the TCP peer got from it
    lost,       \* the peer has closed the TCP connection, or it broke
    givenUp     \* directions of it in which a call failed and said it was closed

socketVars  == <<socket, al>>
receiveVars == <<fresh, allocated, wire, datagrams>>
inVars      == <<inbox, values>>
outVars     == <<outbox, written, arrived>>
peerVars    == <<produced, lost, givenUp>>
vars == <<socketVars, call, receiveVars, inVars, outVars, peerVars>>

Hosts    == {"dialled", "other"}
Types    == {"TCP", "UDP"}
NoSocket == [type |-> "none"]
Idle     == [op |-> "none", done |-> 0]

Width(n)  == IF n % 2 = 1 THEN 1 ELSE 2
Sender(n) == IF n % 2 = 1 THEN "dialled" ELSE "other"   \* of datagram n
Smaller(a, b) == IF a <= b THEN a ELSE b

(* The bytes of the fields from the first on: two fields take three.       *)
Length(n) == 3 * (n \div 2) + (n % 2)
StreamByte(k) ==
    LET pair == (k - 1) \div 3
    IN  IF k % 3 = 1
        THEN Encode(2 * pair + 1, 1, PeerEndian)[1]
        ELSE Encode(2 * pair + 2, 2, PeerEndian)[IF k % 3 = 2 THEN 1 ELSE 2]
Stream(n) == [k \in 1 .. Length(n) |-> StreamByte(k)]

Is(type)    == socket.type = type
IsConnected == socket # NoSocket /\ socket.connected
Ready       == call = Idle /\ socket # NoSocket   \* the script may call
Script      == byte_buffer_allocate(Endian, Capacity)

-----------------------------------------------------------------------------
(* Opening, connecting and closing.  is_connected is the extension's own   *)
(* flag: it stays set when the connection is lost.                         *)

Init ==
    /\ socket = NoSocket
    /\ al = NoSocket
    /\ call = Idle
    /\ fresh = nullptr
    /\ allocated = 0
    /\ inbox = Script
    /\ values = <<>>
    /\ outbox = Script
    /\ written = 0
    /\ wire = <<>>
    /\ datagrams = {}
    /\ produced = 0
    /\ arrived = <<>>
    /\ lost = FALSE
    /\ givenUp = {}

Open(type) ==
    /\ socket = NoSocket
    /\ socket' = [type |-> type, blocking |-> TRUE, connected |-> FALSE,
                  listening |-> FALSE, endpoint |-> "dialled"]
    /\ UNCHANGED <<al, call, receiveVars, inVars, outVars, peerVars>>

(* The script gives up its buffers' contents with the socket.              *)
Close ==
    /\ Ready
    /\ socket' = NoSocket
    /\ al' = NoSocket
    /\ call' = Idle
    /\ fresh' = nullptr
    /\ allocated' = allocated - (IF fresh = nullptr THEN 0 ELSE 1)
    /\ inbox' = Script
    /\ values' = <<>>
    /\ outbox' = Script
    /\ written' = 0
    /\ wire' = <<>>
    /\ datagrams' = {}
    /\ produced' = 0
    /\ arrived' = <<>>
    /\ lost' = FALSE
    /\ givenUp' = {}

(* Before it is connected only the flag is set; later the library may fail *)
(* and nothing changes.                                                    *)
SetBlocking(value) ==
    /\ Ready
    /\ socket' = [socket EXCEPT !.blocking = value]
    /\ al' = IF IsConnected THEN [al EXCEPT !.blocking = value] ELSE al
    /\ UNCHANGED <<call, receiveVars, inVars, outVars, peerVars>>

(* Not implemented for TCP; for UDP it sets a flag nothing depends on.     *)
Listen ==
    /\ Ready
    /\ Is("UDP")
    /\ socket' = [socket EXCEPT !.listening = TRUE]
    /\ UNCHANGED <<al, call, receiveVars, inVars, outVars, peerVars>>

(* Connecting again after that is refused.  A UDP socket is opened only,   *)
(* and keeps the mode the library gave it; when resolving, opening,        *)
(* connecting or setting the mode fails nothing is left behind.            *)
Connect ==
    /\ Ready
    /\ ~IsConnected
    /\ socket' = [socket EXCEPT !.connected = TRUE, !.endpoint = "dialled"]
    /\ al' = [type |-> socket.type, blocking |-> Is("UDP") \/ socket.blocking]
    /\ UNCHANGED <<call, receiveVars, inVars, outVars, peerVars>>

-----------------------------------------------------------------------------
(* Sending.  What the script writes goes out from the start of the buffer. *)

WriteField ==
    /\ Ready
    /\ IsConnected
    /\ written < MaxFields
    /\ Fits(outbox, Width(written + 1))
    /\ outbox' = byte_buffer_write_value(outbox, written + 1, Width(written + 1))
    /\ written' = written + 1
    /\ UNCHANGED <<socketVars, call, receiveVars, inVars, arrived, peerVars>>

(* After a part was sent the script moves the rest to a buffer of its own. *)
Rest(buffer, sent) ==
    LET size == buffer.write - sent
    IN  byte_buffer_set_write_offset(
            Put(Script, 0, byte_buffer_read(byte_buffer_set_read_offset(buffer, sent), size).bytes),
            size)

Return == call' = Idle

BeginSend(op) ==
    /\ Ready
    /\ IsConnected
    /\ "sending" \notin givenUp
    /\ outbox.write > 0
    /\ call' = [op |-> op, done |-> 0]
    /\ UNCHANGED <<socketVars, receiveVars, inVars, outVars, peerVars>>

Sending == call.op \in {"Send", "SendAll"}

Chunk(size) == SubSeq(outbox.bytes, call.done + 1, call.done + size)

(* The library takes some of the bytes, as a datagram all of them; Send is *)
(* content with that.  What a broken connection takes reaches nobody.      *)
SendMore ==
    /\ Sending
    /\ \E sent \in 1 .. outbox.write - call.done :
         /\ Is("UDP") => sent = outbox.write - call.done
         /\ arrived' = IF Is("TCP") /\ ~lost THEN arrived \o Chunk(sent) ELSE arrived
         /\ IF call.op = "Send" \/ call.done + sent = outbox.write
            THEN Return /\ outbox' = Rest(outbox, call.done + sent)
            ELSE call' = [call EXCEPT !.done = @ + sent] /\ UNCHANGED outbox
    /\ UNCHANGED <<socketVars, receiveVars, inVars, written, peerVars>>

(* A call fails when the connection is lost, or for any other reason, and  *)
(* says "closed" all the same: a script believes it of a TCP connection and*)
(* does not go on that way, also when the other way works.                 *)
SaidClosed(doing) == givenUp' = IF Is("TCP") THEN givenUp \cup {doing} ELSE givenUp

(* Nothing was sent: Send would block and says "not closed, 0 bytes", or   *)
(* the call fails, whatever SendAll had sent.                              *)
SendNothing ==
    /\ Sending
    /\ \/ call.op = "Send" /\ ~al.blocking /\ UNCHANGED givenUp
       \/ SaidClosed("sending")
    /\ Return
    /\ UNCHANGED <<socketVars, receiveVars, inVars, outVars, produced, lost>>

-----------------------------------------------------------------------------
(* Receiving.  The buffer is allocated first, and filled by address.       *)

BeginReceive(op, capacity) ==
    /\ Ready
    /\ "receiving" \notin givenUp
    /\ fresh = nullptr
    /\ call' = [op |-> op, done |-> 0]
    /\ fresh' = byte_buffer_allocate(Endian, capacity)
    /\ allocated' = allocated + 1
    /\ UNCHANGED <<socketVars, inVars, outVars, peerVars, wire, datagrams>>

Receiving == call.op \in {"Receive", "ReceiveAll"}

(* What the library has for that much room: some of the bytes on the wire, *)
(* or a datagram, cut to the room, and the host it came from.              *)
Deliveries(room) ==
    IF Is("TCP")
    THEN {[bytes     |-> SubSeq(wire, 1, k),
           wire      |-> SubSeq(wire, k + 1, Len(wire)),
           datagrams |-> datagrams,
           endpoint  |-> socket.endpoint] : k \in 1 .. Smaller(room, Len(wire))}
    ELSE {[bytes     |-> SubSeq(Encode(n, Width(n), PeerEndian), 1, Smaller(room, Width(n))),
           wire      |-> wire,
           datagrams |-> datagrams \ {n},
           endpoint  |-> Sender(n)] : n \in datagrams}

(* Mutant: the buffer is handed over as if it had been filled.             *)
HandOverFilled(buffer, size) ==
    Return /\ fresh' = byte_buffer_set_write_offset(buffer, byte_buffer_get_capacity(buffer))

(* The script gets the buffer, with the write offset behind the bytes.     *)
HandOver(buffer, size) == Return /\ fresh' = byte_buffer_set_write_offset(buffer, size)

ReceiveMore ==
    /\ Receiving
    /\ IsConnected
    /\ \E got \in Deliveries(byte_buffer_get_capacity(fresh) - call.done) :
         LET done   == call.done + Len(got.bytes)
             filled == Put(fresh, call.done, got.bytes)
         IN  /\ IF call.op = "Receive" \/ done = byte_buffer_get_capacity(fresh)
                THEN HandOver(filled, done)
                ELSE call' = [call EXCEPT !.done = done] /\ fresh' = filled
             /\ wire' = got.wire /\ datagrams' = got.datagrams
             /\ socket' = [socket EXCEPT !.endpoint = got.endpoint]
    /\ UNCHANGED <<al, allocated, inVars, outVars, peerVars>>

(* Mutant: the buffer is forgotten when nothing was received.              *)
ForgetFresh == fresh' = nullptr /\ UNCHANGED allocated

Release == fresh' = nullptr /\ allocated' = allocated - 1

(* Receive would block, or the call fails: the buffer is released, with    *)
(* what ReceiveAll had put there.  Nobody takes what is on the wire then.  *)
ReceiveNothing ==
    /\ Receiving
    /\ IsConnected
    /\ \/ /\ call.op = "Receive" /\ ~al.blocking /\ wire = <<>> /\ datagrams = {}
          /\ UNCHANGED <<wire, givenUp>>
       \/ SaidClosed("receiving") /\ wire' = <<>>
    /\ Return
    /\ Release
    /\ UNCHANGED <<socketVars, inVars, outVars, produced, lost, datagrams>>

(* Without a connection the script gets a buffer with nothing in it, and   *)
(* "not closed".                                                           *)
ReceiveUnconnected ==
    /\ Receiving
    /\ ~IsConnected
    /\ HandOver(fresh, 0)
    /\ UNCHANGED <<socketVars, allocated, wire, datagrams, inVars, outVars, peerVars>>

(* The script moves what it got to its inbox, rewound when nothing is left *)
(* there, or drops a datagram, and releases the buffer.                    *)
Collect ==
    /\ Ready
    /\ fresh # nullptr
    /\ LET empty == inbox.read = inbox.write
           into  == IF empty THEN Script ELSE inbox
       IN  /\ Fits(into, fresh.write)
           /\ inbox' = IF Is("TCP") THEN byte_buffer_write(into, fresh, fresh.write) ELSE inbox
    /\ Release
    /\ UNCHANGED <<socketVars, call, wire, datagrams, values, outVars, peerVars>>

ReadField ==
    /\ Ready
    /\ LET width == Width(Len(values) + 1)
       IN  /\ inbox.read + width <= inbox.write
           /\ values' = Append(values, byte_buffer_read_value(inbox, width))
           /\ inbox' = ReadOn(inbox, width)
    /\ UNCHANGED <<socketVars, call, receiveVars, outVars, peerVars>>

-----------------------------------------------------------------------------
(* The network.  Datagrams come in any order or not at all.                *)

PeerSends ==
    /\ IsConnected
    /\ ~lost
    /\ produced < MaxFields
    /\ produced' = produced + 1
    /\ IF Is("TCP")
       THEN /\ wire' = IF "receiving" \in givenUp
                       THEN wire
                       ELSE wire \o Encode(produced + 1, Width(produced + 1), PeerEndian)
            /\ UNCHANGED datagrams
       ELSE datagrams' \in {datagrams, datagrams \cup {produced + 1}} /\ UNCHANGED wire
    /\ UNCHANGED <<socketVars, call, fresh, allocated, inVars, outVars, lost, givenUp>>

(* The peer closes, or the connection breaks with what was on its way.     *)
Lose ==
    /\ IsConnected
    /\ Is("TCP")
    /\ ~lost
    /\ lost' = TRUE
    /\ wire' \in {wire, <<>>}
    /\ UNCHANGED <<socketVars, call, fresh, allocated, datagrams, inVars, outVars, produced, givenUp>>

-----------------------------------------------------------------------------

Next ==
    \/ \E type \in Types : Open(type)
    \/ \E value \in BOOLEAN : SetBlocking(value)
    \/ Close \/ Listen \/ Connect
    \/ \E op \in {"Send", "SendAll"} : BeginSend(op)
    \/ \E op \in {"Receive", "ReceiveAll"}, capacity \in 1 .. Capacity : BeginReceive(op, capacity)
    \/ SendMore \/ SendNothing
    \/ ReceiveMore \/ ReceiveNothing \/ ReceiveUnconnected
    \/ WriteField \/ Collect \/ ReadField
    \/ PeerSends \/ Lose

Spec == Init /\ [][Next]_vars

-----------------------------------------------------------------------------

Bytes  == [value : 0 .. MaxFields, part : 0 .. 2]
Buffer == [endian : Endians, bytes : Seq(Bytes), read : 0 .. Capacity, write : 0 .. Capacity]

TypeOK ==
    /\ socket \in {NoSocket} \cup
           [type : Types, blocking : BOOLEAN, connected : BOOLEAN, listening : BOOLEAN, endpoint : Hosts]
    /\ al \in {NoSocket} \cup [type : Types, blocking : BOOLEAN]
    /\ call \in [op : {"none", "Send", "SendAll", "Receive", "ReceiveAll"}, done : 0 .. Capacity]
    /\ {fresh, inbox, outbox} \subseteq Buffer
    /\ {wire, arrived} \subseteq Seq(Bytes)
    /\ values \in Seq(0 .. MaxFields)
    /\ {allocated, written, produced} \subseteq Nat
    /\ datagrams \subseteq 1 .. MaxFields
    /\ lost \in BOOLEAN
    /\ givenUp \subseteq {"sending", "receiving"}

(* The extension's flags tell the truth about the socket below: there is   *)
(* one while is_connected is set, of the same type, and is_blocking is its *)
(* mode when it is a TCP socket.                                           *)
FlagsTrue ==
    /\ al # NoSocket <=> IsConnected
    /\ IsConnected => al.type = socket.type
    /\ IsConnected /\ Is("TCP") => al.blocking = socket.blocking

(* Whatever way a call ends, the one buffer that is not released is the one*)
(* the script was handed or the call still fills.                          *)
NoBufferLeaks == allocated = IF fresh = nullptr THEN 0 ELSE 1

(* What is sent over UDP goes to the host the last bytes received came     *)
(* from, whatever was tried since.                                         *)
AnswersReachSender ==
    Is("UDP") /\ fresh.write > 0 => socket.endpoint = Sender(fresh.bytes[fresh.write].value)

(* The types, the flags, the buffers and the end point of the datagrams    *)
(* (main.cpp:82-136, Socket.lua:55-84, main.cpp:588).                      *)
SocketInv == TypeOK /\ FlagsTrue /\ NoBufferLeaks /\ AnswersReachSender

Unread(buffer) == SubSeq(buffer.bytes, buffer.read + 1, buffer.write)
Filled == SubSeq(fresh.bytes, 1, IF Receiving THEN call.done ELSE fresh.write)
Unsent == SubSeq(outbox.bytes, IF Sending THEN call.done + 1 ELSE 1, outbox.write)

(* Nothing more goes that way over the TCP connection.                     *)
OverIn  == lost \/ "receiving" \in givenUp
OverOut == lost \/ "sending" \in givenUp

(* TCP loses, repeats and reorders nothing on the whole way between the    *)
(* values of one side and those of the other, through partial transfers,   *)
(* calls that would block, the buffers' offsets and two byte orders.  When *)
(* the connection is lost, or a call fails in the middle and says so, what *)
(* came through is a part from the start                                   *)
(* ("@return connection_closed, number_of_bytes_sent", Socket.lua:45).     *)
NothingLost ==
    Is("TCP") =>
        LET taken == Stream(Len(values)) \o Unread(inbox) \o Filled
        IN  /\ values = [i \in DOMAIN values |-> i]
            /\ IF OverIn THEN IsPrefix(taken, Stream(produced)) ELSE taken \o wire = Stream(produced)
            /\ IF OverOut THEN IsPrefix(arrived, Stream(written)) ELSE arrived \o Unsent = Stream(written)
=============================================================================
