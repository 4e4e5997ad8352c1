---------------------------- MODULE QemudSerial -----------------------------
(***************************************************************************)
(* The serial side of qemud (android/hw-qemud.c): all clients in the guest *)
(* talk to their services through one serial port.                         *)
(*                                                                         *)
(* In the guest a daemon, which is not in this repository and is modelled  *)
(* from docs/ANDROID-QEMUD.TXT, gives each client a channel.  It puts what *)
(* clients write into packets <<channel, size>> \o payload and writes them *)
(* to the port in pieces.  In the emulator the pieces go through a         *)
(* character pipe (CharPipe) to qemud_serial_read, which puts the packets  *)
(* together; the multiplexer finds the client of the channel;              *)
(* qemud_client_recv puts the frames of a framed client together, which    *)
(* packets cut anywhere.  Channel 0 is the daemon's own, to connect and to *)
(* disconnect clients.  The other way, each packet goes through the        *)
(* character pipe to the serial port's small buffer.                       *)
(*                                                                         *)
(* A header's field is one byte here, a frame's header two digits.  A turn *)
(* of a loop of the code is a step; the guest does not run before the      *)
(* piece it wrote has been dealt with.  The old daemon's protocol          *)
(* (SUPPORT_LEGACY_QEMUD) is left out.                                     *)
(***************************************************************************)
EXTENDS CharPipe, FiniteSets

(* The services, numbered; those whose clients use frames; those the guest *)
(* reaches through pipes as well; their limits on clients, 0 for none.     *)
CONSTANTS Service, Framed, PipeService, MaxClients
ASSUME ServiceAssumption ==
  /\ Service \subseteq Nat /\ Framed \subseteq Service /\ PipeService \subseteq Service
  /\ MaxClients \in [Service -> Nat]

(* The payload of a packet (4000 in the code); a control message fits.     *)
CONSTANT MAX_SERIAL_PAYLOAD
ASSUME PayloadAssumption == MAX_SERIAL_PAYLOAD \in Nat /\ MAX_SERIAL_PAYLOAD >= 3

HEADER_SIZE == 2
FRAME_HEADER_SIZE == 2
Base == 4

(* Bounds: the channels, each given to one client in all; the bytes that   *)
(* clients write, in all, without the headers of their frames; the clients *)
(* that are connected through a pipe at a time, how much is said before    *)
(* services send nothing on their own, the size of such a message and of   *)
(* the pieces the port takes, and how much the port has not taken when the *)
(* daemon makes the next packet.                                           *)
CONSTANTS MaxChannel, MaxWritten, MaxPipes, MaxSaid, MaxMessage, MaxPiece, MaxLine
ASSUME SerialBoundAssumption ==
  /\ \A n \in {MaxChannel, MaxWritten, MaxPipes, MaxSaid, MaxMessage, MaxPiece, MaxLine} : n \in Nat
  /\ MaxWritten < Base * Base  \* the header of a frame holds its size

Channel == 1..MaxChannel
connect == 100  \* the control messages: <<connect, service, channel>>
disconnect == 101

(* A client that is connected through a pipe has no channel (-1 in the     *)
(* code); here each has a negative number, to tell it from the others.     *)
Pipes == (-MaxPipes)..(-1)

VARIABLES
  chan,       \* the daemon: [c] its client's state and service
  up,         \* [c] : what its client has written and the daemon not packed
  line,       \* what the daemon has packed and the port not taken
  rest,       \* what charpipehalf_write has still to deliver of a piece
  serial,     \* QemudSerial
  msg,        \* what qemud_client_recv has still to look at of a packet
  clients,    \* the multiplexer's clients: no two have one channel
  num_clients,
  half,       \* the character pipe to the guest
  said,       \* history: what was sent to the guest and it has not read
  frames,     \* history [c] : what the client has written, frame by frame
  delivered   \* history [c] : what its service was given

daemon == <<chan, up, line>>
out == <<half, said>>
recv == <<rest, serial, msg, clients, num_clients>>
svars == <<daemon, recv, out, frames, delivered>>

Digits(n) == <<n \div Base, n % Base>>
Value(digits) == digits[1] * Base + digits[2]

NewClient(c, s) ==
  [channel |-> c, service |-> s, framing |-> s \in Framed, need_header |-> TRUE,
   header |-> <<>>, payload |-> <<>>, size |-> 0]

Sizes == 0..(Base * Base)
Client == [channel: Channel \cup Pipes, service: Service, framing: BOOLEAN,
           need_header: BOOLEAN, header: Seq(Nat), payload: Seq(Nat), size: Sizes]

SerialTypeOK ==
  /\ chan \in [Channel -> [state: {"new", "asked", "open", "closed"},
                           service: Service \cup {0}]]
  /\ up \in [Channel -> Seq(Nat)] /\ line \in Seq(Nat)
  /\ rest \in Seq(Nat) /\ msg \in Seq(Nat)
  /\ serial.in_channel \in Nat /\ serial.in_size \in Nat
  /\ Len(serial.header) < HEADER_SIZE
  /\ Len(serial.payload) \in 0..MAX_SERIAL_PAYLOAD
  /\ clients \subseteq Client /\ num_clients \in [Service -> Nat]
  /\ \A c \in clients : c.need_header \/ Len(c.payload) < c.size
  /\ Len(half.reader) <= reader_size

SerialInit ==
  /\ chan = [c \in Channel |-> [state |-> "new", service |-> 0]]
  /\ up = [c \in Channel |-> <<>>] /\ line = <<>>
  /\ rest = <<>> /\ msg = <<>>
  /\ serial = [need_header |-> TRUE, overflow |-> 0, in_size |-> 0, in_channel |-> 0,
               header |-> <<>>, payload |-> <<>>]
  /\ clients = {} /\ num_clients = [s \in Service |-> 0]
  /\ half = EmptyHalf /\ said = <<>>
  /\ frames = [c \in Channel |-> <<>>] /\ delivered = [c \in Channel |-> <<>>]

-----------------------------------------------------------------------------
(* The daemon and its clients.                                             *)
Quiet == rest = <<>> /\ msg = <<>>
Packet(c, payload) == <<c, Len(payload)>> \o payload
Frame(payload) == Digits(Len(payload)) \o payload

(* A client connects to a service; channels are given out in order.        *)
Ask(c, s) ==
  /\ Quiet /\ Len(line) <= MaxLine /\ chan[c].state = "new" /\ \A d \in 1..(c - 1) : chan[d].state # "new"
  /\ chan' = [chan EXCEPT ![c] = [state |-> "asked", service |-> s]]
  /\ line' = line \o Packet(0, <<connect, s, c>>)
  /\ UNCHANGED <<up, recv, out, frames, delivered>>

(* A connected client writes: each byte of a frame has the frame's number, *)
(* which no digit has.                                                     *)
ClientWrites(c, n) ==
  /\ Quiet /\ chan[c].state = "open"
  /\ Len(FlattenSeq(FlattenSeq(frames))) + n <= MaxWritten
  /\ LET f == [i \in 1..n |-> Base + Len(FlattenSeq(frames))]
     IN  /\ frames' = [frames EXCEPT ![c] = Append(@, f)]
         /\ up' = [up EXCEPT ![c] =
                     @ \o (IF chan[c].service \in Framed THEN Frame(f) ELSE f)]
  /\ UNCHANGED <<chan, line, recv, out, delivered>>

(* The daemon packs the first n bytes of what a client has written.        *)
Pack(c, n) ==
  /\ Quiet /\ Len(line) <= MaxLine /\ n <= Len(up[c]) /\ n <= MAX_SERIAL_PAYLOAD
  /\ line' = line \o Packet(c, SubSeq(up[c], 1, n))
  /\ up' = [up EXCEPT ![c] = SubSeq(@, n + 1, Len(@))]
  /\ UNCHANGED <<chan, recv, out, frames, delivered>>

(* A client closes, when all it has written is packed.                     *)
ClientCloses(c) ==
  /\ Quiet /\ Len(line) <= MaxLine /\ chan[c].state = "open" /\ up[c] = <<>>
  /\ chan' = [chan EXCEPT ![c].state = "closed"]
  /\ line' = line \o Packet(0, <<disconnect, c>>)
  /\ UNCHANGED <<up, recv, out, frames, delivered>>

(* goldfish_tty takes what the daemon writes, a piece at a time.           *)
TtyWrites ==
  /\ Quiet /\ line # <<>>
  /\ LET n == Least(MaxPiece, Len(line)) IN rest' = First(line, n) /\ line' = From(line, n)
  /\ UNCHANGED <<chan, up, serial, msg, clients, num_clients, out, frames, delivered>>

(* The guest reads a byte of the port's buffer (TTY_CMD_READ_BUFFER; what  *)
(* it reads at once is many such steps), and heeds it.                     *)
Heeded(m) ==
  IF m.kind = "ok" /\ chan[m.channel].state = "asked"
  THEN [chan EXCEPT ![m.channel].state = "open"]
  ELSE IF m.kind \in {"ko", "disconnect"}
       THEN [chan EXCEPT ![m.channel].state = "closed"]
       ELSE chan

TtyReads ==
  /\ Quiet /\ half.reader # <<>>
  /\ half' = [half EXCEPT !.reader = Tail(@)]
  /\ said' = Tail(said)
  /\ chan' = Heeded(Head(half.reader))
  /\ up' = [c \in Channel |-> IF chan'[c].state = "closed" THEN <<>> ELSE up[c]]
  /\ UNCHANGED <<line, recv, frames, delivered>>

-----------------------------------------------------------------------------
(* To the guest.                                                           *)
(* charpipe_poll, a turn of its loop.                                      *)
charpipe_poll ==
  /\ Quiet /\ HasWork(half) /\ half' = charpipehalf_poll(half)
  /\ UNCHANGED <<daemon, recv, said, frames, delivered>>

(* qemud_serial_send: packets of at most MAX_SERIAL_PAYLOAD, each with its *)
(* header, the first with the frame's header if there is one.  A header    *)
(* and a control message are each one byte here.                           *)
Token(kind, c) == [kind |-> kind, channel |-> c]

Packets(c, body) ==
  FlattenSeq([k \in 1..((Len(body) + MAX_SERIAL_PAYLOAD - 1) \div MAX_SERIAL_PAYLOAD) |->
    <<Token("header", c)>> \o
      First(From(body, (k - 1) * MAX_SERIAL_PAYLOAD),
            Least(MAX_SERIAL_PAYLOAD, Len(body) - (k - 1) * MAX_SERIAL_PAYLOAD))])

qemud_serial_send(c, body) ==
  LET tokens == Packets(c, body)
  IN  /\ said' = said \o tokens
      /\ half' = charpipehalf_write(half, tokens)

(* A service sends a message of n bytes to a client on its own.            *)
qemud_client_send(c, n) ==
  /\ Quiet /\ c.channel \notin Pipes /\ Len(said) < MaxSaid
  /\ qemud_serial_send(c.channel,
       (IF c.framing THEN <<Token("frame", c.channel)>> ELSE <<>>)
         \o [j \in 1..n |-> [kind |-> "byte", channel |-> c.channel, number |-> j]])
  /\ UNCHANGED <<daemon, recv, frames, delivered>>

-----------------------------------------------------------------------------
(* The clients and their services.                                         *)
Connected(ch) == \E c \in clients : c.channel = ch
ClientOf(ch) == CHOOSE c \in clients : c.channel = ch
Becomes(c, d) == clients' = (clients \ {c}) \cup {d}

AddClient(c, s) ==
  /\ clients' = clients \cup {NewClient(c, s)}
  /\ num_clients' = [num_clients EXCEPT ![s] = @ + 1]

(* Mutant: the service still counts the client.                            *)
LeaveUncounted(c) == UNCHANGED num_clients
qemud_service_remove_client(c) == num_clients' = [num_clients EXCEPT ![c.service] = @ - 1]
RemoveClient(c) == clients' = clients \ {c} /\ qemud_service_remove_client(c)

(* A service closes a client: the daemon is told.                          *)
(* Mutant: it is not.                                                      *)
ClosesSilently(c) == UNCHANGED out
TellsOfClose(c) == qemud_serial_send(0, <<Token("disconnect", c)>>)

qemud_client_close(c) ==
  /\ Quiet /\ c.channel \notin Pipes /\ Len(said) < MaxSaid
  /\ RemoveClient(c) /\ TellsOfClose(c.channel)
  /\ UNCHANGED <<daemon, rest, serial, msg, frames, delivered>>

(* A client connects to a service through a pipe, whatever the limit, or   *)
(* closes its pipe.                                                        *)
PipeConnects(s) ==
  /\ Quiet /\ \E p \in Pipes : ~ Connected(p) /\ AddClient(p, s)
  /\ UNCHANGED <<daemon, rest, serial, msg, out, frames, delivered>>

PipeCloses(c) ==
  /\ Quiet /\ c.channel \in Pipes
  /\ RemoveClient(c)
  /\ UNCHANGED <<daemon, rest, serial, msg, out, frames, delivered>>

-----------------------------------------------------------------------------
(* From the guest: one call of qemud_serial_read by charpipehalf_write.    *)
(* It is never given more than the rest of a header or of a payload, and   *)
(* can always take something: nothing is buffered on the way.              *)
qemud_serial_can_read ==
  IF serial.overflow > 0 THEN serial.overflow
  ELSE IF serial.need_header THEN HEADER_SIZE - Len(serial.header)
  ELSE serial.in_size - Len(serial.payload)

(* A header is complete.                                                   *)
(* Mutant: the next one is put behind it.                                  *)
HeaderKept(h) == h
HeaderReset(h) == <<>>

WithHeader(s, h) ==
  LET t == [s EXCEPT !.header = HeaderReset(h), !.in_channel = h[1], !.in_size = h[2]]
  IN  IF t.in_size = 0 THEN t
      ELSE IF t.in_size > MAX_SERIAL_PAYLOAD THEN [t EXCEPT !.overflow = t.in_size]
      ELSE [t EXCEPT !.need_header = FALSE, !.payload = <<>>]

Filled(s, bytes) ==
  IF s.overflow > 0 THEN s
  ELSE IF ~ s.need_header THEN [s EXCEPT !.payload = @ \o bytes]
  ELSE IF Len(s.header \o bytes) < HEADER_SIZE THEN [s EXCEPT !.header = @ \o bytes]
  ELSE WithHeader(s, s.header \o bytes)

(* A whole payload goes through qemud_multiplexer_serial_recv to the       *)
(* client of its channel, if there is one.  (What the code keeps of it in  *)
(* its buffer has no further use.)                                         *)
qemud_serial_read ==
  /\ rest # <<>> /\ msg = <<>>
  /\ LET n == Least(qemud_serial_can_read, Len(rest))
         s == Filled(serial, First(rest, n))
         full == ~ s.need_header /\ Len(s.payload) = s.in_size
     IN  /\ n > 0 /\ rest' = From(rest, n)
         /\ serial' = IF full THEN [s EXCEPT !.need_header = TRUE, !.in_size = 0, !.payload = <<>>]
                      ELSE s
         /\ msg' = IF full /\ (s.in_channel = 0 \/ Connected(s.in_channel))
                   THEN s.payload ELSE <<>>
  /\ UNCHANGED <<daemon, clients, num_clients, out, frames, delivered>>

(* qemud_multiplexer_control_recv.                                         *)
Full(s) == MaxClients[s] > 0 /\ num_clients[s] >= MaxClients[s]

Control(command) == msg # <<>> /\ serial.in_channel = 0 /\ msg[1] = command /\ msg' = <<>>

Connect ==
  /\ Control(connect)
  /\ LET s == msg[2]
         c == msg[3]
     IN  IF s \notin Service \/ Full(s)
         THEN qemud_serial_send(0, <<Token("ko", c)>>) /\ UNCHANGED <<clients, num_clients>>
         ELSE AddClient(c, s) /\ qemud_serial_send(0, <<Token("ok", c)>>)
  /\ UNCHANGED <<daemon, rest, serial, frames, delivered>>

(* The service may have closed the client meanwhile.                       *)
Disconnect ==
  /\ Control(disconnect)
  /\ IF Connected(msg[2]) THEN RemoveClient(ClientOf(msg[2]))
     ELSE UNCHANGED <<clients, num_clients>>
  /\ UNCHANGED <<daemon, rest, serial, out, frames, delivered>>

(* qemud_client_recv: without framing...                                   *)
Receives(c, m) == delivered' = [delivered EXCEPT ![c] = @ \o m]

ToClient(framing) ==
  msg # <<>> /\ serial.in_channel # 0 /\ ClientOf(serial.in_channel).framing = framing

ClientRecv ==
  /\ ToClient(FALSE)
  /\ Receives(serial.in_channel, msg) /\ msg' = <<>>
  /\ UNCHANGED <<daemon, rest, serial, clients, num_clients, out, frames>>

(* ... or a turn of the loop that puts frames together.  Its shortcut for  *)
(* a packet that is one frame needs a header that is full, but no header   *)
(* is left full (but for the one of an empty frame, which is not modelled).*)
FramedRecv ==
  /\ ToClient(TRUE)
  /\ LET c == ClientOf(serial.in_channel)
         h == c.header \o First(msg, Least(Len(msg), FRAME_HEADER_SIZE - Len(c.header)))
     IN  /\ c.need_header
         /\ msg' = From(msg, Len(h) - Len(c.header))
         /\ Becomes(c, IF Len(h) < FRAME_HEADER_SIZE THEN [c EXCEPT !.header = h]
                       ELSE [c EXCEPT !.header = <<>>, !.need_header = FALSE, !.size = Value(h)])
  /\ UNCHANGED <<daemon, rest, serial, num_clients, out, frames, delivered>>

(* Mutant: a frame ends with the packet.                                   *)
EndsWithPacket(c, payload) == TRUE
Complete(c, payload) == Len(payload) = c.size

PayloadRecv ==
  /\ ToClient(TRUE)
  /\ LET c == ClientOf(serial.in_channel)
         bytes == First(msg, Least(Len(msg), c.size - Len(c.payload)))
         payload == c.payload \o bytes
     IN  /\ ~ c.need_header
         /\ msg' = From(msg, Len(bytes))
         /\ IF Complete(c, payload)
            THEN /\ Receives(serial.in_channel, <<payload>>)
                 /\ Becomes(c, [c EXCEPT !.need_header = TRUE, !.size = 0, !.payload = <<>>])
            ELSE Becomes(c, [c EXCEPT !.payload = payload]) /\ UNCHANGED delivered
  /\ UNCHANGED <<daemon, rest, serial, num_clients, out, frames>>

-----------------------------------------------------------------------------
Guest ==
  \/ \E c \in Channel :
       \/ \E s \in Service \cup {0} : Ask(c, s)
       \/ \E n \in 1..MaxWritten : ClientWrites(c, n)
       \/ \E n \in 1..MAX_SERIAL_PAYLOAD : Pack(c, n)
       \/ ClientCloses(c)
  \/ TtyWrites \/ TtyReads

Emulator ==
  \/ qemud_serial_read \/ Connect \/ Disconnect
  \/ ClientRecv \/ FramedRecv \/ PayloadRecv
  \/ charpipe_poll
  \/ \E s \in PipeService : PipeConnects(s)
  \/ \E c \in clients :
       qemud_client_close(c) \/ PipeCloses(c) \/ \E n \in 1..MaxMessage : qemud_client_send(c, n)

SerialNext == Guest \/ Emulator
SerialSpec == SerialInit /\ [][SerialNext]_svars

-----------------------------------------------------------------------------
Written(c) == IF chan[c].service \in Framed THEN frames[c] ELSE FlattenSeq(frames[c])

(* However packets cut the frames of several clients and the port cuts the *)
(* packets, a service is given what its client has written, frame by frame *)
(* and in order, and all of it once it is through the port                 *)
(* (qemud_serial_read, qemud_client_recv).                                 *)
FramesArrive ==
  \A c \in Channel :
    /\ IsPrefix(delivered[c], Written(c))
    /\ Quiet /\ line = <<>> /\ up[c] = <<>> /\ Connected(c) => delivered[c] = Written(c)

(* A service whose clients are limited has no more than that:              *)
(* "'max_clients' is the maximum number of clients accepted by the service *)
(* concurrently" (hw-qemud.c:2300; also :1068).  It does not hold of the   *)
(* code: _qemudPipe_init connects a client without a look at the limit.    *)
ClientsOf(s) == {c \in clients : c.service = s}
LimitHolds ==
  \A s \in Service : MaxClients[s] > 0 => Cardinality(ClientsOf(s)) <= MaxClients[s]

(* The count the limit is checked with is that of the service's clients    *)
(* (qemud_multiplexer_connect), though they are closed from both sides and *)
(* come through pipes as well.                                             *)
ClientsAreCounted ==
  \A s \in Service : num_clients[s] = Cardinality(ClientsOf(s))

(* When nothing is on its way, the daemon and the emulator have the same   *)
(* clients, and no client in the guest still waits for an answer, though   *)
(* both close clients at any time (qemud_client_disconnect).               *)
SidesAgree ==
  Quiet /\ line = <<>> /\ said = <<>> =>
    \A c \in Channel : chan[c].state # "asked" /\ (chan[c].state = "open" <=> Connected(c))

(* The guest reads what the emulator sends through the buffers of the pipe *)
(* and the port, all of it and in order (charpipe.c, cbuffer.c).           *)
GuestStreamInOrder ==
  half.reader \o Waiting(half.bips) = said
=============================================================================
