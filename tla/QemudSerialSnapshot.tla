------------------------ MODULE QemudSerialSnapshot -------------------------
(***************************************************************************)
(* Snapshots of a machine whose guest uses the serial side of qemud:       *)
(* qemud_save and qemud_load (android/hw-qemud.c).                         *)
(*                                                                         *)
(* A snapshot holds the guest's memory, what the port has for the guest    *)
(* and, of qemud, the packet that is coming in, the counts of the services *)
(* and the clients.  It does not hold what waits in the character pipe.  It*)
(* is loaded by the running process, whose clients are disconnected        *)
(* without a word, or by a new one, which has none.  The clients of pipes, *)
(* which the pipe device saves and loads, are left out (MaxPipes = 0).     *)
(***************************************************************************)
EXTENDS QemudSerial

VARIABLE snap  \* the snapshot, or NoSnapshot

NoSnapshot == [taken |-> FALSE]
shvars == <<svars, snap>>

SnapshotInit == SerialInit /\ snap = NoSnapshot

(* qemud_save, from the main loop.                                         *)
Save ==
  /\ Quiet /\ ~ snap.taken
  /\ snap' = [taken |-> TRUE, daemon |-> daemon, frames |-> frames, delivered |-> delivered,
              serial |-> serial, num_clients |-> num_clients, clients |-> clients,
              reader |-> half.reader]
  /\ UNCHANGED svars

(* A client's header is loaded without the count of what it holds.         *)
qemud_serial_client_load(c) == [c EXCEPT !.header = <<>>]

(* qemud_load when `current` are the clients there are: the services' counts*)
(* are loaded, then those clients leave their services, then each client   *)
(* of the file joins its service.                                          *)
Count(cs, s) == Cardinality({c \in cs : c.service = s})

qemud_load(current, bips) ==
  /\ Quiet /\ snap.taken
  /\ chan' = snap.daemon[1] /\ up' = snap.daemon[2] /\ line' = snap.daemon[3]
  /\ serial' = snap.serial
  /\ num_clients' = [s \in Service |->
       snap.num_clients[s] - Count(current, s) + Count(snap.clients, s)]
  /\ clients' = {qemud_serial_client_load(c) : c \in snap.clients}
  /\ half' = [bips |-> bips, reader |-> snap.reader]
  /\ said' = snap.reader \o Waiting(bips)
  /\ frames' = snap.frames /\ delivered' = snap.delivered
  /\ UNCHANGED <<rest, msg, snap>>

LoadHere == qemud_load(clients, half.bips)
LoadAnew == qemud_load({}, <<>>)

SnapshotNext == (SerialNext /\ UNCHANGED snap) \/ Save \/ LoadHere \/ LoadAnew
SnapshotSpec == SnapshotInit /\ [][SnapshotNext]_shvars
=============================================================================
