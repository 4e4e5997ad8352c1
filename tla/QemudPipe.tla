----------------------------- MODULE QemudPipe ------------------------------
(***************************************************************************)
(* The "qemud" pipe service (android/hw-qemud.c): clients of an emulator   *)
(* service that are connected through a goldfish pipe.                     *)
(*                                                                         *)
(* Each action is an action of GoldfishPipe in which the service is        *)
(* qemud's: what GoldfishPipe lets a service do is narrowed to what qemud  *)
(* does.  A service sends its clients messages of bytes, numbered here by  *)
(* their place in the client's stream; what they say is left out.  A       *)
(* broadcast is one step for each client: the guest may run in between,    *)
(* which the emulator does not let it do.                                  *)
(***************************************************************************)
EXTENDS GoldfishPipe

(* Bounds: the bytes sent to one client while its pipe is open, the bytes  *)
(* of one message, and the size of the guest's read buffers.               *)
CONSTANTS MaxSent, MaxMessage, MaxRead
ASSUME QemudBoundAssumption ==
  MaxSent \in Nat /\ MaxMessage \in Nat /\ MaxRead \in Nat

(* The guest reads and writes every channel.                               *)
ASSUME QemudThreadAssumption == Thread = Channel \X IoEvent

(* What the service raises.                                                *)
ASSUME QemudRaisableAssumption == {"READ"} \in Raisable

VARIABLES
  clients,   \* the service's list of clients, each named by its pipe
  messages,  \* [p] : the messages that wait to be read, without what was read
  sent,      \* history [p] : how many bytes the service has sent
  got        \* history [p] : the bytes the guest has read

qvars == <<vars, clients, messages, sent, got>>
streams == <<messages, sent, got>>

Qemud == CHOOSE s \in Service : TRUE

QemudTypeOK ==
  /\ TypeOK
  /\ clients \in Seq(PipeId)
  /\ messages \in [PipeId -> Seq(Seq(Nat))]
  /\ sent \in [PipeId -> 0..MaxSent]
  /\ got \in [PipeId -> Seq(Nat)]

QemudInit ==
  /\ Init
  /\ clients = <<>>
  /\ messages = [p \in PipeId |-> <<>>]
  /\ sent = [p \in PipeId |-> 0]
  /\ got = [p \in PipeId |-> <<>>]

-----------------------------------------------------------------------------
(* The messages without their first n bytes: one message after the other   *)
(* is dropped while there are bytes to skip, the next is cut.              *)
Bytes(ms) == FlattenSeq(ms)

Drops(acc, m) ==
  IF acc.skip >= Len(m)
  THEN [acc EXCEPT !.skip = @ - Len(m)]
  ELSE [skip |-> 0, rest |-> Append(acc.rest, SubSeq(m, acc.skip + 1, Len(m)))]

Dropped(ms, n) == FoldLeft(Drops, [skip |-> n, rest |-> <<>>], ms).rest

(* Mutant: a message that was read in part is not kept.                    *)
ReadDropsMessage(p, n) ==
  /\ got' = [got EXCEPT ![p] = @ \o SubSeq(Bytes(messages[p]), 1, n)]
  /\ messages' = [messages EXCEPT ![p] = Tail(@)]

(* _qemudPipe_recvBuffers with a buffer that n bytes are copied to.        *)
Read(p, n) ==
  /\ got' = [got EXCEPT ![p] = @ \o SubSeq(Bytes(messages[p]), 1, n)]
  /\ messages' = [messages EXCEPT ![p] = Dropped(@, n)]

(* _qemud_pipe_cache_buffer: a message of n bytes is put behind the others.*)
(* Mutant: before the others.                                              *)
CacheBefore(p, n) ==
  /\ messages' = [messages EXCEPT ![p] =
                    <<[i \in 1..n |-> sent[p] + i]>> \o @]
  /\ sent' = [sent EXCEPT ![p] = @ + n]
_qemud_pipe_cache_buffer(p, n) ==
  /\ messages' = [messages EXCEPT ![p] =
                    Append(@, [i \in 1..n |-> sent[p] + i])]
  /\ sent' = [sent EXCEPT ![p] = @ + n]

(* The service sends a message to a client whose device record is d; it    *)
(* tells the guest that there is something to read.                        *)
Sends(d, p) ==
  /\ \E n \in 1..MaxMessage :
       sent[p] + n <= MaxSent /\ _qemud_pipe_cache_buffer(p, n)
  /\ dev' = goldfish_pipe_wake(d, p, {"READ"})
  /\ raised' = [raised EXCEPT ![p] = @ \cup {"READ"}]
  /\ UNCHANGED got

Silent(d) == dev' = d /\ UNCHANGED <<raised, streams>>

qemud_service_add_client(p) == clients' = <<p>> \o clients

(* Mutant: a client that the guest closes stays in the service's list.     *)
RemoveClientForgets(p) == UNCHANGED clients
qemud_service_remove_client(p) == clients' = RemoveFirst(clients, p)

-----------------------------------------------------------------------------
IsQemud(c) == HasPipe(dev, c) /\ ~ IsConnector(c)

QemudOpen(c) == Open(c) /\ UNCHANGED <<clients, streams>>

(* _qemudPipe_init.  Nothing is sent before the pipe is the client's.      *)
_qemudPipe_init(c) ==
  /\ Connect(c)
  /\ Silent(Serve(dev, PipeOf(dev, c), Qemud))
  /\ qemud_service_add_client(PipeOf(dev, c))

(* The guest closes: the client and the messages it has not read go.       *)
_qemudPipe_closeFromGuest(c) ==
  LET p == PipeOf(dev, c)
  IN  /\ Close(c)
      /\ dev' = pipe_free(dev, c) /\ raised' = [raised EXCEPT ![p] = {}]
      /\ IF IsConnector(c)
         THEN UNCHANGED <<clients, streams>>
         ELSE /\ qemud_service_remove_client(p)
              /\ messages' = [messages EXCEPT ![p] = <<>>]
              /\ sent' = [sent EXCEPT ![p] = 0]
              /\ got' = [got EXCEPT ![p] = <<>>]

(* The guest writes: qemud takes all it is given, and the service may      *)
(* answer at once.                                                         *)
_qemudPipe_sendBuffers(c) ==
  /\ Transfer(c, "WRITE")
  /\ Silent(dev) \/ Sends(dev, PipeOf(dev, c))
  /\ UNCHANGED <<again, clients>>

(* The guest reads: it gets what waits, up to the size of its buffer.      *)
_qemudPipe_recvBuffers(c) ==
  /\ Transfer(c, "READ")
  /\ UNCHANGED <<dev, raised, clients>>
  /\ LET p == PipeOf(dev, c)
     IN  IF messages[p] = <<>>
         THEN "READ" \in again'[c] /\ UNCHANGED streams
         ELSE /\ \E size \in 1..MaxRead :
                   Read(p, Min({size, Len(Bytes(messages[p]))}))
              /\ UNCHANGED <<again, sent>>

(* _qemudPipe_wakeOn does nothing.                                         *)
_qemudPipe_wakeOn(c) ==
  LET p == PipeOf(dev, c)
  IN  /\ WakeOn(c, "READ")
      /\ Silent(IF WantsWake(dev, p, "READ") THEN dev ELSE AddWanted(dev, p, "READ"))
      /\ UNCHANGED clients

(* The service sends a message on its own: to one client, to each in turn, *)
(* or to tell a client that the emulator has no more to do with it.        *)
qemud_client_send ==
  /\ \E i \in DOMAIN clients : Sends(dev, clients[i])
  /\ UNCHANGED <<guest, clients>>

Handler ==
  /\ \/ IsrEnter \/ IsrChannel \/ IsrWakes
     \/ \E c \in Channel : Interrupted(c, "READ")
  /\ UNCHANGED <<clients, streams>>

QemudNext ==
  \/ Handler \/ qemud_client_send
  \/ \E c \in Channel :
       \/ QemudOpen(c) \/ _qemudPipe_init(c) \/ _qemudPipe_closeFromGuest(c)
       \/ _qemudPipe_sendBuffers(c)
       \/ _qemudPipe_recvBuffers(c) \/ _qemudPipe_wakeOn(c)

QemudSpec == QemudInit /\ [][QemudNext]_qvars

-----------------------------------------------------------------------------
(* The guest reads the bytes a service sent it once each and in order, and *)
(* what it has not read is waiting, however its reads and the service's    *)
(* messages fall: a read may end inside a message or span several, and     *)
(* messages come in between (_qemudPipe_recvBuffers,                       *)
(* _qemud_pipe_cache_buffer).                                              *)
StreamInOrder ==
  \A p \in PipeId : got[p] \o Bytes(messages[p]) = [i \in 1..sent[p] |-> i]

(* The service's list of clients and the device's list of pipes agree: a   *)
(* message is never sent to a client whose pipe the guest has closed, and  *)
(* no open pipe of the service is left out of a broadcast.                 *)
ClientsAreServed == IsInjective(clients) /\ ToSet(clients) = Served(dev)

(* qemud keeps to what the device lets a service do, so all that holds of  *)
(* GoldfishPipe holds with qemud's clients.                                *)
ImplementsDevice == Spec

(* A read that finds nothing is to "block until we wake it up with         *)
(* PIPE_WAKE_READ when service sends data to the client"                   *)
(* (hw-qemud.c:2040), and once the guest has told what it waits for, "when *)
(* the condition occurs, then the pipe implementation shall call           *)
(* goldfish_pipe_wake()" (goldfish_pipe.h:93).  But a message that comes   *)
(* between the read and CMD_WAKE_ON_READ, and is reported before the       *)
(* latter, finds nobody asleep; _qemudPipe_wakeOn does not look for it,    *)
(* and the guest sleeps on what it could read.  That report is one the     *)
(* guest was not to get: events "are only reported for a given channel if  *)
(* CMD_WAKE_ON_READ or CMD_WAKE_ON_WRITE (respectively) were issued for    *)
(* it" (docs/ANDROID-QEMU-PIPE.TXT:198).  Were READ kept until then, the   *)
(* reader would be woken.                                                  *)
ReaderIsWoken ==
  \A c \in Channel :
    "READ" \in asleep[c] /\ messages[PipeOf(dev, c)] # <<>> =>
      \/ PipeOf(dev, c) \in Signaled /\ "READ" \in dev.node[PipeOf(dev, c)].wanted
      \/ isr.at = "mask" /\ isr.chan = c /\ "READ" \in dev.wakes
=============================================================================
