---------------------------- MODULE GoldfishPipe ----------------------------
(***************************************************************************)
(* The goldfish pipe device with its guest and its services.               *)
(*                                                                         *)
(* The guest is the kernel driver of /dev/qemu_pipe: it is not in this     *)
(* repository and is modelled from docs/ANDROID-QEMU-PIPE.TXT and          *)
(* hw/goldfish_pipe.h.  It sends each command under its lock with          *)
(* interrupts off, so a command is one step and none is sent while the     *)
(* interrupt handler runs; the handler itself takes one step per register  *)
(* it reads, and the emulator may run a service between two of them.       *)
(*                                                                         *)
(* The services are left open: any service may, when the device calls it   *)
(* and at any other time (a socket is ready, a timer fires, a message is   *)
(* broadcast), wake or close any pipe it holds.                            *)
(***************************************************************************)
EXTENDS PipeDevice

(* The sets of events that a service raises on a pipe in one call.         *)
CONSTANT Raisable
ASSUME RaisableAssumption == Raisable \subseteq SUBSET Event

(* The guest's threads: each reads or writes one channel.                  *)
CONSTANT Thread
ASSUME ThreadAssumption == Thread \subseteq Channel \X IoEvent

VARIABLES
  dev,      \* the device
  fds,      \* the channels the guest has open
  again,    \* [c] : a guest thread got PIPE_ERROR_AGAIN reading or writing c
  asleep,   \* [c] : ... it has sent CMD_WAKE_ON_* and waits for the wake
  isr,      \* the interrupt handler: what it does next, on which channel
  raised    \* history [p] : what services raised since p was last reported

guest == <<fds, again, asleep, isr>>
vars == <<dev, fds, again, asleep, isr, raised>>

Idle == [at |-> "idle", chan |-> 0]
Isr == {Idle} \cup [at: {"list"}, chan: {0}] \cup [at: {"mask"}, chan: Channel]

TypeOK ==
  /\ dev \in Device
  /\ fds \subseteq Channel
  /\ again \in [Channel -> SUBSET IoEvent]
  /\ asleep \in [Channel -> SUBSET IoEvent]
  /\ isr \in Isr
  /\ raised \in [PipeId -> SUBSET Event]

Init ==
  /\ dev = InitDevice
  /\ fds = {}
  /\ again = [c \in Channel |-> {}]
  /\ asleep = [c \in Channel |-> {}]
  /\ isr = Idle
  /\ raised = [p \in PipeId |-> {}]

-----------------------------------------------------------------------------
(* An upcall is what a service does with one pipe while it runs: nothing,  *)
(* goldfish_pipe_wake(), goldfish_pipe_close(), or both.                   *)

Raise(d, p, events) ==
  LET io == events \ {"CLOSED"}
      w  == IF io = {} THEN d ELSE goldfish_pipe_wake(d, p, io)
  IN  IF "CLOSED" \in events THEN goldfish_pipe_close(w, p) ELSE w

Fresh(d, p, events) ==
  IF d.node[p].closed THEN events \ {"CLOSED"} ELSE events

(* The device record is d before a service runs and dev' after it.         *)
ServiceRuns(d, r) ==
  \/ dev' = d /\ raised' = r
  \/ \E p \in Served(d), events \in Raisable :
       /\ dev' = Raise(d, p, events)
       /\ raised' = [r EXCEPT ![p] = @ \cup Fresh(d, p, events)]

-----------------------------------------------------------------------------
(* The guest's commands.                                                   *)

CanCommand(c) == isr.at = "idle" /\ c \in fds

IsConnector(c) == dev.node[PipeOf(dev, c)].service = Connector

Open(c) ==
  /\ isr.at = "idle"
  /\ c \notin fds
  /\ ~ HasPipe(dev, c)
  /\ \E p \in PipeId \ ToSet(dev.pipes) :
       /\ dev' = pipe_new(dev, c, p)
       /\ raised' = [raised EXCEPT ![p] = {}]
  /\ fds' = fds \cup {c}
  /\ UNCHANGED <<again, asleep, isr>>

(* The kernel releases a file only when no thread is inside read or write. *)
Close(c) ==
  /\ CanCommand(c)
  /\ again[c] = {} /\ asleep[c] = {}
  /\ fds' = fds \ {c}
  /\ IF HasPipe(dev, c)
     THEN ServiceRuns(pipe_free(dev, c), [raised EXCEPT ![PipeOf(dev, c)] = {}])
     ELSE UNCHANGED <<dev, raised>>
  /\ UNCHANGED <<again, asleep, isr>>

(* A write to a connector collects the service's name.  Once the name is   *)
(* whole and the service accepts, the pipe is the service's.  Until then   *)
(* nothing changes but the connector's own buffer.                         *)
Connect(c) ==
  /\ CanCommand(c)
  /\ ~ Refuses(dev, c)
  /\ IsConnector(c)
  /\ \E svc \in Service :
       ServiceRuns(Serve(dev, PipeOf(dev, c), svc), raised)
  /\ UNCHANGED guest

(* A read or a write that the pipe's service answers, and may answer with  *)
(* PIPE_ERROR_AGAIN.  A connector never does.                              *)
Transfer(c, e) ==
  /\ CanCommand(c)
  /\ e \notin again[c] \cup asleep[c]
  /\ ~ Refuses(dev, c)
  /\ ~ IsConnector(c)
  /\ ServiceRuns(dev, raised)
  /\ \E got \in {{}, {e}} : again' = [again EXCEPT ![c] = @ \cup got]
  /\ UNCHANGED <<fds, asleep, isr>>

(* A thread that got PIPE_ERROR_AGAIN asks for a wake and sleeps, unless   *)
(* the device refuses: then its read or write fails.                       *)
WakeOn(c, e) ==
  /\ CanCommand(c)
  /\ e \in again[c]
  /\ again' = [again EXCEPT ![c] = @ \ {e}]
  /\ IF Refuses(dev, c)
     THEN UNCHANGED <<dev, asleep, raised>>
     ELSE /\ IF WantsWake(dev, PipeOf(dev, c), e)
             THEN UNCHANGED <<dev, raised>>
             ELSE ServiceRuns(AddWanted(dev, PipeOf(dev, c), e), raised)
          /\ asleep' = [asleep EXCEPT ![c] = @ \cup {e}]
  /\ UNCHANGED <<fds, isr>>

(* A signal interrupts a sleeping thread.                                  *)
Interrupted(c, e) ==
  /\ e \in asleep[c]
  /\ asleep' = [asleep EXCEPT ![c] = @ \ {e}]
  /\ UNCHANGED <<dev, fds, again, isr, raised>>

-----------------------------------------------------------------------------
(* The guest's interrupt handler.                                          *)

IsrEnter ==
  /\ isr.at = "idle"
  /\ dev.irq
  /\ isr' = [at |-> "list", chan |-> 0]
  /\ UNCHANGED <<dev, fds, again, asleep, raised>>

(* It reads REG_CHANNEL: the channel of a signaled pipe, 0 at the end.     *)
IsrChannel ==
  /\ isr.at = "list"
  /\ IF dev.signaled # <<>>
     THEN LET p == Head(dev.signaled)
          IN  /\ dev' = PopSignaled(dev)
              /\ isr' = [at |-> "mask", chan |-> dev.node[p].channel]
              /\ raised' = [raised EXCEPT ![p] = {}]
     ELSE isr' = Idle /\ UNCHANGED <<dev, raised>>
  /\ UNCHANGED <<fds, again, asleep>>

(* It reads REG_WAKES and wakes the threads that wait for what it reports. *)
IsrWakes ==
  /\ isr.at = "mask"
  /\ asleep' = [asleep EXCEPT ![isr.chan] = @ \ dev.wakes]
  /\ isr' = [at |-> "list", chan |-> 0]
  /\ UNCHANGED <<dev, fds, again, raised>>

-----------------------------------------------------------------------------
(* A service acts on its own.                                              *)
ServiceEvent ==
  /\ \E p \in Served(dev), events \in Raisable :
       /\ dev' = Raise(dev, p, events)
       /\ raised' = [raised EXCEPT ![p] = @ \cup Fresh(dev, p, events)]
  /\ UNCHANGED guest

Command ==
  \/ \E c \in Channel : Open(c) \/ Close(c) \/ Connect(c)
  \/ \E t \in Thread : Transfer(t[1], t[2]) \/ WakeOn(t[1], t[2])

Signal == \E t \in Thread : Interrupted(t[1], t[2])

Next == Command \/ Signal \/ IsrEnter \/ IsrChannel \/ IsrWakes \/ ServiceEvent

Spec == Init /\ [][Next]_vars

-----------------------------------------------------------------------------
(* Safety.                                                                 *)

Signaled == ToSet(dev.signaled)

(* No pointer dangles: the list of signaled pipes holds no pipe twice and  *)
(* no pipe that was freed, whatever the order in which services wake and   *)
(* close pipes, the guest closes them and the handler empties the list.    *)
(* CMD_CLOSE frees a pipe that may be signaled (goldfish_pipe.c:1005).     *)
SignaledAreLive ==
  /\ IsInjective(dev.pipes)
  /\ IsInjective(dev.signaled)
  /\ Signaled \subseteq ToSet(dev.pipes)

(* While a pipe is signaled the line is high: the handler will come, even  *)
(* when a service signals a pipe while the handler empties the list.       *)
SignalHoldsLine == dev.signaled # <<>> => dev.irq

(* An event that a service raised is still to be reported, by a pipe that  *)
(* is in the handler's list, until the guest reads it or closes the pipe.  *)
RaisedStaysPending ==
  \A p \in PipeId :
    raised[p] # {} => p \in Signaled /\ raised[p] \subseteq dev.node[p].wanted

(* A sleeping thread can still be woken: its pipe exists and records what  *)
(* the thread waits for, or the handler holds a report that says so.       *)
(* REG_CHANNEL clears `wanted`, requests included, so this rests on the    *)
(* report carrying the requests as well as what was raised.                *)
NoDeafSleeper ==
  \A c \in Channel : \A e \in asleep[c] :
    /\ HasPipe(dev, c)
    /\ \/ e \in dev.node[PipeOf(dev, c)].wanted
       \/ isr.at = "mask" /\ isr.chan = c /\ e \in dev.wakes

-----------------------------------------------------------------------------
(* Liveness.  The list is last in, first out, so a service that raises     *)
(* events faster than the handler reads them can keep another pipe waiting *)
(* for ever; what is promised holds once the services have gone quiet.     *)

RaisesNothing == \A p \in PipeId : raised'[p] \subseteq raised[p]
ServicesGoQuiet == <>[][RaisesNothing]_vars

(* What was raised on a pipe and the guest must be told of: that the host  *)
(* closed it, which "can be signaled at any time", and what CMD_WAKE_ON_*  *)
(* was issued for by a thread that still sleeps                            *)
(* (docs/ANDROID-QEMU-PIPE.TXT:192-202).                                   *)
Owed(p) ==
  {e \in raised[p] : e = "CLOSED" \/ e \in asleep[dev.node[p].channel]}

(* Once the services are quiet it is told of all that.                     *)
OwedIsReported ==
  ServicesGoQuiet => \A p \in PipeId : Owed(p) # {} ~> Owed(p) = {}

(* goldfish_pipe_close() wakes the threads blocked on the pipe: none       *)
(* sleeps on after the host has closed the channel.                        *)
ClosedByHost(c) == HasPipe(dev, c) /\ dev.node[PipeOf(dev, c)].closed
ClosedWakesSleepers ==
  ServicesGoQuiet =>
    \A c \in Channel : asleep[c] # {} /\ ClosedByHost(c) ~> asleep[c] = {}

-----------------------------------------------------------------------------
(* The device keeps the promise of PipeEvents: what is due on a channel is *)
(* what services raised on its pipe, and the rest of `wanted` was asked.   *)

On(c) == {p \in ToSet(dev.pipes) : dev.node[p].channel = c}
DueOn(c) == UNION {raised[p] : p \in On(c)}
AskedOn(c) == UNION {dev.node[p].wanted \ raised[p] : p \in On(c)}
Told == IF isr.at = "mask" THEN dev.wakes ELSE {}

Events == INSTANCE PipeEvents WITH
            open  <- {c \in Channel : On(c) # {}},
            asked <- [c \in Channel |-> AskedOn(c)],
            due   <- [c \in Channel |-> DueOn(c)],
            phase <- isr.at,
            chan  <- isr.chan,
            told  <- Told

(* No event is lost, told twice or told on the wrong channel.              *)
ReportsEvents == Events!Spec

=============================================================================
