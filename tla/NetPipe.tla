------------------------------ MODULE NetPipe -------------------------------
(***************************************************************************)
(* The pipes to a socket of the host (android/hw-pipe-net.c): "tcp",       *)
(* "unix" and "opengles", with the connector (android/async-utils.c) and   *)
(* the looper (android/looper-qemu.c) they are made of.                    *)
(*                                                                         *)
(* Each action is an action of GoldfishPipe, or none of its business.  The *)
(* main loop finds with select() what the sockets are ready for, the       *)
(* looper's handlers note it, and its bottom half calls netPipe_io_func,   *)
(* before the guest runs again: one step here for each pipe.  The peer, at *)
(* the other end of the socket, is the environment.                        *)
(*                                                                         *)
(* What is sent is left out; of a socket it matters whether there is       *)
(* something to read and room to write.  A connection that is refused at   *)
(* once leaves the pipe to its connector, which is as if it had not been   *)
(* tried.  Left out is a host that has no socket to give: socket_create    *)
(* fails, and netPipe_free then calls through an io that was not set up    *)
(* (hw-pipe-net.c:199-203, loopIo_done).                                   *)
(***************************************************************************)
EXTENDS GoldfishPipe

(* What such a pipe raises.                                                *)
ASSUME NetAssumption == ((SUBSET IoEvent) \ {{}}) \cup {{"CLOSED"}} \subseteq Raisable

VARIABLES
  net,      \* [p] : the NetPipe of a pipe, with its LoopIo
  sock,     \* [p] : its socket
  crashed   \* the emulator has called goldfish_pipe_wake with no pipe

host == <<net, sock, crashed>>
nvars == <<vars, host>>

NetPipe ==
  [state: {"NONE", "CONNECTING", "CONNECTED", "CLOSING_SOCKET"},
   hwpipe: BOOLEAN,              (* not NULL *)
   wakeWanted: SUBSET IoEvent,   (* what the guest wants to be woken for *)
   wanted: SUBSET IoEvent]       (* what the looper watches the socket for *)

NoNet == [state |-> "NONE", hwpipe |-> FALSE, wakeWanted |-> {}, wanted |-> {}]

Sock == [link: {"none", "trying", "open", "refused", "ended"}, ready: SUBSET IoEvent]
NoSock == [link |-> "none", ready |-> {}]

(* The NetPipes are those of the pipes that have left their connector.     *)
NetTypeOK ==
  /\ TypeOK
  /\ net \in [PipeId -> NetPipe] /\ sock \in [PipeId -> Sock]
  /\ crashed \in BOOLEAN
  /\ \A p \in PipeId : p \in Served(dev) <=> net[p] # NoNet

NetInit ==
  /\ Init
  /\ net = [p \in PipeId |-> NoNet]
  /\ sock = [p \in PipeId |-> NoSock]
  /\ crashed = FALSE

Tcp == CHOOSE s \in Service : TRUE
Silent(d) == dev' = d /\ UNCHANGED raised
Becomes(p, n) == net' = [net EXCEPT ![p] = n]

-----------------------------------------------------------------------------
(* What the looper is asked to watch for.                                  *)
netPipe_resetState(n) ==
  [n EXCEPT !.wanted = (n.wakeWanted \cap {"WRITE"})
                         \cup (IF n.state = "CONNECTED" THEN n.wakeWanted \cap {"READ"} ELSE {})]

(* The connection failed: the guest is told, and the pipe forgotten.       *)
(* Mutant: the guest's threads are not woken.                              *)
ClosesSilently(p) == [dev EXCEPT !.node[p].closed = TRUE]
ClosesPipe(p) == goldfish_pipe_close(dev, p)

netPipe_closeFromSocket(p) ==
  /\ dev' = ClosesPipe(p)
  /\ raised' = [raised EXCEPT ![p] = @ \cup {"CLOSED"}]
  /\ Becomes(p, netPipe_resetState([net[p] EXCEPT !.hwpipe = FALSE, !.state = "CLOSING_SOCKET"]))
  /\ UNCHANGED crashed

(* The events a socket is ready for; at its end it is ready for all.       *)
Ready(s) == IF s.link \in {"refused", "ended"} THEN IoEvent
            ELSE IF s.link = "open" THEN s.ready ELSE {}

(* netPipe_io_func while the connection is made: asyncConnector_run.       *)
Connecting(p) ==
  /\ net[p].state = "CONNECTING" /\ net[p].wanted \cap Ready(sock[p]) # {}
  /\ IF sock[p].link = "refused" THEN netPipe_closeFromSocket(p)
     ELSE /\ Becomes(p, netPipe_resetState([net[p] EXCEPT !.state = "CONNECTED"]))
          /\ Silent(dev) /\ UNCHANGED crashed
  /\ UNCHANGED <<guest, sock>>

(* ... and after.                                                          *)
netPipe_io_func(p) ==
  /\ net[p].state # "CONNECTING"
  /\ LET events == net[p].wanted \cap Ready(sock[p])
         wakeFlags == events \cap net[p].wakeWanted
     IN  /\ events # {}
         /\ IF wakeFlags # {} /\ ~ net[p].hwpipe
            THEN crashed' = TRUE /\ Silent(dev) /\ UNCHANGED net
            ELSE /\ IF wakeFlags = {} THEN Silent(dev)
                    ELSE /\ dev' = goldfish_pipe_wake(dev, p, wakeFlags)
                         /\ raised' = [raised EXCEPT ![p] = @ \cup wakeFlags]
                 /\ Becomes(p, netPipe_resetState([net[p] EXCEPT !.wakeWanted = @ \ wakeFlags]))
                 /\ UNCHANGED crashed
  /\ UNCHANGED <<guest, sock>>

MainLoop(p) == Connecting(p) \/ netPipe_io_func(p)

-----------------------------------------------------------------------------
(* The guest's commands.                                                   *)
NetOpen(c) == Open(c) /\ UNCHANGED host

(* netPipe_initFromAddress, when there is a socket and the connection is   *)
(* made or being made.                                                     *)
netPipe_init(c) ==
  LET p == PipeOf(dev, c)
      n == [state |-> "CONNECTING", hwpipe |-> TRUE, wakeWanted |-> {}, wanted |-> {"WRITE"}]
  IN  /\ Silent(Serve(dev, p, Tcp))
      /\ Connect(c)
      /\ \/ Becomes(p, n) /\ sock' = [sock EXCEPT ![p].link = "trying"]
         \/ /\ Becomes(p, netPipe_resetState([n EXCEPT !.state = "CONNECTED"]))
            /\ sock' = [sock EXCEPT ![p] = [link |-> "open", ready |-> {"WRITE"}]]
      /\ UNCHANGED crashed

(* Mutant: the looper is not told that the socket is closed.               *)
FreeForgets(p) == net' = [net EXCEPT ![p].state = "NONE"]
netPipe_free(p) == Becomes(p, NoNet)

netPipe_closeFromGuest(c) ==
  LET p == PipeOf(dev, c)
  IN  /\ dev' = pipe_free(dev, c) /\ raised' = [raised EXCEPT ![p] = {}]
      /\ Close(c)
      /\ netPipe_free(p) /\ sock' = [sock EXCEPT ![p] = NoSock]
      /\ UNCHANGED crashed

(* A read or a write: it is done, perhaps with all there was, or the guest *)
(* is to try again, or it fails.  A read does not look whether the         *)
(* connection is made; recv() then finds nothing.                          *)
Blocks(p, e) ==
  \/ e = "WRITE" /\ net[p].state = "CONNECTING"
  \/ sock[p].link = "trying"
  \/ sock[p].link = "open" /\ e \notin sock[p].ready

netPipe_buffers(c, e) ==
  LET p == PipeOf(dev, c)
  IN  /\ Silent(dev) /\ Transfer(c, e)
      /\ e \in again'[c] <=> Blocks(p, e)
      /\ IF sock[p].link = "open" /\ ~ Blocks(p, e)
         THEN \E left \in {{}, {e}} : sock' = [sock EXCEPT ![p].ready = (@ \ {e}) \cup left]
         ELSE UNCHANGED sock
      /\ UNCHANGED <<net, crashed>>

(* The service's part of CMD_WAKE_ON_READ and CMD_WAKE_ON_WRITE: it is     *)
(* given all the device has recorded, if the event was not among it.       *)
(* Mutant: the looper is not told.                                         *)
WakeOnForgets(n) == n
Watches(n) == netPipe_resetState(n)

netPipe_wakeOn(c, e) ==
  LET p == PipeOf(dev, c)
      told == ~ Refuses(dev, c) /\ ~ WantsWake(dev, p, e)
  IN  /\ Silent(IF told THEN AddWanted(dev, p, e) ELSE dev)
      /\ WakeOn(c, e)
      /\ IF told
         THEN Becomes(p, Watches([net[p] EXCEPT !.wakeWanted = @ \cup dev'.node[p].wanted]))
         ELSE UNCHANGED net
      /\ UNCHANGED <<sock, crashed>>

-----------------------------------------------------------------------------
(* The peer accepts or refuses the connection, sends, makes room or ends.  *)
Peer(p) ==
  /\ \/ /\ sock[p].link = "trying"
        /\ \E link \in {"open", "refused"} :
             sock' = [sock EXCEPT ![p] = [link |-> link, ready |-> {"WRITE"}]]
     \/ /\ sock[p].link = "open"
        /\ \/ \E e \in IoEvent \ sock[p].ready : sock' = [sock EXCEPT ![p].ready = @ \cup {e}]
           \/ sock' = [sock EXCEPT ![p].link = "ended"]
  /\ UNCHANGED <<vars, net, crashed>>

Handler ==
  /\ \/ IsrEnter \/ IsrChannel \/ IsrWakes
     \/ \E t \in Thread : Interrupted(t[1], t[2])
  /\ UNCHANGED host

NetNext ==
  /\ ~ crashed
  /\ \/ Handler
     \/ \E c \in Channel : NetOpen(c)
     \/ \E c \in fds : netPipe_init(c) \/ netPipe_closeFromGuest(c)
     \/ \E t \in Thread :
          t[1] \in fds /\ (netPipe_buffers(t[1], t[2]) \/ netPipe_wakeOn(t[1], t[2]))
     \/ \E p \in PipeId : MainLoop(p) \/ Peer(p)

NetSpec == NetInit /\ [][NetNext]_nvars

(* The main loop comes round, and the guest's handler runs.                *)
NetFairSpec ==
  /\ NetSpec
  /\ \A p \in PipeId : WF_nvars(~ crashed /\ MainLoop(p))
  /\ WF_nvars(~ crashed /\ (IsrEnter \/ IsrChannel \/ IsrWakes) /\ UNCHANGED host)

-----------------------------------------------------------------------------
(* No wish gets lost between the guest, the device, the pipe and the       *)
(* looper, each of which clears its own record of it at another moment:    *)
(* what a thread sleeps for is about to be reported, or the pipe knows of  *)
(* it and, once connected, has the looper watch the socket for it          *)
(* (netPipe_wakeOn, netPipe_io_func, REG_CHANNEL).                         *)
Reported(c, e) ==
  \/ PipeOf(dev, c) \in Signaled /\ e \in dev.node[PipeOf(dev, c)].wanted
  \/ isr.at = "mask" /\ isr.chan = c /\ e \in dev.wakes
SleepersAreWatched ==
  \A c \in Channel : \A e \in asleep[c] :
    LET n == net[PipeOf(dev, c)]
    IN  Reported(c, e) \/ (e \in n.wakeWanted /\ (n.state = "CONNECTED" => e \in n.wanted))

(* The pipes of sockets do what the device lets a service do.              *)
ImplementsDevice == Spec

(* A thread that sleeps on a connected pipe whose socket is ready for what *)
(* it waits for wakes up, whatever else the socket and the guest then do.   *)
SleepsReady(c, e) ==
  /\ e \in asleep[c]
  /\ net[PipeOf(dev, c)].state = "CONNECTED"
  /\ e \in Ready(sock[PipeOf(dev, c)])
SocketWakesSleepers ==
  \A c \in Channel, e \in IoEvent :
    SleepsReady(c, e) ~> (e \notin asleep[c] \/ crashed)

(* "'hwpipe' must be passed to other goldfish_pipe_xxx functions"          *)
(* (goldfish_pipe.h:63).  But a pipe whose connection was refused has      *)
(* forgotten it while the looper still watches for the guest's wish to     *)
(* write, and netPipe_io_func passes NULL to goldfish_pipe_wake.           *)
WakesItsPipe == ~ crashed
=============================================================================
