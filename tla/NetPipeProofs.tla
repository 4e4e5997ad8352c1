--------------------------- MODULE NetPipeProofs ---------------------------
(***************************************************************************)
(* The pipes of sockets implement the services of GoldfishPipe, and no     *)
(* wish of a sleeping thread is lost, for every set of pipes, channels and *)
(* threads.                                                                *)
(*                                                                         *)
(* The device's own invariant comes from the refinement: a step of NetPipe *)
(* is a step of GoldfishPipe, which keeps IInv.  What is added relates the *)
(* device's record of a pipe to the NetPipe and the looper.                *)
(***************************************************************************)
EXTENDS NetPipe, GoldfishPipeProofs

(* A pipe has a NetPipe exactly when it has left its connector, and the    *)
(* device and the NetPipe agree whether the host has closed it.  A         *)
(* connected socket is watched for just what the guest wants.              *)
PipesAgree ==
  \A p \in PipeId :
    /\ p \in Served(dev) <=> net[p].state # "NONE"
    /\ net[p].state = "NONE" => net[p] = NoNet
    /\ net[p].state = "CONNECTED" => net[p].wanted = net[p].wakeWanted
    /\ p \in ToSet(dev.pipes) =>
         /\ dev.node[p].closed <=> net[p].state = "CLOSING_SOCKET"
         /\ dev.node[p].service = dev.node[p].opaque

(* What a pipe that is not in the handler's list records as wanted its     *)
(* NetPipe knows of.                                                       *)
WishesAreKnown ==
  /\ ToSet(dev.signaled) \subseteq Served(dev)
  /\ \A p \in ToSet(dev.pipes) :
       /\ "CLOSED" \in dev.node[p].wanted => dev.node[p].closed
       /\ p \notin ToSet(dev.signaled) => dev.node[p].wanted \subseteq net[p].wakeWanted

(* A thread waits only on a channel that is open, whose pipe has left its  *)
(* connector.                                                              *)
ThreadsAreServed ==
  /\ \A c \in fds : Exists(dev, c)
  /\ \A c \in Channel \ fds : again[c] = {} /\ asleep[c] = {}
  /\ \A p \in ToSet(dev.pipes) :
       LET c == dev.node[p].channel IN again[c] \cup asleep[c] # {} => p \in Served(dev)

(* SleepersAreWatched, said of the pipes in the list and not of a lookup.  *)
Watched(n, e) == e \in n.wakeWanted /\ (n.state = "CONNECTED" => e \in n.wanted)
Due(p, e) == p \in ToSet(dev.signaled) /\ e \in dev.node[p].wanted
Covered(p, e) ==
  Due(p, e) \/ InHand(dev, dev.node[p].channel, e) \/ Watched(net[p], e)
SleepersCovered ==
  \A p \in ToSet(dev.pipes) : \A e \in asleep[dev.node[p].channel] : Covered(p, e)

NetTypes ==
  net \in [PipeId -> NetPipe] /\ sock \in [PipeId -> Sock] /\ crashed \in BOOLEAN

NetInv ==
  /\ IInv
  /\ NetTypes
  /\ PipesAgree
  /\ WishesAreKnown
  /\ ThreadsAreServed
  /\ SleepersCovered

-----------------------------------------------------------------------------
(* The refinement: every step is a step of GoldfishPipe or changes nothing *)
(* there.                                                                  *)

(* The main loop wakes or closes a pipe as any service may.                *)
LEMMA ConnectingRefines ==
  ASSUME NetInv, NEW p \in PipeId, Connecting(p)
  PROVE  ServiceEvent \/ UNCHANGED vars
<1>1. CASE sock[p].link = "refused"
  <2>1. /\ dev' = goldfish_pipe_close(dev, p)
        /\ raised' = [raised EXCEPT ![p] = @ \cup {"CLOSED"}]
    BY <1>1 DEF Connecting, netPipe_closeFromSocket, ClosesPipe
  <2>2. p \in Served(dev) /\ ~ dev.node[p].closed
    BY DEF Connecting, NetInv, PipesAgree, Served
  <2>3. {"CLOSED"} \ {"CLOSED"} = {} /\ {"CLOSED"} \in Raisable
    BY NetAssumption
  <2>4. /\ Raise(dev, p, {"CLOSED"}) = goldfish_pipe_close(dev, p)
        /\ Fresh(dev, p, {"CLOSED"}) = {"CLOSED"}
    BY <2>2, <2>3 DEF Raise, Fresh
  <2> QED BY <2>1, <2>2, <2>3, <2>4 DEF ServiceEvent, Connecting
<1>2. CASE sock[p].link # "refused"
  BY <1>2 DEF Connecting, Silent, vars, guest
<1> QED BY <1>1, <1>2

LEMMA IoFuncRefines ==
  ASSUME NetInv, NEW p \in PipeId, netPipe_io_func(p)
  PROVE  ServiceEvent \/ UNCHANGED vars
<1> DEFINE events == net[p].wanted \cap Ready(sock[p])
           wakeFlags == events \cap net[p].wakeWanted
<1> DEFINE null == wakeFlags # {} /\ ~ net[p].hwpipe
<1>1. CASE wakeFlags = {} \/ null
  <2>1. dev' = dev /\ UNCHANGED raised
    BY <1>1 DEF netPipe_io_func, Silent
  <2> QED BY <2>1 DEF netPipe_io_func, vars, guest
<1>2. CASE ~ (wakeFlags = {} \/ null)
  <2>1. /\ dev' = goldfish_pipe_wake(dev, p, wakeFlags)
        /\ raised' = [raised EXCEPT ![p] = @ \cup wakeFlags]
        /\ wakeFlags # {}
        /\ UNCHANGED guest
    BY <1>2 DEF netPipe_io_func
  <2>2. wakeFlags \subseteq IoEvent /\ net[p].state # "NONE"
    BY <2>1 DEF NetInv, NetTypes, NetPipe, PipesAgree, NoNet
  <2>3. p \in Served(dev)
    BY <2>2 DEF NetInv, PipesAgree
  <2> HIDE DEF wakeFlags
  <2>4. wakeFlags \ {"CLOSED"} = wakeFlags /\ "CLOSED" \notin wakeFlags
    BY <2>2 DEF IoEvent
  <2>5. wakeFlags \in Raisable
    BY <2>1, <2>2, NetAssumption
  <2>6. /\ Raise(dev, p, wakeFlags) = goldfish_pipe_wake(dev, p, wakeFlags)
        /\ Fresh(dev, p, wakeFlags) = wakeFlags
    BY <2>1, <2>4 DEF Raise, Fresh
  <2> QED BY <2>1, <2>3, <2>5, <2>6 DEF ServiceEvent
<1> QED BY <1>1, <1>2

LEMMA StepRefines ==
  ASSUME NetInv, [NetNext]_nvars
  PROVE  [Next]_vars
<1>1. CASE Handler
  BY <1>1 DEF Handler, Next, Signal
<1>2. ASSUME NEW c \in Channel, NetOpen(c) PROVE Next
  BY <1>2 DEF NetOpen, Next, Command
<1>3. ASSUME NEW c \in fds, netPipe_init(c) \/ netPipe_closeFromGuest(c) PROVE Next
  <2>1. c \in Channel
    BY DEF NetInv, IInv, TypeOK
  <2> QED BY <1>3, <2>1 DEF netPipe_init, netPipe_closeFromGuest, Next, Command
<1>4. ASSUME NEW t \in Thread, netPipe_buffers(t[1], t[2]) \/ netPipe_wakeOn(t[1], t[2])
      PROVE  Next
  BY <1>4 DEF netPipe_buffers, netPipe_wakeOn, Next, Command
<1>5. ASSUME NEW p \in PipeId, MainLoop(p) PROVE [Next]_vars
  BY <1>5, ConnectingRefines, IoFuncRefines DEF MainLoop, Next
<1>6. ASSUME NEW p \in PipeId, Peer(p) PROVE UNCHANGED vars
  BY <1>6 DEF Peer
<1>7. CASE UNCHANGED nvars
  BY <1>7 DEF nvars
<1> QED BY <1>1, <1>2, <1>3, <1>4, <1>5, <1>6, <1>7 DEF NetNext

-----------------------------------------------------------------------------
(* What the invariant says of the network pipes is kept by every step; the *)
(* device's part, IInv, is kept because the step is one of GoldfishPipe.   *)
NetPart == NetTypes /\ PipesAgree /\ WishesAreKnown /\ ThreadsAreServed /\ SleepersCovered

(* Steps that leave the device and the NetPipes alone: no thread starts to *)
(* sleep, and the handler lets go of a report only by delivering it.       *)
LEMMA QuietStep ==
  ASSUME NetInv, NetTypes',
         dev' = dev, fds' = fds, net' = net,
         \A c \in Channel : again'[c] \subseteq again[c] /\ asleep'[c] \subseteq asleep[c],
         \A c \in Channel : \A e \in asleep'[c] : InHand(dev, c, e) => InHand(dev, c, e)'
  PROVE  NetPart'
<1> USE DEF NetInv
<1>1. PipesAgree' /\ WishesAreKnown'
  BY DEF PipesAgree, WishesAreKnown, Served
<1>2. \A p \in ToSet(dev.pipes) : dev.node[p].channel \in Channel
  BY DeviceFacts
<1>3. ThreadsAreServed'
  BY <1>2 DEF ThreadsAreServed, Exists, Served
<1>4. SleepersCovered'
  BY <1>2 DEF SleepersCovered, Covered, Due, Watched, InHand
<1> QED BY <1>1, <1>3, <1>4 DEF NetPart

LEMMA HandlerQuiet ==
  ASSUME NetInv,
         \/ IsrEnter \/ IsrWakes
         \/ \E t \in Thread : Interrupted(t[1], t[2]),
         UNCHANGED host
  PROVE  NetPart'
<1> USE DEF NetInv
<1>1. NetTypes' /\ net' = net
  BY DEF host, NetTypes
<1>2. CASE IsrEnter
  BY <1>1, <1>2, QuietStep DEF IsrEnter, InHand, IInv, TypeOK
<1>3. CASE IsrWakes
  <2>1. /\ \A c \in Channel : asleep'[c] \subseteq asleep[c]
        /\ \A c \in Channel : \A e \in asleep'[c] : ~ InHand(dev, c, e)
    BY <1>3 DEF IsrWakes, IInv, TypeOK, InHand
  <2> QED BY <1>1, <1>3, <2>1, QuietStep DEF IsrWakes
<1>4. ASSUME NEW t \in Thread, Interrupted(t[1], t[2]) PROVE NetPart'
  <2>1. \A c \in Channel : asleep'[c] \subseteq asleep[c]
    BY <1>4, ThreadAssumption DEF Interrupted, IInv, TypeOK
  <2> QED BY <1>1, <1>4, <2>1, QuietStep DEF Interrupted, InHand
<1> QED BY <1>2, <1>3, <1>4

(* The handler takes a pipe out of the list: what the pipe recorded is     *)
(* forgotten there and in the handler's hands.                             *)
LEMMA IsrChannelNet ==
  ASSUME NetInv, IsrChannel, UNCHANGED host
  PROVE  NetPart'
<1> USE DEF NetInv
<1>1. NetTypes' /\ net' = net /\ fds' = fds /\ again' = again /\ asleep' = asleep
  BY DEF host, NetTypes, IsrChannel
<1>2. CASE dev.signaled = <<>>
  BY <1>1, <1>2, QuietStep DEF IsrChannel, InHand
<1>3. CASE dev.signaled # <<>>
  <2> DEFINE h == Head(dev.signaled)
  <2>1. /\ dev' = PopSignaled(dev)
        /\ isr' = [at |-> "mask", chan |-> dev.node[h].channel]
        /\ isr.at = "list"
    BY <1>3 DEF IsrChannel
  <2>2. /\ dev'.pipes = dev.pipes
        /\ h \in ToSet(dev.signaled) /\ h \in ToSet(dev.pipes) /\ h \in PipeId
        /\ ToSet(dev'.signaled) = ToSet(dev.signaled) \ {h}
        /\ dev'.wakes = dev.node[h].wanted
        /\ \A q \in PipeId \ {h} : dev'.node[q] = dev.node[q]
    BY <1>3, <2>1, PopFacts DEF IInv, TypeOK
  <2>3. dev'.node[h] = [dev.node[h] EXCEPT !.wanted = {}]
    BY <2>1, <2>2 DEF PopSignaled, IInv, TypeOK, Device
  <2>4. dev.node[h] \in Pipe
    BY <2>2, DeviceFacts
  <2> HIDE DEF h
  <2>5. /\ \A q \in PipeId : /\ dev'.node[q].channel = dev.node[q].channel
                             /\ dev'.node[q].closed = dev.node[q].closed
                             /\ dev'.node[q].opaque = dev.node[q].opaque
                             /\ dev'.node[q].service = dev.node[q].service
        /\ dev'.node[h].wanted = {}
    BY <2>2, <2>3, <2>4 DEF Pipe
  <2>6. Served(dev') = Served(dev)
    BY <2>2, <2>5, DeviceFacts DEF Served
  <2>7. PipesAgree'
    BY <1>1, <2>2, <2>5, <2>6 DEF PipesAgree
  <2>8. WishesAreKnown'
    BY <1>1, <2>2, <2>5, <2>6, DeviceFacts DEF WishesAreKnown
  <2>9. ThreadsAreServed'
    BY <1>1, <2>2, <2>5, <2>6, DeviceFacts DEF ThreadsAreServed, Exists
  <2>10. SleepersCovered'
    <3> SUFFICES ASSUME NEW p \in ToSet(dev.pipes), NEW e \in asleep[dev.node[p].channel]
                 PROVE  Covered(p, e)'
      BY <1>1, <2>2, <2>5, DeviceFacts DEF SleepersCovered
    <3>1. p \in PipeId /\ dev'.node[p].channel = dev.node[p].channel
      BY <2>5, DeviceFacts
    <3>2. Due(p, e) \/ Watched(net[p], e)
      BY <2>1 DEF SleepersCovered, Covered, InHand
    <3>3. CASE Watched(net[p], e)
      BY <1>1, <3>3 DEF Covered, Watched
    <3>4. CASE Due(p, e) /\ p # h
      BY <2>2, <3>1, <3>4 DEF Covered, Due
    <3>5. CASE Due(p, e) /\ p = h
      BY <2>1, <2>2, <3>1, <3>5 DEF Covered, Due, InHand
    <3> QED BY <3>2, <3>3, <3>4, <3>5
  <2> QED BY <1>1, <2>7, <2>8, <2>9, <2>10 DEF NetPart
<1> QED BY <1>2, <1>3

(* A new pipe has its connector; no thread waits on its channel.           *)
LEMMA OpenNet ==
  ASSUME NetInv, NEW c \in Channel, NetOpen(c)
  PROVE  NetPart'
<1> USE DEF NetInv
<1>1. /\ NetTypes' /\ net' = net /\ again' = again /\ asleep' = asleep /\ isr' = isr
      /\ fds' = fds \cup {c} /\ c \notin fds /\ ~ HasPipe(dev, c)
  BY DEF NetOpen, Open, host, NetTypes
<1>2. PICK p \in PipeId \ ToSet(dev.pipes) : dev' = pipe_new(dev, c, p)
  BY DEF NetOpen, Open
<1>3. /\ ToSet(dev'.pipes) = ToSet(dev.pipes) \cup {p}
      /\ dev'.signaled = dev.signaled /\ dev'.wakes = dev.wakes
      /\ \A q \in PipeId \ {p} : dev'.node[q] = dev.node[q]
  <2>1. dev \in Device /\ Linked(dev) /\ ChannelsDiffer(dev)
    BY DEF IInv, TypeOK
  <2> QED BY <1>1, <1>2, <2>1, PipeNewFacts
<1>4. dev'.node[p] = [FreePipe EXCEPT !.channel = c]
  BY <1>2 DEF pipe_new, IInv, TypeOK, Device
<1>5. /\ dev'.node[p].channel = c /\ dev'.node[p].wanted = {}
      /\ ~ dev'.node[p].closed /\ dev'.node[p].opaque = Connector
      /\ dev'.node[p].service = Connector
  BY <1>4 DEF FreePipe
<1>6. Served(dev') = Served(dev)
  BY <1>3, <1>5, DeviceFacts DEF Served
<1>7. p \notin Served(dev) /\ net[p] = NoNet /\ net[p].state = "NONE"
  BY DEF Served, PipesAgree
<1>8. PipesAgree'
  BY <1>1, <1>3, <1>5, <1>6, <1>7 DEF PipesAgree
<1>9. WishesAreKnown'
  BY <1>1, <1>3, <1>5, <1>6, DeviceFacts DEF WishesAreKnown
<1>10. again[c] = {} /\ asleep[c] = {}
  BY <1>1 DEF ThreadsAreServed
<1>11. ThreadsAreServed'
  <2>1. \A k \in fds' : Exists(dev', k)
    BY <1>1, <1>3, <1>5, DeviceFacts DEF ThreadsAreServed, Exists
  <2>2. \A k \in Channel \ fds' : again'[k] = {} /\ asleep'[k] = {}
    BY <1>1 DEF ThreadsAreServed
  <2>3. \A q \in ToSet(dev'.pipes) :
          again'[dev'.node[q].channel] \cup asleep'[dev'.node[q].channel] # {}
            => q \in Served(dev')
    BY <1>1, <1>3, <1>5, <1>6, <1>10, DeviceFacts DEF ThreadsAreServed
  <2> QED BY <2>1, <2>2, <2>3 DEF ThreadsAreServed
<1>12. SleepersCovered'
  <2> SUFFICES ASSUME NEW q \in ToSet(dev'.pipes), NEW e \in asleep[dev'.node[q].channel]
               PROVE  Covered(q, e)'
    BY <1>1 DEF SleepersCovered
  <2>1. q # p /\ q \in ToSet(dev.pipes) /\ dev'.node[q] = dev.node[q]
    BY <1>3, <1>5, <1>10, DeviceFacts
  <2>2. Covered(q, e)
    BY <2>1 DEF SleepersCovered
  <2> QED BY <1>1, <1>3, <2>1, <2>2 DEF Covered, Due, Watched, InHand
<1> QED BY <1>1, <1>8, <1>9, <1>11, <1>12 DEF NetPart

(* The steps that change one pipe in the list: p, whose NetPipe becomes    *)
(* net'[p].  What the other pipes say is untouched.                        *)
LEMMA OnePipe ==
  ASSUME NetInv, NetTypes', NEW p \in ToSet(dev.pipes),
         dev'.pipes = dev.pipes, dev'.wakes = dev.wakes, fds' = fds, isr' = isr,
         ToSet(dev'.signaled) \in {ToSet(dev.signaled), ToSet(dev.signaled) \cup {p}},
         \A q \in PipeId \ {p} : dev'.node[q] = dev.node[q] /\ net'[q] = net[q],
         dev'.node[p].channel = dev.node[p].channel,
         dev'.node[p].service = dev'.node[p].opaque,
         \A c \in Channel : again'[c] # {} => again[c] # {} \/ c = dev.node[p].channel,
         \A c \in Channel : c # dev.node[p].channel => asleep'[c] = asleep[c],
         (again' = again /\ asleep' = asleep) \/ dev.node[p].channel \in fds,
         p \in Served(dev'), net'[p].state # "NONE",
         net'[p].state = "CONNECTED" => net'[p].wanted = net'[p].wakeWanted,
         dev'.node[p].closed <=> net'[p].state = "CLOSING_SOCKET",
         "CLOSED" \in dev'.node[p].wanted => dev'.node[p].closed,
         p \notin ToSet(dev'.signaled) => dev'.node[p].wanted \subseteq net'[p].wakeWanted,
         \A e \in asleep'[dev.node[p].channel] : Covered(p, e)'
  PROVE  NetPart'
<1> USE DEF NetInv
<1> DEFINE k == dev.node[p].channel
<1>1. /\ p \in PipeId /\ k \in Channel
      /\ \A q \in ToSet(dev.pipes) \ {p} : q \in PipeId /\ dev.node[q].channel # k
  BY DeviceFacts
<1>2. \A q \in PipeId \ {p} : q \in Served(dev') <=> q \in Served(dev)
  BY DEF Served
<1>3. PipesAgree'
  BY <1>2 DEF PipesAgree
<1>4. WishesAreKnown'
  <2>1. ToSet(dev'.signaled) \subseteq Served(dev')
    BY <1>1, <1>2, DeviceFacts DEF WishesAreKnown
  <2> QED BY <1>1, <2>1 DEF WishesAreKnown
<1>5. ThreadsAreServed'
  <2>1. \A c \in fds' : Exists(dev', c)
    BY <1>1 DEF ThreadsAreServed, Exists
  <2>2. \A c \in Channel \ fds' : again'[c] = {} /\ asleep'[c] = {}
    BY DEF ThreadsAreServed
  <2>3. \A q \in ToSet(dev'.pipes) :
          LET c == dev'.node[q].channel IN again'[c] \cup asleep'[c] # {} => q \in Served(dev')
    <3> SUFFICES ASSUME NEW q \in ToSet(dev.pipes), q # p,
                        again'[dev'.node[q].channel] \cup asleep'[dev'.node[q].channel] # {}
                 PROVE  q \in Served(dev')
      OBVIOUS
    <3>1. /\ dev'.node[q] = dev.node[q] /\ q \in PipeId
          /\ dev.node[q].channel # k /\ dev.node[q].channel \in Channel
      BY <1>1, DeviceFacts
    <3>2. again[dev.node[q].channel] \cup asleep[dev.node[q].channel] # {}
      BY <3>1
    <3> QED BY <3>1, <3>2, <1>2 DEF ThreadsAreServed
  <2> QED BY <2>1, <2>2, <2>3 DEF ThreadsAreServed
<1>6. SleepersCovered'
  <2> SUFFICES ASSUME NEW q \in ToSet(dev.pipes), NEW e \in asleep'[dev'.node[q].channel]
               PROVE  Covered(q, e)'
    BY DEF SleepersCovered
  <2>1. CASE q = p
    BY <2>1
  <2>2. CASE q # p
    <3>1. /\ dev'.node[q] = dev.node[q] /\ net'[q] = net[q]
          /\ dev.node[q].channel # k /\ dev.node[q].channel \in Channel
      BY <1>1, <2>2, DeviceFacts
    <3>2. Covered(q, e)
      BY <3>1 DEF SleepersCovered
    <3> QED BY <3>1, <3>2 DEF Covered, Due, Watched, InHand
  <2> QED BY <2>1, <2>2
<1> QED BY <1>3, <1>4, <1>5, <1>6 DEF NetPart

(* A pipe looked up by the channel of an open file.                        *)
LEMMA OpenChannel ==
  ASSUME NetInv, NEW c \in fds
  PROVE  /\ c \in Channel /\ HasPipe(dev, c)
         /\ PipeOf(dev, c) \in ToSet(dev.pipes) /\ PipeOf(dev, c) \in PipeId
         /\ dev.node[PipeOf(dev, c)].channel = c
BY DeviceFacts DEF NetInv, ThreadsAreServed, IInv, TypeOK

(* What the looper watches for is of its type, and for a connected socket  *)
(* it is what the guest wants.                                             *)
LEMMA ResetFacts ==
  ASSUME NEW n \in NetPipe
  PROVE  LET m == netPipe_resetState(n)
         IN  /\ m \in NetPipe /\ m.state = n.state /\ m.wakeWanted = n.wakeWanted
             /\ m.hwpipe = n.hwpipe
             /\ n.state = "CONNECTED" => m.wanted = n.wakeWanted
BY DEF netPipe_resetState, NetPipe, IoEvent

(* The service takes the pipe over from the connector; nothing was wanted. *)
LEMMA InitNet ==
  ASSUME NetInv, NEW c \in fds, netPipe_init(c)
  PROVE  NetPart'
<1> USE DEF NetInv
<1> DEFINE p == PipeOf(dev, c)
           n == [state |-> "CONNECTING", hwpipe |-> TRUE, wakeWanted |-> {}, wanted |-> {"WRITE"}]
           m == netPipe_resetState([n EXCEPT !.state = "CONNECTED"])
<1>1. /\ c \in Channel /\ p \in ToSet(dev.pipes) /\ p \in PipeId /\ dev.node[p].channel = c
      /\ ~ dev.node[p].closed /\ dev.node[p].service = Connector
  BY OpenChannel DEF netPipe_init, Connect, Refuses, IsConnector
<1>2. /\ dev' = Serve(dev, p, Tcp)
      /\ fds' = fds /\ isr' = isr /\ again' = again /\ asleep' = asleep
      /\ crashed' = crashed
  BY DEF netPipe_init, Silent, Connect, guest
<1>3. Tcp \in Service /\ Tcp # Connector
  BY ServiceAssumption DEF netPipe_init, Connect, Tcp
<1>4. net[p] = NoNet /\ net[p].state = "NONE" /\ p \notin Served(dev)
  BY <1>1 DEF PipesAgree, Served
<1>5. dev.node[p].wanted = {} /\ p \notin ToSet(dev.signaled)
  BY <1>1, <1>4 DEF WishesAreKnown, NoNet
<1>6. asleep[c] = {} /\ again[c] = {}
  BY <1>1, <1>4 DEF ThreadsAreServed
<1>7. /\ n \in NetPipe /\ n.state = "CONNECTING" /\ n.wakeWanted = {}
      /\ m \in NetPipe /\ m.state = "CONNECTED" /\ m.wakeWanted = {} /\ m.wanted = {}
  <2>1. n \in NetPipe /\ [n EXCEPT !.state = "CONNECTED"] \in NetPipe
    BY DEF NetPipe, IoEvent
  <2> QED BY <2>1, ResetFacts
<1>8. /\ net' \in {[net EXCEPT ![p] = n], [net EXCEPT ![p] = m]}
      /\ sock' \in [PipeId -> Sock]
  <2>1. sock[p] \in Sock
    BY <1>1 DEF NetTypes
  <2>2. [sock[p] EXCEPT !.link = "trying"] \in Sock /\ [link |-> "open", ready |-> {"WRITE"}] \in Sock
    BY <2>1 DEF Sock, IoEvent
  <2> QED BY <1>1, <2>2 DEF netPipe_init, Becomes, NetTypes
<1> HIDE DEF p, n, m
<1>9. /\ net'[p] \in {n, m} /\ \A q \in PipeId \ {p} : net'[q] = net[q]
      /\ net' \in [PipeId -> NetPipe]
  BY <1>1, <1>7, <1>8 DEF NetTypes
<1>10. NetTypes'
  BY <1>2, <1>8, <1>9 DEF NetTypes
<1>11. /\ dev'.pipes = dev.pipes /\ dev'.signaled = dev.signaled /\ dev'.wakes = dev.wakes
       /\ \A q \in PipeId \ {p} : dev'.node[q] = dev.node[q]
       /\ dev'.node[p] = [dev.node[p] EXCEPT !.service = Tcp, !.opaque = Tcp]
  BY <1>1, <1>2 DEF Serve, IInv, TypeOK, Device
<1>12. /\ dev'.node[p].channel = c /\ dev'.node[p].service = Tcp /\ dev'.node[p].opaque = Tcp
       /\ dev'.node[p].wanted = {} /\ ~ dev'.node[p].closed
  <2>1. dev.node[p] \in Pipe
    BY <1>1, DeviceFacts
  <2> QED BY <2>1, <1>1, <1>5, <1>11 DEF Pipe
<1>13. p \in Served(dev')
  BY <1>1, <1>3, <1>11, <1>12 DEF Served
<1> QED BY <1>1, <1>2, <1>6, <1>7, <1>9, <1>10, <1>11, <1>12, <1>13, OnePipe

(* The pipe and its NetPipe go together.                                   *)
LEMMA CloseNet ==
  ASSUME NetInv, NEW c \in fds, netPipe_closeFromGuest(c)
  PROVE  NetPart'
<1> USE DEF NetInv
<1> DEFINE p == PipeOf(dev, c)
<1>1. /\ c \in Channel /\ HasPipe(dev, c)
      /\ p \in ToSet(dev.pipes) /\ p \in PipeId /\ dev.node[p].channel = c
  BY OpenChannel
<1>2. /\ dev' = pipe_free(dev, c) /\ net' = [net EXCEPT ![p] = NoNet]
      /\ sock' = [sock EXCEPT ![p] = NoSock] /\ crashed' = crashed
      /\ fds' = fds \ {c} /\ isr' = isr /\ again' = again /\ asleep' = asleep
      /\ again[c] = {} /\ asleep[c] = {}
  BY DEF netPipe_closeFromGuest, netPipe_free, Becomes, Close
<1> HIDE DEF p
<1>3. /\ ToSet(dev'.pipes) = ToSet(dev.pipes) \ {p}
      /\ ToSet(dev'.signaled) = ToSet(dev.signaled) \ {p}
      /\ dev'.wakes = dev.wakes
      /\ \A q \in PipeId \ {p} : dev'.node[q] = dev.node[q]
  <2>1. dev \in Device /\ Linked(dev) /\ ChannelsDiffer(dev)
    BY DEF IInv, TypeOK
  <2> QED BY <1>1, <1>2, <2>1, PipeFreeFacts DEF p
<1>4. NetTypes'
  <2>1. NoNet \in NetPipe /\ NoSock \in Sock
    BY DEF NoNet, NetPipe, NoSock, Sock
  <2> QED BY <1>2, <2>1 DEF NetTypes
<1>5. net'[p] = NoNet /\ \A q \in PipeId \ {p} : net'[q] = net[q]
  BY <1>1, <1>2 DEF NetTypes
<1>6. Served(dev') = Served(dev) \ {p}
  BY <1>3, DeviceFacts DEF Served
<1>7. PipesAgree'
  BY <1>3, <1>5, <1>6 DEF PipesAgree, NoNet
<1>8. WishesAreKnown'
  BY <1>3, <1>5, <1>6, DeviceFacts DEF WishesAreKnown
<1>9. \A q \in ToSet(dev'.pipes) :
        /\ q \in ToSet(dev.pipes) /\ q \in PipeId \ {p}
        /\ dev'.node[q] = dev.node[q] /\ dev.node[q].channel # c
  BY <1>1, <1>3, DeviceFacts
<1>10. ThreadsAreServed'
  <2>1. \A k \in fds' : Exists(dev', k)
    BY <1>1, <1>2, <1>3, DeviceFacts DEF ThreadsAreServed, Exists
  <2>2. \A k \in Channel \ fds' : again'[k] = {} /\ asleep'[k] = {}
    BY <1>2 DEF ThreadsAreServed
  <2>3. \A q \in ToSet(dev'.pipes) :
          again'[dev'.node[q].channel] \cup asleep'[dev'.node[q].channel] # {}
            => q \in Served(dev')
    BY <1>2, <1>6, <1>9 DEF ThreadsAreServed
  <2> QED BY <2>1, <2>2, <2>3 DEF ThreadsAreServed
<1>11. SleepersCovered'
  <2> SUFFICES ASSUME NEW q \in ToSet(dev'.pipes), NEW e \in asleep[dev'.node[q].channel]
               PROVE  Covered(q, e)'
    BY <1>2 DEF SleepersCovered
  <2>1. Covered(q, e)
    BY <1>9 DEF SleepersCovered
  <2> QED BY <1>2, <1>3, <1>5, <1>9, <2>1 DEF Covered, Due, Watched, InHand
<1> QED BY <1>4, <1>7, <1>8, <1>10, <1>11 DEF NetPart

(* A read or a write that is to be tried again leaves a thread awake.      *)
LEMMA BuffersNet ==
  ASSUME NetInv, NEW c \in fds, NEW e \in IoEvent, netPipe_buffers(c, e)
  PROVE  NetPart'
<1> USE DEF NetInv
<1>0. PICK p \in ToSet(dev.pipes) : p = PipeOf(dev, c)
  BY OpenChannel
<1>1. c \in Channel /\ HasPipe(dev, c) /\ p \in PipeId /\ dev.node[p].channel = c
  BY <1>0, OpenChannel
<1>2. /\ dev' = dev /\ net' = net /\ crashed' = crashed
      /\ fds' = fds /\ isr' = isr /\ asleep' = asleep
      /\ \A k \in Channel : k # c => again'[k] = again[k]
      /\ ~ IsConnector(c)
  BY DEF netPipe_buffers, Silent, Transfer, IInv, TypeOK
<1>3. NetTypes'
  <2>1. sock' \in [PipeId -> Sock]
    <3>1. sock[p] \in Sock
      BY <1>1 DEF NetTypes
    <3>2. ASSUME NEW left \in {{}, {e}}
          PROVE  [sock[p] EXCEPT !.ready = (@ \ {e}) \cup left] \in Sock
      BY <3>1 DEF Sock, IoEvent
    <3>3. \/ sock' = sock
          \/ \E left \in {{}, {e}} : sock' = [sock EXCEPT ![p].ready = (@ \ {e}) \cup left]
      BY <1>0 DEF netPipe_buffers
    <3> QED BY <1>1, <3>2, <3>3 DEF NetTypes
  <2> QED BY <1>2, <2>1 DEF NetTypes
<1>4. p \in Served(dev) /\ net[p].state # "NONE"
  BY <1>0, <1>1, <1>2 DEF PipesAgree, Served, IsConnector
<1>5. \A x \in asleep[c] : Covered(p, x)'
  BY <1>1, <1>2 DEF SleepersCovered, Covered, Due, Watched, InHand
<1>6. /\ net[p].state = "CONNECTED" => net[p].wanted = net[p].wakeWanted
      /\ dev.node[p].closed <=> net[p].state = "CLOSING_SOCKET"
      /\ dev.node[p].service = dev.node[p].opaque
      /\ "CLOSED" \in dev.node[p].wanted => dev.node[p].closed
      /\ p \notin ToSet(dev.signaled) => dev.node[p].wanted \subseteq net[p].wakeWanted
  BY <1>1 DEF PipesAgree, WishesAreKnown
<1> QED BY <1>1, <1>2, <1>3, <1>4, <1>5, <1>6, OnePipe

(* A thread goes to sleep: the device told the NetPipe of its wish, now or *)
(* when the wish was recorded, unless an event has been reported since.    *)
LEMMA WakeOnNet ==
  ASSUME NetInv, NEW c \in fds, NEW e \in IoEvent, netPipe_wakeOn(c, e)
  PROVE  NetPart'
<1> USE DEF NetInv
<1>0. PICK p \in ToSet(dev.pipes) : p = PipeOf(dev, c)
  BY OpenChannel
<1>1. c \in Channel /\ HasPipe(dev, c) /\ p \in PipeId /\ dev.node[p].channel = c
  BY <1>0, OpenChannel
<1>2. /\ sock' = sock /\ crashed' = crashed /\ fds' = fds /\ isr' = isr /\ e \in again[c]
      /\ again' = [again EXCEPT ![c] = @ \ {e}]
  BY DEF netPipe_wakeOn, WakeOn
<1>3. \A k \in Channel : again'[k] \subseteq again[k]
  BY <1>1, <1>2 DEF IInv, TypeOK
<1>4. CASE Refuses(dev, c)
  <2>1. dev' = dev /\ net' = net /\ asleep' = asleep
    BY <1>4 DEF netPipe_wakeOn, Silent, WakeOn
  <2> QED BY <1>2, <1>3, <2>1, QuietStep DEF NetTypes, InHand
<1>5. CASE ~ Refuses(dev, c)
  <2>1. p \in Served(dev) /\ net[p].state # "NONE" /\ net[p] \in NetPipe
    BY <1>1, <1>2 DEF ThreadsAreServed, PipesAgree, NetTypes
  <2>2. /\ net[p].state = "CONNECTED" => net[p].wanted = net[p].wakeWanted
        /\ ~ dev.node[p].closed /\ net[p].state # "CLOSING_SOCKET"
        /\ dev.node[p].service = dev.node[p].opaque
        /\ "CLOSED" \notin dev.node[p].wanted
        /\ p \notin ToSet(dev.signaled) => dev.node[p].wanted \subseteq net[p].wakeWanted
    BY <1>0, <1>1, <1>5 DEF PipesAgree, WishesAreKnown, Refuses
  <2>3. /\ asleep'[c] = asleep[c] \cup {e}
        /\ \A k \in Channel : k # c => asleep'[k] = asleep[k]
    BY <1>1, <1>5 DEF netPipe_wakeOn, WakeOn, IInv, TypeOK
  <2>4. \A k \in Channel : again'[k] # {} => again[k] # {} \/ k = dev.node[p].channel
    BY <1>3
  <2>5. CASE WantsWake(dev, p, e)
    <3>1. dev' = dev /\ net' = net
      BY <1>0, <2>5 DEF netPipe_wakeOn, Silent
    <3>2. Due(p, e) \/ Watched(net[p], e)
      BY <2>2, <2>5 DEF WantsWake, Due, Watched
    <3>3. \A x \in asleep'[c] : Covered(p, x)'
      BY <1>1, <1>2, <2>3, <3>1, <3>2 DEF SleepersCovered, Covered, Due, Watched, InHand
    <3> QED BY <1>1, <1>2, <2>1, <2>2, <2>3, <2>4, <3>1, <3>3, OnePipe DEF NetTypes
  <2>6. CASE ~ WantsWake(dev, p, e)
    <3>1. /\ dev' = AddWanted(dev, p, e)
          /\ net' = [net EXCEPT ![p] =
               netPipe_resetState([net[p] EXCEPT !.wakeWanted = @ \cup dev'.node[p].wanted])]
      BY <1>0, <1>5, <2>6 DEF netPipe_wakeOn, Silent, Becomes, Watches
    <3>2. /\ dev'.pipes = dev.pipes /\ dev'.wakes = dev.wakes /\ dev'.signaled = dev.signaled
          /\ \A q \in PipeId \ {p} : dev'.node[q] = dev.node[q]
          /\ dev'.node[p] = [dev.node[p] EXCEPT !.wanted = @ \cup {e}]
      BY <1>1, <3>1 DEF AddWanted, IInv, TypeOK, Device
    <3>3. dev.node[p] \in Pipe
      BY <1>1, DeviceFacts
    <3>4. /\ dev'.node[p].channel = dev.node[p].channel
          /\ dev'.node[p].service = dev.node[p].service
          /\ dev'.node[p].opaque = dev.node[p].opaque
          /\ dev'.node[p].closed = dev.node[p].closed
          /\ dev'.node[p].wanted = dev.node[p].wanted \cup {e}
          /\ dev'.node[p].wanted \subseteq IoEvent
      BY <2>2, <3>2, <3>3 DEF Pipe, IoEvent, Event
    <3> DEFINE n == [net[p] EXCEPT !.wakeWanted = @ \cup dev'.node[p].wanted]
    <3>5. n \in NetPipe /\ n.state = net[p].state
          /\ n.wakeWanted = net[p].wakeWanted \cup dev'.node[p].wanted
      BY <2>1, <3>4 DEF NetPipe
    <3>6. /\ net'[p] = netPipe_resetState(n)
          /\ \A q \in PipeId \ {p} : net'[q] = net[q]
      BY <1>1, <3>1 DEF NetTypes
    <3> HIDE DEF n
    <3>7. /\ net'[p] \in NetPipe /\ net'[p].state = net[p].state
          /\ net'[p].wakeWanted = net[p].wakeWanted \cup dev'.node[p].wanted
          /\ net'[p].state = "CONNECTED" => net'[p].wanted = net'[p].wakeWanted
      BY <3>5, <3>6, ResetFacts
    <3>8. NetTypes'
      BY <1>1, <1>2, <3>1, <3>6, <3>7 DEF NetTypes
    <3>9. p \in Served(dev')
      BY <2>1, <3>2, <3>4 DEF Served
    <3>10. \A x \in asleep'[c] : Covered(p, x)'
      <4>1. Watched(net'[p], e)
        BY <3>4, <3>7 DEF Watched
      <4>2. ASSUME NEW x \in asleep[c] PROVE Covered(p, x)'
        <5>1. Covered(p, x)
          BY <1>1 DEF SleepersCovered
        <5> QED BY <1>1, <1>2, <3>2, <3>4, <3>7, <5>1 DEF Covered, Due, Watched, InHand
      <4> QED BY <2>3, <4>1, <4>2 DEF Covered
    <3>11. /\ ToSet(dev'.signaled) = ToSet(dev.signaled)
           /\ net'[p].state # "NONE"
           /\ dev'.node[p].closed <=> net'[p].state = "CLOSING_SOCKET"
           /\ "CLOSED" \in dev'.node[p].wanted => dev'.node[p].closed
           /\ dev'.node[p].wanted \subseteq net'[p].wakeWanted
      BY <2>1, <2>2, <3>2, <3>4, <3>7 DEF IoEvent
    <3> QED BY <1>1, <1>2, <2>2, <2>3, <2>4, <3>2, <3>4, <3>6, <3>7, <3>8, <3>9, <3>10,
               <3>11, OnePipe
  <2> QED BY <2>5, <2>6
<1> QED BY <1>4, <1>5

(* What a wake or a close changes, exactly.                                *)
Woken(d, e, p, flags) ==
  /\ e.pipes = d.pipes /\ e.wakes = d.wakes
  /\ ToSet(e.signaled) = ToSet(d.signaled) \cup {p}
  /\ e.node = [d.node EXCEPT ![p].wanted = @ \cup flags]

LEMMA WakeNode ==
  ASSUME NEW d \in Device, Linked(d), NEW p \in ToSet(d.pipes), NEW flags \in SUBSET Event
  PROVE  Woken(d, goldfish_pipe_wake(d, p, flags), p, flags)
<1>1. p \in PipeId /\ d.signaled \in Seq(PipeId)
  BY DEF Device, ToSet
<1>2. p \notin ToSet(d.signaled) => ToSet(<<p>> \o d.signaled) = ToSet(d.signaled) \cup {p}
  BY <1>1, ConsFacts DEF Linked
<1> QED BY <1>1, <1>2 DEF goldfish_pipe_wake, Device, Woken

LEMMA CloseNode ==
  ASSUME NEW d \in Device, Linked(d), NEW p \in ToSet(d.pipes), ~ d.node[p].closed
  PROVE  LET e == goldfish_pipe_close(d, p)
         IN  /\ e.pipes = d.pipes /\ e.wakes = d.wakes
             /\ ToSet(e.signaled) = ToSet(d.signaled) \cup {p}
             /\ \A q \in PipeId \ {p} : e.node[q] = d.node[q]
             /\ e.node[p].channel = d.node[p].channel
             /\ e.node[p].service = d.node[p].service
             /\ e.node[p].opaque = d.node[p].opaque
             /\ e.node[p].wanted = d.node[p].wanted \cup {"CLOSED"}
             /\ e.node[p].closed
<1> DEFINE n == [d.node EXCEPT ![p].closed = TRUE]
           m == [d EXCEPT !.node = n]
<1>1. p \in PipeId /\ d.signaled \in Seq(PipeId) /\ d.node \in [PipeId -> Pipe]
  BY DEF Device, ToSet
<1>2. goldfish_pipe_close(d, p) = goldfish_pipe_wake(m, p, {"CLOSED"})
  BY <1>1 DEF goldfish_pipe_close, Device
<1>3. n \in [PipeId -> Pipe]
  <2>1. [d.node[p] EXCEPT !.closed = TRUE] \in Pipe
    BY <1>1 DEF Pipe
  <2> QED BY <1>1, <2>1
<1> HIDE DEF n
<1>4. /\ m \in Device /\ Linked(m) /\ m.pipes = d.pipes /\ m.wakes = d.wakes
      /\ m.signaled = d.signaled /\ m.node = n
  BY <1>3 DEF Device, Linked
<1> DEFINE e == goldfish_pipe_wake(m, p, {"CLOSED"})
<1>5. /\ e.pipes = d.pipes /\ e.wakes = d.wakes
      /\ ToSet(e.signaled) = ToSet(d.signaled) \cup {p}
      /\ e.node = [n EXCEPT ![p].wanted = @ \cup {"CLOSED"}]
  <2>1. {"CLOSED"} \in SUBSET Event /\ p \in ToSet(m.pipes)
    BY <1>4 DEF Event
  <2> HIDE DEF m
  <2>2. /\ e.pipes = m.pipes /\ e.wakes = m.wakes
        /\ ToSet(e.signaled) = ToSet(m.signaled) \cup {p}
        /\ e.node = [m.node EXCEPT ![p].wanted = @ \cup {"CLOSED"}]
    <3>1. Linked(m) /\ m \in Device
      BY <1>4
    <3> HIDE DEF e
    <3>2. Woken(m, goldfish_pipe_wake(m, p, {"CLOSED"}), p, {"CLOSED"})
      BY <2>1, <3>1, WakeNode
    <3> QED BY <3>2 DEF Woken, e
  <2> QED BY <1>4, <2>2
<1>6. /\ n[p] \in Pipe
      /\ \A q \in PipeId \ {p} : n[q] = d.node[q]
      /\ n[p] = [d.node[p] EXCEPT !.closed = TRUE]
  BY <1>1, <1>3 DEF n
<1>7. e.node[p] = [n[p] EXCEPT !.wanted = @ \cup {"CLOSED"}]
      /\ \A q \in PipeId \ {p} : e.node[q] = d.node[q]
  BY <1>1, <1>3, <1>5, <1>6
<1> HIDE DEF e
<1>8. /\ e.node[p].channel = d.node[p].channel
      /\ e.node[p].service = d.node[p].service
      /\ e.node[p].opaque = d.node[p].opaque
      /\ e.node[p].wanted = d.node[p].wanted \cup {"CLOSED"}
      /\ e.node[p].closed
  <2>1. d.node[p] \in Pipe
    BY <1>1
  <2> QED BY <2>1, <1>6, <1>7 DEF Pipe
<1>9. e = goldfish_pipe_close(d, p)
  BY <1>2 DEF e
<1> QED BY <1>5, <1>7, <1>8, <1>9

(* The connection is made, and the looper is told what the guest wants; or *)
(* it is refused, and the guest is told of that.                           *)
LEMMA ConnectingNet ==
  ASSUME NetInv, NEW p \in PipeId, Connecting(p)
  PROVE  NetPart'
<1> USE DEF NetInv
<1>1. /\ fds' = fds /\ isr' = isr /\ again' = again /\ asleep' = asleep
      /\ sock' = sock /\ crashed' = crashed /\ net[p].state = "CONNECTING"
  BY DEF Connecting, netPipe_closeFromSocket, guest
<1>2. /\ p \in Served(dev) /\ p \in ToSet(dev.pipes) /\ ~ dev.node[p].closed
      /\ dev.node[p].service = dev.node[p].opaque /\ net[p] \in NetPipe
  BY <1>1 DEF PipesAgree, Served, NetTypes
<1>3. /\ "CLOSED" \notin dev.node[p].wanted
      /\ p \notin ToSet(dev.signaled) => dev.node[p].wanted \subseteq net[p].wakeWanted
  BY <1>2 DEF WishesAreKnown
<1>4. \A e \in asleep[dev.node[p].channel] : Covered(p, e)
  BY <1>2 DEF SleepersCovered
<1>5. ASSUME NEW n \in NetPipe, net' = [net EXCEPT ![p] = netPipe_resetState(n)]
      PROVE  /\ NetTypes' /\ net'[p].state = n.state /\ net'[p].wakeWanted = n.wakeWanted
             /\ net'[p].state = "CONNECTED" => net'[p].wanted = net'[p].wakeWanted
             /\ \A q \in PipeId \ {p} : net'[q] = net[q]
  <2>1. /\ netPipe_resetState(n) \in NetPipe /\ netPipe_resetState(n).state = n.state
        /\ netPipe_resetState(n).wakeWanted = n.wakeWanted
        /\ n.state = "CONNECTED" => netPipe_resetState(n).wanted = n.wakeWanted
    BY ResetFacts
  <2> QED BY <1>1, <1>5, <2>1 DEF NetTypes
<1>6. CASE sock[p].link = "refused"
  <2> DEFINE n == [net[p] EXCEPT !.hwpipe = FALSE, !.state = "CLOSING_SOCKET"]
  <2>1. n \in NetPipe /\ n.state = "CLOSING_SOCKET" /\ n.wakeWanted = net[p].wakeWanted
    BY <1>2 DEF NetPipe
  <2>2. /\ dev' = goldfish_pipe_close(dev, p)
        /\ net' = [net EXCEPT ![p] = netPipe_resetState(n)]
    BY <1>6 DEF Connecting, netPipe_closeFromSocket, ClosesPipe, Becomes
  <2> HIDE DEF n
  <2>3. /\ NetTypes' /\ net'[p].state = "CLOSING_SOCKET"
        /\ net'[p].wakeWanted = net[p].wakeWanted
        /\ \A q \in PipeId \ {p} : net'[q] = net[q]
    BY <2>1, <2>2, <1>5
  <2>4. /\ dev'.pipes = dev.pipes /\ dev'.wakes = dev.wakes
        /\ ToSet(dev'.signaled) = ToSet(dev.signaled) \cup {p}
        /\ \A q \in PipeId \ {p} : dev'.node[q] = dev.node[q]
        /\ dev'.node[p].channel = dev.node[p].channel
        /\ dev'.node[p].service = dev.node[p].service
        /\ dev'.node[p].opaque = dev.node[p].opaque
        /\ dev'.node[p].wanted = dev.node[p].wanted \cup {"CLOSED"}
        /\ dev'.node[p].closed
    <3>1. dev \in Device /\ Linked(dev)
      BY DEF IInv, TypeOK
    <3> QED BY <1>2, <2>2, <3>1, CloseNode
  <2>5. p \in Served(dev')
    BY <1>2, <2>4 DEF Served
  <2>6. \A e \in asleep'[dev.node[p].channel] : Covered(p, e)'
    BY <1>1, <1>4, <2>3, <2>4 DEF Covered, Due, Watched, InHand
  <2> QED BY <1>1, <1>2, <2>3, <2>4, <2>5, <2>6, OnePipe
<1>7. CASE sock[p].link # "refused"
  <2> DEFINE n == [net[p] EXCEPT !.state = "CONNECTED"]
  <2>1. n \in NetPipe /\ n.state = "CONNECTED" /\ n.wakeWanted = net[p].wakeWanted
    BY <1>2 DEF NetPipe
  <2>2. dev' = dev /\ net' = [net EXCEPT ![p] = netPipe_resetState(n)]
    BY <1>7 DEF Connecting, Silent, Becomes
  <2> HIDE DEF n
  <2>3. /\ NetTypes' /\ net'[p].state = "CONNECTED"
        /\ net'[p].wakeWanted = net[p].wakeWanted /\ net'[p].wanted = net'[p].wakeWanted
        /\ \A q \in PipeId \ {p} : net'[q] = net[q]
    BY <2>1, <2>2, <1>5
  <2>4. \A e \in asleep'[dev.node[p].channel] : Covered(p, e)'
    BY <1>1, <1>4, <2>2, <2>3 DEF Covered, Due, Watched, InHand
  <2> QED BY <1>1, <1>2, <1>3, <2>2, <2>3, <2>4, OnePipe
<1> QED BY <1>6, <1>7

(* What the socket is ready for is reported, and the rest is watched for.  *)
LEMMA IoFuncNet ==
  ASSUME NetInv, NEW p \in PipeId, netPipe_io_func(p)
  PROVE  NetPart'
<1> USE DEF NetInv
<1> DEFINE flags == net[p].wanted \cap Ready(sock[p]) \cap net[p].wakeWanted
<1>1. /\ fds' = fds /\ isr' = isr /\ again' = again /\ asleep' = asleep /\ sock' = sock
      /\ net[p].wanted # {}
  BY DEF netPipe_io_func, guest
<1>2. net[p] \in NetPipe /\ net[p].state # "NONE"
  BY <1>1 DEF PipesAgree, NetTypes, NoNet
<1>3. /\ p \in Served(dev) /\ p \in ToSet(dev.pipes)
      /\ dev.node[p].closed <=> net[p].state = "CLOSING_SOCKET"
      /\ dev.node[p].service = dev.node[p].opaque
  BY <1>2 DEF PipesAgree, Served
<1>4. /\ "CLOSED" \in dev.node[p].wanted => dev.node[p].closed
      /\ p \notin ToSet(dev.signaled) => dev.node[p].wanted \subseteq net[p].wakeWanted
  BY <1>3 DEF WishesAreKnown
<1>5. \A e \in asleep[dev.node[p].channel] : Covered(p, e)
  BY <1>3 DEF SleepersCovered
<1>6. flags \subseteq IoEvent
  BY <1>2 DEF NetPipe
<1>7. CASE flags # {} /\ ~ net[p].hwpipe
  <2>1. dev' = dev /\ net' = net /\ crashed' = TRUE
    BY <1>7 DEF netPipe_io_func, Silent
  <2> QED BY <1>1, <2>1, QuietStep DEF NetTypes, InHand
<1>8. CASE ~ (flags # {} /\ ~ net[p].hwpipe)
  <2> DEFINE n == [net[p] EXCEPT !.wakeWanted = @ \ flags]
  <2>1. /\ net' = [net EXCEPT ![p] = netPipe_resetState(n)] /\ crashed' = crashed
        /\ flags = {} => dev' = dev
        /\ flags # {} => dev' = goldfish_pipe_wake(dev, p, flags)
    BY <1>8 DEF netPipe_io_func, Silent, Becomes
  <2>2. n \in NetPipe /\ n.state = net[p].state /\ n.wakeWanted = net[p].wakeWanted \ flags
    BY <1>2 DEF NetPipe
  <2> HIDE DEF n, flags
  <2>3. /\ netPipe_resetState(n) \in NetPipe /\ netPipe_resetState(n).state = n.state
        /\ netPipe_resetState(n).wakeWanted = n.wakeWanted
        /\ n.state = "CONNECTED" => netPipe_resetState(n).wanted = n.wakeWanted
    BY <2>2, ResetFacts
  <2>4. /\ NetTypes' /\ net'[p].state = net[p].state
        /\ net'[p].wakeWanted = net[p].wakeWanted \ flags
        /\ net'[p].state = "CONNECTED" => net'[p].wanted = net'[p].wakeWanted
        /\ \A q \in PipeId \ {p} : net'[q] = net[q]
    BY <1>1, <2>1, <2>2, <2>3 DEF NetTypes
  <2>5. CASE flags = {}
    <3>1. dev' = dev /\ net'[p].wakeWanted = net[p].wakeWanted
      BY <2>1, <2>4, <2>5
    <3>2. \A e \in asleep'[dev.node[p].channel] : Covered(p, e)'
      BY <1>1, <1>5, <2>4, <3>1 DEF Covered, Due, Watched, InHand
    <3> QED BY <1>1, <1>2, <1>3, <1>4, <2>4, <3>1, <3>2, OnePipe
  <2>6. CASE flags # {}
    <3>1. /\ dev'.pipes = dev.pipes /\ dev'.wakes = dev.wakes
          /\ ToSet(dev'.signaled) = ToSet(dev.signaled) \cup {p}
          /\ dev'.node = [dev.node EXCEPT ![p].wanted = @ \cup flags]
      <4>1. dev \in Device /\ Linked(dev) /\ flags \in SUBSET Event
        BY <1>6 DEF IInv, TypeOK, Event
      <4>2. Woken(dev, goldfish_pipe_wake(dev, p, flags), p, flags)
        BY <1>3, <4>1, WakeNode
      <4>3. dev' = goldfish_pipe_wake(dev, p, flags)
        BY <2>1, <2>6
      <4> QED BY <4>2, <4>3 DEF Woken
    <3>2. dev.node \in [PipeId -> Pipe] /\ dev.node[p] \in Pipe
      BY DeviceFacts
    <3>3. /\ \A q \in PipeId \ {p} : dev'.node[q] = dev.node[q]
          /\ dev'.node[p].channel = dev.node[p].channel
          /\ dev'.node[p].service = dev.node[p].service
          /\ dev'.node[p].opaque = dev.node[p].opaque
          /\ dev'.node[p].closed = dev.node[p].closed
          /\ dev'.node[p].wanted = dev.node[p].wanted \cup flags
      BY <3>1, <3>2 DEF Pipe
    <3>4. p \in Served(dev') /\ ("CLOSED" \in dev'.node[p].wanted => dev'.node[p].closed)
      BY <1>3, <1>4, <1>6, <3>1, <3>3 DEF Served, IoEvent
    <3>5. ASSUME NEW e \in asleep'[dev.node[p].channel]
          PROVE  Covered(p, e)'
      <4>1. Covered(p, e)
        BY <1>1, <1>5
      <4>2. CASE e \in flags
        BY <3>1, <3>3, <4>2 DEF Covered, Due
      <4>3. CASE e \notin flags
        BY <1>1, <2>4, <3>1, <3>3, <4>1, <4>3 DEF Covered, Due, Watched, InHand
      <4> QED BY <4>2, <4>3
    <3> QED BY <1>1, <1>2, <1>3, <2>4, <3>1, <3>3, <3>4, <3>5, OnePipe
  <2> QED BY <2>5, <2>6
<1> QED BY <1>7, <1>8

LEMMA PeerNet ==
  ASSUME NetInv, NEW p \in PipeId, Peer(p)
  PROVE  NetPart'
<1>1. /\ dev' = dev /\ fds' = fds /\ isr' = isr /\ again' = again /\ asleep' = asleep
      /\ net' = net /\ crashed' = crashed
  BY DEF Peer, vars
<1>2. sock' \in [PipeId -> Sock]
  <2>1. sock \in [PipeId -> Sock] /\ sock[p] \in Sock
    BY DEF NetInv, NetTypes
  <2>2. /\ \A link \in {"open", "refused"} : [link |-> link, ready |-> {"WRITE"}] \in Sock
        /\ \A e \in IoEvent : [sock[p] EXCEPT !.ready = @ \cup {e}] \in Sock
        /\ [sock[p] EXCEPT !.link = "ended"] \in Sock
    BY <2>1 DEF Sock, IoEvent
  <2>3. \/ \E link \in {"open", "refused"} :
             sock' = [sock EXCEPT ![p] = [link |-> link, ready |-> {"WRITE"}]]
        \/ \E e \in IoEvent : sock' = [sock EXCEPT ![p].ready = @ \cup {e}]
        \/ sock' = [sock EXCEPT ![p].link = "ended"]
    BY DEF Peer
  <2> QED BY <2>1, <2>2, <2>3
<1> QED BY <1>1, <1>2, QuietStep DEF NetInv, NetTypes, InHand

-----------------------------------------------------------------------------
LEMMA NetInitInv == NetInit => NetInv
<1> SUFFICES ASSUME NetInit PROVE NetInv
  OBVIOUS
<1>1. IInv /\ dev = InitDevice /\ fds = {}
  BY InitIInv DEF NetInit, Init
<1>2. ToSet(dev.pipes) = {} /\ ToSet(dev.signaled) = {}
  BY <1>1 DEF InitDevice, ToSet
<1>3. NetTypes
  BY DEF NetInit, NetTypes, NoNet, NetPipe, NoSock, Sock
<1>4. PipesAgree
  BY <1>2 DEF NetInit, NoNet, PipesAgree, Served
<1>5. ThreadsAreServed
  BY <1>1, <1>2 DEF NetInit, Init, ThreadsAreServed
<1> QED BY <1>1, <1>2, <1>3, <1>4, <1>5 DEF NetInv, WishesAreKnown, SleepersCovered

LEMMA NetNextInv == NetInv /\ [NetNext]_nvars => NetInv'
<1> SUFFICES ASSUME NetInv, [NetNext]_nvars PROVE NetInv'
  OBVIOUS
<1>1. IInv'
  BY StepRefines, NextIInv DEF NetInv
<1> SUFFICES NetPart'
  BY <1>1 DEF NetInv, NetPart
<1>2. CASE Handler
  <2>1. UNCHANGED host
    BY <1>2 DEF Handler
  <2>2. CASE IsrChannel
    BY <2>1, <2>2, IsrChannelNet
  <2>3. CASE IsrEnter \/ IsrWakes \/ \E t \in Thread : Interrupted(t[1], t[2])
    BY <2>1, <2>3, HandlerQuiet
  <2> QED BY <1>2, <2>2, <2>3 DEF Handler
<1>3. ASSUME NEW c \in Channel, NetOpen(c) PROVE NetPart'
  BY <1>3, OpenNet
<1>4. ASSUME NEW c \in fds, netPipe_init(c) PROVE NetPart'
  BY <1>4, InitNet
<1>5. ASSUME NEW c \in fds, netPipe_closeFromGuest(c) PROVE NetPart'
  BY <1>5, CloseNet
<1>6. ASSUME NEW t \in Thread, t[1] \in fds, netPipe_buffers(t[1], t[2]) PROVE NetPart'
  BY <1>6, BuffersNet, ThreadAssumption
<1>7. ASSUME NEW t \in Thread, t[1] \in fds, netPipe_wakeOn(t[1], t[2]) PROVE NetPart'
  BY <1>7, WakeOnNet, ThreadAssumption
<1>8. ASSUME NEW p \in PipeId, MainLoop(p) PROVE NetPart'
  BY <1>8, ConnectingNet, IoFuncNet DEF MainLoop
<1>9. ASSUME NEW p \in PipeId, Peer(p) PROVE NetPart'
  BY <1>9, PeerNet
<1>10. CASE UNCHANGED nvars
  <2>1. /\ dev' = dev /\ fds' = fds /\ again' = again /\ asleep' = asleep /\ isr' = isr
        /\ net' = net /\ sock' = sock /\ crashed' = crashed
    BY <1>10 DEF nvars, vars, host
  <2>2. NetTypes'
    BY <2>1 DEF NetInv, NetTypes
  <2>3. \A c \in Channel : \A e \in asleep'[c] : InHand(dev, c, e) => InHand(dev, c, e)'
    BY <2>1 DEF InHand
  <2> QED BY <2>1, <2>2, <2>3, QuietStep
<1>11. NetNext \/ UNCHANGED nvars
  OBVIOUS
<1> QED
  BY <1>11, <1>2, <1>3, <1>4, <1>5, <1>6, <1>7, <1>8, <1>9, <1>10 DEF NetNext

(* Every reachable state satisfies the inductive invariant.                *)
THEOREM NetInvariant == NetSpec => []NetInv
BY NetInitInv, NetNextInv, PTL DEF NetSpec

(* The pipes of sockets do to the device only what it lets a service do,   *)
(* and so all that is proved of GoldfishPipe holds with them.              *)
THEOREM NetImplementsDevice == NetSpec => ImplementsDevice
<1>1. NetInit => Init
  BY DEF NetInit
<1>2. NetInv /\ [NetNext]_nvars => [Next]_vars
  BY StepRefines
<1> QED BY <1>1, <1>2, NetInvariant, PTL DEF NetSpec, ImplementsDevice, Spec

(* The records of the pipes, the looper and the sockets are of their types,*)
(* and a pipe has a NetPipe from the connection to the close.              *)
THEOREM NetTypeCorrect == NetSpec => []NetTypeOK
<1>1. NetInv => NetTypeOK
  BY DEF NetInv, NetTypes, PipesAgree, NoNet, IInv, NetTypeOK
<1> QED BY <1>1, NetInvariant, PTL

(* No wish of a sleeping thread is lost.                                   *)
THEOREM NoWishLost == NetSpec => []SleepersAreWatched
<1>1. NetInv => SleepersAreWatched
  <2> SUFFICES ASSUME NetInv, NEW c \in Channel, NEW e \in asleep[c]
               PROVE  \/ Reported(c, e)
                      \/ Watched(net[PipeOf(dev, c)], e)
    BY DEF SleepersAreWatched, Watched
  <2>1. c \in fds
    BY DEF NetInv, ThreadsAreServed
  <2>2. /\ PipeOf(dev, c) \in ToSet(dev.pipes)
        /\ dev.node[PipeOf(dev, c)].channel = c
    BY <2>1, OpenChannel
  <2>3. Covered(PipeOf(dev, c), e)
    BY <2>2 DEF NetInv, SleepersCovered
  <2> QED BY <2>2, <2>3 DEF Covered, Due, InHand, Reported, Signaled
<1> QED BY <1>1, NetInvariant, PTL

(* A thread that sleeps on a socket's pipe can be woken: the device's      *)
(* theorem, carried over by the refinement.                                *)
COROLLARY NetSleepersCanBeWoken == NetSpec => []NoDeafSleeper
BY NetImplementsDevice, SleepersCanBeWoken, PTL DEF ImplementsDevice
=============================================================================
