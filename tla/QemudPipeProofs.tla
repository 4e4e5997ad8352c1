-------------------------- MODULE QemudPipeProofs ---------------------------
(***************************************************************************)
(* The qemud pipe service implements the services of GoldfishPipe, its     *)
(* list of clients is that of its open pipes, and a client's stream is     *)
(* read in order, for every set of pipes and channels and whatever is sent.*)
(*                                                                         *)
(* The first two go together: that a message is a wake the device lets a   *)
(* service do needs the client's pipe to be the service's still.  The      *)
(* third says that the messages of a client, put together, are what was    *)
(* sent and not yet read: a message is appended to them, and a read takes  *)
(* the bytes before its end away, wherever in a message it ends.           *)
(***************************************************************************)
EXTENDS QemudPipe, GoldfishPipeProofs, ListFacts

(* The list of clients is that of the pipes that have left their connector;*)
(* a pipe's object is that of its service; and an open file has its pipe.  *)
ServedInOrder(cs, d) == cs \in Seq(PipeId) /\ IsInjective(cs) /\ ToSet(cs) = Served(d)
ObjectsFit(d) == \A p \in ToSet(d.pipes) : d.node[p].service = d.node[p].opaque

QemudInv ==
  /\ IInv
  /\ ServedInOrder(clients, dev)
  /\ ObjectsFit(dev)
  /\ \A c \in fds : Exists(dev, c)

QemudPart ==
  ServedInOrder(clients, dev) /\ ObjectsFit(dev) /\ \A c \in fds : Exists(dev, c)

LEMMA OpenHasPipe ==
  ASSUME QemudInv, NEW c \in fds
  PROVE  /\ c \in Channel /\ HasPipe(dev, c)
         /\ PipeOf(dev, c) \in ToSet(dev.pipes) /\ PipeOf(dev, c) \in PipeId
         /\ dev.node[PipeOf(dev, c)].channel = c
BY DeviceFacts DEF QemudInv, IInv, TypeOK

-----------------------------------------------------------------------------
(* Every step is a step of GoldfishPipe or changes nothing there.          *)
LEMMA QemudStepRefines ==
  ASSUME QemudInv, [QemudNext]_qvars
  PROVE  [Next]_vars
<1>1. \A c \in Channel : <<c, "READ">> \in Thread /\ <<c, "WRITE">> \in Thread
  BY QemudThreadAssumption DEF IoEvent
<1>2. CASE Handler
  BY <1>1, <1>2 DEF Handler, Next, Signal
<1>3. CASE qemud_client_send
  <2>1. PICK i \in DOMAIN clients : Sends(dev, clients[i])
    BY <1>3 DEF qemud_client_send
  <2>2. clients[i] \in Served(dev)
    BY DEF QemudInv, ServedInOrder, ToSet
  <2>3. /\ {"READ"} \ {"CLOSED"} = {"READ"} /\ "CLOSED" \notin {"READ"} /\ {"READ"} # {}
    OBVIOUS
  <2>4. /\ Raise(dev, clients[i], {"READ"}) = goldfish_pipe_wake(dev, clients[i], {"READ"})
        /\ Fresh(dev, clients[i], {"READ"}) = {"READ"}
    BY <2>3 DEF Raise, Fresh
  <2>5. ServiceEvent
    BY <1>3, <2>1, <2>2, <2>4, QemudRaisableAssumption
       DEF qemud_client_send, ServiceEvent, Sends
  <2> QED BY <2>5 DEF Next
<1>4. ASSUME NEW c \in Channel,
             QemudOpen(c) \/ _qemudPipe_init(c) \/ _qemudPipe_closeFromGuest(c)
      PROVE  Next
  BY <1>4 DEF QemudOpen, _qemudPipe_init, _qemudPipe_closeFromGuest, Next, Command
<1>5. ASSUME NEW c \in Channel,
             \/ _qemudPipe_sendBuffers(c) \/ _qemudPipe_recvBuffers(c)
             \/ _qemudPipe_wakeOn(c)
      PROVE  Next
  <2>1. Transfer(c, "WRITE") \/ Transfer(c, "READ") \/ WakeOn(c, "READ")
    BY <1>5 DEF _qemudPipe_sendBuffers, _qemudPipe_recvBuffers, _qemudPipe_wakeOn
  <2>2. \E t \in Thread : Transfer(t[1], t[2]) \/ WakeOn(t[1], t[2])
    BY <1>1, <2>1
  <2> QED BY <2>2 DEF Next, Command
<1>6. CASE UNCHANGED qvars
  BY <1>6 DEF qvars
<1> QED BY <1>2, <1>3, <1>4, <1>5, <1>6 DEF QemudNext

-----------------------------------------------------------------------------
(* Steps that keep the list of pipes and what serves each of them.         *)
LEMMA SameServices ==
  ASSUME QemudInv, clients' = clients, fds' = fds, dev'.pipes = dev.pipes,
         \A p \in PipeId : /\ dev'.node[p].channel = dev.node[p].channel
                           /\ dev'.node[p].service = dev.node[p].service
                           /\ dev'.node[p].opaque = dev.node[p].opaque
  PROVE  QemudPart'
<1>1. ToSet(dev.pipes) \subseteq PipeId
  BY DeviceFacts DEF QemudInv
<1>2. Served(dev') = Served(dev)
  BY <1>1 DEF Served
<1> QED BY <1>1, <1>2 DEF QemudInv, QemudPart, ServedInOrder, ObjectsFit, Exists

(* A wake, and a request for one, are such steps.                          *)
LEMMA SendsKeeps ==
  ASSUME QemudInv, NEW p \in Served(dev), Sends(dev, p), clients' = clients, fds' = fds
  PROVE  QemudPart'
<1>1. p \in ToSet(dev.pipes) /\ dev \in Device /\ Linked(dev)
  BY DEF Served, QemudInv, IInv, TypeOK
<1>2. {"READ"} \in SUBSET Event
  BY DEF Event, IoEvent
<1>3. Grows(dev, dev')
  BY <1>1, <1>2, WakeFacts DEF Sends
<1> QED BY <1>3, SameServices DEF Grows

LEMMA HandlerKeeps ==
  ASSUME QemudInv, Handler
  PROVE  QemudPart'
<1>1. clients' = clients /\ fds' = fds
  BY DEF Handler, IsrEnter, IsrChannel, IsrWakes, Interrupted
<1>2. CASE dev' = dev
  BY <1>1, <1>2, SameServices
<1>3. CASE IsrChannel /\ dev.signaled # <<>>
  <2>1. dev \in Device /\ Linked(dev) /\ dev' = PopSignaled(dev)
    BY <1>3 DEF QemudInv, IInv, TypeOK, IsrChannel
  <2> DEFINE h == Head(dev.signaled)
  <2>2. /\ dev'.pipes = dev.pipes /\ h \in PipeId
        /\ \A q \in PipeId \ {h} : dev'.node[q] = dev.node[q]
    BY <1>3, <2>1, PopFacts
  <2>3. dev'.node[h] = [dev.node[h] EXCEPT !.wanted = {}]
    BY <2>1, <2>2 DEF PopSignaled, Device
  <2>4. dev.node[h] \in Pipe
    BY <2>2, DeviceFacts DEF QemudInv
  <2> HIDE DEF h
  <2> QED BY <1>1, <2>2, <2>3, <2>4, SameServices DEF Pipe
<1> QED BY <1>2, <1>3 DEF Handler, IsrEnter, IsrChannel, IsrWakes, Interrupted

(* A new pipe is its connector's.                                          *)
LEMMA OpenKeeps ==
  ASSUME QemudInv, NEW c \in Channel, QemudOpen(c)
  PROVE  QemudPart'
<1>1. /\ clients' = clients /\ fds' = fds \cup {c} /\ ~ HasPipe(dev, c)
  BY DEF QemudOpen, Open
<1>2. PICK p \in PipeId \ ToSet(dev.pipes) : dev' = pipe_new(dev, c, p)
  BY DEF QemudOpen, Open
<1>3. dev \in Device /\ Linked(dev) /\ ChannelsDiffer(dev)
  BY DEF QemudInv, IInv, TypeOK
<1>4. /\ ToSet(dev'.pipes) = ToSet(dev.pipes) \cup {p}
      /\ \A q \in PipeId \ {p} : dev'.node[q] = dev.node[q]
  BY <1>1, <1>2, <1>3, PipeNewFacts
<1>5. dev'.node[p] = [FreePipe EXCEPT !.channel = c]
  BY <1>2, <1>3 DEF pipe_new, Device
<1>6. /\ dev'.node[p].channel = c
      /\ dev'.node[p].opaque = Connector /\ dev'.node[p].service = Connector
  BY <1>5 DEF FreePipe
<1>7. ToSet(dev.pipes) \subseteq PipeId
  BY DeviceFacts DEF QemudInv
<1>8. Served(dev') = Served(dev)
  BY <1>2, <1>4, <1>6, <1>7 DEF Served
<1>9. ObjectsFit(dev')
  BY <1>4, <1>6, <1>7 DEF QemudInv, ObjectsFit
<1>10. \A k \in fds' : Exists(dev', k)
  BY <1>1, <1>2, <1>4, <1>6, <1>7 DEF QemudInv, Exists
<1> QED BY <1>1, <1>8, <1>9, <1>10 DEF QemudInv, QemudPart, ServedInOrder

(* A pipe leaves its connector and becomes a client.                       *)
LEMMA InitKeeps ==
  ASSUME QemudInv, NEW c \in Channel, _qemudPipe_init(c)
  PROVE  QemudPart'
<1> DEFINE p == PipeOf(dev, c)
<1>1. /\ c \in fds /\ fds' = fds /\ dev' = Serve(dev, p, Qemud)
      /\ clients' = <<p>> \o clients /\ dev.node[p].service = Connector
  BY DEF _qemudPipe_init, Connect, CanCommand, Silent, qemud_service_add_client,
         IsConnector, guest
<1>2. p \in ToSet(dev.pipes) /\ p \in PipeId
  BY <1>1, OpenHasPipe
<1>3. Qemud \in Service /\ Qemud # Connector
  <2>1. \E s \in Service : TRUE
    BY DEF _qemudPipe_init, Connect
  <2>2. Qemud \in Service
    BY <2>1 DEF Qemud
  <2> QED BY <2>2, ServiceAssumption
<1> HIDE DEF p
<1>4. /\ dev \in Device /\ dev.node[p] \in Pipe
      /\ ToSet(dev.pipes) \subseteq PipeId
  BY <1>2, DeviceFacts DEF QemudInv, IInv, TypeOK
<1>5. /\ dev'.pipes = dev.pipes
      /\ \A q \in PipeId \ {p} : dev'.node[q] = dev.node[q]
      /\ dev'.node[p] = [dev.node[p] EXCEPT !.service = Qemud, !.opaque = Qemud]
  BY <1>1, <1>2, <1>4 DEF Serve, Device
<1>6. /\ dev'.node[p].channel = dev.node[p].channel
      /\ dev'.node[p].service = Qemud /\ dev'.node[p].opaque = Qemud
  BY <1>4, <1>5 DEF Pipe
<1>7. p \notin Served(dev)
  BY <1>1, <1>2 DEF QemudInv, ObjectsFit, Served
<1>8. Served(dev') = Served(dev) \cup {p}
  BY <1>2, <1>3, <1>4, <1>5, <1>6 DEF Served
<1>9. ServedInOrder(clients', dev')
  <2>1. /\ clients \in Seq(PipeId) /\ IsInjective(clients)
        /\ ToSet(clients) = Served(dev) /\ p \notin ToSet(clients)
    BY <1>7 DEF QemudInv, ServedInOrder
  <2>2. /\ <<p>> \o clients \in Seq(PipeId)
        /\ ToSet(<<p>> \o clients) = ToSet(clients) \cup {p}
        /\ IsInjective(<<p>> \o clients)
    BY <1>2, <2>1, ConsFacts
  <2> QED BY <1>1, <1>8, <2>1, <2>2 DEF ServedInOrder
<1>10. ObjectsFit(dev')
  BY <1>4, <1>5, <1>6 DEF QemudInv, ObjectsFit
<1>11. \A q \in ToSet(dev.pipes) : dev'.node[q].channel = dev.node[q].channel
  BY <1>4, <1>5, <1>6
<1>12. \A k \in fds' : Exists(dev', k)
  <2> SUFFICES ASSUME NEW k \in fds PROVE Exists(dev', k)
    BY <1>1
  <2> QED BY <1>5, <1>11 DEF QemudInv, Exists
<1> QED BY <1>9, <1>10, <1>12 DEF QemudPart

(* The guest closes: the pipe goes, and its client if it has one.          *)
LEMMA CloseKeeps ==
  ASSUME QemudInv, NEW c \in Channel, _qemudPipe_closeFromGuest(c)
  PROVE  QemudPart'
<1> DEFINE p == PipeOf(dev, c)
<1>1. /\ c \in fds /\ fds' = fds \ {c} /\ dev' = pipe_free(dev, c)
  BY DEF _qemudPipe_closeFromGuest, Close, CanCommand
<1>2. /\ p \in ToSet(dev.pipes) /\ p \in PipeId /\ HasPipe(dev, c)
      /\ dev.node[p].channel = c
  BY <1>1, OpenHasPipe
<1>3. \/ clients' = clients /\ p \notin Served(dev)
      \/ clients' = RemoveFirst(clients, p)
  <2>1. CASE IsConnector(c)
    <3>1. clients' = clients /\ dev.node[p].service = Connector
      BY <2>1 DEF _qemudPipe_closeFromGuest, IsConnector
    <3> QED BY <1>2, <3>1 DEF QemudInv, ObjectsFit, Served
  <2>2. CASE ~ IsConnector(c)
    BY <2>2 DEF _qemudPipe_closeFromGuest, qemud_service_remove_client
  <2> QED BY <2>1, <2>2
<1>4. dev \in Device /\ Linked(dev) /\ ChannelsDiffer(dev)
  BY DEF QemudInv, IInv, TypeOK
<1>5. /\ ToSet(dev'.pipes) = ToSet(dev.pipes) \ {p}
      /\ \A q \in PipeId \ {p} : dev'.node[q] = dev.node[q]
  BY <1>1, <1>2, <1>4, PipeFreeFacts
<1>6. /\ ToSet(dev.pipes) \subseteq PipeId
      /\ \A q \in ToSet(dev.pipes) : dev.node[q].channel = c => q = p
  BY <1>2, <1>4, DeviceFacts DEF QemudInv, ChannelsDiffer
<1> HIDE DEF p
<1>7. Served(dev') = Served(dev) \ {p}
  BY <1>5, <1>6 DEF Served
<1>8. ServedInOrder(clients', dev')
  BY <1>3, <1>7, RemoveFirstFacts DEF QemudInv, ServedInOrder
<1>9. ObjectsFit(dev')
  BY <1>5, <1>6 DEF QemudInv, ObjectsFit
<1>10. \A k \in fds' : Exists(dev', k)
  <2> SUFFICES ASSUME NEW k \in fds, k # c PROVE Exists(dev', k)
    BY <1>1
  <2>1. PICK q \in ToSet(dev.pipes) : dev.node[q].channel = k
    BY DEF QemudInv, Exists
  <2>2. q # p /\ q \in ToSet(dev'.pipes) /\ dev'.node[q] = dev.node[q]
    BY <1>2, <1>5, <1>6, <2>1
  <2> QED BY <2>1, <2>2 DEF Exists
<1> QED BY <1>8, <1>9, <1>10 DEF QemudPart

(* Reads and writes touch no pipe; a write may be answered by a message.   *)
LEMMA TransferKeeps ==
  ASSUME QemudInv, NEW c \in Channel,
         _qemudPipe_sendBuffers(c) \/ _qemudPipe_recvBuffers(c)
  PROVE  QemudPart'
<1> DEFINE p == PipeOf(dev, c)
<1>1. /\ c \in fds /\ fds' = fds /\ clients' = clients /\ ~ IsConnector(c)
  BY DEF _qemudPipe_sendBuffers, _qemudPipe_recvBuffers, Transfer, CanCommand
<1>2. dev' = dev \/ Sends(dev, p)
  BY DEF _qemudPipe_sendBuffers, _qemudPipe_recvBuffers, Silent
<1>3. p \in Served(dev)
  BY <1>1, OpenHasPipe DEF QemudInv, ObjectsFit, Served, IsConnector
<1> QED BY <1>1, <1>2, <1>3, SendsKeeps, SameServices

LEMMA WakeOnKeeps ==
  ASSUME QemudInv, NEW c \in Channel, _qemudPipe_wakeOn(c)
  PROVE  QemudPart'
<1> DEFINE p == PipeOf(dev, c)
<1>1. /\ c \in fds /\ fds' = fds /\ clients' = clients
      /\ dev' \in {dev, AddWanted(dev, p, "READ")}
  BY DEF _qemudPipe_wakeOn, WakeOn, CanCommand, Silent
<1>2. p \in PipeId /\ dev \in Device /\ Linked(dev) /\ "READ" \in Event
  BY <1>1, OpenHasPipe DEF QemudInv, IInv, TypeOK, Event, IoEvent
<1>3. dev' = dev \/ Grows(dev, dev')
  BY <1>1, <1>2, AddWantedFacts
<1> QED BY <1>1, <1>3, SameServices DEF Grows

-----------------------------------------------------------------------------
LEMMA QemudInitInv == QemudInit => QemudInv
<1> SUFFICES ASSUME QemudInit PROVE QemudInv
  OBVIOUS
<1>1. IInv /\ dev = InitDevice /\ fds = {} /\ clients = <<>>
  BY InitIInv DEF QemudInit, Init
<1>2. ToSet(dev.pipes) = {} /\ ToSet(clients) = {}
  BY <1>1 DEF InitDevice, ToSet
<1>3. IsInjective(clients) /\ clients \in Seq(PipeId)
  BY <1>1 DEF IsInjective
<1> QED BY <1>1, <1>2, <1>3 DEF QemudInv, ServedInOrder, ObjectsFit, Served

LEMMA QemudNextInv == QemudInv /\ [QemudNext]_qvars => QemudInv'
<1> SUFFICES ASSUME QemudInv, [QemudNext]_qvars PROVE QemudInv'
  OBVIOUS
<1>1. IInv'
  BY QemudStepRefines, NextIInv DEF QemudInv
<1> SUFFICES QemudPart'
  BY <1>1 DEF QemudInv, QemudPart
<1>2. CASE Handler
  BY <1>2, HandlerKeeps
<1>3. CASE qemud_client_send
  <2>1. PICK i \in DOMAIN clients : Sends(dev, clients[i])
    BY <1>3 DEF qemud_client_send
  <2>2. clients[i] \in Served(dev)
    BY DEF QemudInv, ServedInOrder, ToSet
  <2> QED BY <1>3, <2>1, <2>2, SendsKeeps DEF qemud_client_send, guest
<1>4. ASSUME NEW c \in Channel,
             \/ QemudOpen(c) \/ _qemudPipe_init(c) \/ _qemudPipe_closeFromGuest(c)
             \/ _qemudPipe_sendBuffers(c) \/ _qemudPipe_recvBuffers(c)
             \/ _qemudPipe_wakeOn(c)
      PROVE  QemudPart'
  BY <1>4, OpenKeeps, InitKeeps, CloseKeeps, TransferKeeps, WakeOnKeeps
<1>5. CASE UNCHANGED qvars
  BY <1>5, SameServices DEF qvars, vars
<1> QED BY <1>2, <1>3, <1>4, <1>5 DEF QemudNext

(* Every reachable state satisfies the inductive invariant.                *)
THEOREM QemudInvariant == QemudSpec => []QemudInv
BY QemudInitInv, QemudNextInv, PTL DEF QemudSpec

(* qemud does to the device only what it lets a service do: a message to a *)
(* client never wakes a pipe that is closed or another service's.          *)
THEOREM QemudImplementsDevice == QemudSpec => ImplementsDevice
<1>1. QemudInit => Init
  BY DEF QemudInit
<1>2. QemudInv /\ [QemudNext]_qvars => [Next]_vars
  BY QemudStepRefines
<1> QED BY <1>1, <1>2, QemudInvariant, PTL DEF QemudSpec, ImplementsDevice, Spec

(* The service's list of clients is that of its open pipes: none dangles,  *)
(* none is left out of a broadcast.                                        *)
THEOREM ClientsAreThoseOfPipes == QemudSpec => []ClientsAreServed
<1>1. QemudInv => ClientsAreServed
  BY DEF QemudInv, ServedInOrder, ClientsAreServed
<1> QED BY <1>1, QemudInvariant, PTL
-----------------------------------------------------------------------------
(* What is left of messages when some bytes are taken.                     *)

(* What the recursion of FoldLeft says of a function, for the first k      *)
(* messages.                                                               *)
FoldsDrops(ms, base, k, f) ==
  f = [s \in SUBSET (1..k) |->
         IF s = {} THEN base ELSE Drops(f[s \ {Max(s)}], ms[Max(s)])]

LEMMA FoldsDropsExists ==
  ASSUME NEW ms, NEW base, NEW k \in Nat
  PROVE  \E f : FoldsDrops(ms, base, k, f)
<1> DEFINE T == {j \in Nat : \E f : FoldsDrops(ms, base, j, f)}
           Next1(f, s) == IF s = {} THEN base ELSE Drops(f[s \ {Max(s)}], ms[Max(s)])
<1>1. 0 \in T
  <2> DEFINE f == [s \in SUBSET (1..0) |-> base]
  <2>1. \A s \in SUBSET (1..0) : s = {}
    OBVIOUS
  <2>2. f = [s \in SUBSET (1..0) |-> IF s = {} THEN base ELSE Drops(f[s \ {Max(s)}], ms[Max(s)])]
    BY <2>1
  <2> HIDE DEF f
  <2>3. FoldsDrops(ms, base, 0, f)
    BY <2>2 DEF FoldsDrops
  <2> QED BY <2>3
<1>2. ASSUME NEW j \in Nat, j \in T PROVE j + 1 \in T
  <2>1. PICK f : FoldsDrops(ms, base, j, f)
    BY <1>2
  <2> DEFINE new(s) == Drops(f[s \ {j + 1}], ms[j + 1])
             g == [s \in SUBSET (1..(j + 1)) |-> IF j + 1 \in s THEN new(s) ELSE f[s]]
  <2>2. \A s \in SUBSET (1..j) : f[s] = Next1(f, s)
    BY <2>1 DEF FoldsDrops
  <2>3. \A s \in SUBSET (1..j) : g[s] = f[s]
    BY j + 1 \notin 1..j, \A s \in SUBSET (1..j) : s \in SUBSET (1..(j + 1))
  <2>4. \A s \in SUBSET (1..(j + 1)) : j + 1 \in s => g[s] = new(s)
    OBVIOUS
  <2>5. g = [s \in SUBSET (1..(j + 1)) |-> g[s]]
    OBVIOUS
  <2> HIDE DEF g, new
  <2>6. ASSUME NEW s \in SUBSET (1..(j + 1)) PROVE g[s] = Next1(g, s)
    <3>1. CASE j + 1 \in s
      <4>1. Max(s) = j + 1 /\ s \ {j + 1} \in SUBSET (1..j) /\ s # {}
        <5>1. s \ {j + 1} \in SUBSET (1..j)
          OBVIOUS
        <5>2. Max(s) = j + 1
          BY <3>1, MaxOfPrefix
        <5> QED BY <3>1, <5>1, <5>2
      <4>2. g[s \ {j + 1}] = f[s \ {j + 1}]
        BY <2>3, <4>1
      <4> QED BY <2>4, <3>1, <4>1, <4>2 DEF new
    <3>2. CASE j + 1 \notin s
      <4>1. s \in SUBSET (1..j) /\ s \ {Max(s)} \in SUBSET (1..j)
        <5>1. s \subseteq 1..j
          BY <3>2
        <5> QED BY <5>1
      <4>2. g[s] = f[s] /\ g[s \ {Max(s)}] = f[s \ {Max(s)}]
        BY <2>3, <4>1
      <4> QED BY <2>2, <4>1, <4>2
    <3> QED BY <3>1, <3>2
  <2>7. FoldsDrops(ms, base, j + 1, g)
    BY <2>5, <2>6 DEF FoldsDrops
  <2> QED BY <2>7
<1> HIDE DEF T
<1>3. Nat \subseteq T
  BY <1>1, <1>2, SetInduction
<1> QED BY <1>3 DEF T

(* Dropped as what happens message by message.                             *)
LEMMA DroppedIs ==
  ASSUME NEW S, NEW ms \in Seq(Seq(S)), NEW n
  PROVE  \E f : /\ f[{}] = [skip |-> n, rest |-> <<>>]
                /\ \A j \in 1..Len(ms) : f[1..j] = Drops(f[1..(j - 1)], ms[j])
                /\ Dropped(ms, n) = f[1..Len(ms)].rest
<1> DEFINE base == [skip |-> n, rest |-> <<>>]
           f == CHOOSE f : FoldsDrops(ms, base, Len(ms), f)
<1>1. Len(ms) \in Nat /\ DOMAIN ms = 1..Len(ms)
  BY LenProperties
<1>2. FoldsDrops(ms, base, Len(ms), f)
  BY <1>1, FoldsDropsExists
<1>3. Dropped(ms, n) = f[1..Len(ms)].rest
  BY <1>1 DEF Dropped, FoldLeft, MapThenFoldSet, FoldsDrops
<1>4. \A s \in SUBSET (1..Len(ms)) :
        f[s] = IF s = {} THEN base ELSE Drops(f[s \ {Max(s)}], ms[Max(s)])
  BY <1>2 DEF FoldsDrops
<1> HIDE DEF f
<1>5. ASSUME NEW j \in 1..Len(ms) PROVE f[1..j] = Drops(f[1..(j - 1)], ms[j])
  <2>1. 1..j \in SUBSET (1..Len(ms)) /\ 1..j # {} /\ (1..j) \ {j} = 1..(j - 1)
    <3>1. 1..j \subseteq 1..Len(ms) /\ j \in 1..j
      BY <1>1
    <3>2. (1..j) \ {j} = 1..(j - 1)
      BY <1>1
    <3> QED BY <3>1, <3>2
  <2>2. Max(1..j) = j
    <3>1. j - 1 \in Nat /\ (j - 1) + 1 = j /\ j \in 1..j
      BY <1>1
    <3> QED BY <3>1, MaxOfPrefix
  <2> QED BY <1>4, <2>1, <2>2
<1>6. f[{}] = base
  BY <1>4
<1> QED BY <1>3, <1>5, <1>6

(* What is left after j messages: the bytes of those, without the first n. *)
LEMMA DroppedBytes ==
  ASSUME NEW S, NEW ms \in Seq(Seq(S)), NEW n \in 0..Len(Bytes(ms))
  PROVE  /\ Dropped(ms, n) \in Seq(Seq(S))
         /\ Bytes(Dropped(ms, n)) = After(Bytes(ms), n)
<1>1. PICK f : /\ f[{}] = [skip |-> n, rest |-> <<>>]
               /\ \A j \in 1..Len(ms) : f[1..j] = Drops(f[1..(j - 1)], ms[j])
               /\ Dropped(ms, n) = f[1..Len(ms)].rest
  BY DroppedIs
<1>2. Len(ms) \in Nat /\ n \in Nat /\ \A j \in 1..Len(ms) : ms[j] \in Seq(S)
  <2>1. Bytes(ms) \in Seq(S)
    BY FlattenType DEF Bytes
  <2> QED BY <2>1, LenProperties, ElementOfSeq
<1> DEFINE Left(acc, b) ==
             /\ acc.rest \in Seq(Seq(S))
             /\ acc = [skip |-> acc.skip, rest |-> acc.rest]
             /\ acc.skip = IF n <= Len(b) THEN 0 ELSE n - Len(b)
             /\ Bytes(acc.rest) = After(b, n)
<1>3. ASSUME NEW acc, NEW b \in Seq(S), NEW m \in Seq(S), Left(acc, b)
      PROVE  Left(Drops(acc, m), b \o m)
  <2>1. /\ Len(b) \in Nat /\ Len(m) \in Nat /\ b \o m \in Seq(S)
        /\ Len(b \o m) = Len(b) + Len(m)
    BY LenProperties, ConcatProperties
  <2>2. PICK lb \in Nat, lm \in Nat : lb = Len(b) /\ lm = Len(m)
    BY <2>1
  <2>3. PICK sk, re : acc = [skip |-> sk, rest |-> re]
    BY <1>3
  <2>4. /\ re \in Seq(Seq(S)) /\ sk = (IF n <= lb THEN 0 ELSE n - lb)
        /\ Bytes(re) = After(b, n) /\ sk \in Nat
    BY <1>2, <1>3, <2>2, <2>3
  <2>5. CASE sk >= lm
    <3>1. Drops(acc, m) = [skip |-> sk - lm, rest |-> re]
      BY <2>2, <2>3, <2>5 DEF Drops
    <3>2. sk - lm = IF n <= lb + lm THEN 0 ELSE n - (lb + lm)
      BY <1>2, <2>4, <2>5
    <3>3. After(b \o m, n) = After(b, n)
      <4>1. CASE n <= lb
        <5>1. lm = 0 /\ n <= Len(b)
          BY <2>2, <2>4, <2>5, <4>1
        <5>2. m = <<>>
          BY <2>2, <5>1, EmptySeq
        <5> QED BY <5>2, ConcatEmptySeq
      <4>2. CASE ~ (n <= lb)
        <5>1. n >= Len(b) /\ n - lb \in Nat /\ n - lb >= lm
          BY <1>2, <2>2, <2>4, <2>5, <4>2
        <5>2. After(b \o m, n) = After(m, n - lb)
          BY <1>2, <2>2, <5>1, AfterOfConcat
        <5>3. Len(After(m, n - lb)) = 0 /\ After(m, n - lb) \in Seq(S)
          <6>1. /\ After(m, n - lb) \in Seq(S)
                /\ Len(After(m, n - lb)) = IF n - lb <= lm THEN lm - (n - lb) ELSE 0
            BY <2>2, <5>1, AfterFacts
          <6> QED BY <1>2, <5>1, <6>1
        <5>4. Len(After(b, n)) = 0 /\ After(b, n) \in Seq(S)
          <6>1. /\ After(b, n) \in Seq(S)
                /\ Len(After(b, n)) = IF n <= lb THEN lb - n ELSE 0
            BY <1>2, <2>2, AfterFacts
          <6> QED BY <4>2, <6>1
        <5> QED BY <5>2, <5>3, <5>4, EmptySeq
      <4> QED BY <4>1, <4>2
    <3> QED BY <2>1, <2>2, <2>4, <3>1, <3>2, <3>3
  <2>6. CASE ~ (sk >= lm)
    <3> DEFINE tail == SubSeq(m, sk + 1, Len(m))
    <3>1. Drops(acc, m) = [skip |-> 0, rest |-> Append(re, tail)]
      BY <2>2, <2>3, <2>6 DEF Drops
    <3>2. tail = After(m, sk) /\ tail \in Seq(S)
      BY <2>4, AfterFacts DEF After
    <3> HIDE DEF tail
    <3>3. /\ Append(re, tail) \in Seq(Seq(S))
          /\ Bytes(Append(re, tail)) = After(b, n) \o After(m, sk)
      BY <2>4, <3>2, FlattenAppend DEF Bytes
    <3>4. n <= lb + lm
      BY <1>2, <2>4, <2>6
    <3>5. After(b \o m, n) = After(b, n) \o After(m, sk)
      <4>1. CASE n <= lb
        <5>1. sk = 0 /\ n <= Len(b) /\ 0 \in 0..Len(m)
          BY <2>1, <2>2, <2>4, <4>1
        <5>2. After(b \o m, n) = After(b, n) \o m
          BY <1>2, <5>1, AfterOfConcat
        <5>3. After(m, 0) = m
          BY SubSeqFull DEF After
        <5> QED BY <5>1, <5>2, <5>3
      <4>2. CASE ~ (n <= lb)
        <5>1. n >= Len(b) /\ n - lb = sk
          BY <1>2, <2>2, <2>4, <4>2
        <5>2. After(b \o m, n) = After(m, sk)
          BY <1>2, <2>2, <5>1, AfterOfConcat
        <5>3. After(b, n) = <<>>
          <6>1. /\ After(b, n) \in Seq(S)
                /\ Len(After(b, n)) = IF n <= lb THEN lb - n ELSE 0
            BY <1>2, <2>2, AfterFacts
          <6> QED BY <4>2, <6>1, EmptySeq
        <5>4. After(m, sk) \in Seq(S)
          BY <3>2
        <5> QED BY <5>2, <5>3, <5>4, ConcatEmptySeq
      <4> QED BY <4>1, <4>2
    <3> QED BY <2>1, <2>2, <3>1, <3>3, <3>4, <3>5
  <2> QED BY <2>2, <2>4, <2>5, <2>6
<1> DEFINE T == {j \in Nat : j <= Len(ms) =>
                   /\ FlattenSeq(Upto(ms, j)) \in Seq(S)
                   /\ Left(f[1..j], FlattenSeq(Upto(ms, j)))}
<1> HIDE DEF Left
<1>4. 0 \in T
  <2>1. Upto(ms, 0) = <<>> /\ 1..0 = {}
    BY SubSeqEmpty DEF Upto
  <2>2. After(<<>>, n) = <<>> /\ Len(<<>>) = 0 /\ <<>> \in Seq(S) /\ <<>> \in Seq(Seq(S))
    <3>1. <<>> \in Seq(S) /\ Len(<<>>) = 0
      BY EmptySeq
    <3>2. Len(After(<<>>, n)) = (IF n <= 0 THEN 0 - n ELSE 0) /\ After(<<>>, n) \in Seq(S)
      BY <1>2, <3>1, AfterFacts
    <3> QED BY <1>2, <3>1, <3>2, EmptySeq
  <2>3. Left([skip |-> n, rest |-> <<>>], <<>>)
    BY <1>2, <2>2, FlattenEmpty DEF Left, Bytes
  <2> QED BY <1>1, <2>1, <2>2, <2>3, FlattenEmpty
<1>5. ASSUME NEW j \in Nat, j \in T PROVE j + 1 \in T
  <2> SUFFICES ASSUME j + 1 <= Len(ms)
               PROVE  /\ FlattenSeq(Upto(ms, j + 1)) \in Seq(S)
                      /\ Left(f[1..(j + 1)], FlattenSeq(Upto(ms, j + 1)))
    OBVIOUS
  <2>1. /\ j <= Len(ms) /\ j + 1 \in 1..Len(ms) /\ (j + 1) - 1 = j /\ j \in 0..Len(ms)
        /\ ms[j + 1] \in Seq(S)
    BY <1>2
  <2>2. Upto(ms, j + 1) = Append(Upto(ms, j), ms[j + 1]) /\ Upto(ms, j) \in Seq(Seq(S))
    <3>1. Upto(ms, j) \in Seq(Seq(S))
      BY <2>1, UptoFacts
    <3>2. SubSeq(ms, 1, j + 1) = SubSeq(ms, 1, j) \o <<ms[j + 1]>>
      <4>1. 1 \in 1..Len(ms) /\ j + 1 \in 1..Len(ms) /\ (j + 1) - 1 = j
        BY <1>2, <2>1
      <4> QED BY <4>1, SubSeqRecursiveSecond
    <3> QED BY <2>1, <3>1, <3>2, AppendIsConcat DEF Upto
  <2>3. FlattenSeq(Upto(ms, j + 1)) = FlattenSeq(Upto(ms, j)) \o ms[j + 1]
    BY <2>1, <2>2, FlattenAppend
  <2>4. /\ FlattenSeq(Upto(ms, j)) \in Seq(S) /\ Left(f[1..j], FlattenSeq(Upto(ms, j)))
        /\ f[1..(j + 1)] = Drops(f[1..j], ms[j + 1])
    BY <1>1, <1>5, <2>1
  <2>5. Left(Drops(f[1..j], ms[j + 1]), FlattenSeq(Upto(ms, j)) \o ms[j + 1])
    BY <1>3, <2>1, <2>4
  <2> QED BY <2>1, <2>3, <2>4, <2>5, ConcatProperties
<1> HIDE DEF T
<1>6. Nat \subseteq T
  BY <1>4, <1>5, SetInduction
<1>7. Left(f[1..Len(ms)], FlattenSeq(Upto(ms, Len(ms))))
  BY <1>2, <1>6 DEF T
<1>8. Upto(ms, Len(ms)) = ms
  BY SubSeqFull DEF Upto
<1> QED BY <1>1, <1>7, <1>8 DEF Left, Bytes

-----------------------------------------------------------------------------
(* What was sent has been read or waits, in order.                         *)
StreamInv ==
  /\ messages \in [PipeId -> Seq(Seq(Nat))]
  /\ sent \in [PipeId -> 0..MaxSent]
  /\ got \in [PipeId -> Seq(Nat)]
  /\ StreamInOrder

(* The bytes of a stream of n, and the n that follow the first a.          *)
Numbered(n) == [i \in 1..n |-> i]
Following(a, n) == [i \in 1..n |-> a + i]

LEMMA NumberedFacts ==
  ASSUME NEW a \in Nat, NEW n \in Nat
  PROVE  /\ Numbered(a) \in Seq(Nat) /\ Following(a, n) \in Seq(Nat)
         /\ Numbered(a) \o Following(a, n) = Numbered(a + n)
<1> DEFINE u == Numbered(a)
           v == Following(a, n)
           w == Numbered(a + n)
<1>1. u \in Seq(Nat) /\ Len(u) = a /\ \A i \in 1..a : u[i] = i
  BY DEF Numbered
<1>2. v \in Seq(Nat) /\ Len(v) = n /\ \A i \in 1..n : v[i] = a + i
  BY DEF Following
<1>3. w \in Seq(Nat) /\ Len(w) = a + n /\ \A i \in 1..(a + n) : w[i] = i
  BY DEF Numbered
<1> HIDE DEF u, v, w
<1>4. /\ u \o v \in Seq(Nat) /\ Len(u \o v) = a + n
      /\ \A i \in 1..(a + n) : (u \o v)[i] = IF i <= a THEN u[i] ELSE v[i - a]
  BY <1>1, <1>2, ConcatProperties
<1>5. ASSUME NEW i \in 1..(a + n) PROVE (u \o v)[i] = w[i]
  <2>1. CASE i <= a
    <3>1. i \in 1..a
      BY <2>1
    <3> QED BY <1>1, <1>3, <1>4, <2>1, <3>1
  <2>2. CASE ~ (i <= a)
    <3>1. i - a \in 1..n /\ a + (i - a) = i
      BY <2>2
    <3> QED BY <1>2, <1>3, <1>4, <2>2, <3>1
  <2> QED BY <2>1, <2>2
<1>6. u \o v = w
  BY <1>3, <1>4, <1>5, SeqEqual
<1> QED BY <1>1, <1>2, <1>6 DEF u, v, w

(* A stream's invariant, for one client.                                   *)
Ordered(g, ms, n) ==
  /\ g \in Seq(Nat) /\ ms \in Seq(Seq(Nat)) /\ n \in 0..MaxSent
  /\ g \o Bytes(ms) = Numbered(n)

LEMMA StreamInvIs ==
  StreamInv <=>
    /\ messages = [p \in PipeId |-> messages[p]]
    /\ sent = [p \in PipeId |-> sent[p]]
    /\ got = [p \in PipeId |-> got[p]]
    /\ \A p \in PipeId : Ordered(got[p], messages[p], sent[p])
BY DEF StreamInv, StreamInOrder, Ordered, Numbered

LEMMA OrderedStart == Ordered(<<>>, <<>>, 0)
<1>1. Numbered(0) = <<>>
  BY DEF Numbered
<1>2. Bytes(<<>>) = <<>> /\ <<>> \in Seq(Nat) /\ <<>> \in Seq(Seq(Nat)) /\ <<>> \o <<>> = <<>>
  BY FlattenEmpty, EmptySeq, ConcatEmptySeq DEF Bytes
<1>3. 0 \in 0..MaxSent
  BY QemudBoundAssumption
<1> QED BY <1>1, <1>2, <1>3 DEF Ordered

LEMMA OrderedSend ==
  ASSUME NEW g, NEW ms, NEW s, Ordered(g, ms, s), NEW n \in Nat, s + n <= MaxSent
  PROVE  Ordered(g, Append(ms, Following(s, n)), s + n)
<1>1. g \in Seq(Nat) /\ ms \in Seq(Seq(Nat)) /\ s \in Nat /\ s + n \in 0..MaxSent
  BY QemudBoundAssumption DEF Ordered
<1>2. PICK m \in Seq(Nat) : m = Following(s, n)
  BY <1>1, NumberedFacts
<1>3. /\ Append(ms, m) \in Seq(Seq(Nat)) /\ Bytes(ms) \in Seq(Nat)
      /\ Bytes(Append(ms, m)) = Bytes(ms) \o m
  BY <1>1, FlattenAppend DEF Bytes
<1>4. g \o (Bytes(ms) \o m) = (g \o Bytes(ms)) \o m
  <2>1. Three(g, Bytes(ms), m)
    BY <1>1, <1>3, Threes
  <2> QED BY <2>1, Zenon DEF Three
<1>5. (g \o Bytes(ms)) \o m = Numbered(s + n)
  BY <1>1, <1>2, NumberedFacts DEF Ordered
<1> QED BY <1>1, <1>2, <1>3, <1>4, <1>5 DEF Ordered

LEMMA OrderedRead ==
  ASSUME NEW g, NEW ms, NEW s, Ordered(g, ms, s), NEW n \in 0..Len(Bytes(ms))
  PROVE  Ordered(g \o SubSeq(Bytes(ms), 1, n), Dropped(ms, n), s)
<1>1. g \in Seq(Nat) /\ ms \in Seq(Seq(Nat)) /\ s \in 0..MaxSent /\ Bytes(ms) \in Seq(Nat)
  BY FlattenType DEF Ordered, Bytes
<1>2. Dropped(ms, n) \in Seq(Seq(Nat)) /\ Bytes(Dropped(ms, n)) = After(Bytes(ms), n)
  BY <1>1, DroppedBytes
<1>3. /\ Bytes(ms) = Upto(Bytes(ms), n) \o After(Bytes(ms), n)
      /\ Upto(Bytes(ms), n) \in Seq(Nat) /\ After(Bytes(ms), n) \in Seq(Nat)
  BY <1>1, SplitFacts
<1>4. (g \o Upto(Bytes(ms), n)) \o After(Bytes(ms), n) = g \o Bytes(ms)
  <2>1. Three(g, Upto(Bytes(ms), n), After(Bytes(ms), n))
    BY <1>1, <1>3, Threes
  <2> QED BY <1>3, <2>1, Zenon DEF Three
<1>5. g \o Upto(Bytes(ms), n) \in Seq(Nat)
  BY <1>1, <1>3, ConcatProperties
<1> QED BY <1>1, <1>2, <1>4, <1>5 DEF Ordered, Upto

LEMMA SendsStream ==
  ASSUME StreamInv, NEW p \in PipeId, NEW d, Sends(d, p)
  PROVE  StreamInv'
<1>1. PICK n \in 1..MaxMessage : sent[p] + n <= MaxSent /\ _qemud_pipe_cache_buffer(p, n)
  BY DEF Sends
<1>2. n \in Nat
  BY QemudBoundAssumption
<1>3. /\ messages' = [messages EXCEPT ![p] = Append(@, Following(sent[p], n))]
      /\ sent' = [sent EXCEPT ![p] = @ + n] /\ got' = got
  BY <1>1 DEF Sends, _qemud_pipe_cache_buffer, Following
<1>4. Ordered(got[p], Append(messages[p], Following(sent[p], n)), sent[p] + n)
  BY <1>1, <1>2, StreamInvIs, OrderedSend
<1>5. /\ messages'[p] = Append(messages[p], Following(sent[p], n))
      /\ sent'[p] = sent[p] + n
      /\ \A q \in PipeId \ {p} : messages'[q] = messages[q] /\ sent'[q] = sent[q]
      /\ messages' = [q \in PipeId |-> messages'[q]]
      /\ sent' = [q \in PipeId |-> sent'[q]] /\ got' = [q \in PipeId |-> got'[q]]
  BY <1>3 DEF StreamInv
<1>6. \A q \in PipeId : Ordered(got'[q], messages'[q], sent'[q])
  <2> SUFFICES ASSUME NEW q \in PipeId PROVE Ordered(got'[q], messages'[q], sent'[q])
    OBVIOUS
  <2>1. Ordered(got[q], messages[q], sent[q])
    BY StreamInvIs
  <2> QED BY <1>3, <1>4, <1>5, <2>1
<1> QED BY <1>5, <1>6 DEF StreamInv, StreamInOrder, Ordered, Numbered

LEMMA ReadStream ==
  ASSUME StreamInv, NEW p \in PipeId, NEW size \in 1..MaxRead,
         Read(p, Min({size, Len(Bytes(messages[p]))})), sent' = sent
  PROVE  StreamInv'
<1>1. messages[p] \in Seq(Seq(Nat)) /\ Bytes(messages[p]) \in Seq(Nat)
  <2>1. messages[p] \in Seq(Seq(Nat))
    BY DEF StreamInv
  <2> QED BY <2>1, FlattenType DEF Bytes
<1>2. PICK n \in 0..Len(Bytes(messages[p])) : n = Min({size, Len(Bytes(messages[p]))})
  <2>1. PICK l \in Nat : l = Len(Bytes(messages[p]))
    BY <1>1, LenProperties
  <2>2. size \in Nat
    BY QemudBoundAssumption
  <2>3. Min({size, l}) = IF size <= l THEN size ELSE l
    BY <2>2 DEF Min
  <2> QED BY <2>1, <2>2, <2>3
<1>3. /\ got' = [got EXCEPT ![p] = @ \o SubSeq(Bytes(messages[p]), 1, n)]
      /\ messages' = [messages EXCEPT ![p] = Dropped(@, n)]
  BY <1>2 DEF Read
<1>4. Ordered(got[p] \o SubSeq(Bytes(messages[p]), 1, n), Dropped(messages[p], n), sent[p])
  BY <1>2, StreamInvIs, OrderedRead
<1>5. /\ messages'[p] = Dropped(messages[p], n)
      /\ got'[p] = got[p] \o SubSeq(Bytes(messages[p]), 1, n)
      /\ \A q \in PipeId \ {p} : messages'[q] = messages[q] /\ got'[q] = got[q]
      /\ messages' = [q \in PipeId |-> messages'[q]]
      /\ got' = [q \in PipeId |-> got'[q]] /\ sent' = [q \in PipeId |-> sent'[q]]
  BY <1>3 DEF StreamInv
<1>6. \A q \in PipeId : Ordered(got'[q], messages'[q], sent'[q])
  <2> SUFFICES ASSUME NEW q \in PipeId PROVE Ordered(got'[q], messages'[q], sent'[q])
    OBVIOUS
  <2>1. Ordered(got[q], messages[q], sent[q])
    BY StreamInvIs
  <2> QED BY <1>4, <1>5, <2>1
<1> QED BY <1>5, <1>6 DEF StreamInv, StreamInOrder, Ordered, Numbered

LEMMA CloseStream ==
  ASSUME StreamInv, NEW p \in PipeId,
         messages' = [messages EXCEPT ![p] = <<>>], sent' = [sent EXCEPT ![p] = 0],
         got' = [got EXCEPT ![p] = <<>>]
  PROVE  StreamInv'
<1>1. /\ messages'[p] = <<>> /\ sent'[p] = 0 /\ got'[p] = <<>>
      /\ \A q \in PipeId \ {p} :
           messages'[q] = messages[q] /\ sent'[q] = sent[q] /\ got'[q] = got[q]
      /\ messages' = [q \in PipeId |-> messages'[q]]
      /\ sent' = [q \in PipeId |-> sent'[q]] /\ got' = [q \in PipeId |-> got'[q]]
  BY DEF StreamInv
<1>2. \A q \in PipeId : Ordered(got'[q], messages'[q], sent'[q])
  <2> SUFFICES ASSUME NEW q \in PipeId PROVE Ordered(got'[q], messages'[q], sent'[q])
    OBVIOUS
  <2>1. Ordered(got[q], messages[q], sent[q])
    BY StreamInvIs
  <2> QED BY <1>1, <2>1, OrderedStart
<1> QED BY <1>1, <1>2 DEF StreamInv, StreamInOrder, Ordered, Numbered

LEMMA SameStreams ==
  ASSUME StreamInv, UNCHANGED streams
  PROVE  StreamInv'
BY DEF StreamInv, StreamInOrder, streams

LEMMA StreamNext ==
  ASSUME QemudInv, StreamInv, [QemudNext]_qvars
  PROVE  StreamInv'
<1>1. CASE Handler
  BY <1>1, SameStreams DEF Handler
<1>2. CASE qemud_client_send
  <2>1. PICK i \in DOMAIN clients : Sends(dev, clients[i])
    BY <1>2 DEF qemud_client_send
  <2>2. clients[i] \in PipeId
    BY DEF QemudInv, ServedInOrder
  <2> QED BY <2>1, <2>2, SendsStream
<1>3. ASSUME NEW c \in Channel, QemudOpen(c) \/ _qemudPipe_init(c) \/ _qemudPipe_wakeOn(c)
      PROVE  StreamInv'
  <2>1. UNCHANGED streams
    BY <1>3 DEF QemudOpen, _qemudPipe_init, _qemudPipe_wakeOn, Silent, streams
  <2> QED BY <2>1, SameStreams
<1>4. ASSUME NEW c \in Channel, _qemudPipe_closeFromGuest(c) PROVE StreamInv'
  <2>1. c \in fds
    BY <1>4 DEF _qemudPipe_closeFromGuest, Close, CanCommand
  <2>2. PICK p \in PipeId : p = PipeOf(dev, c)
    BY <2>1, OpenHasPipe
  <2>3. \/ UNCHANGED streams
        \/ /\ messages' = [messages EXCEPT ![p] = <<>>]
           /\ sent' = [sent EXCEPT ![p] = 0] /\ got' = [got EXCEPT ![p] = <<>>]
    BY <1>4, <2>2 DEF _qemudPipe_closeFromGuest
  <2> QED BY <2>3, SameStreams, CloseStream
<1>5. ASSUME NEW c \in Channel, _qemudPipe_sendBuffers(c) PROVE StreamInv'
  <2>1. c \in fds
    BY <1>5 DEF _qemudPipe_sendBuffers, Transfer, CanCommand
  <2>2. PICK p \in PipeId : p = PipeOf(dev, c)
    BY <2>1, OpenHasPipe
  <2>3. UNCHANGED streams \/ Sends(dev, p)
    BY <1>5, <2>2 DEF _qemudPipe_sendBuffers, Silent
  <2> QED BY <2>3, SameStreams, SendsStream
<1>6. ASSUME NEW c \in Channel, _qemudPipe_recvBuffers(c) PROVE StreamInv'
  <2>1. c \in fds
    BY <1>6 DEF _qemudPipe_recvBuffers, Transfer, CanCommand
  <2>2. PICK p \in PipeId : p = PipeOf(dev, c)
    BY <2>1, OpenHasPipe
  <2>3. \/ UNCHANGED streams
        \/ /\ \E size \in 1..MaxRead : Read(p, Min({size, Len(Bytes(messages[p]))}))
           /\ sent' = sent
    BY <1>6, <2>2 DEF _qemudPipe_recvBuffers
  <2> QED BY <2>3, SameStreams, ReadStream
<1>7. CASE UNCHANGED qvars
  BY <1>7, SameStreams DEF qvars, streams
<1> QED BY <1>1, <1>2, <1>3, <1>4, <1>5, <1>6, <1>7 DEF QemudNext

LEMMA StreamInvariant == QemudSpec => [](QemudInv /\ StreamInv)
<1>1. QemudInit => StreamInv
  <2> SUFFICES ASSUME QemudInit PROVE StreamInv
    OBVIOUS
  <2> QED BY OrderedStart, StreamInvIs DEF QemudInit
<1>2. QemudInv /\ StreamInv /\ [QemudNext]_qvars => StreamInv'
  BY StreamNext
<1> QED BY <1>1, <1>2, QemudInvariant, PTL DEF QemudSpec

(* The variables of the service and of the device under it keep to their   *)
(* types.                                                                  *)
THEOREM QemudTypeCorrect == QemudSpec => []QemudTypeOK
<1>1. QemudInv /\ StreamInv => QemudTypeOK
  BY DEF QemudInv, IInv, ServedInOrder, StreamInv, QemudTypeOK
<1> QED BY <1>1, StreamInvariant, PTL

(* The guest reads every byte of a client's stream once and in order,      *)
(* wherever its reads cut the messages.                                    *)
THEOREM StreamsAreInOrder == QemudSpec => []StreamInOrder
<1>1. StreamInv => StreamInOrder
  BY DEF StreamInv
<1> QED BY <1>1, StreamInvariant, PTL
=============================================================================
