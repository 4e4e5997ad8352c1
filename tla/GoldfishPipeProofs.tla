------------------------- MODULE GoldfishPipeProofs -------------------------
(***************************************************************************)
(* The safety of GoldfishPipe, for every set of pipes, channels, services, *)
(* threads and events that services raise, and that it implements          *)
(* PipeEvents.                                                             *)
(*                                                                         *)
(* First what the operators of PipeDevice do to a device record.  Then the *)
(* inductive invariant: the lists being well formed (Linked) and one       *)
(* channel having one pipe (ChannelsDiffer) carry the rest, for a lookup   *)
(* by channel is then the pipe that the sleeping thread's request was      *)
(* recorded in.                                                            *)
(*                                                                         *)
(* Last the refinement: with its lists, its lookups and its one register   *)
(* for what it reports, the device loses no event, tells none twice and    *)
(* tells none on the wrong channel.  Beside the inductive invariant the    *)
(* mapping rests on the list of signaled pipes holding only pipes on which *)
(* something was raised: else the guest would be told of a channel with    *)
(* nothing due.                                                            *)
(***************************************************************************)
EXTENDS GoldfishPipe, ListFacts

-----------------------------------------------------------------------------
(* Device records.                                                         *)

(* The lists are well formed and a signaled pipe holds the line up.        *)
Linked(d) ==
  /\ IsInjective(d.pipes)
  /\ IsInjective(d.signaled)
  /\ ToSet(d.signaled) \subseteq ToSet(d.pipes)
  /\ d.signaled # <<>> => d.irq

(* No two pipes have one channel, and none has channel 0.                  *)
ChannelsDiffer(d) ==
  \A p, q \in ToSet(d.pipes) :
    /\ d.node[p].channel # 0
    /\ d.node[p].channel = d.node[q].channel => p = q

(* From d to e pipes were woken or closed by the host, and no more.        *)
Grows(d, e) ==
  /\ e.pipes = d.pipes
  /\ e.wakes = d.wakes
  /\ ToSet(d.signaled) \subseteq ToSet(e.signaled)
  /\ \A p \in PipeId :
       /\ e.node[p].channel = d.node[p].channel
       /\ e.node[p].service = d.node[p].service
       /\ e.node[p].opaque = d.node[p].opaque
       /\ d.node[p].wanted \subseteq e.node[p].wanted

(* Place i of the list is the first with a pipe of channel c.              *)
First(d, c, i) ==
  /\ i \in 1..Len(d.pipes)
  /\ d.node[d.pipes[i]].channel = c
  /\ \A j \in 1..Len(d.pipes) : d.node[d.pipes[j]].channel = c => i <= j

(* The place that a lookup finds is the first one.                         *)
LEMMA LookupIsFirst ==
  ASSUME NEW d \in Device, NEW c, NEW i, First(d, c, i)
  PROVE  pipe_list_findp_channel(d, c) = i /\ HasPipe(d, c) /\ PipeOf(d, c) = d.pipes[i]
<1>1. d.pipes \in Seq(PipeId) /\ Len(d.pipes) \in Nat
  BY DEF Device
<1>2. PlacesOf(d, c) \subseteq Nat /\ i \in PlacesOf(d, c) /\ i # 0
      /\ \A j \in PlacesOf(d, c) : i <= j
  BY <1>1 DEF PlacesOf, First
<1>3. Min(PlacesOf(d, c)) = i
  <2>1. \A x \in PlacesOf(d, c) : (\A y \in PlacesOf(d, c) : x <= y) => x = i
    BY <1>2
  <2> QED BY <1>2, <2>1 DEF Min
<1>4. pipe_list_findp_channel(d, c) = i
  BY <1>2, <1>3 DEF pipe_list_findp_channel
<1> QED BY <1>2, <1>4 DEF HasPipe, PipeOf

(* A lookup finds the first pipe of a channel exactly when there is one.   *)
LEMMA LookupFacts ==
  ASSUME NEW d \in Device, NEW c
  PROVE  /\ HasPipe(d, c) <=> \E p \in ToSet(d.pipes) : d.node[p].channel = c
         /\ HasPipe(d, c) =>
              /\ pipe_list_findp_channel(d, c) \in 1..Len(d.pipes)
              /\ First(d, c, pipe_list_findp_channel(d, c))
              /\ PipeOf(d, c) \in ToSet(d.pipes)
              /\ PipeOf(d, c) \in PipeId
              /\ d.node[PipeOf(d, c)].channel = c
<1>1. d.pipes \in Seq(PipeId) /\ DOMAIN d.pipes = 1..Len(d.pipes)
      /\ Len(d.pipes) \in Nat
  BY DEF Device
<1>2. PlacesOf(d, c) = {} <=> ~ \E p \in ToSet(d.pipes) : d.node[p].channel = c
  BY <1>1 DEF PlacesOf, ToSet
<1>3. CASE PlacesOf(d, c) = {}
  BY <1>2, <1>3 DEF HasPipe, pipe_list_findp_channel
<1>4. CASE PlacesOf(d, c) # {}
  <2>1. PlacesOf(d, c) \subseteq Nat
    BY <1>1 DEF PlacesOf
  <2>2. PICK i \in PlacesOf(d, c) : \A j \in PlacesOf(d, c) : i <= j
    BY <1>4, <2>1, LeastElement
  <2>3. First(d, c, i)
    BY <2>2 DEF PlacesOf, First
  <2>4. pipe_list_findp_channel(d, c) = i /\ HasPipe(d, c) /\ PipeOf(d, c) = d.pipes[i]
    BY <2>3, LookupIsFirst
  <2>5. d.pipes[i] \in ToSet(d.pipes) /\ d.pipes[i] \in PipeId /\ d.node[d.pipes[i]].channel = c
    BY <1>1, <2>3 DEF First, ToSet
  <2> QED BY <1>2, <1>4, <2>3, <2>4, <2>5 DEF First
<1> QED BY <1>3, <1>4

(* goldfish_pipe_wake signals the pipe and keeps the record well formed.   *)
LEMMA WakeFacts ==
  ASSUME NEW d \in Device, Linked(d),
         NEW p \in ToSet(d.pipes), NEW flags \in SUBSET Event
  PROVE  LET e == goldfish_pipe_wake(d, p, flags)
         IN  /\ e \in Device
             /\ Linked(e)
             /\ Grows(d, e)
             /\ p \in ToSet(e.signaled)
             /\ e.node[p].wanted = d.node[p].wanted \cup flags
             /\ e.node[p].closed = d.node[p].closed
             /\ \A q \in PipeId \ {p} : e.node[q] = d.node[q]
<1> DEFINE e == goldfish_pipe_wake(d, p, flags)
           s == IF p \in ToSet(d.signaled) THEN d.signaled ELSE <<p>> \o d.signaled
           n == [d.node EXCEPT ![p].wanted = @ \cup flags]
<1>1. p \in PipeId /\ d.signaled \in Seq(PipeId) /\ d.node \in [PipeId -> Pipe]
  BY DEF Device, ToSet
<1>2. s \in Seq(PipeId) /\ IsInjective(s) /\ ToSet(s) = ToSet(d.signaled) \cup {p}
  <2>1. CASE p \in ToSet(d.signaled)
    BY <2>1, <1>1 DEF Linked
  <2>2. CASE p \notin ToSet(d.signaled)
    BY <2>2, <1>1, ConsFacts DEF Linked
  <2> QED BY <2>1, <2>2
<1>3. e = [d EXCEPT !.signaled = s, !.node = n, !.irq = TRUE]
  BY DEF goldfish_pipe_wake, Device
<1> HIDE DEF e, s
<1>4. /\ n \in [PipeId -> Pipe]
      /\ n[p].wanted = d.node[p].wanted \cup flags
      /\ n[p].closed = d.node[p].closed
      /\ n[p].channel = d.node[p].channel
      /\ n[p].service = d.node[p].service
      /\ n[p].opaque = d.node[p].opaque
      /\ \A q \in PipeId \ {p} : n[q] = d.node[q]
  <2>1. n[p] \in Pipe
    BY <1>1 DEF Pipe
  <2> QED BY <1>1, <2>1 DEF Pipe
<1> HIDE DEF n
<1>5. /\ e \in Device
      /\ e.pipes = d.pipes /\ e.signaled = s /\ e.node = n /\ e.irq = TRUE
      /\ e.wakes = d.wakes
  BY <1>2, <1>3, <1>4 DEF Device
<1>6. Linked(e)
  BY <1>2, <1>5 DEF Linked
<1>7. Grows(d, e)
  BY <1>2, <1>4, <1>5 DEF Grows
<1> QED BY <1>2, <1>4, <1>5, <1>6, <1>7 DEF e

(* CMD_OPEN adds one pipe, with a channel that no other pipe has.          *)
LEMMA PipeNewFacts ==
  ASSUME NEW d \in Device, Linked(d),
         NEW c \in Channel, ~ HasPipe(d, c),
         NEW p \in PipeId \ ToSet(d.pipes)
  PROVE  LET e == pipe_new(d, c, p)
         IN  /\ e \in Device
             /\ Linked(e)
             /\ ChannelsDiffer(d) => ChannelsDiffer(e)
             /\ ToSet(e.pipes) = ToSet(d.pipes) \cup {p}
             /\ e.signaled = d.signaled
             /\ e.wakes = d.wakes
             /\ e.node[p].channel = c
             /\ e.node[p].wanted = {}
             /\ \A q \in PipeId \ {p} : e.node[q] = d.node[q]
<1> DEFINE e == pipe_new(d, c, p)
           s == <<p>> \o d.pipes
           n == [d.node EXCEPT ![p] = [FreePipe EXCEPT !.channel = c]]
<1>1. d.pipes \in Seq(PipeId) /\ d.node \in [PipeId -> Pipe]
  BY DEF Device
<1>2. s \in Seq(PipeId) /\ IsInjective(s) /\ ToSet(s) = ToSet(d.pipes) \cup {p}
  BY <1>1, ConsFacts DEF Linked
<1>3. e = [d EXCEPT !.pipes = s, !.node = n]
  BY DEF pipe_new, Device
<1> HIDE DEF e, s
<1>4. /\ n \in [PipeId -> Pipe]
      /\ n[p].channel = c
      /\ n[p].wanted = {}
      /\ \A q \in PipeId \ {p} : n[q] = d.node[q]
  <2>1. [FreePipe EXCEPT !.channel = c] \in Pipe
        /\ [FreePipe EXCEPT !.channel = c].channel = c
        /\ [FreePipe EXCEPT !.channel = c].wanted = {}
    BY DEF FreePipe, Pipe
  <2> QED BY <1>1, <2>1
<1> HIDE DEF n
<1>5. /\ e \in Device
      /\ e.pipes = s /\ e.signaled = d.signaled /\ e.node = n /\ e.irq = d.irq
      /\ e.wakes = d.wakes
  BY <1>2, <1>3, <1>4 DEF Device
<1>6. Linked(e)
  BY <1>2, <1>5 DEF Linked
<1>7. \A q \in ToSet(d.pipes) : d.node[q].channel # c
  BY LookupFacts
<1>8. ChannelsDiffer(d) => ChannelsDiffer(e)
  <2>1. ToSet(d.pipes) \subseteq PipeId \ {p} /\ c # 0
    BY <1>1, ChannelAssumption DEF ToSet
  <2> QED BY <2>1, <1>2, <1>4, <1>5, <1>7 DEF ChannelsDiffer
<1> QED BY <1>2, <1>4, <1>5, <1>6, <1>8 DEF e

(* CMD_CLOSE takes the pipe out of both lists, wherever it stands.         *)
LEMMA PipeFreeFacts ==
  ASSUME NEW d \in Device, Linked(d),
         NEW c, HasPipe(d, c)
  PROVE  LET e == pipe_free(d, c)
             p == PipeOf(d, c)
         IN  /\ e \in Device
             /\ Linked(e)
             /\ ChannelsDiffer(d) => ChannelsDiffer(e)
             /\ ToSet(e.pipes) = ToSet(d.pipes) \ {p}
             /\ ToSet(e.signaled) = ToSet(d.signaled) \ {p}
             /\ e.wakes = d.wakes
             /\ \A q \in PipeId \ {p} : e.node[q] = d.node[q]
<1> DEFINE i == pipe_list_findp_channel(d, c)
           p == d.pipes[i]
           e == pipe_free(d, c)
           l == RemoveAt(d.pipes, i)
           s == pipe_list_remove_waked(d.signaled, p)
           n == [d.node EXCEPT ![p] = FreePipe]
<1>1. /\ d.pipes \in Seq(PipeId) /\ d.signaled \in Seq(PipeId)
      /\ d.node \in [PipeId -> Pipe]
  BY DEF Device
<1>2. i \in 1..Len(d.pipes) /\ p = PipeOf(d, c) /\ p \in ToSet(d.pipes) /\ p \in PipeId
  BY <1>1, LookupFacts DEF PipeOf
<1>3. e = [d EXCEPT !.pipes = l, !.signaled = s, !.node = n]
  BY DEF pipe_free
<1> HIDE DEF e, i, p
<1>4. l \in Seq(PipeId) /\ IsInjective(l) /\ ToSet(l) = ToSet(d.pipes) \ {p}
  BY <1>1, <1>2, RemoveAtFacts DEF Linked, p
<1>5. s \in Seq(PipeId) /\ IsInjective(s) /\ ToSet(s) = ToSet(d.signaled) \ {p}
  BY <1>1, <1>2, RemoveFirstFacts DEF Linked, pipe_list_remove_waked
<1> HIDE DEF l, s
<1>6. n \in [PipeId -> Pipe] /\ \A q \in PipeId \ {p} : n[q] = d.node[q]
  <2>1. FreePipe \in Pipe
    BY DEF FreePipe, Pipe
  <2> QED BY <1>1, <1>2, <2>1
<1> HIDE DEF n
<1>7. /\ e \in Device
      /\ e.pipes = l /\ e.signaled = s /\ e.node = n /\ e.irq = d.irq
      /\ e.wakes = d.wakes
  BY <1>3, <1>4, <1>5, <1>6 DEF Device
<1>8. Linked(e)
  <2>1. s # <<>> => d.signaled # <<>>
    BY <1>1, <1>5, EmptyFacts
  <2> QED BY <1>4, <1>5, <1>7, <2>1 DEF Linked
<1>9. ChannelsDiffer(d) => ChannelsDiffer(e)
  <2>1. ToSet(d.pipes) \subseteq PipeId
    BY <1>1 DEF ToSet
  <2> QED BY <2>1, <1>4, <1>6, <1>7 DEF ChannelsDiffer
<1> QED BY <1>2, <1>4, <1>5, <1>6, <1>7, <1>8, <1>9 DEF e

(* CMD_WAKE_ON_* only adds to what the pipe records.                       *)
LEMMA AddWantedFacts ==
  ASSUME NEW d \in Device, Linked(d), NEW p \in PipeId, NEW x \in Event
  PROVE  LET e == AddWanted(d, p, x)
         IN  /\ e \in Device
             /\ Linked(e)
             /\ Grows(d, e)
             /\ e.signaled = d.signaled
             /\ e.node[p].wanted = d.node[p].wanted \cup {x}
<1> DEFINE e == AddWanted(d, p, x)
           n == [d.node EXCEPT ![p].wanted = @ \cup {x}]
<1>1. e = [d EXCEPT !.node = n]
  BY DEF AddWanted, Device
<1> HIDE DEF e
<1>2. /\ n \in [PipeId -> Pipe]
      /\ n[p].wanted = d.node[p].wanted \cup {x}
      /\ n[p].channel = d.node[p].channel
      /\ n[p].service = d.node[p].service
      /\ n[p].opaque = d.node[p].opaque
      /\ \A q \in PipeId \ {p} : n[q] = d.node[q]
  <2>1. d.node \in [PipeId -> Pipe]
    BY DEF Device
  <2>2. n[p] \in Pipe
    BY <2>1 DEF Pipe
  <2> QED BY <2>1, <2>2 DEF Pipe
<1> HIDE DEF n
<1>3. /\ e \in Device
      /\ e.pipes = d.pipes /\ e.signaled = d.signaled /\ e.node = n
      /\ e.irq = d.irq /\ e.wakes = d.wakes
  BY <1>1, <1>2 DEF Device
<1> QED BY <1>2, <1>3 DEF e, Linked, Grows

(* A read of REG_CHANNEL takes the head of the list, with all it records,  *)
(* and keeps the line up for the rest.                                     *)
LEMMA PopFacts ==
  ASSUME NEW d \in Device, Linked(d), d.signaled # <<>>
  PROVE  LET e == PopSignaled(d)
             p == Head(d.signaled)
         IN  /\ e \in Device
             /\ Linked(e)
             /\ e.pipes = d.pipes
             /\ p \in ToSet(d.signaled) /\ p \in ToSet(d.pipes) /\ p \in PipeId
             /\ ToSet(e.signaled) = ToSet(d.signaled) \ {p}
             /\ e.wakes = d.node[p].wanted
             /\ e.node[p].channel = d.node[p].channel
             /\ \A q \in PipeId \ {p} : e.node[q] = d.node[q]
<1> DEFINE e == PopSignaled(d)
           p == Head(d.signaled)
           t == Tail(d.signaled)
           n == [d.node EXCEPT ![p].wanted = {}]
           w == d.node[p].wanted
           b == d.irq /\ t # <<>>
<1>1. d.signaled \in Seq(PipeId) /\ d.pipes \in Seq(PipeId) /\ d.node \in [PipeId -> Pipe]
  BY DEF Device
<1>2. /\ p \in ToSet(d.signaled) /\ t \in Seq(PipeId) /\ IsInjective(t)
      /\ ToSet(t) = ToSet(d.signaled) \ {p}
  BY <1>1, TailFacts DEF Linked
<1>3. p \in ToSet(d.pipes) /\ p \in PipeId
  <2>1. ToSet(d.signaled) \subseteq ToSet(d.pipes)
    BY DEF Linked
  <2>2. ToSet(d.pipes) \subseteq PipeId
    BY <1>1 DEF ToSet
  <2> QED BY <1>2, <2>1, <2>2
<1>4. e = [d EXCEPT !.signaled = t, !.wakes = w, !.node = n, !.irq = b]
  BY DEF PopSignaled, Device
<1>5. b \in BOOLEAN /\ (t # <<>> => b)
  BY DEF Linked
<1> HIDE DEF e, p, t, b
<1>6. /\ n \in [PipeId -> Pipe] /\ w \in SUBSET Event
      /\ n[p].channel = d.node[p].channel
      /\ \A q \in PipeId \ {p} : n[q] = d.node[q]
  <2>1. n[p] \in Pipe
    BY <1>1, <1>3 DEF Pipe
  <2> QED BY <1>1, <1>3, <2>1 DEF Pipe
<1> HIDE DEF n, w
<1>7. /\ e \in Device
      /\ e.pipes = d.pipes /\ e.signaled = t /\ e.node = n /\ e.irq = b
      /\ e.wakes = w
  BY <1>2, <1>4, <1>5, <1>6 DEF Device
<1>8. Linked(e)
  BY <1>2, <1>5, <1>7 DEF Linked
<1> QED BY <1>2, <1>3, <1>6, <1>7, <1>8 DEF e, p, w

(* Growing twice is growing.                                               *)
LEMMA GrowsTransitive ==
  ASSUME NEW d, NEW e, NEW f, Grows(d, e), Grows(e, f)
  PROVE  Grows(d, f)
BY DEF Grows

(* goldfish_pipe_close signals the pipe, unless it was closed already.     *)
LEMMA CloseFacts ==
  ASSUME NEW d \in Device, Linked(d), NEW p \in ToSet(d.pipes)
  PROVE  LET e == goldfish_pipe_close(d, p)
         IN  /\ e \in Device
             /\ Linked(e)
             /\ Grows(d, e)
             /\ ~ d.node[p].closed =>
                  p \in ToSet(e.signaled) /\ "CLOSED" \in e.node[p].wanted
<1>1. CASE d.node[p].closed
  BY <1>1 DEF goldfish_pipe_close, Grows
<1>2. CASE ~ d.node[p].closed
  <2> DEFINE n == [d.node EXCEPT ![p].closed = TRUE]
             m == [d EXCEPT !.node = n]
  <2>1. /\ p \in PipeId /\ d.node \in [PipeId -> Pipe]
        /\ goldfish_pipe_close(d, p) = goldfish_pipe_wake(m, p, {"CLOSED"})
    BY <1>2 DEF goldfish_pipe_close, Device, ToSet
  <2>2. /\ n \in [PipeId -> Pipe]
        /\ \A q \in PipeId : /\ n[q].channel = d.node[q].channel
                             /\ n[q].service = d.node[q].service
                             /\ n[q].opaque = d.node[q].opaque
                             /\ n[q].wanted = d.node[q].wanted
    <3>1. n[p] \in Pipe
      BY <2>1 DEF Pipe
    <3>2. /\ n[p].channel = d.node[p].channel
          /\ n[p].service = d.node[p].service
          /\ n[p].opaque = d.node[p].opaque
          /\ n[p].wanted = d.node[p].wanted
      BY <2>1 DEF Pipe
    <3>3. \A q \in PipeId \ {p} : n[q] = d.node[q]
      BY <2>1
    <3> QED BY <2>1, <3>1, <3>2, <3>3
  <2> HIDE DEF n
  <2>3. /\ m \in Device
        /\ m.pipes = d.pipes /\ m.signaled = d.signaled /\ m.node = n
        /\ m.irq = d.irq /\ m.wakes = d.wakes
    BY <2>2 DEF Device
  <2> HIDE DEF m
  <2>4. Linked(m) /\ Grows(d, m)
    BY <2>2, <2>3 DEF Linked, Grows
  <2> QED BY <1>2, <2>1, <2>3, <2>4, WakeFacts, GrowsTransitive DEF Event
<1> QED BY <1>1, <1>2

-----------------------------------------------------------------------------
(* The inductive invariant of GoldfishPipe.                                *)

(* What r says was raised on a pipe is recorded by the pipe, and the pipe  *)
(* is in the handler's list.                                               *)
Pending(d, r) ==
  \A p \in PipeId :
    r[p] # {} => p \in ToSet(d.signaled) /\ r[p] \subseteq d.node[p].wanted

(* The pipe of channel c records that e is wanted.                         *)
Records(d, c, e) ==
  \E p \in ToSet(d.pipes) : d.node[p].channel = c /\ e \in d.node[p].wanted

(* The handler holds a report of e on channel c.                           *)
InHand(d, c, e) == isr.at = "mask" /\ isr.chan = c /\ e \in d.wakes

(* NoDeafSleeper, said of the pipes in the list and not of a lookup; in    *)
(* both cases the pipe is still there.                                     *)
Exists(d, c) == \E p \in ToSet(d.pipes) : d.node[p].channel = c
SleepersRecorded ==
  \A c \in Channel : \A e \in asleep[c] :
    Exists(dev, c) /\ (Records(dev, c, e) \/ InHand(dev, c, e))

IInv ==
  /\ TypeOK
  /\ Linked(dev)
  /\ ChannelsDiffer(dev)
  /\ Pending(dev, raised)
  /\ SleepersRecorded

-----------------------------------------------------------------------------
(* Raising events grows the record and makes what is fresh pending.        *)
LEMMA RaiseFacts ==
  ASSUME NEW d \in Device, Linked(d),
         NEW p \in ToSet(d.pipes), NEW events \in SUBSET Event
  PROVE  LET e == Raise(d, p, events)
         IN  /\ e \in Device
             /\ Linked(e)
             /\ Grows(d, e)
             /\ Fresh(d, p, events) \subseteq e.node[p].wanted
             /\ Fresh(d, p, events) # {} => p \in ToSet(e.signaled)
<1> DEFINE io == events \ {"CLOSED"}
           w == IF io = {} THEN d ELSE goldfish_pipe_wake(d, p, io)
           e == Raise(d, p, events)
<1>1. /\ w \in Device /\ Linked(w) /\ Grows(d, w)
      /\ io \subseteq w.node[p].wanted
      /\ io # {} => p \in ToSet(w.signaled)
      /\ w.node[p].closed = d.node[p].closed
      /\ w.pipes = d.pipes
  <2>1. CASE io = {}
    BY <2>1 DEF Grows
  <2>2. CASE io # {}
    BY <2>2, WakeFacts DEF Grows
  <2> QED BY <2>1, <2>2
<1>2. e = IF "CLOSED" \in events THEN goldfish_pipe_close(w, p) ELSE w
  BY DEF Raise
<1>3. p \in PipeId
  BY DEF Device, ToSet
<1> DEFINE f == Fresh(d, p, events)
<1>4. /\ d.node[p].closed \/ "CLOSED" \notin events => f \subseteq io
      /\ f \subseteq io \cup {"CLOSED"}
  BY DEF Fresh
<1>5. (f # {} /\ ("CLOSED" \notin events \/ d.node[p].closed)) => io # {}
  BY <1>4
<1> HIDE DEF w, e, io, f
<1>6. /\ e \in Device /\ Linked(e) /\ Grows(d, e)
      /\ f \subseteq e.node[p].wanted
      /\ f # {} => p \in ToSet(e.signaled)
  <2>1. CASE "CLOSED" \notin events
    BY <1>1, <1>2, <1>4, <1>5, <2>1
  <2>2. CASE "CLOSED" \in events
    <3>1. /\ e \in Device /\ Linked(e) /\ Grows(w, e)
          /\ ~ w.node[p].closed =>
               p \in ToSet(e.signaled) /\ "CLOSED" \in e.node[p].wanted
      BY <1>1, <1>2, <2>2, CloseFacts
    <3>2. Grows(d, e)
      BY <1>1, <3>1, GrowsTransitive
    <3>3. /\ w.node[p].wanted \subseteq e.node[p].wanted
          /\ ToSet(w.signaled) \subseteq ToSet(e.signaled)
      BY <3>1, <1>3 DEF Grows
    <3>4. CASE d.node[p].closed
      <4>1. f \subseteq io /\ (f # {} => io # {})
        BY <1>4, <1>5, <3>4
      <4> QED BY <1>1, <4>1, <3>1, <3>2, <3>3
    <3>5. CASE ~ d.node[p].closed
      <4>1. p \in ToSet(e.signaled) /\ "CLOSED" \in e.node[p].wanted
        BY <1>1, <3>1, <3>5
      <4> QED BY <1>1, <1>4, <4>1, <3>1, <3>2, <3>3
    <3> QED BY <3>4, <3>5
  <2> QED BY <2>1, <2>2
<1> QED BY <1>6 DEF e, f

(* Whatever a service does while it runs, the record stays well formed and *)
(* nothing that was pending or recorded is lost.                           *)
LEMMA ServiceRunsFacts ==
  ASSUME NEW d \in Device, NEW r \in [PipeId -> SUBSET Event],
         Linked(d), Pending(d, r), ServiceRuns(d, r)
  PROVE  /\ dev' \in Device
         /\ Linked(dev')
         /\ ChannelsDiffer(d) => ChannelsDiffer(dev')
         /\ Grows(d, dev')
         /\ raised' \in [PipeId -> SUBSET Event]
         /\ Pending(dev', raised')
<1>1. CASE dev' = d /\ raised' = r
  BY <1>1 DEF Grows
<1>2. CASE \E p \in Served(d), events \in Raisable :
             /\ dev' = Raise(d, p, events)
             /\ raised' = [r EXCEPT ![p] = @ \cup Fresh(d, p, events)]
  <2>1. PICK p \in Served(d), events \in Raisable :
          /\ dev' = Raise(d, p, events)
          /\ raised' = [r EXCEPT ![p] = @ \cup Fresh(d, p, events)]
    BY <1>2
  <2>2. p \in ToSet(d.pipes) /\ p \in PipeId /\ events \in SUBSET Event
    BY RaisableAssumption DEF Served, Device, ToSet
  <2>3. /\ dev' \in Device /\ Linked(dev') /\ Grows(d, dev')
        /\ Fresh(d, p, events) \subseteq dev'.node[p].wanted
        /\ Fresh(d, p, events) # {} => p \in ToSet(dev'.signaled)
    BY <2>1, <2>2, RaiseFacts
  <2>4. raised' \in [PipeId -> SUBSET Event]
    BY <2>1, <2>2 DEF Fresh
  <2>5. ChannelsDiffer(d) => ChannelsDiffer(dev')
    <3>1. ToSet(d.pipes) \subseteq PipeId
      BY DEF Device, ToSet
    <3> QED BY <2>3, <3>1 DEF Grows, ChannelsDiffer
  <2>6. Pending(dev', raised')
    <3>1. ASSUME NEW q \in PipeId, q # p, raised'[q] # {}
          PROVE  q \in ToSet(dev'.signaled) /\ raised'[q] \subseteq dev'.node[q].wanted
      BY <2>1, <2>3, <3>1 DEF Pending, Grows
    <3>2. raised'[p] = r[p] \cup Fresh(d, p, events)
      BY <2>1, <2>2
    <3>3. ASSUME raised'[p] # {}
          PROVE  p \in ToSet(dev'.signaled) /\ raised'[p] \subseteq dev'.node[p].wanted
      BY <2>2, <2>3, <3>2, <3>3 DEF Pending, Grows
    <3> QED BY <3>1, <3>3 DEF Pending
  <2> QED BY <2>3, <2>4, <2>5, <2>6
<1> QED BY <1>1, <1>2 DEF ServiceRuns

(* What a pipe records for a channel, a grown record still holds.          *)
LEMMA GrowsKeepsRecords ==
  ASSUME NEW d \in Device, NEW e, Grows(d, e), NEW c, NEW x
  PROVE  /\ Exists(d, c) => Exists(e, c)
         /\ Records(d, c, x) => Records(e, c, x)
<1>1. ToSet(d.pipes) \subseteq PipeId
  BY DEF Device, ToSet
<1> QED BY <1>1 DEF Grows, Exists, Records

(* A lookup by channel finds the pipe that records the channel's requests. *)
LEMMA LookupRecords ==
  ASSUME NEW d \in Device, ChannelsDiffer(d), IsInjective(d.pipes), NEW c, NEW x
  PROVE  /\ Exists(d, c) <=> HasPipe(d, c)
         /\ HasPipe(d, c) => /\ PipeOf(d, c) \in ToSet(d.pipes)
                             /\ PipeOf(d, c) \in PipeId
                             /\ d.node[PipeOf(d, c)].channel = c
         /\ Records(d, c, x) <=> HasPipe(d, c) /\ x \in d.node[PipeOf(d, c)].wanted
<1>1. ToSet(d.pipes) \subseteq PipeId
  BY DEF Device, ToSet
<1> QED BY <1>1, LookupFacts DEF Exists, Records, ChannelsDiffer

(* A service's name being whole changes whom the pipe belongs to only.     *)
LEMMA ConnectFacts ==
  ASSUME NEW d \in Device, Linked(d),
         NEW p \in PipeId, NEW svc \in Service
  PROVE  LET e == Serve(d, p, svc)
         IN  /\ e \in Device
             /\ Linked(e)
             /\ ChannelsDiffer(d) => ChannelsDiffer(e)
             /\ e.pipes = d.pipes
             /\ e.signaled = d.signaled
             /\ e.wakes = d.wakes
             /\ \A q \in PipeId : /\ e.node[q].channel = d.node[q].channel
                                  /\ e.node[q].wanted = d.node[q].wanted
<1> DEFINE e == Serve(d, p, svc)
           n == [d.node EXCEPT ![p] = [@ EXCEPT !.service = svc, !.opaque = svc]]
<1>1. e = [d EXCEPT !.node = n]
  BY DEF Serve, Device
<1> HIDE DEF e
<1>2. /\ n \in [PipeId -> Pipe]
      /\ \A q \in PipeId : /\ n[q].channel = d.node[q].channel
                           /\ n[q].wanted = d.node[q].wanted
  <2>1. d.node \in [PipeId -> Pipe]
    BY DEF Device
  <2>2. n[p] \in Pipe
    BY <2>1 DEF Pipe
  <2>3. n[p].channel = d.node[p].channel /\ n[p].wanted = d.node[p].wanted
    BY <2>1 DEF Pipe
  <2> QED BY <2>1, <2>2, <2>3
<1> HIDE DEF n
<1>3. /\ e \in Device
      /\ e.pipes = d.pipes /\ e.signaled = d.signaled /\ e.node = n
      /\ e.irq = d.irq /\ e.wakes = d.wakes
  BY <1>1, <1>2 DEF Device
<1>4. ToSet(d.pipes) \subseteq PipeId
  BY DEF Device, ToSet
<1> QED BY <1>2, <1>3, <1>4 DEF e, Linked, ChannelsDiffer

-----------------------------------------------------------------------------
(* The invariant is inductive.                                             *)

LEMMA InitIInv == Init => IInv
<1> SUFFICES ASSUME Init PROVE IInv
  OBVIOUS
<1>1. InitDevice \in Device
  BY DEF InitDevice, Device, FreePipe, Pipe
<1>2. /\ ToSet(InitDevice.pipes) = {} /\ ToSet(InitDevice.signaled) = {}
      /\ InitDevice.signaled = <<>>
      /\ IsInjective(InitDevice.pipes) /\ IsInjective(InitDevice.signaled)
  BY DEF InitDevice, ToSet, IsInjective
<1>3. TypeOK
  BY <1>1 DEF Init, TypeOK, Isr, Idle
<1> QED BY <1>2, <1>3 DEF Init, IInv, Linked, ChannelsDiffer, Pending, SleepersRecorded

LEMMA OpenIInv ==
  ASSUME IInv, NEW c \in Channel, Open(c)
  PROVE  IInv'
<1>1. dev \in Device /\ Linked(dev) /\ ChannelsDiffer(dev) /\ ~ HasPipe(dev, c)
  BY DEF IInv, TypeOK, Open
<1>2. PICK p \in PipeId \ ToSet(dev.pipes) :
        dev' = pipe_new(dev, c, p) /\ raised' = [raised EXCEPT ![p] = {}]
  BY DEF Open
<1>3. /\ dev' \in Device /\ Linked(dev') /\ ChannelsDiffer(dev')
      /\ ToSet(dev'.pipes) = ToSet(dev.pipes) \cup {p}
      /\ dev'.signaled = dev.signaled
      /\ dev'.wakes = dev.wakes
      /\ \A q \in PipeId \ {p} : dev'.node[q] = dev.node[q]
  BY <1>1, <1>2, PipeNewFacts
<1>4. TypeOK'
  BY <1>2, <1>3 DEF IInv, TypeOK, Open
<1>5. Pending(dev', raised')
  BY <1>2, <1>3 DEF IInv, TypeOK, Pending
<1>6. SleepersRecorded'
  <2>1. ToSet(dev.pipes) \subseteq PipeId \ {p}
    BY <1>1 DEF Device, ToSet
  <2> QED BY <2>1, <1>3 DEF IInv, Open, SleepersRecorded, Exists, Records, InHand
<1> QED BY <1>3, <1>4, <1>5, <1>6 DEF IInv

LEMMA CloseIInv ==
  ASSUME IInv, NEW c \in Channel, Close(c)
  PROVE  IInv'
<1> USE DEF IInv
<1>1. CASE ~ HasPipe(dev, c)
  BY <1>1 DEF Close, TypeOK, SleepersRecorded, InHand
<1>2. CASE HasPipe(dev, c)
  <2> DEFINE d == pipe_free(dev, c)
             p == PipeOf(dev, c)
             r == [raised EXCEPT ![p] = {}]
  <2>1. /\ d \in Device /\ Linked(d) /\ ChannelsDiffer(d)
        /\ ToSet(d.pipes) = ToSet(dev.pipes) \ {p}
        /\ ToSet(d.signaled) = ToSet(dev.signaled) \ {p}
        /\ d.wakes = dev.wakes
        /\ \A q \in PipeId \ {p} : d.node[q] = dev.node[q]
    BY <1>2, PipeFreeFacts DEF TypeOK
  <2>2. p \in PipeId /\ dev.node[p].channel = c
    BY <1>2, LookupRecords DEF TypeOK, Linked
  <2>3. ServiceRuns(d, r)
    BY <1>2 DEF Close
  <2>4. asleep' = asleep /\ isr' = isr /\ again' = again /\ asleep[c] = {}
        /\ fds' = fds \ {c}
    BY DEF Close
  <2>5. ToSet(dev.pipes) \subseteq PipeId
    BY DEF TypeOK, Device, ToSet
  <2> HIDE DEF d, p
  <2>6. r \in [PipeId -> SUBSET Event] /\ Pending(d, r)
    BY <2>1, <2>2 DEF TypeOK, Pending
  <2> HIDE DEF r
  <2>7. /\ dev' \in Device /\ Linked(dev') /\ ChannelsDiffer(dev')
        /\ Grows(d, dev')
        /\ raised' \in [PipeId -> SUBSET Event] /\ Pending(dev', raised')
    BY <2>1, <2>3, <2>6, ServiceRunsFacts
  <2>8. TypeOK'
    BY <2>4, <2>7 DEF TypeOK
  <2>9. SleepersRecorded'
    <3> SUFFICES ASSUME NEW k \in Channel, NEW e \in asleep[k]
                 PROVE  Exists(dev', k) /\ (Records(dev', k, e) \/ InHand(dev, k, e)')
      BY <2>4 DEF SleepersRecorded, InHand
    <3>1. k # c
      BY <2>4
    <3>2. Exists(dev, k) => Exists(d, k)
      BY <2>1, <2>2, <2>5, <3>1 DEF Exists
    <3>3. Records(dev, k, e) => Records(d, k, e)
      BY <2>1, <2>2, <2>5, <3>1 DEF Records
    <3>4. InHand(dev, k, e) => InHand(dev, k, e)'
      BY <2>1, <2>4, <2>7 DEF InHand, Grows
    <3> QED BY <2>1, <2>7, <3>2, <3>3, <3>4, GrowsKeepsRecords DEF SleepersRecorded
  <2> QED BY <2>7, <2>8, <2>9
<1> QED BY <1>1, <1>2

LEMMA ConnectIInv ==
  ASSUME IInv, NEW c \in Channel, Connect(c)
  PROVE  IInv'
<1> USE DEF IInv
<1>1. PICK svc \in Service :
        ServiceRuns(Serve(dev, PipeOf(dev, c), svc), raised)
  BY DEF Connect
<1> DEFINE p == PipeOf(dev, c)
           d == Serve(dev, p, svc)
<1>2. p \in PipeId
  BY LookupRecords DEF TypeOK, Linked, Connect, Refuses
<1>3. ServiceRuns(d, raised)
  BY <1>1
<1> HIDE DEF p
<1>4. /\ d \in Device /\ Linked(d) /\ ChannelsDiffer(d)
      /\ d.pipes = dev.pipes /\ d.signaled = dev.signaled /\ d.wakes = dev.wakes
      /\ \A q \in PipeId : /\ d.node[q].channel = dev.node[q].channel
                           /\ d.node[q].wanted = dev.node[q].wanted
  BY <1>2, ConnectFacts DEF TypeOK
<1> HIDE DEF d
<1>5. Pending(d, raised)
  BY <1>4 DEF Pending
<1>6. /\ dev' \in Device /\ Linked(dev') /\ ChannelsDiffer(dev')
      /\ Grows(d, dev')
      /\ raised' \in [PipeId -> SUBSET Event] /\ Pending(dev', raised')
  BY <1>3, <1>4, <1>5, ServiceRunsFacts DEF TypeOK
<1>7. UNCHANGED guest
  BY DEF Connect
<1>8. TypeOK'
  BY <1>6, <1>7 DEF TypeOK, guest
<1>9. \A k, x : /\ Exists(dev, k) => Exists(dev', k)
                /\ Records(dev, k, x) => Records(dev', k, x)
  <2>1. ToSet(dev.pipes) \subseteq PipeId
    BY DEF TypeOK, Device, ToSet
  <2>2. \A k, x : /\ Exists(dev, k) => Exists(d, k)
                  /\ Records(dev, k, x) => Records(d, k, x)
    BY <2>1, <1>4 DEF Exists, Records
  <2> QED BY <2>2, <1>4, <1>6, GrowsKeepsRecords
<1>10. dev'.wakes = dev.wakes
  BY <1>4, <1>6 DEF Grows
<1>11. SleepersRecorded'
  BY <1>7, <1>9, <1>10 DEF guest, SleepersRecorded, InHand
<1> QED BY <1>6, <1>8, <1>11

(* A step in which services run from the present record, and the guest's   *)
(* sleepers and handler stay as they are, keeps the invariant.             *)
LEMMA RunsIInv ==
  ASSUME IInv, ServiceRuns(dev, raised),
         fds' = fds, asleep' = asleep, isr' = isr,
         again' \in [Channel -> SUBSET IoEvent]
  PROVE  IInv'
<1> USE DEF IInv
<1>1. /\ dev' \in Device /\ Linked(dev') /\ ChannelsDiffer(dev')
      /\ Grows(dev, dev')
      /\ raised' \in [PipeId -> SUBSET Event] /\ Pending(dev', raised')
  BY ServiceRunsFacts DEF TypeOK
<1>2. TypeOK'
  BY <1>1 DEF TypeOK
<1>3. SleepersRecorded'
  BY <1>1, GrowsKeepsRecords DEF TypeOK, SleepersRecorded, InHand, Grows
<1> QED BY <1>1, <1>2, <1>3

LEMMA TransferIInv ==
  ASSUME IInv, NEW c \in Channel, NEW e \in IoEvent, Transfer(c, e)
  PROVE  IInv'
<1>1. again' \in [Channel -> SUBSET IoEvent]
  BY DEF Transfer, IInv, TypeOK
<1> QED BY <1>1, RunsIInv DEF Transfer

LEMMA ServiceEventIInv ==
  ASSUME IInv, ServiceEvent
  PROVE  IInv'
<1>1. ServiceRuns(dev, raised)
  BY DEF ServiceEvent, ServiceRuns
<1>2. fds' = fds /\ asleep' = asleep /\ isr' = isr /\ again' = again
  BY DEF ServiceEvent, guest
<1>3. again' \in [Channel -> SUBSET IoEvent]
  BY <1>2 DEF IInv, TypeOK
<1> QED BY <1>1, <1>2, <1>3, RunsIInv

LEMMA WakeOnIInv ==
  ASSUME IInv, NEW c \in Channel, NEW e \in IoEvent, WakeOn(c, e)
  PROVE  IInv'
<1> USE DEF IInv
<1>1. /\ again' \in [Channel -> SUBSET IoEvent] /\ fds' = fds /\ isr' = isr
  BY DEF WakeOn, TypeOK
<1>2. CASE Refuses(dev, c)
  BY <1>1, <1>2 DEF WakeOn, TypeOK, SleepersRecorded, InHand
<1>3. CASE ~ Refuses(dev, c)
  <2> DEFINE p == PipeOf(dev, c)
  <2>1. asleep' = [asleep EXCEPT ![c] = @ \cup {e}]
        /\ asleep' \in [Channel -> SUBSET IoEvent]
    BY <1>3 DEF WakeOn, TypeOK
  <2>2. /\ p \in ToSet(dev.pipes) /\ p \in PipeId
        /\ dev.node[p].channel = c
    BY <1>3, LookupRecords DEF TypeOK, Linked, Refuses
  <2>3. /\ dev' \in Device /\ Linked(dev') /\ ChannelsDiffer(dev')
        /\ Grows(dev, dev') /\ e \in dev'.node[p].wanted
        /\ raised' \in [PipeId -> SUBSET Event] /\ Pending(dev', raised')
    <3>1. CASE WantsWake(dev, p, e)
      <4>1. dev' = dev /\ raised' = raised
        BY <1>3, <3>1 DEF WakeOn
      <4> QED BY <4>1, <3>1 DEF TypeOK, Grows, WantsWake
    <3>2. CASE ~ WantsWake(dev, p, e)
      <4> DEFINE d == AddWanted(dev, p, e)
      <4>1. ServiceRuns(d, raised)
        BY <1>3, <3>2 DEF WakeOn
      <4> HIDE DEF p
      <4>2. /\ d \in Device /\ Linked(d) /\ Grows(dev, d)
            /\ d.signaled = dev.signaled /\ e \in d.node[p].wanted
        BY <2>2, AddWantedFacts DEF TypeOK, Event
      <4>3. ToSet(dev.pipes) \subseteq PipeId
        BY DEF TypeOK, Device, ToSet
      <4> HIDE DEF d
      <4>4. ChannelsDiffer(d) /\ Pending(d, raised)
        BY <4>2, <4>3 DEF ChannelsDiffer, Pending, Grows
      <4>5. /\ dev' \in Device /\ Linked(dev') /\ ChannelsDiffer(dev')
            /\ Grows(d, dev')
            /\ raised' \in [PipeId -> SUBSET Event] /\ Pending(dev', raised')
        BY <4>1, <4>2, <4>4, ServiceRunsFacts DEF TypeOK
      <4>6. Grows(dev, dev') /\ e \in dev'.node[p].wanted
        BY <2>2, <4>2, <4>5, GrowsTransitive DEF Grows
      <4> QED BY <4>5, <4>6
    <3> QED BY <3>1, <3>2
  <2> HIDE DEF p
  <2>4. TypeOK'
    BY <1>1, <2>1, <2>3 DEF TypeOK
  <2>5. SleepersRecorded'
    <3> SUFFICES ASSUME NEW k \in Channel, NEW x \in asleep'[k]
                 PROVE  Exists(dev', k) /\ (Records(dev', k, x) \/ InHand(dev', k, x))
      BY <1>1 DEF SleepersRecorded, InHand
    <3>1. Exists(dev', c) /\ Records(dev', c, e)
      BY <2>2, <2>3 DEF Exists, Records, Grows
    <3>2. CASE x \in asleep[k]
      BY <3>2, <1>1, <2>3, GrowsKeepsRecords DEF TypeOK, SleepersRecorded, InHand, Grows
    <3>3. CASE x \notin asleep[k]
      BY <3>1, <3>3, <2>1 DEF TypeOK
    <3> QED BY <3>2, <3>3
  <2> QED BY <2>3, <2>4, <2>5
<1> QED BY <1>2, <1>3

LEMMA InterruptedIInv ==
  ASSUME IInv, NEW c \in Channel, NEW e \in IoEvent, Interrupted(c, e)
  PROVE  IInv'
<1>1. TypeOK'
  BY DEF IInv, TypeOK, Interrupted
<1>2. \A k \in Channel : asleep'[k] \subseteq asleep[k]
  BY DEF IInv, TypeOK, Interrupted
<1> QED BY <1>1, <1>2 DEF IInv, Interrupted, SleepersRecorded, InHand

LEMMA IsrEnterIInv ==
  ASSUME IInv, IsrEnter
  PROVE  IInv'
BY DEF IInv, TypeOK, Isr, IsrEnter, SleepersRecorded, InHand

(* What the handler takes out of the list it holds in hand.                *)
LEMMA IsrChannelIInv ==
  ASSUME IInv, IsrChannel
  PROVE  IInv'
<1> USE DEF IInv
<1>1. CASE dev.signaled = <<>>
  BY <1>1 DEF IsrChannel, TypeOK, Isr, Idle, SleepersRecorded, InHand
<1>2. CASE dev.signaled # <<>>
  <2> DEFINE p == Head(dev.signaled)
  <2>1. /\ dev' = PopSignaled(dev)
        /\ isr' = [at |-> "mask", chan |-> dev.node[p].channel]
        /\ raised' = [raised EXCEPT ![p] = {}]
        /\ fds' = fds /\ again' = again /\ asleep' = asleep
        /\ isr.at = "list"
    BY <1>2 DEF IsrChannel
  <2>2. /\ dev' \in Device /\ Linked(dev')
        /\ dev'.pipes = dev.pipes
        /\ p \in ToSet(dev.pipes) /\ p \in PipeId
        /\ ToSet(dev'.signaled) = ToSet(dev.signaled) \ {p}
        /\ dev'.wakes = dev.node[p].wanted
        /\ dev'.node[p].channel = dev.node[p].channel
        /\ \A q \in PipeId \ {p} : dev'.node[q] = dev.node[q]
    BY <1>2, <2>1, PopFacts DEF TypeOK
  <2>3. ToSet(dev.pipes) \subseteq PipeId
    BY DEF TypeOK, Device, ToSet
  <2> HIDE DEF p
  <2>4. ChannelsDiffer(dev')
    BY <2>2, <2>3 DEF ChannelsDiffer
  <2>5. dev.node[p].channel \in Channel
    BY <2>2 DEF ChannelsDiffer, TypeOK, Device, Pipe
  <2>6. TypeOK'
    BY <2>1, <2>2, <2>5 DEF TypeOK, Isr
  <2>7. Pending(dev', raised')
    BY <2>1, <2>2 DEF Pending, TypeOK
  <2>8. SleepersRecorded'
    <3> SUFFICES ASSUME NEW k \in Channel, NEW x \in asleep[k]
                 PROVE  Exists(dev', k) /\ (Records(dev', k, x) \/ InHand(dev, k, x)')
      BY <2>1 DEF SleepersRecorded, InHand
    <3>1. PICK q \in ToSet(dev.pipes) :
            dev.node[q].channel = k /\ x \in dev.node[q].wanted
      BY <2>1 DEF SleepersRecorded, Records, InHand
    <3>2. CASE q = p
      BY <3>1, <3>2, <2>1, <2>2 DEF Exists, InHand
    <3>3. CASE q # p
      BY <3>1, <3>3, <2>2, <2>3 DEF Exists, Records
    <3> QED BY <3>2, <3>3
  <2> QED BY <2>2, <2>4, <2>6, <2>7, <2>8
<1> QED BY <1>1, <1>2

(* What the handler holds it delivers.                                     *)
LEMMA IsrWakesIInv ==
  ASSUME IInv, IsrWakes
  PROVE  IInv'
<1>1. isr.chan \in Channel /\ isr.at = "mask"
  BY DEF IInv, TypeOK, Isr, Idle, IsrWakes
<1>2. TypeOK'
  BY <1>1 DEF IInv, TypeOK, Isr, IsrWakes
<1>3. /\ \A k \in Channel : asleep'[k] \subseteq asleep[k]
      /\ \A x \in asleep'[isr.chan] : x \notin dev.wakes
  BY <1>1 DEF IInv, TypeOK, IsrWakes
<1>4. SleepersRecorded'
  BY <1>1, <1>3 DEF IInv, IsrWakes, SleepersRecorded, InHand
<1> QED BY <1>2, <1>4 DEF IInv, IsrWakes

LEMMA NextIInv == IInv /\ [Next]_vars => IInv'
<1> SUFFICES ASSUME IInv, [Next]_vars PROVE IInv'
  OBVIOUS
<1>1. ASSUME NEW c \in Channel, Open(c) PROVE IInv'
  BY <1>1, OpenIInv
<1>2. ASSUME NEW c \in Channel, Close(c) PROVE IInv'
  BY <1>2, CloseIInv
<1>3. ASSUME NEW c \in Channel, Connect(c) PROVE IInv'
  BY <1>3, ConnectIInv
<1>4. ASSUME NEW t \in Thread, Transfer(t[1], t[2]) PROVE IInv'
  BY <1>4, TransferIInv, ThreadAssumption
<1>5. ASSUME NEW t \in Thread, WakeOn(t[1], t[2]) PROVE IInv'
  BY <1>5, WakeOnIInv, ThreadAssumption
<1>6. ASSUME NEW t \in Thread, Interrupted(t[1], t[2]) PROVE IInv'
  BY <1>6, InterruptedIInv, ThreadAssumption
<1>7. CASE IsrEnter
  BY <1>7, IsrEnterIInv
<1>8. CASE IsrChannel
  BY <1>8, IsrChannelIInv
<1>9. CASE IsrWakes
  BY <1>9, IsrWakesIInv
<1>10. CASE ServiceEvent
  BY <1>10, ServiceEventIInv
<1>11. CASE UNCHANGED vars
  BY <1>11 DEF vars, guest, IInv, TypeOK, SleepersRecorded, InHand
<1> QED
  BY <1>1, <1>2, <1>3, <1>4, <1>5, <1>6, <1>7, <1>8, <1>9, <1>10, <1>11
     DEF Next, Command, Signal

(* A sleeping thread's request is recorded by the pipe a lookup finds.     *)
LEMMA IInvNoDeafSleeper == IInv => NoDeafSleeper
<1> SUFFICES ASSUME IInv, NEW c \in Channel, NEW e \in asleep[c]
             PROVE  /\ HasPipe(dev, c)
                    /\ \/ e \in dev.node[PipeOf(dev, c)].wanted
                       \/ isr.at = "mask" /\ isr.chan = c /\ e \in dev.wakes
  BY DEF NoDeafSleeper
<1>1. Exists(dev, c) /\ (Records(dev, c, e) \/ InHand(dev, c, e))
  BY DEF IInv, SleepersRecorded
<1> QED BY <1>1, LookupRecords DEF IInv, TypeOK, Linked, InHand

(* What a well-formed record says of its pipes.                            *)
LEMMA DeviceFacts ==
  ASSUME IInv
  PROVE  /\ dev.node \in [PipeId -> Pipe]
         /\ ToSet(dev.pipes) \subseteq PipeId
         /\ ToSet(dev.signaled) \subseteq ToSet(dev.pipes)
         /\ \A p \in ToSet(dev.pipes) : dev.node[p].channel \in Channel
         /\ \A p, q \in ToSet(dev.pipes) : dev.node[p].channel = dev.node[q].channel => p = q
         /\ \A c : Exists(dev, c) => /\ HasPipe(dev, c)
                                     /\ PipeOf(dev, c) \in ToSet(dev.pipes)
                                     /\ dev.node[PipeOf(dev, c)].channel = c
<1>1. dev \in Device /\ Linked(dev) /\ ChannelsDiffer(dev)
  BY DEF IInv, TypeOK
<1>2. dev.node \in [PipeId -> Pipe] /\ ToSet(dev.pipes) \subseteq PipeId
  BY <1>1 DEF Device, ToSet
<1>3. \A p \in ToSet(dev.pipes) : dev.node[p].channel \in Channel
  BY <1>1, <1>2 DEF ChannelsDiffer, Pipe
<1>4. \A c : Exists(dev, c) => /\ HasPipe(dev, c)
                               /\ PipeOf(dev, c) \in ToSet(dev.pipes)
                               /\ dev.node[PipeOf(dev, c)].channel = c
  BY <1>1, LookupRecords DEF Linked
<1> QED BY <1>1, <1>2, <1>3, <1>4 DEF Linked, ChannelsDiffer

-----------------------------------------------------------------------------
(* Every reachable state satisfies the inductive invariant.                *)
THEOREM Invariant == Spec => []IInv
BY InitIInv, NextIInv, PTL DEF Spec

(* The device's record, the guest and its handler are of their types.      *)
THEOREM TypeCorrect == Spec => []TypeOK
<1>1. IInv => TypeOK
  BY DEF IInv
<1> QED BY <1>1, Invariant, PTL

(* The interrupt handler's list never holds a pipe twice, nor one that     *)
(* CMD_CLOSE has freed.                                                    *)
THEOREM NoDanglingPipe == Spec => []SignaledAreLive
<1>1. IInv => SignaledAreLive
  BY DEF IInv, Linked, SignaledAreLive, Signaled
<1> QED BY <1>1, Invariant, PTL

(* The line is high while a pipe waits to be reported.                     *)
THEOREM LineStaysHigh == Spec => []SignalHoldsLine
<1>1. IInv => SignalHoldsLine
  BY DEF IInv, Linked, SignalHoldsLine
<1> QED BY <1>1, Invariant, PTL

(* No event a service raised is forgotten before the guest reads it.       *)
THEOREM NoEventForgotten == Spec => []RaisedStaysPending
<1>1. IInv => RaisedStaysPending
  BY DEF IInv, Pending, RaisedStaysPending, Signaled
<1> QED BY <1>1, Invariant, PTL

(* A guest thread that sleeps can still be woken.                          *)
THEOREM SleepersCanBeWoken == Spec => []NoDeafSleeper
BY IInvNoDeafSleeper, Invariant, PTL

-----------------------------------------------------------------------------
(* The refinement of PipeEvents.                                           *)

SignaledAreRaised(d, r) == \A p \in ToSet(d.signaled) : r[p] # {}
EventsInv == IInv /\ SignaledAreRaised(dev, raised)

(* The mapped variables, of a device record and the history of raises.     *)
OnAt(d, c) == {p \in ToSet(d.pipes) : d.node[p].channel = c}
DueAt(d, r) == [c \in Channel |-> UNION {r[p] : p \in OnAt(d, c)}]
AskedAt(d, r) == [c \in Channel |-> UNION {d.node[p].wanted \ r[p] : p \in OnAt(d, c)}]
OpenAt(d) == {c \in Channel : OnAt(d, c) # {}}

-----------------------------------------------------------------------------
(* What a service's call changes of a record, and no more: p records the   *)
(* flags, and is listed only if there are any.                             *)
Exactly(d, e, p, flags) ==
  /\ e.pipes = d.pipes /\ e.wakes = d.wakes
  /\ \A q \in PipeId : e.node[q].channel = d.node[q].channel
  /\ \A q \in PipeId \ {p} : e.node[q].wanted = d.node[q].wanted
  /\ e.node[p].wanted = d.node[p].wanted \cup flags
  /\ ToSet(e.signaled) \subseteq ToSet(d.signaled) \cup {q \in {p} : flags # {}}

LEMMA WakeExactly ==
  ASSUME NEW d \in Device, Linked(d),
         NEW p \in ToSet(d.pipes), NEW flags \in SUBSET Event, flags # {}
  PROVE  Exactly(d, goldfish_pipe_wake(d, p, flags), p, flags)
<1> DEFINE e == goldfish_pipe_wake(d, p, flags)
<1>1. /\ Grows(d, e) /\ e.node[p].wanted = d.node[p].wanted \cup flags
      /\ \A q \in PipeId \ {p} : e.node[q] = d.node[q]
  BY WakeFacts
<1>2. ToSet(e.signaled) \subseteq ToSet(d.signaled) \cup {p}
  <2>1. p \in PipeId /\ d.signaled \in Seq(PipeId) /\ IsInjective(d.signaled)
    BY DEF Device, ToSet, Linked
  <2>2. e.signaled = IF p \in ToSet(d.signaled) THEN d.signaled ELSE <<p>> \o d.signaled
    BY DEF goldfish_pipe_wake, Device
  <2> QED BY <2>1, <2>2, ConsFacts
<1> QED BY <1>1, <1>2 DEF Grows, Exactly

LEMMA CloseExactly ==
  ASSUME NEW d \in Device, Linked(d), NEW p \in ToSet(d.pipes)
  PROVE  Exactly(d, goldfish_pipe_close(d, p), p, {x \in {"CLOSED"} : ~ d.node[p].closed})
<1>1. CASE d.node[p].closed
  BY <1>1 DEF goldfish_pipe_close, Exactly
<1>2. CASE ~ d.node[p].closed
  <2> DEFINE n == [d.node EXCEPT ![p].closed = TRUE]
             m == [d EXCEPT !.node = n]
             e == goldfish_pipe_close(d, p)
  <2>1. /\ p \in PipeId /\ d.node \in [PipeId -> Pipe] /\ d.node[p] \in Pipe
        /\ e = goldfish_pipe_wake(m, p, {"CLOSED"})
    BY <1>2 DEF goldfish_pipe_close, Device, ToSet
  <2>2. /\ n \in [PipeId -> Pipe]
        /\ \A q \in PipeId : /\ n[q].channel = d.node[q].channel
                             /\ n[q].wanted = d.node[q].wanted
    <3>1. n[p] \in Pipe /\ n[p].channel = d.node[p].channel
          /\ n[p].wanted = d.node[p].wanted
      BY <2>1 DEF Pipe
    <3>2. \A q \in PipeId \ {p} : n[q] = d.node[q]
      BY <2>1
    <3> QED BY <2>1, <3>1, <3>2
  <2> HIDE DEF n
  <2>3. /\ m \in Device
        /\ m.pipes = d.pipes /\ m.signaled = d.signaled /\ m.node = n
        /\ m.irq = d.irq /\ m.wakes = d.wakes
    BY <2>2 DEF Device
  <2> HIDE DEF m
  <2>4. Linked(m) /\ {"CLOSED"} \in SUBSET Event /\ {"CLOSED"} # {}
    BY <2>3 DEF Linked, Event
  <2>5. Exactly(m, e, p, {"CLOSED"})
    BY <2>1, <2>3, <2>4, WakeExactly
  <2>6. {x \in {"CLOSED"} : ~ d.node[p].closed} = {"CLOSED"}
    BY <1>2
  <2> HIDE DEF e
  <2> QED BY <2>1, <2>2, <2>3, <2>5, <2>6 DEF Exactly, e
<1> QED BY <1>1, <1>2

LEMMA RaiseExactly ==
  ASSUME NEW d \in Device, Linked(d),
         NEW p \in ToSet(d.pipes), NEW events \in SUBSET Event
  PROVE  Exactly(d, Raise(d, p, events), p, Fresh(d, p, events))
<1> DEFINE io == events \ {"CLOSED"}
           w == IF io = {} THEN d ELSE goldfish_pipe_wake(d, p, io)
           cl == {x \in {"CLOSED"} : ~ d.node[p].closed}
           e == Raise(d, p, events)
<1>1. /\ w \in Device /\ Linked(w) /\ w.node[p].closed = d.node[p].closed
      /\ p \in ToSet(w.pipes) /\ Exactly(d, w, p, io)
  <2>1. CASE io = {}
    BY <2>1 DEF Exactly
  <2>2. CASE io # {}
    BY <2>2, WakeFacts, WakeExactly DEF Grows
  <2> QED BY <2>1, <2>2
<1>2. e = IF "CLOSED" \in events THEN goldfish_pipe_close(w, p) ELSE w
  BY DEF Raise
<1> HIDE DEF w, e
<1>3. CASE "CLOSED" \notin events
  <2>1. Fresh(d, p, events) = io
    BY <1>3 DEF Fresh
  <2> QED BY <1>1, <1>2, <1>3, <2>1 DEF e
<1>4. CASE "CLOSED" \in events
  <2>1. Exactly(w, e, p, cl)
    BY <1>1, <1>2, <1>4, CloseExactly
  <2>2. Fresh(d, p, events) = io \cup cl
    BY <1>4 DEF Fresh
  <2> HIDE DEF io, cl
  <2>3. Exactly(d, e, p, io \cup cl)
    BY <1>1, <2>1 DEF Exactly
  <2> QED BY <2>2, <2>3 DEF e
<1> QED BY <1>3, <1>4

-----------------------------------------------------------------------------
(* One channel has one pipe, so what is due on the channel is what was     *)
(* raised on the pipe.                                                     *)
LEMMA AtChannel ==
  ASSUME NEW d \in Device, ChannelsDiffer(d), NEW r \in [PipeId -> SUBSET Event],
         NEW p \in ToSet(d.pipes)
  PROVE  LET c == d.node[p].channel
         IN  /\ p \in PipeId /\ c \in Channel
             /\ OnAt(d, c) = {p} /\ c \in OpenAt(d)
             /\ DueAt(d, r)[c] = r[p]
             /\ AskedAt(d, r)[c] = d.node[p].wanted \ r[p]
<1> DEFINE c == d.node[p].channel
<1>1. p \in PipeId /\ c \in Channel
  BY DEF Device, Pipe, ToSet, ChannelsDiffer
<1>2. OnAt(d, c) = {p}
  BY DEF OnAt, ChannelsDiffer
<1>3. DueAt(d, r)[c] = UNION {r[q] : q \in {p}}
  BY <1>1, <1>2 DEF DueAt
<1>4. AskedAt(d, r)[c] = UNION {d.node[q].wanted \ r[q] : q \in {p}}
  BY <1>1, <1>2 DEF AskedAt
<1>5. c \in OpenAt(d)
  BY <1>1, <1>2 DEF OpenAt
<1> HIDE DEF c
<1> QED BY <1>1, <1>2, <1>3, <1>4, <1>5 DEF c

LEMMA AtNoPipe ==
  ASSUME NEW d, NEW r, NEW c \in Channel, OnAt(d, c) = {}
  PROVE  DueAt(d, r)[c] = {} /\ AskedAt(d, r)[c] = {} /\ c \notin OpenAt(d)
<1>1. DueAt(d, r)[c] = UNION {r[q] : q \in {}}
  BY DEF DueAt
<1>2. AskedAt(d, r)[c] = UNION {d.node[q].wanted \ r[q] : q \in {}}
  BY DEF AskedAt
<1> QED BY <1>1, <1>2 DEF OpenAt

(* A channel's pipe, if it has one.                                        *)
LEMMA ChannelCases ==
  ASSUME NEW d, NEW c \in Channel
  PROVE  \/ OnAt(d, c) = {}
         \/ \E p \in ToSet(d.pipes) : d.node[p].channel = c
BY DEF OnAt

LEMMA AtTypes ==
  ASSUME NEW d \in Device, ChannelsDiffer(d), NEW r \in [PipeId -> SUBSET Event]
  PROVE  DueAt(d, r) \in [Channel -> SUBSET Event]
<1> SUFFICES ASSUME NEW c \in Channel PROVE DueAt(d, r)[c] \in SUBSET Event
  BY DEF DueAt
<1>1. CASE OnAt(d, c) = {}
  BY <1>1, AtNoPipe
<1>2. ASSUME NEW p \in ToSet(d.pipes), d.node[p].channel = c
      PROVE  DueAt(d, r)[c] \in SUBSET Event
  BY <1>2, AtChannel
<1> QED BY <1>1, <1>2, ChannelCases

-----------------------------------------------------------------------------
(* Whatever a service does while it runs is a Raise: what it raises is due *)
(* on an open channel, and no longer merely asked for.                     *)
RaisesAt(channels, d, r) ==
  /\ DueAt(dev', raised') \in [Channel -> SUBSET Event]
  /\ \A c \in Channel :
       /\ DueAt(d, r)[c] \subseteq DueAt(dev', raised')[c]
       /\ c \notin channels => DueAt(dev', raised')[c] = DueAt(d, r)[c]
       /\ AskedAt(dev', raised')[c] = AskedAt(d, r)[c] \ DueAt(dev', raised')[c]

LEMMA RunsRaise ==
  ASSUME NEW d \in Device, NEW r \in [PipeId -> SUBSET Event],
         Linked(d), ChannelsDiffer(d), Pending(d, r), SignaledAreRaised(d, r),
         ServiceRuns(d, r)
  PROVE  /\ RaisesAt(OpenAt(d), d, r) /\ OpenAt(dev') = OpenAt(d)
         /\ SignaledAreRaised(dev', raised') /\ dev'.wakes = d.wakes
<1>1. CASE dev' = d /\ raised' = r
  <2>1. ASSUME NEW c \in Channel
        PROVE  AskedAt(d, r)[c] = AskedAt(d, r)[c] \ DueAt(d, r)[c]
    <3>1. CASE OnAt(d, c) = {}
      BY <3>1, AtNoPipe
    <3>2. ASSUME NEW p \in ToSet(d.pipes), d.node[p].channel = c
          PROVE  AskedAt(d, r)[c] = AskedAt(d, r)[c] \ DueAt(d, r)[c]
      BY <3>2, AtChannel
    <3> QED BY <3>1, <3>2, ChannelCases
  <2> QED BY <1>1, <2>1, AtTypes DEF RaisesAt
<1>2. CASE \E p \in Served(d), events \in Raisable :
             /\ dev' = Raise(d, p, events)
             /\ raised' = [r EXCEPT ![p] = @ \cup Fresh(d, p, events)]
  <2>1. PICK p \in Served(d), events \in Raisable :
          /\ dev' = Raise(d, p, events)
          /\ raised' = [r EXCEPT ![p] = @ \cup Fresh(d, p, events)]
    BY <1>2
  <2>2. p \in ToSet(d.pipes) /\ p \in PipeId /\ events \in SUBSET Event
    BY RaisableAssumption DEF Served, Device, ToSet
  <2> DEFINE f == Fresh(d, p, events)
  <2>3. Exactly(d, dev', p, f)
    BY <2>1, <2>2, RaiseExactly
  <2>4. /\ dev' \in Device /\ ChannelsDiffer(dev')
        /\ raised' \in [PipeId -> SUBSET Event]
    BY ServiceRunsFacts
  <2>5. raised'[p] = r[p] \cup f /\ \A q \in PipeId \ {p} : raised'[q] = r[q]
    BY <2>1, <2>2
  <2> HIDE DEF f
  <2>6. /\ ToSet(dev'.pipes) = ToSet(d.pipes) /\ ToSet(d.pipes) \subseteq PipeId
        /\ \A c \in Channel : OnAt(dev', c) = OnAt(d, c)
    BY <2>3 DEF Exactly, OnAt, Device, ToSet
  <2>7. SignaledAreRaised(dev', raised')
    <3>1. ToSet(d.signaled) \subseteq PipeId
      BY DEF Device, ToSet
    <3> QED BY <2>2, <2>3, <2>5, <3>1 DEF Exactly, SignaledAreRaised
  <2> DEFINE D == DueAt(dev', raised')
             A == AskedAt(dev', raised')
  <2>8. ASSUME NEW c \in Channel
        PROVE  /\ DueAt(d, r)[c] \subseteq D[c]
               /\ c \notin OpenAt(d) => D[c] = DueAt(d, r)[c]
               /\ A[c] = AskedAt(d, r)[c] \ D[c]
    <3>1. CASE OnAt(d, c) = {}
      BY <2>6, <3>1, AtNoPipe
    <3>2. ASSUME NEW q \in ToSet(d.pipes), d.node[q].channel = c
          PROVE  /\ DueAt(d, r)[c] \subseteq D[c]
                 /\ c \in OpenAt(d)
                 /\ A[c] = AskedAt(d, r)[c] \ D[c]
      <4>1. /\ DueAt(d, r)[c] = r[q] /\ AskedAt(d, r)[c] = d.node[q].wanted \ r[q]
            /\ c \in OpenAt(d) /\ q \in PipeId
        BY <3>2, AtChannel
      <4>2. q \in ToSet(dev'.pipes) /\ dev'.node[q].channel = c
        BY <2>3, <2>6, <3>2, <4>1 DEF Exactly
      <4>3. D[c] = raised'[q] /\ A[c] = dev'.node[q].wanted \ raised'[q]
        BY <2>4, <4>2, AtChannel
      <4>4. CASE q = p
        BY <2>3, <2>5, <4>1, <4>3, <4>4 DEF Exactly
      <4>5. CASE q # p
        <5>1. raised'[q] = r[q] /\ dev'.node[q].wanted = d.node[q].wanted
          BY <2>3, <2>5, <4>1, <4>5 DEF Exactly
        <5> QED BY <4>1, <4>3, <5>1
      <4> QED BY <4>4, <4>5
    <3> QED BY <3>1, <3>2, ChannelCases
  <2>9. D \in [Channel -> SUBSET Event]
    BY <2>4, AtTypes
  <2>10. OpenAt(dev') = OpenAt(d)
    BY <2>6 DEF OpenAt
  <2> QED BY <2>3, <2>7, <2>8, <2>9, <2>10 DEF RaisesAt, Exactly
<1> QED BY <1>1, <1>2 DEF ServiceRuns
-----------------------------------------------------------------------------
(* The mapping in terms of the operators above.                            *)
LEMMA Mapped ==
  /\ {c \in Channel : On(c) # {}} = OpenAt(dev)
  /\ [c \in Channel |-> DueOn(c)] = DueAt(dev, raised)
  /\ [c \in Channel |-> AskedOn(c)] = AskedAt(dev, raised)
BY DEF On, DueOn, AskedOn, OpenAt, OnAt, DueAt, AskedAt

LEMMA MappedNext ==
  /\ {c \in Channel : On(c) # {}}' = OpenAt(dev')
  /\ [c \in Channel |-> DueOn(c)]' = DueAt(dev', raised')
  /\ [c \in Channel |-> AskedOn(c)]' = AskedAt(dev', raised')
BY DEF On, DueOn, AskedOn, OpenAt, OnAt, DueAt, AskedAt

LEMMA RaisesMapped ==
  ASSUME NEW channels, NEW d, NEW r, RaisesAt(channels, d, r)
  PROVE  Events!Raises(channels, DueAt(d, r), AskedAt(d, r))
<1>1. AskedAt(dev', raised') =
        [c \in Channel |-> AskedAt(d, r)[c] \ DueAt(dev', raised')[c]]
  <2>1. AskedAt(dev', raised') = [c \in Channel |-> AskedAt(dev', raised')[c]]
    BY DEF AskedAt
  <2> QED BY <2>1 DEF RaisesAt
<1> QED BY <1>1, MappedNext DEF Events!Raises, RaisesAt

(* The guest is told something, or is not, by what the handler holds.      *)
TalkUnchanged == isr' = isr /\ dev'.wakes = dev.wakes

LEMMA TalkMapped == TalkUnchanged => UNCHANGED Events!talk
BY DEF TalkUnchanged, Events!talk, Told

(* Steps in which a service runs on the record the command leaves behind,  *)
(* and the command has changed nothing that is mapped.                     *)
LEMMA RaiseMapped ==
  ASSUME EventsInv, NEW d \in Device,
         Linked(d), ChannelsDiffer(d), Pending(d, raised), SignaledAreRaised(d, raised),
         OpenAt(d) = OpenAt(dev), DueAt(d, raised) = DueAt(dev, raised),
         AskedAt(d, raised) = AskedAt(dev, raised), d.wakes = dev.wakes,
         ServiceRuns(d, raised), isr' = isr
  PROVE  Events!Raise /\ SignaledAreRaised(dev', raised')
<1>1. raised \in [PipeId -> SUBSET Event]
  BY DEF EventsInv, IInv, TypeOK
<1>2. /\ RaisesAt(OpenAt(d), d, raised) /\ OpenAt(dev') = OpenAt(d)
      /\ SignaledAreRaised(dev', raised') /\ dev'.wakes = d.wakes
  BY <1>1, RunsRaise
<1>3. Events!Raises(OpenAt(dev), DueAt(dev, raised), AskedAt(dev, raised))
  BY <1>2, RaisesMapped
<1>4. UNCHANGED Events!talk
  BY <1>2, TalkMapped DEF TalkUnchanged
<1> QED BY <1>2, <1>3, <1>4, Mapped, MappedNext DEF Events!Raise

LEMMA ServiceMapped ==
  ASSUME EventsInv,
         \/ ServiceEvent
         \/ \E c \in Channel, e \in IoEvent : Transfer(c, e)
  PROVE  Events!Raise /\ SignaledAreRaised(dev', raised')
<1>1. ServiceRuns(dev, raised) /\ isr' = isr
  BY DEF ServiceEvent, Transfer, ServiceRuns, guest
<1> QED BY <1>1, RaiseMapped DEF EventsInv, IInv, TypeOK

LEMMA ConnectMapped ==
  ASSUME EventsInv, NEW c \in Channel, Connect(c)
  PROVE  Events!Raise /\ SignaledAreRaised(dev', raised')
<1> DEFINE p == PipeOf(dev, c)
<1>1. dev \in Device /\ Linked(dev) /\ ChannelsDiffer(dev) /\ Pending(dev, raised)
  BY DEF EventsInv, IInv, TypeOK
<1>2. p \in PipeId
  BY <1>1, LookupRecords DEF Connect, Refuses, Linked
<1>3. PICK svc \in Service : ServiceRuns(Serve(dev, p, svc), raised)
  BY DEF Connect
<1> DEFINE d == Serve(dev, p, svc)
<1>4. /\ d \in Device /\ Linked(d) /\ ChannelsDiffer(d)
      /\ d.pipes = dev.pipes /\ d.signaled = dev.signaled /\ d.wakes = dev.wakes
      /\ \A q \in PipeId : /\ d.node[q].channel = dev.node[q].channel
                           /\ d.node[q].wanted = dev.node[q].wanted
  BY <1>1, <1>2, ConnectFacts
<1>5. ServiceRuns(d, raised) /\ isr' = isr
  BY <1>3 DEF Connect, guest
<1> HIDE DEF d, p
<1>6. ToSet(dev.pipes) \subseteq PipeId
  BY <1>1 DEF Device, ToSet
<1>7. Pending(d, raised) /\ SignaledAreRaised(d, raised)
  BY <1>1, <1>4 DEF Pending, EventsInv, SignaledAreRaised
<1>8. \A k \in Channel : OnAt(d, k) = OnAt(dev, k)
  BY <1>4, <1>6 DEF OnAt
<1>9. /\ OpenAt(d) = OpenAt(dev) /\ DueAt(d, raised) = DueAt(dev, raised)
      /\ AskedAt(d, raised) = AskedAt(dev, raised)
  <2>1. \A k \in Channel : OnAt(dev, k) \subseteq PipeId
    BY <1>6 DEF OnAt
  <2>2. \A k \in Channel : {d.node[q].wanted \ raised[q] : q \in OnAt(d, k)}
                            = {dev.node[q].wanted \ raised[q] : q \in OnAt(dev, k)}
    BY <1>4, <1>8, <2>1
  <2> QED BY <1>8, <2>2 DEF OpenAt, DueAt, AskedAt
<1> QED BY <1>4, <1>5, <1>7, <1>9, RaiseMapped
-----------------------------------------------------------------------------
(* The commands that open, close and ask.                                  *)
LEMMA OpenMapped ==
  ASSUME EventsInv, NEW c \in Channel, Open(c)
  PROVE  Events!Open(c) /\ SignaledAreRaised(dev', raised')
<1>1. PICK p \in PipeId \ ToSet(dev.pipes) :
        dev' = pipe_new(dev, c, p) /\ raised' = [raised EXCEPT ![p] = {}]
  BY DEF Open
<1>2. /\ dev \in Device /\ Linked(dev) /\ ChannelsDiffer(dev)
      /\ raised \in [PipeId -> SUBSET Event] /\ SignaledAreRaised(dev, raised)
      /\ ToSet(dev.pipes) \subseteq PipeId
      /\ ToSet(dev.signaled) \subseteq ToSet(dev.pipes)
  BY DeviceFacts DEF EventsInv, IInv, TypeOK
<1>3. ~ HasPipe(dev, c) /\ isr' = isr
  BY DEF Open
<1>4. /\ dev' \in Device /\ ChannelsDiffer(dev')
      /\ ToSet(dev'.pipes) = ToSet(dev.pipes) \cup {p}
      /\ dev'.signaled = dev.signaled /\ dev'.wakes = dev.wakes
      /\ \A q \in PipeId \ {p} : dev'.node[q] = dev.node[q]
  BY <1>1, <1>2, <1>3, PipeNewFacts
<1>5. dev'.node[p].channel = c /\ dev'.node[p].wanted = {}
  <2>1. dev'.node[p] = [FreePipe EXCEPT !.channel = c]
    BY <1>1, <1>2 DEF pipe_new, Device
  <2> QED BY <2>1 DEF FreePipe
<1>6. /\ raised' \in [PipeId -> SUBSET Event] /\ raised'[p] = {}
      /\ \A q \in PipeId \ {p} : raised'[q] = raised[q]
  BY <1>1, <1>2
<1>7. OnAt(dev, c) = {}
  BY <1>2, <1>3, LookupRecords DEF OnAt, Exists, Linked
<1>8. \A k \in Channel \ {c} : OnAt(dev', k) = OnAt(dev, k)
  BY <1>2, <1>4, <1>5 DEF OnAt
<1>9. p \in OnAt(dev', c)
  BY <1>4, <1>5 DEF OnAt
<1>10. OpenAt(dev') = OpenAt(dev) \cup {c} /\ c \notin OpenAt(dev)
  BY <1>7, <1>8, <1>9 DEF OpenAt
<1>11. ASSUME NEW k \in Channel
       PROVE  /\ DueAt(dev', raised')[k] = DueAt(dev, raised)[k]
              /\ AskedAt(dev', raised')[k] = AskedAt(dev, raised)[k]
  <2>1. CASE k = c
    <3>1. DueAt(dev', raised')[c] = {} /\ AskedAt(dev', raised')[c] = {}
      BY <1>4, <1>5, <1>6, AtChannel
    <3> QED BY <1>7, <2>1, <3>1, AtNoPipe
  <2>2. CASE k # c /\ OnAt(dev, k) = {}
    BY <1>8, <2>2, AtNoPipe
  <2>3. ASSUME k # c, NEW q \in ToSet(dev.pipes), dev.node[q].channel = k
        PROVE  /\ DueAt(dev', raised')[k] = DueAt(dev, raised)[k]
               /\ AskedAt(dev', raised')[k] = AskedAt(dev, raised)[k]
    <3>1. /\ q \in ToSet(dev'.pipes) /\ dev'.node[q] = dev.node[q]
          /\ raised'[q] = raised[q]
      BY <1>2, <1>4, <1>6, <2>3
    <3>2. DueAt(dev, raised)[k] = raised[q] /\ AskedAt(dev, raised)[k] = dev.node[q].wanted \ raised[q]
      BY <1>2, <2>3, AtChannel
    <3>3. /\ DueAt(dev', raised')[k] = raised'[q]
          /\ AskedAt(dev', raised')[k] = dev'.node[q].wanted \ raised'[q]
      BY <1>4, <1>6, <2>3, <3>1, AtChannel
    <3> QED BY <3>1, <3>2, <3>3
  <2> QED BY <2>1, <2>2, <2>3, ChannelCases
<1>12. /\ DueAt(dev', raised') = DueAt(dev, raised)
       /\ AskedAt(dev', raised') = AskedAt(dev, raised)
  BY <1>11 DEF DueAt, AskedAt
<1>13. UNCHANGED Events!talk
  BY <1>3, <1>4, TalkMapped DEF TalkUnchanged
<1>14. SignaledAreRaised(dev', raised')
  BY <1>2, <1>4, <1>6 DEF SignaledAreRaised
<1> QED BY <1>10, <1>12, <1>13, <1>14, Mapped, MappedNext DEF Events!Open

(* CMD_CLOSE forgets what was due on the channel; the service it calls may *)
(* then raise on others.                                                   *)
LEMMA CloseMapped ==
  ASSUME EventsInv, NEW c \in Channel, Close(c), HasPipe(dev, c)
  PROVE  Events!Close(c) /\ SignaledAreRaised(dev', raised')
<1> DEFINE p == PipeOf(dev, c)
           d == pipe_free(dev, c)
           r == [raised EXCEPT ![p] = {}]
<1>1. /\ dev \in Device /\ Linked(dev) /\ ChannelsDiffer(dev)
      /\ raised \in [PipeId -> SUBSET Event] /\ SignaledAreRaised(dev, raised)
      /\ Pending(dev, raised)
      /\ ToSet(dev.pipes) \subseteq PipeId
      /\ ToSet(dev.signaled) \subseteq ToSet(dev.pipes)
  BY DeviceFacts DEF EventsInv, IInv, TypeOK
<1>2. p \in ToSet(dev.pipes) /\ p \in PipeId /\ dev.node[p].channel = c
  BY <1>1, LookupRecords DEF Linked
<1>3. ServiceRuns(d, r) /\ isr' = isr
  BY DEF Close
<1>4. /\ d \in Device /\ Linked(d) /\ ChannelsDiffer(d)
      /\ ToSet(d.pipes) = ToSet(dev.pipes) \ {p}
      /\ ToSet(d.signaled) = ToSet(dev.signaled) \ {p}
      /\ d.wakes = dev.wakes
      /\ \A q \in PipeId \ {p} : d.node[q] = dev.node[q]
  BY <1>1, PipeFreeFacts
<1>5. /\ r \in [PipeId -> SUBSET Event] /\ r[p] = {}
      /\ \A q \in PipeId \ {p} : r[q] = raised[q]
  BY <1>1, <1>2
<1> HIDE DEF d, r, p
<1>6. Pending(d, r) /\ SignaledAreRaised(d, r)
  BY <1>1, <1>4, <1>5 DEF Pending, SignaledAreRaised
<1>7. /\ RaisesAt(OpenAt(d), d, r) /\ OpenAt(dev') = OpenAt(d)
      /\ SignaledAreRaised(dev', raised') /\ dev'.wakes = d.wakes
  BY <1>3, <1>4, <1>5, <1>6, RunsRaise
<1>8. \A q \in ToSet(dev.pipes) : dev.node[q].channel = c => q = p
  BY <1>1, <1>2 DEF ChannelsDiffer
<1>9. OnAt(d, c) = {}
  BY <1>1, <1>4, <1>8 DEF OnAt
<1>10. \A k \in Channel \ {c} : OnAt(d, k) = OnAt(dev, k)
  BY <1>1, <1>2, <1>4 DEF OnAt
<1>11. OpenAt(d) = OpenAt(dev) \ {c} /\ c \in OpenAt(dev)
  <2>1. p \in OnAt(dev, c)
    BY <1>2 DEF OnAt
  <2> QED BY <1>9, <1>10, <2>1 DEF OpenAt
<1>12. ASSUME NEW k \in Channel
       PROVE  /\ DueAt(d, r)[k] = [DueAt(dev, raised) EXCEPT ![c] = {}][k]
              /\ AskedAt(d, r)[k] = [AskedAt(dev, raised) EXCEPT ![c] = {}][k]
  <2>1. /\ [DueAt(dev, raised) EXCEPT ![c] = {}][k]
              = IF k = c THEN {} ELSE DueAt(dev, raised)[k]
        /\ [AskedAt(dev, raised) EXCEPT ![c] = {}][k]
              = IF k = c THEN {} ELSE AskedAt(dev, raised)[k]
    BY DEF DueAt, AskedAt
  <2>2. CASE k = c
    BY <1>9, <2>1, <2>2, AtNoPipe
  <2>3. CASE k # c /\ OnAt(dev, k) = {}
    BY <1>10, <2>1, <2>3, AtNoPipe
  <2>4. ASSUME k # c, NEW q \in ToSet(dev.pipes), dev.node[q].channel = k
        PROVE  /\ DueAt(d, r)[k] = DueAt(dev, raised)[k]
               /\ AskedAt(d, r)[k] = AskedAt(dev, raised)[k]
    <3>1. q \in ToSet(d.pipes) /\ d.node[q] = dev.node[q] /\ r[q] = raised[q]
      BY <1>1, <1>2, <1>4, <1>5, <2>4
    <3>2. DueAt(dev, raised)[k] = raised[q] /\ AskedAt(dev, raised)[k] = dev.node[q].wanted \ raised[q]
      BY <1>1, <2>4, AtChannel
    <3>3. DueAt(d, r)[k] = r[q] /\ AskedAt(d, r)[k] = d.node[q].wanted \ r[q]
      BY <1>4, <1>5, <2>4, <3>1, AtChannel
    <3> QED BY <3>1, <3>2, <3>3
  <2> QED BY <2>1, <2>2, <2>3, <2>4, ChannelCases
<1>13. /\ DueAt(d, r) = [DueAt(dev, raised) EXCEPT ![c] = {}]
       /\ AskedAt(d, r) = [AskedAt(dev, raised) EXCEPT ![c] = {}]
  BY <1>12 DEF DueAt, AskedAt
<1>14. UNCHANGED Events!talk
  BY <1>3, <1>4, <1>7, TalkMapped DEF TalkUnchanged
<1>15. Events!Raises(OpenAt(d), DueAt(d, r), AskedAt(d, r))
  BY <1>7, RaisesMapped
<1> QED BY <1>7, <1>11, <1>13, <1>14, <1>15, Mapped, MappedNext DEF Events!Close
(* CMD_WAKE_ON_*: an event that is due need not be asked for.              *)
LEMMA WakeOnMapped ==
  ASSUME EventsInv, NEW c \in Channel, NEW e \in IoEvent, WakeOn(c, e)
  PROVE  (Events!Ask(c, e) \/ UNCHANGED Events!vars) /\ SignaledAreRaised(dev', raised')
<1> DEFINE p == PipeOf(dev, c)
           d == AddWanted(dev, p, e)
<1>1. /\ dev \in Device /\ Linked(dev) /\ ChannelsDiffer(dev)
      /\ raised \in [PipeId -> SUBSET Event] /\ SignaledAreRaised(dev, raised)
      /\ Pending(dev, raised)
      /\ ToSet(dev.pipes) \subseteq PipeId
  BY DeviceFacts DEF EventsInv, IInv, TypeOK
<1>2. isr' = isr
  BY DEF WakeOn
<1>3. CASE dev' = dev /\ raised' = raised
  <2>1. UNCHANGED Events!talk
    BY <1>2, <1>3, TalkMapped DEF TalkUnchanged
  <2> QED BY <1>1, <1>3, <2>1, Mapped, MappedNext DEF Events!vars
<1>4. CASE ~ Refuses(dev, c) /\ ~ WantsWake(dev, p, e) /\ ServiceRuns(d, raised)
  <2>1. p \in ToSet(dev.pipes) /\ p \in PipeId /\ dev.node[p].channel = c
    BY <1>1, <1>4, LookupRecords DEF Linked, Refuses
  <2>2. /\ d \in Device /\ Linked(d) /\ Grows(dev, d) /\ d.signaled = dev.signaled
        /\ d.node[p].wanted = dev.node[p].wanted \cup {e}
    BY <1>1, <2>1, AddWantedFacts DEF Event
  <2>3. \A q \in PipeId \ {p} : d.node[q] = dev.node[q]
    BY <1>1, <2>1 DEF AddWanted, Device
  <2>4. e \notin dev.node[p].wanted /\ e \notin raised[p]
    BY <1>1, <1>4, <2>1 DEF WantsWake, Pending
  <2> HIDE DEF p, d
  <2>5. ChannelsDiffer(d)
    BY <1>1, <2>2 DEF ChannelsDiffer, Grows
  <2>6. Pending(d, raised) /\ SignaledAreRaised(d, raised)
    BY <1>1, <2>2 DEF Pending, SignaledAreRaised, Grows
  <2>7. /\ RaisesAt(OpenAt(d), d, raised) /\ OpenAt(dev') = OpenAt(d)
        /\ SignaledAreRaised(dev', raised') /\ dev'.wakes = d.wakes
    BY <1>1, <1>4, <2>2, <2>5, <2>6, RunsRaise
  <2>8. \A k \in Channel : OnAt(d, k) = OnAt(dev, k)
    BY <1>1, <2>2 DEF OnAt, Grows
  <2>9. OpenAt(d) = OpenAt(dev) /\ DueAt(d, raised) = DueAt(dev, raised)
    BY <2>8 DEF OpenAt, DueAt
  <2>10. c \in OpenAt(dev) /\ DueAt(dev, raised)[c] = raised[p]
    BY <1>1, <2>1, AtChannel
  <2>11. ASSUME NEW k \in Channel
         PROVE  AskedAt(d, raised)[k] = [AskedAt(dev, raised) EXCEPT ![c] = @ \cup {e}][k]
    <3>1. [AskedAt(dev, raised) EXCEPT ![c] = @ \cup {e}][k]
            = IF k = c THEN AskedAt(dev, raised)[c] \cup {e} ELSE AskedAt(dev, raised)[k]
      BY DEF AskedAt
    <3>2. CASE k = c
      <4>1. AskedAt(dev, raised)[c] = dev.node[p].wanted \ raised[p]
        BY <1>1, <2>1, AtChannel
      <4>2. p \in ToSet(d.pipes) /\ d.node[p].channel = c
        BY <2>1, <2>2 DEF Grows
      <4>3. AskedAt(d, raised)[c] = d.node[p].wanted \ raised[p]
        BY <1>1, <2>2, <2>5, <4>2, AtChannel
      <4> QED BY <2>2, <2>4, <3>1, <3>2, <4>1, <4>3
    <3>3. CASE k # c /\ OnAt(dev, k) = {}
      BY <2>8, <3>1, <3>3, AtNoPipe
    <3>4. ASSUME k # c, NEW q \in ToSet(dev.pipes), dev.node[q].channel = k
          PROVE  AskedAt(d, raised)[k] = AskedAt(dev, raised)[k]
      <4>1. q \in ToSet(d.pipes) /\ d.node[q] = dev.node[q]
        BY <1>1, <2>1, <2>2, <2>3, <3>4 DEF Grows
      <4>2. AskedAt(dev, raised)[k] = dev.node[q].wanted \ raised[q]
        BY <1>1, <3>4, AtChannel
      <4>3. AskedAt(d, raised)[k] = d.node[q].wanted \ raised[q]
        BY <1>1, <2>2, <2>5, <3>4, <4>1, AtChannel
      <4> QED BY <4>1, <4>2, <4>3
    <3> QED BY <3>1, <3>2, <3>3, <3>4, ChannelCases
  <2>12. AskedAt(d, raised) = [AskedAt(dev, raised) EXCEPT ![c] = @ \cup {e}]
    BY <2>11 DEF AskedAt
  <2>13. Events!Raises(OpenAt(d), DueAt(d, raised), AskedAt(d, raised))
    BY <2>7, RaisesMapped
  <2>14. UNCHANGED Events!talk
    BY <1>2, <2>2, <2>7, TalkMapped DEF TalkUnchanged, Grows
  <2>15. Events!Ask(c, e)
    <3>1. c \in OpenAt(dev) /\ e \notin DueAt(dev, raised)[c]
      BY <2>4, <2>10
    <3>2. Events!Raises(OpenAt(dev), DueAt(dev, raised),
                        [AskedAt(dev, raised) EXCEPT ![c] = @ \cup {e}])
      BY <2>9, <2>12, <2>13
    <3>3. OpenAt(dev') = OpenAt(dev)
      BY <2>7, <2>9
    <3> QED BY <3>1, <3>2, <3>3, <2>14, Mapped, MappedNext DEF Events!Ask
  <2> QED BY <2>7, <2>15
<1> QED BY <1>3, <1>4, <1>1 DEF WakeOn

-----------------------------------------------------------------------------
(* The handler.                                                            *)
LEMMA IsrChannelMapped ==
  ASSUME EventsInv, IsrChannel
  PROVE  /\ (\E c \in Channel : Events!Tell(c)) \/ Events!AllTold
         /\ SignaledAreRaised(dev', raised')
<1>1. /\ dev \in Device /\ Linked(dev) /\ ChannelsDiffer(dev)
      /\ raised \in [PipeId -> SUBSET Event] /\ SignaledAreRaised(dev, raised)
      /\ Pending(dev, raised) /\ isr \in Isr
      /\ ToSet(dev.pipes) \subseteq PipeId
      /\ ToSet(dev.signaled) \subseteq ToSet(dev.pipes)
  BY DeviceFacts DEF EventsInv, IInv, TypeOK
<1>2. isr.at = "list" /\ isr.chan = 0
  BY <1>1 DEF IsrChannel, Isr, Idle
<1>3. CASE dev.signaled = <<>>
  <2>1. isr' = Idle /\ dev' = dev /\ raised' = raised
    BY <1>3 DEF IsrChannel
  <2>2. ASSUME NEW c \in Channel PROVE DueAt(dev, raised)[c] = {}
    <3>1. \A p \in PipeId : raised[p] = {}
      BY <1>1, <1>3 DEF Pending, ToSet
    <3>2. CASE OnAt(dev, c) = {}
      BY <3>2, AtNoPipe
    <3>3. ASSUME NEW p \in ToSet(dev.pipes), dev.node[p].channel = c
          PROVE  DueAt(dev, raised)[c] = {}
      BY <1>1, <3>1, <3>3, AtChannel
    <3> QED BY <3>2, <3>3, ChannelCases
  <2>3. Events!AllTold
    BY <1>2, <2>1, <2>2, Mapped, MappedNext DEF Events!AllTold, Told, Idle
  <2> QED BY <1>1, <2>1, <2>3
<1>4. CASE dev.signaled # <<>>
  <2> DEFINE h == Head(dev.signaled)
             c == dev.node[h].channel
  <2>1. /\ dev' = PopSignaled(dev) /\ isr' = [at |-> "mask", chan |-> c]
        /\ raised' = [raised EXCEPT ![h] = {}]
    BY <1>4 DEF IsrChannel
  <2>2. /\ dev' \in Device /\ dev'.pipes = dev.pipes
        /\ h \in ToSet(dev.signaled) /\ h \in ToSet(dev.pipes) /\ h \in PipeId
        /\ ToSet(dev'.signaled) = ToSet(dev.signaled) \ {h}
        /\ dev'.wakes = dev.node[h].wanted
        /\ dev'.node[h].channel = dev.node[h].channel
        /\ \A q \in PipeId \ {h} : dev'.node[q] = dev.node[q]
    BY <1>1, <1>4, <2>1, PopFacts
  <2>3. dev'.node[h].wanted = {}
    <3>1. dev'.node[h] = [dev.node[h] EXCEPT !.wanted = {}] /\ dev.node[h] \in Pipe
      BY <1>1, <2>1, <2>2 DEF PopSignaled, Device
    <3> QED BY <3>1 DEF Pipe
  <2>4. /\ raised' \in [PipeId -> SUBSET Event] /\ raised'[h] = {}
        /\ \A q \in PipeId \ {h} : raised'[q] = raised[q]
    BY <1>1, <2>1, <2>2
  <2>5. c \in Channel /\ dev.node[h].channel = c /\ dev'.node[h].channel = c
        /\ DueAt(dev, raised)[c] = raised[h]
        /\ AskedAt(dev, raised)[c] = dev.node[h].wanted \ raised[h]
    BY <1>1, <2>2, AtChannel
  <2>6. raised[h] # {} /\ raised[h] \subseteq dev.node[h].wanted
    BY <1>1, <2>2 DEF SignaledAreRaised, Pending
  <2> HIDE DEF h, c
  <2>7. SignaledAreRaised(dev', raised')
    BY <1>1, <2>2, <2>4 DEF SignaledAreRaised
  <2>8. \A k \in Channel : OnAt(dev', k) = OnAt(dev, k)
    BY <1>1, <2>2 DEF OnAt
  <2>9. ChannelsDiffer(dev')
    BY <1>1, <2>2 DEF ChannelsDiffer
  <2>10. \A q \in ToSet(dev'.pipes) :
           /\ DueAt(dev', raised')[dev'.node[q].channel] = raised'[q]
           /\ AskedAt(dev', raised')[dev'.node[q].channel] = dev'.node[q].wanted \ raised'[q]
    <3>1. dev' \in Device
      BY <2>2
    <3> QED BY <2>4, <2>9, <3>1, AtChannel
  <2>11. ASSUME NEW k \in Channel
         PROVE  /\ DueAt(dev', raised')[k] = [DueAt(dev, raised) EXCEPT ![c] = {}][k]
                /\ AskedAt(dev', raised')[k] = [AskedAt(dev, raised) EXCEPT ![c] = {}][k]
    <3>1. /\ [DueAt(dev, raised) EXCEPT ![c] = {}][k]
                = IF k = c THEN {} ELSE DueAt(dev, raised)[k]
          /\ [AskedAt(dev, raised) EXCEPT ![c] = {}][k]
                = IF k = c THEN {} ELSE AskedAt(dev, raised)[k]
      BY DEF DueAt, AskedAt
    <3>2. CASE k = c
      <4>1. h \in ToSet(dev'.pipes) /\ dev'.node[h].channel = c
        BY <2>2, <2>5
      <4>2. /\ DueAt(dev', raised')[c] = raised'[h]
            /\ AskedAt(dev', raised')[c] = dev'.node[h].wanted \ raised'[h]
        BY <2>10, <4>1
      <4> QED BY <2>3, <2>4, <3>1, <3>2, <4>2
    <3>3. CASE k # c /\ OnAt(dev, k) = {}
      BY <2>8, <3>1, <3>3, AtNoPipe
    <3>4. ASSUME k # c, NEW q \in ToSet(dev.pipes), dev.node[q].channel = k
          PROVE  /\ DueAt(dev', raised')[k] = DueAt(dev, raised)[k]
                 /\ AskedAt(dev', raised')[k] = AskedAt(dev, raised)[k]
      <4>1. /\ q \in ToSet(dev'.pipes) /\ dev'.node[q] = dev.node[q]
            /\ raised'[q] = raised[q]
        BY <1>1, <2>2, <2>4, <2>5, <3>4
      <4>2. /\ DueAt(dev, raised)[k] = raised[q]
            /\ AskedAt(dev, raised)[k] = dev.node[q].wanted \ raised[q]
        BY <1>1, <3>4, AtChannel
      <4>3. /\ DueAt(dev', raised')[k] = raised'[q]
            /\ AskedAt(dev', raised')[k] = dev'.node[q].wanted \ raised'[q]
        BY <2>10, <3>4, <4>1
      <4> QED BY <4>1, <4>2, <4>3
    <3> QED BY <3>1, <3>2, <3>3, <3>4, ChannelCases
  <2>12. /\ DueAt(dev', raised') = [DueAt(dev, raised) EXCEPT ![c] = {}]
         /\ AskedAt(dev', raised') = [AskedAt(dev, raised) EXCEPT ![c] = {}]
    BY <2>11 DEF DueAt, AskedAt
  <2>13. OpenAt(dev') = OpenAt(dev)
    BY <2>8 DEF OpenAt
  <2>14. dev'.wakes = DueAt(dev, raised)[c] \cup AskedAt(dev, raised)[c]
    BY <2>2, <2>5, <2>6
  <2>15. /\ isr'.at = "mask" /\ isr'.chan = c /\ Told' = dev'.wakes
    BY <2>1 DEF Told
  <2>16. Events!Tell(c)
    BY <1>2, <2>5, <2>6, <2>12, <2>13, <2>14, <2>15, Mapped, MappedNext DEF Events!Tell
  <2> QED BY <2>5, <2>7, <2>16
<1> QED BY <1>3, <1>4
LEMMA IsrEnterMapped ==
  ASSUME EventsInv, IsrEnter
  PROVE  Events!Start /\ SignaledAreRaised(dev', raised')
<1>1. /\ isr.at = "idle" /\ isr.chan = 0
      /\ isr' = [at |-> "list", chan |-> 0] /\ dev' = dev /\ raised' = raised
  BY DEF IsrEnter, EventsInv, IInv, TypeOK, Isr, Idle
<1>2. Told = {} /\ Told' = {}
  BY <1>1 DEF Told
<1> QED BY <1>1, <1>2, Mapped, MappedNext DEF Events!Start, EventsInv

LEMMA IsrWakesMapped ==
  ASSUME EventsInv, IsrWakes
  PROVE  Events!Heard /\ SignaledAreRaised(dev', raised')
<1>1. /\ isr.at = "mask"
      /\ isr' = [at |-> "list", chan |-> 0] /\ dev' = dev /\ raised' = raised
  BY DEF IsrWakes
<1>2. Told' = {}
  BY <1>1 DEF Told
<1> QED BY <1>1, <1>2, Mapped, MappedNext DEF Events!Heard, EventsInv

(* Steps of the guest that are none of the device's business.              *)
LEMMA StutterMapped ==
  ASSUME EventsInv, dev' = dev, raised' = raised, isr' = isr
  PROVE  UNCHANGED Events!vars /\ SignaledAreRaised(dev', raised')
<1>1. UNCHANGED Events!talk
  BY TalkMapped DEF TalkUnchanged
<1> QED BY <1>1, Mapped, MappedNext DEF Events!vars, EventsInv

(* An open file has its pipe, so CMD_CLOSE finds one.  (Should it not, the  *)
(* command changes nothing.)                                               *)
LEMMA EventsStep ==
  ASSUME EventsInv, [Next]_vars
  PROVE  [Events!Next]_Events!vars /\ SignaledAreRaised(dev', raised')
<1>1. ASSUME NEW c \in Channel, Open(c)
      PROVE  Events!Next /\ SignaledAreRaised(dev', raised')
  BY <1>1, OpenMapped DEF Events!Next
<1>2. ASSUME NEW c \in Channel, Close(c)
      PROVE  [Events!Next]_Events!vars /\ SignaledAreRaised(dev', raised')
  <2>1. CASE HasPipe(dev, c)
    BY <1>2, <2>1, CloseMapped DEF Events!Next
  <2>2. CASE ~ HasPipe(dev, c)
    BY <1>2, <2>2, StutterMapped DEF Close
  <2> QED BY <2>1, <2>2
<1>3. ASSUME NEW c \in Channel, Connect(c)
      PROVE  Events!Next /\ SignaledAreRaised(dev', raised')
  BY <1>3, ConnectMapped DEF Events!Next
<1>4. ASSUME NEW t \in Thread, Transfer(t[1], t[2])
      PROVE  Events!Next /\ SignaledAreRaised(dev', raised')
  BY <1>4, ServiceMapped, ThreadAssumption DEF Events!Next
<1>5. ASSUME NEW t \in Thread, WakeOn(t[1], t[2])
      PROVE  [Events!Next]_Events!vars /\ SignaledAreRaised(dev', raised')
  BY <1>5, WakeOnMapped, ThreadAssumption DEF Events!Next
<1>6. ASSUME NEW t \in Thread, Interrupted(t[1], t[2])
      PROVE  [Events!Next]_Events!vars /\ SignaledAreRaised(dev', raised')
  BY <1>6, StutterMapped DEF Interrupted
<1>7. CASE IsrEnter
  BY <1>7, IsrEnterMapped DEF Events!Next
<1>8. CASE IsrChannel
  BY <1>8, IsrChannelMapped DEF Events!Next
<1>9. CASE IsrWakes
  BY <1>9, IsrWakesMapped DEF Events!Next
<1>10. CASE ServiceEvent
  BY <1>10, ServiceMapped DEF Events!Next
<1>11. CASE UNCHANGED vars
  BY <1>11, StutterMapped DEF vars, guest
<1> QED
  BY <1>1, <1>2, <1>3, <1>4, <1>5, <1>6, <1>7, <1>8, <1>9, <1>10, <1>11
     DEF Next, Command, Signal

LEMMA EventsInit == Init => EventsInv /\ Events!Init
<1> SUFFICES ASSUME Init PROVE EventsInv /\ Events!Init
  OBVIOUS
<1>1. /\ dev = InitDevice /\ isr = Idle
      /\ ToSet(dev.pipes) = {} /\ ToSet(dev.signaled) = {}
  BY DEF Init, InitDevice, ToSet
<1>2. \A c \in Channel : On(c) = {}
  BY <1>1 DEF On
<1>3. \A c \in Channel : DueOn(c) = {} /\ AskedOn(c) = {}
  BY <1>2 DEF DueOn, AskedOn
<1>4. EventsInv
  BY <1>1, InitIInv DEF EventsInv, SignaledAreRaised
<1>5. Events!Init
  BY <1>1, <1>2, <1>3 DEF Events!Init, Idle, Told
<1> QED BY <1>4, <1>5

(* Only pipes on which a service raised something are in the handler's     *)
(* list: the guest is told of no channel for nothing.                      *)
THEOREM EventsInvariant == Spec => []EventsInv
<1>1. EventsInv /\ [Next]_vars => EventsInv'
  BY EventsStep, NextIInv DEF EventsInv
<1> QED BY <1>1, EventsInit, PTL DEF Spec

(* The device implements its abstract specification.                       *)
THEOREM DeviceReportsEvents == Spec => ReportsEvents
<1>1. Init => Events!Init
  BY EventsInit
<1>2. EventsInv /\ [Next]_vars => [Events!Next]_Events!vars
  BY EventsStep
<1> QED BY <1>1, <1>2, EventsInvariant, PTL DEF Spec, ReportsEvents, Events!Spec
=============================================================================
