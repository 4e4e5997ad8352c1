------------------------ MODULE GoldfishPipeSnapshot ------------------------
(***************************************************************************)
(* Snapshots of the machine with the pipe device in it: goldfish_pipe_save *)
(* and goldfish_pipe_load (hw/goldfish_pipe.c) as do_savevm and do_loadvm  *)
(* call them.                                                              *)
(*                                                                         *)
(* A snapshot holds the guest's memory as it was, but not all of the       *)
(* device: the list of signaled pipes is not in the file, and a service    *)
(* without a load function loses its connections.  A snapshot is loaded by *)
(* a new process, or by the running one, whose pipes and services stay:    *)
(* do_loadvm does not reset the devices.                                   *)
(*                                                                         *)
(* The interrupt controller is registered before the pipe device, so its   *)
(* level is loaded before goldfish_pipe_load raises the line.              *)
(***************************************************************************)
EXTENDS GoldfishPipe

(* The services that can save and load a connection.                       *)
CONSTANT Saveable
ASSUME SaveableAssumption == Saveable \subseteq Service

(* Bound: how often a snapshot is loaded.  One is taken again only after a *)
(* load, for the file of the one before would be lost unread.              *)
CONSTANT MaxLoad
ASSUME BoundAssumption == MaxLoad \in Nat

VARIABLES
  snap,     \* the snapshot, or NoSnapshot
  saves,    \* how many were taken (bound)
  loads,    \* how often one was loaded (bound)
  resumed,  \* history: the sleepers that a load brought back, not yet woken
  mixed     \* history: a snapshot with two pipes of one channel was loaded

svars == <<vars, snap, saves, loads, resumed, mixed>>

NoSnapshot == [taken |-> FALSE]

SnapInit ==
  /\ Init
  /\ snap = NoSnapshot /\ saves = 0 /\ loads = 0
  /\ resumed = {} /\ mixed = FALSE

-----------------------------------------------------------------------------
(* The file: the registers, and of each pipe what pipe_save writes.        *)
pipe_save(pipe) ==
  [channel |-> pipe.channel, wanted |-> pipe.wanted,
   closed |-> pipe.closed, service |-> pipe.service]

goldfish_pipe_save(d) ==
  [pipes |-> [i \in DOMAIN d.pipes |-> pipe_save(d.node[d.pipes[i]])],
   wakes |-> d.wakes]

(* The pipe is made anew.  If its service cannot load it, it is closed and *)
(* no service holds it: its object is the connector that pipe_new made.    *)
pipe_load(saved) ==
  LET loadable == saved.service \in Saveable \cup {Connector}
  IN  [channel |-> saved.channel, wanted |-> saved.wanted,
       closed  |-> saved.closed \/ ~ loadable,
       service |-> saved.service,
       opaque  |-> IF loadable THEN saved.service ELSE Connector]

(* The last loop of goldfish_pipe_load, over all the pipes of the device.  *)
(* Mutants: nothing is woken; a closed pipe is left to goldfish_pipe_close;*)
(* a pipe is put on the list without a look at whether it is there.        *)
WakesNothing(d, p) == IF d.node[p].closed THEN goldfish_pipe_close(d, p) ELSE d
WakesOrCloses(d, p) ==
  IF d.node[p].closed
  THEN goldfish_pipe_close(d, p)
  ELSE IF d.node[p].wanted # {}
       THEN goldfish_pipe_wake(d, p, d.node[p].wanted)
       ELSE d
WakesAgain(d, p) ==
  IF d.node[p].wanted = {} THEN d
  ELSE [d EXCEPT !.signaled = <<p>> \o @, !.irq = TRUE]

WakeLoaded(d, p) ==
  LET w == IF d.node[p].wanted # {}
           THEN goldfish_pipe_wake(d, p, d.node[p].wanted)
           ELSE d
  IN  IF w.node[p].closed THEN goldfish_pipe_close(w, p) ELSE w

PlaceIn(s, p) == SelectInSeq(s, LAMBDA q : q = p)

(* The pipes are pushed one by one on the list of d, at these addresses.   *)
(* The line is what the interrupt controller has loaded.                   *)
PushLoaded(d, file, at, line) ==
  [d EXCEPT !.pipes = Reverse(at) \o @,
            !.node = [p \in PipeId |-> IF p \in ToSet(at)
                                       THEN pipe_load(file.pipes[PlaceIn(at, p)])
                                       ELSE @[p]],
            !.irq = line]
(* Mutant: REG_WAKES is not loaded.                                        *)
LoadedNoWakes(d, file, at, line) == PushLoaded(d, file, at, line)
Loaded(d, file, at, line) ==
  [PushLoaded(d, file, at, line) EXCEPT !.wakes = file.wakes]

goldfish_pipe_load(d, file, at, line) ==
  LET new == Loaded(d, file, at, line)
  IN  FoldLeft(WakeLoaded, new, new.pipes)

-----------------------------------------------------------------------------
Save ==
  /\ saves <= loads /\ loads < MaxLoad
  /\ saves' = saves + 1
  /\ snap' = [taken |-> TRUE,
              file |-> goldfish_pipe_save(dev), line |-> dev.irq,
              fds |-> fds, again |-> again, asleep |-> asleep, isr |-> isr,
              raised |-> [i \in DOMAIN dev.pipes |-> raised[dev.pipes[i]]]]
  /\ UNCHANGED <<vars, loads, resumed, mixed>>

Sleepers(s) == {t \in Thread : t[2] \in s[t[1]]}

(* A load into the running machine may leave a channel with two pipes, and *)
(* a snapshot of that machine then has both.                               *)
OnePipeEach(file) ==
  \A i, j \in DOMAIN file.pipes :
    file.pipes[i].channel = file.pipes[j].channel => i = j

(* The snapshot is loaded into a process whose device is old.              *)
Load(old) ==
  /\ snap.taken
  /\ loads < MaxLoad
  /\ loads' = loads + 1
  /\ \E at \in [1..Len(snap.file.pipes) -> PipeId \ ToSet(old.pipes)] :
       /\ IsInjective(at)
       /\ dev' = goldfish_pipe_load(old, snap.file, at, snap.line)
       /\ raised' = [p \in PipeId |->
                       IF p \in ToSet(at) THEN snap.raised[PlaceIn(at, p)]
                       ELSE IF p \in ToSet(old.pipes) THEN raised[p] ELSE {}]
  /\ fds' = snap.fds /\ again' = snap.again
  /\ asleep' = snap.asleep /\ isr' = snap.isr
  /\ resumed' = Sleepers(snap.asleep)
  /\ mixed' = (mixed \/ ~ OnePipeEach(snap.file))
  /\ UNCHANGED <<snap, saves>>

LoadLive == Load(dev)
LoadFresh == Load(InitDevice)

Meanwhile ==
  /\ resumed' = resumed \cap Sleepers(asleep')
  /\ UNCHANGED <<snap, saves, loads, mixed>>

(* CMD_OPEN of a channel that a pipe has, which only one that a load left  *)
(* behind can do: PIPE_ERROR_INVAL.                                        *)
OpenRefused(c) ==
  /\ isr.at = "idle"
  /\ c \notin fds
  /\ HasPipe(dev, c)
  /\ UNCHANGED svars

SnapNext ==
  \/ Next /\ Meanwhile
  \/ Save \/ LoadLive \/ LoadFresh
  \/ \E c \in Channel : OpenRefused(c)

SnapSpec == SnapInit /\ [][SnapNext]_svars
-----------------------------------------------------------------------------
(* A snapshot is saved from the head of the list of pipes and each pipe is *)
(* pushed on the head when it is loaded (goldfish_pipe.c:1220, :1250), so  *)
(* the order of the list is turned round.  When two pipes have one channel *)
(* the lookup then finds the stale one, and the guest's threads sleep on   *)
(* the other: what follows does not hold once such a snapshot is loaded.   *)

(* NoDeafSleeper, across snapshots.                                        *)
SleepersAreHeard == mixed \/ NoDeafSleeper

(* The guest resumes without the services' memory of what it waits for:    *)
(* whoever slept when the snapshot was taken is about to be woken, whether *)
(* or not a service holds the pipe.  The pipe that a lookup finds is in    *)
(* the handler's list with the request, or the handler holds its report.   *)
(* The loop at the end of goldfish_pipe_load sees to it.                   *)
IsWoken(t) ==
  \/ /\ HasPipe(dev, t[1])
     /\ PipeOf(dev, t[1]) \in Signaled
     /\ t[2] \in dev.node[PipeOf(dev, t[1])].wanted
  \/ isr.at = "mask" /\ isr.chan = t[1] /\ t[2] \in dev.wakes

ResumedAreWoken == mixed \/ \A t \in resumed : IsWoken(t)

(* A service's close function gets the object its init returned: "the      *)
(* returned value will be passed to other callbacks (e.g. close)"          *)
(* (goldfish_pipe.h:64).  Not when a load closed the pipe: pipe_load sets  *)
(* the functions of the service and leaves the connector as their object,  *)
(* and CMD_CLOSE, the one command that reaches a closed pipe, calls them.  *)
CloseGetsItsObject ==
  [][loads' = loads =>
       \A c \in fds \ fds' :
         HasPipe(dev, c) =>
           dev.node[PipeOf(dev, c)].opaque = dev.node[PipeOf(dev, c)].service]_svars
=============================================================================
