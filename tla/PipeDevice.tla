----------------------------- MODULE PipeDevice -----------------------------
(***************************************************************************)
(* The data structures of the goldfish pipe device (hw/goldfish_pipe.c)    *)
(* and the functions that change them, as operators on a device record.    *)
(* A module that models the device or one of its services keeps the record *)
(* in a variable and applies a whole handler, with everything it calls, in *)
(* one step: the emulator runs them all on one thread.                     *)
(*                                                                         *)
(* PipeId stands for the addresses malloc() can return for a Pipe.  A      *)
(* Channel is the number the guest driver chose; it is never 0.  Service   *)
(* holds the names goldfish_pipe_add_type() registered.                    *)
(*                                                                         *)
(* The command registers (CHANNEL, SIZE, ADDRESS, PARAMS) and STATUS are   *)
(* written and read by one command under the driver's lock: a command      *)
(* takes its channel as a parameter and its outcome is used in the step    *)
(* that computes it, so they are no part of the record.                    *)
(***************************************************************************)
EXTENDS Naturals, Sequences, SequencesExt

CONSTANTS PipeId, Channel, Service

(* A pipe whose guest has not written a service name yet is served by a    *)
(* PipeConnector.                                                          *)
Connector == "connector"

ASSUME ChannelAssumption == Channel \subseteq Nat \ {0}
ASSUME ServiceAssumption == Connector \notin Service

(* The PIPE_WAKE_* flags; the guest can ask for the last two.              *)
IoEvent == {"READ", "WRITE"}
Event == IoEvent \cup {"CLOSED"}

(* A pipe has a service, whose functions the device calls, and the object   *)
(* it calls them with, which is named by the service that made it.         *)
Pipe == [channel: Channel \cup {0},
         wanted:  SUBSET Event,
         closed:  BOOLEAN,
         service: Service \cup {Connector},
         opaque:  Service \cup {Connector}]

(* Memory that holds no pipe.                                              *)
FreePipe ==
  [channel |-> 0, wanted |-> {}, closed |-> FALSE,
   service |-> Connector, opaque |-> Connector]

Device ==
  [pipes:    Seq(PipeId),          (* the list of all pipes, newest first  *)
   signaled: Seq(PipeId),          (* the list the interrupt handler reads *)
   node:     [PipeId -> Pipe],
   irq:      BOOLEAN,
   wakes:    SUBSET Event]

InitDevice ==
  [pipes    |-> <<>>,
   signaled |-> <<>>,
   node     |-> [p \in PipeId |-> FreePipe],
   irq      |-> FALSE,
   wakes    |-> {}]

-----------------------------------------------------------------------------
(* Lists.                                                                  *)

(* The place in the list of the first pipe with this channel, 0 if none.   *)
PlacesOf(d, c) == {i \in 1..Len(d.pipes) : d.node[d.pipes[i]].channel = c}
pipe_list_findp_channel(d, c) ==
  IF PlacesOf(d, c) = {} THEN 0 ELSE Min(PlacesOf(d, c))

HasPipe(d, c) == pipe_list_findp_channel(d, c) # 0
PipeOf(d, c) == d.pipes[pipe_list_findp_channel(d, c)]

(* Mutant: a signaled pipe is freed without being unlinked.                *)
RemoveWakedForgets(signaled, p) == signaled

pipe_list_remove_waked(signaled, p) == RemoveFirst(signaled, p)

(* The pipes in the hands of a service: it may wake or close them.         *)
Served(d) == {p \in ToSet(d.pipes) : d.node[p].opaque # Connector}

-----------------------------------------------------------------------------
(* What a service calls.                                                   *)

(* Mutants: the flags of a pipe that is listed already are dropped; the    *)
(* flags replace what the guest asked for; flags that are recorded already *)
(* are taken for raised, though the guest may only have asked for them.    *)
WakeDropsFlags(d, p, flags) ==
  IF p \in ToSet(d.signaled)
  THEN d
  ELSE [d EXCEPT !.signaled = <<p>> \o @,
                 !.node[p].wanted = @ \cup flags,
                 !.irq = TRUE]
WakeOverwrites(d, p, flags) ==
  [d EXCEPT !.signaled = IF p \in ToSet(@) THEN @ ELSE <<p>> \o @,
            !.node[p].wanted = flags,
            !.irq = TRUE]
WakeIfNew(d, p, flags) ==
  IF flags \subseteq d.node[p].wanted
  THEN d
  ELSE [d EXCEPT !.signaled = IF p \in ToSet(@) THEN @ ELSE <<p>> \o @,
                 !.node[p].wanted = @ \cup flags,
                 !.irq = TRUE]

goldfish_pipe_wake(d, p, flags) ==
  [d EXCEPT !.signaled = IF p \in ToSet(@) THEN @ ELSE <<p>> \o @,
            !.node[p].wanted = @ \cup flags,
            !.irq = TRUE]

(* Mutant: the guest is not told that the host closed the pipe.            *)
CloseSilently(d, p) == [d EXCEPT !.node[p].closed = TRUE]

goldfish_pipe_close(d, p) ==
  IF d.node[p].closed
  THEN d
  ELSE goldfish_pipe_wake([d EXCEPT !.node[p].closed = TRUE], p, {"CLOSED"})

-----------------------------------------------------------------------------
(* What the guest reads and writes.                                        *)

(* The commands that reach no pipe: an unknown channel, or a pipe that the *)
(* host has closed.                                                        *)
Refuses(d, c) == ~ HasPipe(d, c) \/ d.node[PipeOf(d, c)].closed

(* CMD_OPEN with p the address of the new pipe.                            *)
pipe_new(d, c, p) ==
  [d EXCEPT !.pipes = <<p>> \o @,
            !.node[p] = [FreePipe EXCEPT !.channel = c]]

(* The switch at the end of pipeConnector_sendBuffers: the service has     *)
(* made its object and takes the pipe over.                                *)
Serve(d, p, svc) ==
  [d EXCEPT !.node[p] = [@ EXCEPT !.service = svc, !.opaque = svc]]

(* CMD_CLOSE up to the call of the service's close function.  The          *)
(* interrupt line is left as it is.                                        *)
pipe_free(d, c) ==
  LET i == pipe_list_findp_channel(d, c)
      p == d.pipes[i]
  IN  [d EXCEPT !.pipes = RemoveAt(@, i),
                !.signaled = pipe_list_remove_waked(@, p),
                !.node[p] = FreePipe]

(* CMD_WAKE_ON_READ and CMD_WAKE_ON_WRITE before the service is told.      *)
WantsWake(d, p, e) == e \in d.node[p].wanted
AddWanted(d, p, e) == [d EXCEPT !.node[p].wanted = @ \cup {e}]

(* Mutants: the line falls at every read; the events stay recorded after   *)
(* they are reported.                                                      *)
PopLowersLine(d) ==
  LET p == Head(d.signaled)
  IN  [d EXCEPT !.signaled = Tail(@),
                !.wakes = d.node[p].wanted,
                !.node[p].wanted = {},
                !.irq = FALSE]
PopKeepsWanted(d) ==
  LET p == Head(d.signaled)
  IN  [d EXCEPT !.signaled = Tail(@),
                !.wakes = d.node[p].wanted,
                !.irq = @ /\ Tail(d.signaled) # <<>>]

(* A read of REG_CHANNEL when the list of signaled pipes is not empty.     *)
PopSignaled(d) ==
  LET p == Head(d.signaled)
  IN  [d EXCEPT !.signaled = Tail(@),
                !.wakes = d.node[p].wanted,
                !.node[p].wanted = {},
                !.irq = @ /\ Tail(d.signaled) # <<>>]

=============================================================================
