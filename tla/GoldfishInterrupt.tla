------------------------- MODULE GoldfishInterrupt -------------------------
(***************************************************************************)
(* The pipe device behind the interrupt controller (goldfish_interrupt.c), *)
(* which it shares with the device bus that tells the guest what devices   *)
(* there are (goldfish_device.c) and the input events of the user          *)
(* interface (goldfish_events_device.c).                                   *)
(*                                                                         *)
(* In GoldfishPipe the guest's interrupt handler starts while the device's *)
(* line is high.  Here the line is one of the controller's, whose state is *)
(* changed by four operations of three devices and of the guest; the       *)
(* guest's processor sees only the controller's own line, asks which       *)
(* interrupt it is, masks it, and runs that device's handler.  The guest's *)
(* kernel is not in this repository: it is modelled from the registers.    *)
(* The fast interrupts are left out, since nothing enables one, and so is  *)
(* what the events device adds for x86.                                    *)
(***************************************************************************)
EXTENDS GoldfishPipe, Integers, FiniteSets

(* The devices, in the order in which they were added and so got the       *)
(* numbers of their interrupts.                                            *)
first_device == <<"bus", "events", "pipe">>
Line == {"bus", "events", "pipe"}
Number(l) == CHOOSE i \in DOMAIN first_device : first_device[i] = l

(* A bound on the words that wait when another event is put in: the guest  *)
(* reads faster than users type.                                           *)
CONSTANT MaxInput
MAX_EVENTS == 1024
ASSUME InputAssumption == MaxInput \in Nat /\ MaxInput + 3 < MAX_EVENTS

VARIABLES
  pic,      \* the controller
  bus,      \* the device bus: the device it is at, those it has reported
  found,    \* the devices the guest has been told of
  input,    \* the events device: its state, the number of words that wait
  cpu,      \* what the guest's processor does: its threads, or a handler
  left      \* how many words of an event the guest's handler has to read

pipe == vars
board == <<pic, bus, found, input, cpu, left>>
allVars == <<vars, board>>

Pic == [level: SUBSET Line, irq_enabled: SUBSET Line, pending_count: Nat, parent_irq: BOOLEAN]
Bus == [current: 0..Len(first_device), reported: SUBSET (1..Len(first_device))]
Input == [state: {"init", "buffered", "live"}, words: 0..(MAX_EVENTS - 1)]
Cpu == {"reset", "threads", "dispatch"} \cup Line

BoardTypeOK ==
  /\ pic \in Pic /\ bus \in Bus /\ found \subseteq Line
  /\ input \in Input /\ cpu \in Cpu /\ left \in 0..3

BoardInit ==
  /\ Init
  /\ pic = [level |-> {}, irq_enabled |-> {}, pending_count |-> 0, parent_irq |-> FALSE]
  /\ bus = [current |-> 0, reported |-> {}]
  /\ found = {}
  /\ input = [state |-> "init", words |-> 0]
  /\ cpu = "reset" /\ left = 0

-----------------------------------------------------------------------------
(* The controller.                                                         *)
PendingLines(s) == s.level \cap s.irq_enabled
goldfish_int_update(s) == [s EXCEPT !.parent_irq = PendingLines(s) # {}]

Raised(s, l) ==
  IF l \in s.level THEN s
  ELSE [s EXCEPT !.pending_count = IF l \in s.irq_enabled THEN @ + 1 ELSE @,
                 !.level = @ \cup {l}]
(* Mutant: the count drops for a masked interrupt too.                     *)
LoweredUncounted(s, l) ==
  IF l \notin s.level THEN s ELSE [s EXCEPT !.pending_count = @ - 1, !.level = @ \ {l}]
Lowered(s, l) ==
  IF l \notin s.level THEN s
  ELSE [s EXCEPT !.pending_count = IF l \in s.irq_enabled THEN @ - 1 ELSE @,
                 !.level = @ \ {l}]
goldfish_int_set_irq(s, l, high) ==
  goldfish_int_update(IF high THEN Raised(s, l) ELSE Lowered(s, l))

INTERRUPT_DISABLE_ALL(s) ==
  goldfish_int_update([s EXCEPT !.pending_count = 0, !.level = {}])

(* Mutant: the count keeps an interrupt that is masked while pending.      *)
DisableUncounted(s, l) == goldfish_int_update([s EXCEPT !.irq_enabled = @ \ {l}])
INTERRUPT_DISABLE(s, l) ==
  goldfish_int_update(
    IF l \notin s.irq_enabled THEN s
    ELSE [s EXCEPT !.pending_count = IF l \in s.level THEN @ - 1 ELSE @,
                   !.irq_enabled = @ \ {l}])

INTERRUPT_ENABLE(s, l) ==
  goldfish_int_update(
    IF l \in s.irq_enabled THEN s
    ELSE [s EXCEPT !.pending_count = IF l \in s.level THEN @ + 1 ELSE @,
                   !.irq_enabled = @ \cup {l}])

(* INTERRUPT_NUMBER: the lowest pending one.                               *)
INTERRUPT_NUMBER(s) ==
  CHOOSE l \in PendingLines(s) : \A m \in PendingLines(s) : Number(l) <= Number(m)

-----------------------------------------------------------------------------
(* The devices.                                                            *)

(* A read of PDEV_BUS_OP goes to the next device not reported yet, 0 if    *)
(* there is none; from 0 it starts over.                                   *)
NextDevice(b) ==
  LET told == IF b.current = 0 THEN b.reported ELSE b.reported \cup {b.current}
      rest == {j \in DOMAIN first_device : j > b.current} \ told
  IN  [current  |-> IF rest = {} THEN 0 ELSE Min(rest), reported |-> told]

(* An event is three words.  The queue is a ring of MAX_EVENTS words, and  *)
(* empty is taken for "first = last".  Before the guest's driver is ready  *)
(* the line is not raised.                                                 *)
(* Mutant: it is, before the kernel has started too.                       *)
RaisesAlways(q) == q.words = 0
Raises(q) == q.words = 0 /\ q.state = "live"

Full(q) == q.words + 3 > MAX_EVENTS
enqueue_event(q) ==
  IF Full(q) THEN q
  ELSE [state |-> IF q.words = 0 /\ q.state # "live" THEN "buffered" ELSE q.state,
        words |-> (q.words + 3) % MAX_EVENTS]

(* Mutants: the line falls after each word; it is left high.               *)
LowersEarly(q) == q.words > 0
LowersNever(q) == FALSE
Lowers(q) == q.words = 1
dequeue_event(q) == IF q.words = 0 THEN q ELSE [q EXCEPT !.words = @ - 1]

(* The user interface puts an event in.                                    *)
KeyEvent ==
  /\ input.words <= MaxInput
  /\ input' = enqueue_event(input)
  /\ pic' = IF Raises(input) THEN goldfish_int_set_irq(pic, "events", TRUE) ELSE pic
  /\ UNCHANGED <<pipe, bus, found, cpu, left>>

-----------------------------------------------------------------------------
(* The guest's kernel, while it runs no handler.                           *)

(* It starts: no interrupt is to be left from before.                      *)
Boot ==
  /\ cpu = "reset" /\ cpu' = "threads"
  /\ pic' = INTERRUPT_DISABLE_ALL(pic)
  /\ UNCHANGED <<pipe, bus, found, input, left>>

(* The bus driver writes PDEV_BUS_OP_INIT: the bus has something to say.   *)
goldfish_bus_op_init ==
  /\ cpu = "threads" /\ found = {}
  /\ bus' = [current |-> 0, reported |-> {}]
  /\ found' = {"bus"}
  /\ pic' = goldfish_int_set_irq(pic, "bus", TRUE)
  /\ UNCHANGED <<pipe, input, cpu, left>>

(* A driver asks for its device's interrupt.                               *)
Enable(l) ==
  /\ cpu = "threads" /\ l \in found \ pic.irq_enabled
  /\ pic' = INTERRUPT_ENABLE(pic, l)
  /\ UNCHANGED <<pipe, bus, found, input, cpu, left>>

(* The driver of the events device reads what axes it has, and from then   *)
(* on wants events (events_read).                                          *)
EventsReady ==
  /\ cpu = "threads" /\ "events" \in found /\ input.state # "live"
  /\ input' = [input EXCEPT !.state = "live"]
  /\ pic' = IF input.state = "buffered" THEN goldfish_int_set_irq(pic, "events", TRUE) ELSE pic
  /\ UNCHANGED <<pipe, bus, found, cpu, left>>

(* The pipe's driver and the services: the steps of GoldfishPipe, with the *)
(* line they leave the device in.                                          *)
(* Mutant: the controller is not told when the list is empty.              *)
PipeLineStays(s) == IF dev'.irq THEN goldfish_int_set_irq(s, "pipe", TRUE) ELSE s
PipeLine(s) == goldfish_int_set_irq(s, "pipe", dev'.irq)
PipeCommand ==
  /\ cpu = "threads" /\ "pipe" \in pic.irq_enabled
  /\ Command \/ Signal
  /\ pic' = PipeLine(pic)
  /\ UNCHANGED <<bus, found, input, cpu, left>>
PipeService ==
  /\ ServiceEvent
  /\ pic' = PipeLine(pic)
  /\ UNCHANGED <<bus, found, input, cpu, left>>

-----------------------------------------------------------------------------
(* The guest's interrupt.  The kernel asks for the number of interrupts,   *)
(* and as long as there are any for the first of them, which it masks      *)
(* while the handler runs.                                                 *)
Interrupt ==
  /\ cpu = "threads" /\ pic.parent_irq
  /\ cpu' = "dispatch"
  /\ UNCHANGED <<pipe, pic, bus, found, input, left>>

Dispatch ==
  /\ cpu = "dispatch"
  /\ IF pic.pending_count = 0
     THEN cpu' = "threads" /\ UNCHANGED <<pic, isr, left>>
     ELSE LET l == INTERRUPT_NUMBER(pic)
          IN  /\ cpu' = l
              /\ pic' = INTERRUPT_DISABLE(pic, l)
              /\ left' = IF l = "events" THEN 3 ELSE left
              /\ isr' = IF l = "pipe" THEN [at |-> "list", chan |-> 0] ELSE isr
  /\ UNCHANGED <<dev, fds, again, asleep, raised, bus, found, input>>

Done(l) == cpu' = "dispatch" /\ pic' = INTERRUPT_ENABLE(pic, l)

BusHandler ==
  /\ cpu = "bus"
  /\ bus' = NextDevice(bus)
  /\ IF bus'.current = 0
     THEN /\ cpu' = "dispatch" /\ UNCHANGED found
          /\ pic' = INTERRUPT_ENABLE(goldfish_int_set_irq(pic, "bus", FALSE), "bus")
     ELSE found' = found \cup {first_device[bus'.current]} /\ UNCHANGED <<cpu, pic>>
  /\ UNCHANGED <<pipe, input, left>>

(* It reads one event: its type, its code and its value.                   *)
EventsHandler ==
  /\ cpu = "events"
  /\ IF left = 0 THEN Done("events") /\ UNCHANGED <<input, left>>
     ELSE /\ left' = left - 1
          /\ input' = dequeue_event(input)
          /\ pic' = IF Lowers(input) THEN goldfish_int_set_irq(pic, "events", FALSE) ELSE pic
          /\ UNCHANGED cpu
  /\ UNCHANGED <<pipe, bus, found>>

PipeHandler ==
  /\ cpu = "pipe"
  /\ IsrChannel \/ IsrWakes
  /\ IF isr'.at = "idle" THEN Done("pipe") ELSE pic' = PipeLine(pic) /\ UNCHANGED cpu
  /\ UNCHANGED <<bus, found, input, left>>

Kernel == Interrupt \/ Dispatch \/ BusHandler \/ EventsHandler \/ PipeHandler

BoardNext ==
  \/ KeyEvent \/ PipeService \/ PipeCommand
  \/ Boot \/ goldfish_bus_op_init \/ EventsReady
  \/ \E l \in Line : Enable(l)
  \/ Kernel

BoardSpec == BoardInit /\ [][BoardNext]_allVars

(* The guest's processor runs, and takes an interrupt while the            *)
(* controller's line is high.                                              *)
BoardFairSpec == BoardSpec /\ WF_allVars(Kernel)

-----------------------------------------------------------------------------
(* The count that the guest's handler goes by is that of the interrupts    *)
(* that are pending, and the processor's line says whether there are any.  *)
(* Four operations move the count, in whatever order three devices and the *)
(* guest get to them (goldfish_int_set_irq, goldfish_int_write).           *)
PendingIsCounted ==
  /\ pic.pending_count = Cardinality(PendingLines(pic))
  /\ pic.parent_irq <=> PendingLines(pic) # {}

(* What a device has for the guest holds its line: DISABLE_ALL, which      *)
(* clears the controller's levels behind the devices' back, must find none *)
(* high, or the device, which raises it only when its queue was empty, is  *)
(* never heard (enqueue_event, events_read, goldfish_int_write).           *)
WaitingIsHeard ==
  /\ dev.signaled # <<>> => "pipe" \in pic.level
  /\ input.state = "live" /\ input.words > 0 <=> "events" \in pic.level

(* The guest's handler reads whole events, whatever is put in between two  *)
(* of its reads (enqueue_event, dequeue_event).                            *)
EventsStayWhole == input.words % 3 = left % 3

(* The guest with its interrupt controller is a guest of GoldfishPipe, so  *)
(* that the device's theorems hold of it.                                  *)
IsGoldfishPipe == Spec

(* The pipe's interrupt has the highest number, and its handler does not   *)
(* leave before its list is empty: users who never rest keep pipes waiting *)
(* and services that never rest keep input waiting.                        *)
UsersGoQuiet == <>[][~ KeyEvent]_allVars

(* Once both have gone quiet, the guest is told that the host has closed a *)
(* pipe, and a thread is told of what it asked for and a service raised    *)
(* (the reads of REG_CHANNEL and REG_WAKES)...                             *)
ReportedInTurn == UsersGoQuiet => OwedIsReported

(* ... a thread blocked on a pipe that the host closed is woken...         *)
WokenInTurn == UsersGoQuiet => ClosedWakesSleepers

(* ... and the guest has read its input (dequeue_event), also what came    *)
(* before its driver was ready (events_read).                              *)
InputIsRead ==
  UsersGoQuiet /\ ServicesGoQuiet =>
    (input.state = "live" /\ input.words > 0 /\ "events" \in pic.irq_enabled
      ~> input.words = 0)
=============================================================================
