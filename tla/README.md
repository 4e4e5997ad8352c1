# Verification of the goldfish pipe, its services and interrupt, and the disk's thread pool

This directory holds TLA+ models of the Android emulator in this repository (a
fork of QEMU), the TLC runs that check them on small instances, and proofs that
TLAPS checks for every instance. They cover two paths on which the emulator's own
logic is concurrent:

- the *goldfish pipe*, a virtual device through which guest processes open
  connections to services of the emulator (`hw/goldfish_pipe.c`,
  `docs/ANDROID-QEMU-PIPE.TXT`), with the services that sit on it: *qemud*
  (`android/hw-qemud.c`, `docs/ANDROID-QEMUD.TXT`), which is also reached through a
  serial port, and sockets of the host (`android/hw-pipe-net.c`); and with the
  interrupt controller behind which it sits, with other devices beside it;
- *asynchronous disk requests* (`posix-aio-compat.c`): worker threads, a signal, and
  the nested event loops of the main thread that wait for them (`aio-android.c`,
  `async.c`, `block.c`).

## The system

| component | state | operations | talks to |
|---|---|---|---|
| Pipe device (`hw/goldfish_pipe.c`) | list of pipes, list of signaled pipes, registers, interrupt line; per pipe: channel, `wanted`, `closed`, functions and object of its service | commands OPEN, CLOSE, POLL, READ/WRITE_BUFFER, WAKE_ON_*; reads of REG_CHANNEL and REG_WAKES; `goldfish_pipe_wake`, `goldfish_pipe_close`; save, load | the guest's driver by registers and one interrupt; services by callbacks in both directions |
| Guest driver (not in the repository) | open files, threads that sleep, interrupt handler | sends commands under a lock with interrupts off; its handler reads channels and masks and wakes threads | pipe device |
| qemud pipe service (`android/hw-qemud.c`) | clients of a service; per client a queue of messages | init, close, send, receive, wakeOn, save, load | pipe device, services |
| qemud serial port and multiplexer (same file) | frame being read, clients by channel, control channel 0 | receive bytes, dispatch a packet, connect, disconnect, save, load | character pipe, services |
| Socket pipes (`android/hw-pipe-net.c`) | connection state, wishes for wakes | connect, send, receive, wakeOn, callbacks of the loop | pipe device, event loop |
| Interrupt controller (`hw/goldfish_interrupt.c`) | levels, enabled lines, pending count | set a line; enable, disable, disable all, read count and number; save, load | every goldfish device, the processor |
| Device bus (`hw/goldfish_device.c`) | devices in order, those reported, the current one | start over, next device, describe it | the guest's kernel, interrupt controller |
| Events device (`hw/goldfish_events_device.c`) | ring of input events, whether the guest's driver is ready, pages that describe it | put an event in, read a word, read a page; save, load | the user interface, interrupt controller |
| Thread pool for disk requests (`posix-aio-compat.c`) | requests not told to their clients, requests not taken, counts of threads | submit, cancel; worker: take, store, signal; scan for ended requests | image formats and devices by callbacks, the main loop by a signal and a pipe |
| Asynchronous contexts (`async.c`, `aio-android.c`, `block.c`) | current context, bottom halves, nested loops | push, pop, wait, flush, synchronous read and write | thread pool, image formats |
| Event loops (`android/looper-qemu.c`, `looper-generic.c`, `async-utils.c`) | watched files, ready bits, pending list | want, don't want, callback, timer | services |
| Serial port (`hw/goldfish_tty.c`) | a buffer of 128 bytes | read, write, receive | character pipe, guest's daemon |
| Character pipes (`charpipe.c`, `cbuffer.c`) | two buffers | write, poll | serial port of qemud |
| Machine snapshots (`savevm.c`) | registered handlers | save and load all of them in order | every device |

The rest of the repository (CPU emulation, block layer, user-mode network,
audio, skins, vendored libraries, the other goldfish devices, telephony and
sensor services) is listed in `PROJECT.json` with the reason why it is not
modelled.

The emulator runs devices, services and callbacks on one thread, so a handler
with everything it calls is one step; only disk requests have threads of their
own. What makes the code hard is what comes
*between* handlers: the guest's interrupt handler takes several register reads
to empty the list, and services wake and close pipes in between; a thread finds
nothing to read and asks for a wake in two commands; the guest closes a pipe
that is on the handler's list; a snapshot is taken at any of these moments and
loaded by a process that knows nothing of it, or by one that knows too much.

What makes each part correct:

- pipe device: no freed pipe on the list, the line high while something is
  listed, no event lost or told twice, whoever sleeps can be woken, a close by
  the host wakes everyone;
- snapshots: the above after a load; sleepers of the saved machine are woken;
  a service gets its own objects back;
- qemud pipe: a byte stream, once and in order; clients are those of the open
  pipes; a reader with data waiting is woken;
- qemud's serial port: frames delivered whole whatever the chunks; a client gets
  only its channel's packets; both sides agree on who is connected, services' counts
  of clients are right and the limits on them hold (as the findings say, a pipe or a load
  into a running machine exceeds them);
- socket pipe: a connection that completes is noticed, and a thread that waits
  for the socket is woken;
- interrupt controller and the devices behind it: the pending count is the number
  of pending lines and the processor's line follows them; what waits in a device
  holds its line, from power on; the guest reads whole events;
- event loop and character pipes: no callback after removal, no readiness or
  byte lost;
- thread pool: every request is answered once, with its own result, whatever is
  cancelled or reused meanwhile; no wake-up of a worker or of the main thread is
  lost; callbacks run only in the context their request was made in.

## The modules

| module | what it is |
|---|---|
| `PipeDevice` | the device record and the functions of `goldfish_pipe.c` that change it, as operators |
| `GoldfishPipe` | the device with the guest's threads, the guest's interrupt handler and open services: the core specification |
| `PipeEvents` | what the device's code keeps to about events, without lists, registers or a line: the abstract specification |
| `GoldfishPipeSnapshot` | `GoldfishPipe` with snapshots taken and loaded |
| `GoldfishInterrupt` | `GoldfishPipe` behind the interrupt controller, with the device bus, the events device and the guest's kernel |
| `QemudPipe` | `GoldfishPipe` with its services narrowed to qemud's |
| `NetPipe` | `GoldfishPipe` with its services narrowed to sockets, and the looper |
| `CharPipe` | ring buffers and the half of a character pipe, as operators |
| `QemudSerial` | the guest's daemon, the serial port, the multiplexer and its clients |
| `QemudSerialSnapshot` | `QemudSerial` with snapshots taken and loaded |
| `AioPool` | worker threads, signal, and the main thread's nested event loops |
| `ListFacts` | lemmas about sequences, streams of bytes and the community modules' operators on them; induction over sets of numbers and of sequences |
| `GoldfishPipeProofs` | lemmas about the operators of `PipeDevice`, the inductive invariant of `GoldfishPipe` with its theorems, and that `GoldfishPipe` implements `PipeEvents` |
| `GoldfishPipeSnapshotProofs` | the inductive invariant of `GoldfishPipeSnapshot` and its theorems |
| `GoldfishInterruptProofs` | the inductive invariant of `GoldfishInterrupt`, and that its guest is one of `GoldfishPipe` |
| `QemudPipeProofs` | the invariant of `QemudPipe`'s clients and of their streams, and that it implements `GoldfishPipe` |
| `QemudSerialProofs` | `CharPipe`'s ring buffers, the inductive invariant of `QemudSerial` and its theorems |
| `NetPipeProofs` | the inductive invariant of `NetPipe`, and that it implements `GoldfishPipe` |
| `AioPoolProofs` | the inductive invariant of `AioPool` and its theorems |
| `MCGoldfishPipe`, `MCGoldfishInterrupt`, `MCGoldfishPipeSnapshot`, `MCQemudPipe`, `MCNetPipe`, `MCQemudSerial`, `MCQemudSerialSnapshot`, `MCAioPool` | values of the constants for TLC |

### PipeDevice

The record `dev` has the fields of `PipeDevice` and, in `node`, of every `Pipe`.
A pipe is named by its address (`PipeId`); an address whose pipe was freed can be
given out again. `service` is the service whose functions the device calls,
`opaque` the service that made the object it passes; they differ only after a
load. The command registers and STATUS are left out: the driver writes them and
the command under its lock, so a command takes its channel as a parameter. The
operators have the names of the functions: `goldfish_pipe_wake`,
`goldfish_pipe_close`, `pipe_new` (CMD_OPEN), `pipe_free` (CMD_CLOSE),
`AddWanted` (CMD_WAKE_ON_*), `PopSignaled` (REG_CHANNEL).

### GoldfishPipe

- *Guest threads* (`Thread`: a channel and a direction). `Transfer` is READ or
  WRITE_BUFFER; it may leave the thread with PIPE_ERROR_AGAIN (`again`). `WakeOn`
  is the CMD_WAKE_ON_* it sends next, after which it is in `asleep`. Between the
  two anything may happen. `Interrupted` is a signal.
- *Interrupt handler*. `IsrEnter` needs the line high; `IsrChannel` reads
  REG_CHANNEL (and ends the handler on 0), `IsrWakes` reads REG_WAKES and wakes
  the threads it names. Commands need the handler idle: the driver sends them
  with interrupts off.
- *Services* are open: `ServiceRuns`, at the end of every command that calls a
  service, and `ServiceEvent`, at any time, wake or close any pipe a service
  holds, with any of the event sets in `Raisable`. One call raises on one pipe.
- `raised` is history: what services raised on a pipe that the guest has not
  read. `wanted` in the code is both what the guest asked for and what was
  raised, and only this variable tells them apart.

`PipeEvents` is the device without its mechanism. It says what the *code* keeps to, which
is not what `docs/ANDROID-QEMU-PIPE.TXT` says of READ and WRITE (lines 192-200): there
they mean that the channel "is now" readable or writable and "are only reported" if
CMD_WAKE_ON_* was issued for it. `goldfish_pipe_wake` reports what a service raises
whether or not it was asked for, and REG_CHANNEL hands over the whole of `wanted`, so
that what was asked for and has not happened is told along. Both are steps of `Tell`. The
divergence is a finding, with the trace of `qemud_wake`: an event reported before it was
asked for is one that is missing when it is. What device and document both promise, that
a close and whatever a thread asked for and got is reported, is `ReportedInTurn`.

A pipe whose guest has not written a service name is a *connector*. What the
connector's 128-byte buffer does is not in this module: `Connect` is the write
that completes the name and is accepted; a write that does not changes nothing
that the module keeps.

### GoldfishInterrupt

`pic` has the fields of `goldfish_int_state`, `goldfish_int_set_irq` and the three
writes their names (`INTERRUPT_DISABLE_ALL`, `INTERRUPT_DISABLE`,
`INTERRUPT_ENABLE`). `parent_irq` is the processor's line, the one thing the
processor sees. `bus` is the enumeration (`NextDevice` is a read of PDEV_BUS_OP) and
`input` the events device: its state and how many words wait. The words themselves
are left out; what can go wrong is where an event begins, and `left`, the words of
the current event the guest has still to read, tells.

The guest's kernel is external. It starts (`Boot`, with INTERRUPT_DISABLE_ALL), asks
for the bus's interrupt, is told of the devices, and each driver asks for its own
(`Enable`). While its threads run (`cpu = "threads"`) an interrupt may come
(`Interrupt`); `Dispatch` reads INTERRUPT_STATUS and, while the count is not zero,
INTERRUPT_NUMBER, masks that line and runs its handler, which lets the line through
again (`Done`): `BusHandler`, `EventsHandler` (three reads, one event) or
`PipeHandler`, which takes `GoldfishPipe`'s steps. Users (`KeyEvent`) and services
(`PipeService`) act at any moment, before `Boot` as well. Every change of the pipe
device also tells the controller its line (`PipeLine`).

### GoldfishPipeSnapshot

`Save` stores what `goldfish_pipe_save` writes, the interrupt line as the
controller saves it, and the guest's memory (its threads and its handler).
`LoadFresh` loads it into a new process, `LoadLive` into the running one: the
code of `do_loadvm` does not reset devices, so the old pipes stay on the list.
Addresses for the loaded pipes are any free ones. `Saveable` are the services
with a load function: a pipe of another one is force-closed.

A save writes the list from its head (`hw/goldfish_pipe.c:1220`) and a load pushes
each pipe it reads on the head (`:1250`), so a load turns the order of the list
round (`Reverse` in `PushLoaded`). As long as a channel has one pipe, this changes
nothing. After a load into the running machine a channel may have two, the loaded
one first; the *next* snapshot of that machine holds both, and loading it puts the
stale one first, where lookups find it. The history variable `mixed` says that
such a snapshot was loaded; what sleepers are promised is stated up to then. The
repository does not say what a load into a running machine should do with the
pipes it finds, so this is recorded as a hazard and not as a finding.

### QemudPipe

Every action is an action of `GoldfishPipe`, with what the service does fixed:
`_qemudPipe_init`, `_qemudPipe_closeFromGuest`, `_qemudPipe_sendBuffers`,
`_qemudPipe_recvBuffers`, `_qemudPipe_wakeOn` and `qemud_client_send` have the
names of the functions. Bytes are numbered by their place in the client's
stream. A broadcast is one step per client, which allows more than the code
does. The text `disconnect:00` that a client gets when its service closes it
is one more message.

### NetPipe

As `QemudPipe`, every action is one of `GoldfishPipe` or leaves it alone. `net` is the
`NetPipe` of a pipe with the events its `LoopIo` watches for (`wanted`); `wakeWanted`
is the pipe's own copy of the guest's wishes, beside the device's. `sock` is the
socket: the state of its connection and what it is ready for. `MainLoop(p)` is one
round of select(), the looper's bottom half and `netPipe_io_func` for one pipe:
`Connecting` runs the connector (`asyncConnector_run`), the other disjunct wakes the
guest. The guest does not run in between. `Peer` is the other end. `crashed` says that
`goldfish_pipe_wake` was given a null pipe; the behaviour ends there. There is always a
socket to connect: what `netPipe_free` does to a pipe that got none is left out.

### CharPipe and QemudSerial

`CharPipe` translates `cbuffer.c` and one half of `charpipe.c`: writing goes straight
to the reader while nothing waits, then into ring buffers of `BIP_BUFFER_SIZE`.
`QemudSerial` puts it between qemud and the serial port's buffer. The guest's daemon
is external and follows `docs/ANDROID-QEMUD.TXT`: it packs what its clients write
(`Ask`, `Pack`, `ClientCloses`), writes it to the port in pieces (`TtyWrites`) and heeds
what it reads (`TtyReads`). In the emulator `qemud_serial_read` puts packets together,
`Connect` and `Disconnect` are the two commands of the control channel,
`ClientRecv`, `FramedRecv` and `PayloadRecv` are `qemud_client_recv`. A client that is connected through
a pipe has the channel -1 in the code; here such clients have different negative
numbers, so that two of one service are two. `Full` is the limit, which only `Connect`
looks at: `PipeConnects` adds a client whatever the limit. A turn of a loop is
a step; `rest` and `msg` hold what is still to be looked at and `Quiet` says there is
none, which is when the guest runs. A header's field is one byte, a frame's header
two digits of base 4. `frames`, `delivered` and `said` are history.

### QemudSerialSnapshot

`Save` stores what `qemud_save` and the serial port write; what waits in the character
pipe is in no snapshot. `LoadHere` is `qemud_load` in the running process, whose
clients leave their services only *after* the counts were loaded; `LoadAnew` is
the load by a process that has no clients.

### AioPool

`thread[w]` is where worker *w* stands: a step of it is what it does under the lock,
or one call outside it (`Kill`, the wait). The main thread is a stack of frames,
because a callback may read the disk synchronously and so run an event loop inside
the loop that called it; the empty stack is the main loop. `paio_submit` releases the
lock before it signals a worker, hence the frame `signal` and the step `cond_signal`.
`posix_aio_process_queue` is a frame `scan` with its position; it starts over after
each callback (`CallbackReturns`). The signal's handler only writes the pipe: the select()
it interrupts is called again (`iolooper_wait`). `bdrv_rw_em` is `bdrv_read_em` up to its loop,
`Continue` the image format that needs one more request before it answers,
`async_context_pop` the end. Cancelling, flushing, spurious wake-ups and the end of idle
workers are included; data and errors are not.

## The runs

Properties hold in the *pass* runs; each has a mutant of the code (in the
module, commented as such) for which TLC finds it violated.

| run | instance | shows |
|---|---|---|
| `pipe_device` | 2 pipes, 2 channels, 3 threads (both directions of one channel, one of the other), READ, WRITE and CLOSED raised; 412,574 states | `SignaledAreLive`, `SignalHoldsLine`, `RaisedStaysPending`, `NoDeafSleeper`, and that the device implements `PipeEvents` (`ReportsEvents`) |
| `pipe_wakeups` | the board from power on: 2 pipes, 2 channels, 1 thread, 3 devices, up to 4 words of input, with fairness; 117,012 states | `PendingIsCounted`, `WaitingIsHeard`, `EventsStayWhole`, that the guest is one of `GoldfishPipe`'s (`IsGoldfishPipe`), and, once users (and for input, services) go quiet, `ReportedInTurn`, `WokenInTurn`, `InputIsRead` |
| `pipe_snapshot` | 2 pipes, 1 channel, 1 thread, one service that can be saved and one that cannot, data and a close raised in one call, 2 loads with a save before each; 938,646 states | the device's invariants across loads, `SleepersAreHeard` and `ResumedAreWoken` |
| `qemud_pipe` | 2 clients, 3 bytes each, messages and reads of 1 or 2 bytes; 173,114 states | `StreamInOrder`, `ClientsAreServed`, and that qemud is a `GoldfishPipe` service (`ImplementsDevice`) |
| `pipe_snapshot_close` | *violation* | after a load, a service's close function gets the connector as its object |
| `net_pipe` | 2 pipes on 1 channel, threads in both directions, with fairness; 36,201 states | `SleepersAreWatched`, `SocketWakesSleepers`, and that socket pipes stay within `GoldfishPipe` (`ImplementsDevice`) |
| `qemud_serial` | 2 services, one framed, limited to 1 client and also reached by a pipe; 2 channels, 2 clients through pipes, 2 bytes written, packets of at most 3 bytes, pieces of 4; 2,255,368 states | `FramesArrive`, `ClientsAreCounted`, `SidesAgree`, `GuestStreamInOrder` |
| `aio` | 2 requests, 2 workers, 1 nested context, with fairness; 160,007 states | `CountersMatch`, `SleepersAreNotNeeded`, `ResultsGoHome`, `EndsAreNoticed`, `CallbacksKeepToContext`, `EveryRequestEnds` |
| `qemud_wake` | *violation* | a qemud message between the empty read and CMD_WAKE_ON_READ is reported unasked and leaves the reader asleep |
| `qemud_serial_pipes` | *violation* | a service limited to one client, which it has on the serial port, takes another through a pipe (`LimitHolds`) |
| `qemud_serial_load` | *violation* | after a load into a running machine with a client, a service limited to one client accepts two (`LimitHolds`, no pipes) |
| `net_pipe_refused` | *violation* | a guest that waits to write while its connection is refused makes `netPipe_io_func` pass a null pipe to `goldfish_pipe_wake` |

The findings in `PROJECT.json` quote the comment or document that each violation
run contradicts. `qemud_wake` has two: the lost wake-up, and the report that nobody asked
for which loses it. `LimitHolds` has two runs, because the limit is exceeded in two ways; that there is
no third on the serial port alone is the theorem `LimitHoldsOnPort`.

**Bounds.** Two pipes are the least with which a list has an order, a freed
address is reused while another pipe is signaled, and one pipe is closed while
the handler is busy with the other; two channels the least with which a report
can go to the wrong one. Both directions on one channel are needed for a request
of one thread to be swallowed by the other's report. The state of the device is
finite, so `pipe_device` needs no bound on the length of a run. Snapshots are
bounded by `MaxLoad`, and one is taken again only after a load: two loads are of one
snapshot, or of two of which the second is of the machine that resumed from the first,
loaded into that machine or into a new one. The second load of a snapshot that a live
load led to is where two pipes of one channel change places, and with `NoDeafSleeper` in
place of `SleepersAreHeard` TLC finds the sleeper that is lost in eight steps. In `qemud_pipe` three bytes allow a message of two read
in halves, a read across two messages, and a message that arrives in between;
`MaxSent` bounds a stream, and closing the pipe starts a new one. Permuting
addresses changes nothing, hence the symmetry in the safety runs; the liveness runs
have none. In `pipe_wakeups` three devices are the least with which one line rises while
another is masked and a third is pending; `MaxInput = 1` lets an event come when the
guest has read two words of the one before, so that words of two events wait.

In `net_pipe` one channel is enough because a pipe's looper state is its own, and two
addresses let a pipe be closed and its address taken again while the handler holds a
report. In `qemud_serial` two channels are the least with which a packet can go to the
wrong client; packets of 3 bytes cut a frame of one byte and its header of two in
every way, pieces of 4 cut packets in headers and payloads, two bytes in all are two
frames on one channel or one on each; ring buffers of 2 and a reader of 1 byte make
every answer wrap around and fill more than one. `MaxSaid`, `MaxLine`, `MaxMessage`,
`MaxPipes` bound what is on its way; two clients through pipes are the
least with which one of a service leaves and another stays. `qemud_serial_load` needs one service and one
client at a time. In `aio` two workers let one sleep while the other takes the request
it was woken for; two requests let one be cancelled, and its memory used again, while the
worker has the other or the same one, and let one be answered in a synchronous read inside the other's
callback; one nested context is the least with which a scan passes over a request and
leaving the context must bring it back. It is one run, without symmetry, since
liveness needs the whole graph; that keeps it small. Its six invariants do not rest
on the bounds: each is a theorem for every number of requests, workers and contexts.
`qemud_serial_pipes` needs one channel and one pipe.

**Fairness.** `pipe_wakeups` assumes weak fairness of `Kernel`, the steps of the
guest's interrupt path taken as one action: the processor runs, and takes an
interrupt while the controller's line is high (`hw/goldfish_interrupt.c:62` keeps it
up while a level is set). Nothing is assumed of the guest's threads and drivers, of
users or of services. Even so the kernel may never get to a pipe. The pipe's interrupt
has the highest number, so users who never rest keep it waiting; its list is last in,
first out, and its handler does not leave before the list is empty, so services that
never rest starve the pipes at its end and the other devices. The properties are
therefore stated for runs in which users, or users and services, eventually go quiet.

`net_pipe` assumes weak fairness of the guest's handler, as one action, and of `MainLoop`
for each pipe: the main loop comes round for as long as the emulator lives, and
`select()` is level triggered. Nothing is assumed of peers or of the guest's threads.

`aio` assumes that each worker runs (`WorkerStep`), that a pending signal is
delivered, and that the main thread goes on in whatever it is doing (`MainStep`), each
weakly: these are threads of the operating system. It assumes strong fairness of
`main_loop_wait` and of a callback's return, because at the same places a client may
submit further requests, and a client that does so without end is not what the
property is about. The return is required in each context by itself, as is the answer
to a synchronous read: otherwise one client of the outer loop that returns for ever
would excuse another that never does.

## The proofs

Each proof is of the whole specification, for every value of the constants: sets of
pipes, channels, services, threads, requests and workers of any size, and any bound on
messages, pieces and buffers. Every safety property that a passing run checks, and every
refinement, is proved. What is assumed of the constants is named and is checked by TLC on
every instance: channels are positive (`ChannelAssumption`), "connector" is no service
(`ServiceAssumption`), events raised are events and threads read or write channels
(`RaisableAssumption`, `ThreadAssumption`), services that can be saved are services
(`SaveableAssumption`), a service may raise what qemud and sockets raise
(`QemudRaisableAssumption`, `NetAssumption`), the guest keeps up with its users
(`InputAssumption`), the thread pool has a thread (`AioAssumption`), buffers are not empty,
a control message fits in a packet (`PayloadAssumption`; 4000 bytes in the code) and a
frame's header can hold its size (`SerialBoundAssumption`).

| module | theorem | states |
|---|---|---|
| `GoldfishPipeProofs` | `TypeCorrect`, `NoDanglingPipe`, `LineStaysHigh`, `NoEventForgotten`, `SleepersCanBeWoken` | `TypeOK`, `SignaledAreLive`, `SignalHoldsLine`, `RaisedStaysPending`, `NoDeafSleeper` |
| | `DeviceReportsEvents` | `ReportsEvents`: the device implements `PipeEvents` |
| `GoldfishPipeSnapshotProofs` | `SnapTypeCorrect`, `SnapNoDanglingPipe`, `SnapLineStaysHigh`, `SnapNoEventForgotten`, `SnapSleepersAreHeard`, `SnapSleepersResume` | `TypeOK`, `SignaledAreLive`, `SignalHoldsLine`, `RaisedStaysPending`, `SleepersAreHeard`, `ResumedAreWoken` of `SnapSpec` |
| `GoldfishInterruptProofs` | `BoardIsGoldfishPipe` | `IsGoldfishPipe`: so all of the above holds behind the controller |
| | `CountIsRight`, `DevicesAreHeard`, `EventsAreWhole`, `BoardTypeCorrect` | `PendingIsCounted`, `WaitingIsHeard`, `EventsStayWhole`, `BoardTypeOK` |
| `QemudPipeProofs` | `QemudImplementsDevice`, `ClientsAreThoseOfPipes`, `QemudTypeCorrect`, `StreamsAreInOrder` | `ImplementsDevice`, `ClientsAreServed`, `QemudTypeOK`, `StreamInOrder` |
| `QemudSerialProofs` | `SerialTypeCorrect`, `FramesAreDelivered`, `CountsAreRight`, `LimitHoldsOnPort`, `SidesComeToAgree`, `GuestReadsInOrder` | `SerialTypeOK`, `FramesArrive`, `ClientsAreCounted`, `LimitHolds` if `MaxPipes` is 0, `SidesAgree`, `GuestStreamInOrder` |
| `NetPipeProofs` | `NetImplementsDevice`, `NetTypeCorrect`, `NoWishLost`, `NetSleepersCanBeWoken` | `ImplementsDevice`, `NetTypeOK`, `SleepersAreWatched`, `NoDeafSleeper` |
| `AioPoolProofs` | `AioTypeCorrect`, `CountersAreRight`, `ResultsAreStoredHome`, `CallbacksStayInContext`, `NoWakeupIsLost`, `EndsOfRequestsAreNoticed` | `TypeOK`, `CountersMatch`, `ResultsGoHome`, `CallbacksKeepToContext`, `SleepersAreNotNeeded`, `EndsAreNoticed` |

**The device.** None of its properties is inductive alone. The invariant `IInv`
(theorem `Invariant`) adds:

- `Linked`: both lists have no repetition, the signaled ones are among the pipes,
  and the line is high if there are any. The line and the list change together
  in `goldfish_pipe_wake` and REG_CHANNEL, and CMD_CLOSE only shortens the list.
- `ChannelsDiffer`: no two pipes have one channel. CMD_OPEN refuses a channel in
  use; without it, a lookup could find another pipe than the one a thread sleeps
  on. (It is exactly what a load into a running machine breaks.)
- `Pending` and `SleepersRecorded`: the properties themselves over the lists
  rather than over a lookup.

The argument per action: the first lemmas say what each operator does to the
record (`WakeFacts`, `CloseFacts`, `PopFacts`, ...) in terms of `Grows`, "pipes
were woken or closed by the host, and no more"; a service's run is a `Grows`
step, so each command is its own change followed by one, and `Grows` keeps every
record that a sleeper rests on.

**Its promise.** `PipeEvents` says which events are asked for and due on each channel
and which the guest holds. For the refinement a service's call must be known exactly
(`Exactly`: which flags one pipe gains) where `Grows` was enough before, and a pipe must be
on the list only for something that was raised (`SignaledAreRaised`): otherwise the
handler could be told of a channel on which nothing is due.

**Behind the controller.** `Counted` (the count and the processor's line are those
of the pending lines) is kept by each operation whatever calls it; that needs only the
cardinality of a set with one element more or less. `LineIsDevices` and `HandlerRuns`
tie the pipe's level and handler to the controller and the processor, which makes
`Dispatch` of the pipe's line the step `IsrEnter` of `GoldfishPipe`; all else follows
from its theorems. `ResetIsQuiet` is what DISABLE_ALL rests on: before the kernel
starts no pipe is open and the events device holds its line back. `InputWaits`
says that whole events wait, and what is left of the one being read.

**Its services.** A step of `QemudPipe` or `NetPipe` is a step of `GoldfishPipe` or leaves
it alone; this needs what the narrower services keep. For qemud: its list holds the
client of each pipe it serves once (`ServedInOrder`), and an open file has its pipe. For
sockets: which pipes have a `NetPipe` and in what state (`PipesAgree`), what a pipe
not on the list has recorded is known to its `NetPipe` (`WishesAreKnown`), and
threads wait only on pipes that have left their connector (`ThreadsAreServed`).

**The thread pool.** `AioInv` says where each request is (`Lists`, `Owners`: in the list,
with one worker, or running, and never two of these) and what the main thread's stack
looks like (`Good`: the current context is the number of synchronous reads below, and
each frame belongs to the context in which it was pushed). `NoWakeupIsLost` needs one
thing more than `AioInv`: a signal is still to come only from the frame on top of the
stack. Taking a request takes one from both sides of the inequality.

For `EndsOfRequestsAreNoticed` the reasons for which somebody will look for a request that
has ended are named (`Coming`), and each step that takes one away is shown to give
another: the signal's handler writes the pipe, whoever empties the pipe scans the list, a
scan that ends has passed over requests of other contexts only, and leaving a context
schedules the bottom half of the one below. That needs more of the stack than `AioInv`
says (`HomeInv`): a callback runs above the scan that will start over; a listed request of
an inner context is the one that a synchronous read on the stack waits for; and only
`paio_cancel`, alone on the stack, has a cancelled request in the list.

**Snapshots.** `ChannelsDiffer`, on which everything rests in `GoldfishPipe`, is what a
load into the running machine breaks. What takes its place (`SnapInv`) is the *first* pipe
of a channel, the one that a lookup finds: pushing a pipe of another channel, or
unlinking one, leaves it the first (`PipeNewSame`, `PipeFreeSame`), and the guest opens
only a channel that no pipe has. So each step of the running machine keeps the pipe that
each sleeper's request is recorded in (`SameFor`). For a save, each sleeper's request is in
the file or in the report that the handler held (`FileHears`), which stays true of the
snapshot whatever the machine does. For a load, the pipes of the file are pushed in
reverse (`PushedFacts`), the loop that wakes them is a fold whose effect is found by
induction over the list (`LoopWakes`: every pipe that records something is signaled and the
line is high), and a channel that had one pipe in the file has that one first. The line needs
one thing more: a load sets it to what the interrupt controller had saved, low perhaps
while pipes of the running machine are signaled. It is raised again because these pipes
too record something (`SignaledWant`), for which the loop wakes them a second time.

**Streams of bytes.** `StreamInOrder` says that what a client of `QemudPipe` was sent is what
the guest has read followed by what its messages hold from the offset on. A read goes
through several messages (`Dropped`, a fold); that it leaves the bytes behind its end is
proved by induction over the messages.

The serial side is the longest proof. Its state does not say which packets are on
their way, since the port may cut them anywhere: their bytes are in the daemon's line, in
what `charpipehalf_write` still holds, in the header and payload that `qemud_serial_read`
has so far, and in `msg`. The invariant is therefore that *there is* a sequence of packets
of which these, put together, are the bytes (`StreamOK`), and every other part of it
speaks of that sequence: which control messages are in it, and what they and the answers to
them mean for a channel (`ControlInv`, `ChannelOK`); and that, behind the part of a frame
that a client already has, the bytes in it for that channel are the frames its service was
not given yet (`FramesInv`). A lemma for each action says what becomes of the sequence: a
piece moves between the places, a packet is taken off its front (`SerialReads`, with the
header and the payload as the two ways in which it can be incomplete) or put at its end.
`Counted` is about cardinalities of sets of clients with one more or less. The other direction
is a lemma about the buffers: `PipeWriteFacts`, `PipePollFacts` and `PipeReadFacts` say that
what the character pipe and the reader hold, put together, gains what is written at its end
and loses what is read at its front, from the arithmetic of a ring of any size
(`WriteFacts`, `PeekFacts`, `StepFacts`).

**How data is handled.** The library's induction theorems take a formula as a parameter,
which the provers cannot instantiate; `ListFacts` states induction over *sets* of numbers and
of sequences instead (`SetInduction`, `SeqInduction`, from the well-foundedness of <), and
the recursive functions behind `FlattenSeq` and `FoldLeft` are characterised by it
(`FlattensExists`, `FlattensUnique`, `FoldsWakesExists`).

**Model-checked only**: the liveness properties (`ReportedInTurn`, `WokenInTurn`, `InputIsRead`,
`SocketWakesSleepers`, `EveryRequestEnds`), whose proofs need ENABLED, which is beyond the
prover; and what the violation runs refute (of `LimitHolds`, the case without pipes and loads is proved).

## What is not modelled

- In the pipe device: CMD_POLL (it changes nothing), the contents of transfers, the
  batched form of a command (REG_ACCESS_PARAMS issues the same READ and WRITE), the
  connector's buffer, the debug pipes (zero, ping-pong, throttle: what they may do to a
  pipe is within `ServiceRuns`).
- In snapshots: loads that fail half way, qemud's pipe clients, the interrupt
  controller's and the events device's own state, and the file.
- Behind the controller: fast interrupts (no register enables one), the registers
  and pages that describe devices, the edge that the events device adds for x86, the
  other devices. A full queue of events is in the model but out of its instances: it takes
  1021 words, and there the code goes wrong (see "hazards").
- In qemud's serial port: packets larger than the buffer, empty frames, changes of
  framing on a live client, the protocol of the old daemon.
- Serial ports' interrupts and mask, timers, DMA, the asynchronous readers and writers, the
  ADB bridge, the controller sockets.

Most of the repository is none of this: the processor's emulation and code generation,
vendored libraries (SDL, PNG, zlib), the user interface, drivers that are register files
with one client, and text protocols, in which nothing runs concurrently or which are data
and tables rather than control. The share of its lines that the models cover is therefore
small, and would stay so. `PROJECT.json` lists these parts as components with a reason, and
under "hazards" where the parts that were read could go wrong.

## Plan

In this order; each step adds its module, its run and, where it says so, theorems.

1. The ADB bridge (`adb-server.c`, `adb-qemud.c`): a service of `GoldfishPipe` that
   joins a socket to a guest's connection; bytes neither lost nor reordered, no handler
   left with a freed host.
2. The connector's buffer: a name gathered from writes of any size.
3. Snapshots of qemud's pipe clients, of the controller and the events device, and loads that
   fail half way, in `GoldfishPipeSnapshot`.
4. The serial port's interrupt and mask behind `GoldfishInterrupt`, with `CharPipe`.
5. Timers (`qemu-timer.c`) and the generic looper.
6. Theorems: `QemudSerialSnapshot` keeps the serial side's invariant across loads into a new
   process; steps towards liveness (what a turn of the kernel takes away).
