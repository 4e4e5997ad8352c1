------------------------------ MODULE AioPool -------------------------------
(***************************************************************************)
(* Asynchronous disk requests (posix-aio-compat.c) with the nested event   *)
(* loops that wait for them (aio-android.c, async.c, block.c).             *)
(*                                                                         *)
(* The emulator's main thread puts requests on a list from which a pool of *)
(* worker threads takes them.  A worker that is through with a request     *)
(* stores the result and sends the process a signal; the signal's handler  *)
(* writes a byte into a pipe, and the main thread, once it sees the byte,  *)
(* runs the callbacks of the requests that are done.  A callback may read  *)
(* the disk "synchronously": the main thread then enters a new asynchronous*)
(* context, submits a request of that context and runs an event loop of    *)
(* its own, in which the callbacks of other contexts must wait.            *)
(*                                                                         *)
(* A step of a worker is what it does while it holds the lock, or one call *)
(* outside it.  What the main thread is in the middle of is a stack of     *)
(* frames; the empty stack is the main loop.  What is read and written, and*)
(* whether it succeeds, is left out: a request is in progress, done or     *)
(* cancelled.                                                              *)
(***************************************************************************)
EXTENDS Integers, FiniteSets, SequencesExt

(* The memory blocks that requests are kept in (each is used again and     *)
(* again), the worker threads, of which there are at most max_threads, and *)
(* the deepest nesting of contexts: a bound on what clients ask for.       *)
CONSTANTS Request, Worker, MaxContext
ASSUME AioAssumption ==
  /\ IsFiniteSet(Request) /\ IsFiniteSet(Worker) /\ Worker # {}
  /\ MaxContext \in Nat

VARIABLES
  first_aio,     \* the requests whose callbacks have not run, newest first
  request_list,  \* the requests no worker has taken
  req,           \* [r] : the request's result, whether it is active, its context
  cur_threads, idle_threads,
  thread,        \* [w] : where worker w is, and with which request
  signaled,      \* SIGUSR2 is pending
  rfd,           \* the signal pipe holds a byte
  context,       \* the number of the current asynchronous context
  bhs,           \* the contexts with a bottom half that runs completions
  stack,         \* what the main thread is in the middle of
  pos, result    \* posix_aio_process_queue on top of the stack: its variables

pool == <<cur_threads, idle_threads, thread>>
scan == <<pos, result>>
vars == <<first_aio, request_list, req, pool, signaled, rfd, context, bhs,
          stack, scan>>

max_threads == Cardinality(Worker)
Context == 0..MaxContext

(* Where the main thread is: in a caller of qemu_aio_wait (read, waiting   *)
(* for r, or done; flush; check, the end of the flush loop), in            *)
(* qemu_aio_wait (poll, queue, select, leave), in posix_aio_process_queue  *)
(* (scan), in r's callback, before cond_signal (signal), in paio_cancel.   *)
Frame(at, r) == [at |-> at, req |-> {r}]
Plain(at) == [at |-> at, req |-> {}]
Frames ==
  {Frame(at, r) : at \in {"read", "done", "callback", "signal", "cancel"}, r \in Request}
    \cup {Plain(at) : at \in {"flush", "check", "poll", "queue", "select", "leave", "scan"}}

At(at) == stack # <<>> /\ Last(stack).at = at
With(at, r) == stack # <<>> /\ Last(stack) = Frame(at, r)
Replace(at) == Append(Front(stack), Plain(at))

(* A worker is not there; about to take the lock and look at the list;     *)
(* waits; has timed out and is about to take the lock; works on a request; *)
(* or is about to send the signal.                                         *)
Place == {"none", "look", "wait", "late", "busy", "kill"}
Workers(places) == {w \in Worker : thread[w].at \in places}
Move(w, at) == thread' = [thread EXCEPT ![w] = [at |-> at, req |-> {}]]

Running == {r \in Request : \E i \in DOMAIN stack : stack[i] = Frame("callback", r)}
Held == ToSet(first_aio) \cup Running

TypeOK ==
  /\ first_aio \in Seq(Request) /\ request_list \in Seq(Request)
  /\ req \in [Request -> [ret: {"inprogress", "done", "canceled"},
                          active: BOOLEAN, context: Context]]
  /\ cur_threads \in 0..max_threads /\ idle_threads \in 0..max_threads
  /\ thread \in [Worker -> [at: Place, req: SUBSET Request]]
  /\ signaled \in BOOLEAN /\ rfd \in BOOLEAN
  /\ context \in Context /\ bhs \subseteq Context
  /\ stack \in Seq(Frames)
  /\ pos \in Nat /\ result \in BOOLEAN

Init ==
  /\ first_aio = <<>> /\ request_list = <<>>
  /\ req = [r \in Request |-> [ret |-> "done", active |-> FALSE, context |-> 0]]
  /\ cur_threads = 0 /\ idle_threads = 0
  /\ thread = [w \in Worker |-> [at |-> "none", req |-> {}]]
  /\ signaled = FALSE /\ rfd = FALSE
  /\ context = 0 /\ bhs = {}
  /\ stack = <<>> /\ pos = 1 /\ result = FALSE

-----------------------------------------------------------------------------
(* The worker threads.                                                     *)

(* aio_thread, with the lock: the list is empty and the worker waits...    *)
Wait(w) ==
  /\ thread[w].at = "look" /\ request_list = <<>>
  /\ Move(w, "wait")
  /\ UNCHANGED <<first_aio, request_list, req, cur_threads, idle_threads,
                 signaled, rfd, context, bhs, stack, scan>>

(* ... or has waited for too long and ends.                                *)
(* Mutant: an ended worker still counts as idle.                           *)
EndsUncounted(w) == cur_threads' = cur_threads - 1 /\ UNCHANGED idle_threads
Ends(w) == cur_threads' = cur_threads - 1 /\ idle_threads' = idle_threads - 1

End(w) ==
  /\ thread[w].at = "late" /\ request_list = <<>>
  /\ Move(w, "none") /\ Ends(w)
  /\ UNCHANGED <<first_aio, request_list, req, signaled, rfd, context, bhs, stack, scan>>

(* It takes the first request.                                             *)
(* Mutant: a worker that has one still counts as idle.                     *)
TakesUncounted == UNCHANGED idle_threads
Takes == idle_threads' = idle_threads - 1

Take(w) ==
  /\ thread[w].at \in {"look", "late"} /\ request_list # <<>>
  /\ LET r == Head(request_list)
     IN  /\ req' = [req EXCEPT ![r].active = TRUE]
         /\ thread' = [thread EXCEPT ![w] = [at |-> "busy", req |-> {r}]]
  /\ request_list' = Tail(request_list)
  /\ Takes
  /\ UNCHANGED <<first_aio, cur_threads, signaled, rfd, context, bhs, stack, scan>>

(* It has done what was asked and stores the result.                       *)
Store(w) ==
  /\ thread[w].at = "busy"
  /\ \E r \in thread[w].req : req' = [req EXCEPT ![r].ret = "done"]
  /\ Move(w, "kill")
  /\ idle_threads' = idle_threads + 1
  /\ UNCHANGED <<first_aio, request_list, cur_threads, signaled, rfd, context,
                 bhs, stack, scan>>

(* It sends the signal, without the lock: the request may be released, and *)
(* be another one, by then; its signal's number is the same.               *)
Kill(w) ==
  /\ thread[w].at = "kill"
  /\ signaled' = TRUE
  /\ Move(w, "look")
  /\ UNCHANGED <<first_aio, request_list, req, cur_threads, idle_threads, rfd,
                 context, bhs, stack, scan>>

(* pthread_cond_timedwait returns: after ten seconds, or for no reason.    *)
TimedOut(w) ==
  /\ thread[w].at = "wait"
  /\ Move(w, "late") \/ Move(w, "look")
  /\ UNCHANGED <<first_aio, request_list, req, cur_threads, idle_threads,
                 signaled, rfd, context, bhs, stack, scan>>

WorkerStep(w) == Wait(w) \/ End(w) \/ Take(w) \/ Store(w) \/ Kill(w)

(* The signal's handler, in the main thread.  The select() it interrupts   *)
(* is called again (iolooper_wait).                                        *)
aio_signal_handler ==
  /\ signaled
  /\ signaled' = FALSE /\ rfd' = TRUE
  /\ UNCHANGED <<first_aio, request_list, req, pool, context, bhs, stack, scan>>

-----------------------------------------------------------------------------
(* What clients of the block layer do: the devices, from the main loop,    *)
(* and the callbacks of their requests and of the image formats.           *)
InClient == stack = <<>> \/ At("callback")

(* qemu_paio_submit's start of a worker when none is idle.                 *)
spawn_thread ==
  IF idle_threads = 0 /\ cur_threads < max_threads
  THEN /\ \E w \in Workers({"none"}) : Move(w, "look")
       /\ cur_threads' = cur_threads + 1 /\ idle_threads' = idle_threads + 1
  ELSE UNCHANGED pool

(* paio_submit, up to the end of the part of qemu_paio_submit that holds   *)
(* the lock; the signal comes after it, over the frames `below`.           *)
(* Mutant: nobody is signaled.                                             *)
SignalsNobody(below, r) == below
Signals(below, r) == Append(below, Frame("signal", r))

paio_submit(r, k, below) ==
  /\ r \notin Held
  /\ first_aio' = <<r>> \o first_aio
  /\ req' = [req EXCEPT ![r] =
               [ret |-> "inprogress", active |-> FALSE, context |-> k]]
  /\ spawn_thread
  /\ request_list' = Append(request_list, r)
  /\ stack' = Signals(below, r)
  /\ UNCHANGED <<signaled, rfd, bhs, scan>>

cond_signal ==
  /\ At("signal")
  /\ IF Workers({"wait"}) = {} THEN UNCHANGED thread
     ELSE \E w \in Workers({"wait"}) : Move(w, "look")
  /\ stack' = Front(stack)
  /\ UNCHANGED <<first_aio, request_list, req, cur_threads, idle_threads,
                 signaled, rfd, context, bhs, scan>>

(* A request nobody waits for: the devices', from the main loop and its    *)
(* callbacks.                                                              *)
Submit(r) == InClient /\ context = 0 /\ paio_submit(r, 0, stack) /\ UNCHANGED context

(* bdrv_read_em and bdrv_write_em, up to the loop that waits.              *)
bdrv_rw_em(r) ==
  /\ InClient /\ context < MaxContext
  /\ context' = context + 1
  /\ paio_submit(r, context + 1, Append(stack, Frame("read", r)))

(* The callback of a request that is waited for (an image format's) may    *)
(* need another one, and calls bdrv_rw_em_cb only when it is done too.     *)
Continue(r) ==
  /\ At("callback")
  /\ \E i \in DOMAIN stack :
       /\ stack[i].at = "read" /\ stack[i].req = Last(stack).req
       /\ paio_submit(r, context, [stack EXCEPT ![i] = Frame("read", r)])
  /\ UNCHANGED context

(* paio_cancel (the devices): a request no worker has taken is taken off   *)
(* the list; one that is being worked on is waited for.                    *)
CancelStart(r) ==
  /\ stack = <<>> /\ r \in ToSet(first_aio)
  /\ IF req[r].active THEN UNCHANGED <<request_list, req>>
     ELSE /\ request_list' = RemoveFirst(request_list, r)
          /\ req' = [req EXCEPT ![r].ret = "canceled"]
  /\ stack' = <<Frame("cancel", r)>>
  /\ UNCHANGED <<first_aio, pool, signaled, rfd, context, bhs, scan>>

(* Mutant: without waiting for it.                                         *)
CancelAtOnce(r) == TRUE
CancelWaits(r) == req[r].ret # "inprogress"

paio_remove(r) ==
  /\ With("cancel", r) /\ CancelWaits(r)
  /\ first_aio' = RemoveFirst(first_aio, r)
  /\ stack' = Front(stack)
  /\ UNCHANGED <<request_list, req, pool, signaled, rfd, context, bhs, scan>>

-----------------------------------------------------------------------------
(* posix_aio_process_queue, one request at a time.  The removal of a       *)
(* cancelled one is left out: paio_cancel leaves none on the list.         *)
StartScan(below) ==
  /\ stack' = Append(below, Plain("scan"))
  /\ UNCHANGED <<first_aio, request_list, req, pool, signaled, context, scan>>

(* A request of another context, or one that is in progress, is passed.    *)
(* Mutant: the context is not looked at.                                   *)
RipeAnywhere(r) == req[r].ret = "done"
Ripe(r) == req[r].context = context /\ req[r].ret = "done"

Pass ==
  /\ At("scan") /\ pos <= Len(first_aio) /\ ~ Ripe(first_aio[pos])
  /\ pos' = pos + 1
  /\ UNCHANGED <<first_aio, request_list, req, pool, signaled, rfd, context,
                 bhs, stack, result>>

(* The end of one is told to its client.                                   *)
Callback ==
  /\ At("scan") /\ pos <= Len(first_aio) /\ Ripe(first_aio[pos])
  /\ stack' = Append(stack, Frame("callback", first_aio[pos]))
  /\ first_aio' = RemoveAt(first_aio, pos)
  /\ pos' = 1 /\ result' = FALSE
  /\ UNCHANGED <<request_list, req, pool, signaled, rfd, context, bhs>>

(* The callback returns: its request's memory is free again, a reader that *)
(* waits for it has its answer, and the scan starts over.                  *)
CallbackReturns ==
  /\ At("callback")
  /\ \E r \in Last(stack).req :
       stack' = [i \in DOMAIN Front(stack) |->
                   IF stack[i] = Frame("read", r) THEN Frame("done", r) ELSE stack[i]]
  /\ pos' = 1 /\ result' = TRUE
  /\ UNCHANGED <<first_aio, request_list, req, pool, signaled, rfd, context, bhs>>

(* The end of the list: qemu_aio_wait returns, unless it was looking for   *)
(* callbacks that had been put off and found none.                         *)
ScanReturns ==
  /\ At("scan") /\ pos > Len(first_aio)
  /\ LET below == Front(stack)
         at == IF below = <<>> THEN "main" ELSE Last(below).at
     IN  stack' = IF at = "queue" /\ ~ result
                  THEN Append(Front(below), Plain("select"))
                  ELSE IF at \in {"queue", "leave"} THEN Front(below) ELSE below
  /\ pos' = 1 /\ result' = FALSE
  /\ UNCHANGED <<first_aio, request_list, req, pool, signaled, rfd, context, bhs>>

-----------------------------------------------------------------------------
(* The bottom half and the pipe of the signals.                            *)
bh_run_aio_completions(below) ==
  /\ context \in bhs /\ bhs' = bhs \ {context}
  /\ StartScan(below) /\ UNCHANGED rfd

posix_aio_read(below) ==
  /\ rfd /\ rfd' = FALSE
  /\ StartScan(below) /\ UNCHANGED bhs

main_loop_wait ==
  stack = <<>> /\ (bh_run_aio_completions(stack) \/ posix_aio_read(stack))

Go(next) ==
  /\ stack' = next
  /\ UNCHANGED <<first_aio, request_list, req, pool, signaled, rfd, context, bhs, scan>>

(* qemu_aio_wait, whose caller's frame is below: bottom halves first, then *)
(* callbacks that have been put off, then it waits for the pipe.           *)
qemu_aio_wait ==
  \/ At("poll") /\ bh_run_aio_completions(Replace("leave"))
  \/ At("poll") /\ context \notin bhs /\ StartScan(Replace("queue")) /\ UNCHANGED <<rfd, bhs>>
  \/ At("select") /\ first_aio = <<>> /\ Go(Front(stack))
  \/ At("select") /\ first_aio # <<>> /\ posix_aio_read(Replace("leave"))

(* async_context_pop, when no bottom half of the context is left.          *)
(* Mutant: the parent context is not told that callbacks may wait.         *)
PopForgets == bhs' = bhs
PopSchedules == bhs' = bhs \cup {context - 1}

async_context_pop ==
  /\ context \notin bhs
  /\ context' = context - 1 /\ PopSchedules
  /\ stack' = Front(stack)
  /\ UNCHANGED <<first_aio, request_list, req, pool, signaled, rfd, scan>>

(* The rest of bdrv_read_em: it waits until its callback has run.          *)
bdrv_rw_em_loop ==
  \/ At("read") /\ Go(Append(stack, Plain("poll")))
  \/ At("done") /\ (bh_run_aio_completions(stack) \/ async_context_pop)

(* qemu_aio_flush (before a snapshot is saved or loaded).                  *)
FlushStart == stack = <<>> /\ Go(<<Plain("flush")>>)
qemu_aio_flush ==
  \/ At("flush") /\ Go(Append(Replace("check"), Plain("poll")))
  \/ At("check") /\ bh_run_aio_completions(Replace("flush"))
  \/ /\ At("check") /\ context \notin bhs
     /\ Go(IF first_aio # <<>> THEN Replace("flush") ELSE Front(stack))

-----------------------------------------------------------------------------
Client ==
  \/ FlushStart
  \/ \E r \in Request : Submit(r) \/ bdrv_rw_em(r) \/ Continue(r) \/ CancelStart(r)

MainStep ==
  \/ cond_signal \/ Pass \/ Callback \/ CallbackReturns \/ ScanReturns
  \/ main_loop_wait \/ qemu_aio_wait \/ bdrv_rw_em_loop \/ qemu_aio_flush
  \/ \E r \in Request : paio_remove(r)

Next ==
  \/ Client \/ MainStep \/ aio_signal_handler
  \/ \E w \in Worker : WorkerStep(w) \/ TimedOut(w)

Spec == Init /\ [][Next]_vars

(* The threads run, a pending signal is delivered, callbacks return, those *)
(* of a read get to its end, and the main loop comes round again however   *)
(* often clients use the block layer between.                              *)
Answers == CallbackReturns /\ stack' # Front(stack)

FairSpec ==
  /\ Spec
  /\ \A w \in Worker : WF_vars(WorkerStep(w))
  /\ WF_vars(aio_signal_handler)
  /\ WF_vars(MainStep) /\ SF_vars(main_loop_wait)
  /\ \A k \in 1..MaxContext :
       /\ SF_vars(CallbackReturns /\ context = k - 1)
       /\ SF_vars(Answers /\ context = k)

-----------------------------------------------------------------------------
(* The counters that decide whether a thread is started are those of the   *)
(* threads there are: a request is not left to threads that have ended or  *)
(* are all busy (spawn_thread, aio_thread).                                *)
CountersMatch ==
  /\ cur_threads = Cardinality(Workers(Place \ {"none"}))
  /\ idle_threads = Cardinality(Workers(Place \ {"none", "busy"}))

(* No wake-up is lost: while a worker sleeps, each request nobody has      *)
(* taken has a worker of its own that is about to look at the list, or the *)
(* one still to be signaled.  A signal may find no sleeper, a sleeper may  *)
(* time out at that moment, another worker may take the request first.     *)
SleepersAreNotNeeded ==
  Workers({"wait"}) # {} =>
    Len(request_list) <=
      Cardinality(Workers({"look", "late", "kill"})) + (IF At("signal") THEN 1 ELSE 0)

(* A worker stores its result into the request it took, which has not been *)
(* cancelled, released or used for another request meanwhile               *)
(* (paio_cancel, qemu_aio_release).                                        *)
ResultsGoHome ==
  \A w \in Worker : \A r \in thread[w].req :
    /\ r \in Held \ Running /\ req[r].active /\ req[r].ret = "inprogress"
    /\ r \notin ToSet(request_list)
    /\ \A v \in Worker \ {w} : r \notin thread[v].req

(* The synchronous reads among the first n frames.                        *)
Readers(n) == {i \in 1..n : stack[i].at \in {"read", "done"}}

(* No end of a request goes unnoticed: what is done and not yet told is in *)
(* front of the scan that runs, or a worker, the signal, the pipe or a     *)
(* bottom half will start one in its context, or its context is not the    *)
(* current one and leaving that will.  The pipe is emptied, and the list   *)
(* scanned, while workers finish and in contexts that may not run it.      *)
Coming(r) ==
  \/ signaled \/ rfd \/ Workers({"kill"}) # {}
  \/ req[r].context \in bhs \/ req[r].context < context
  \/ At("poll") \/ With("cancel", r)
  \/ \E i \in DOMAIN stack : stack[i].at = "callback" /\ Cardinality(Readers(i)) = req[r].context
  \/ At("scan") /\ \E i \in DOMAIN first_aio : first_aio[i] = r /\ i >= pos
EndsAreNoticed ==
  \A r \in ToSet(first_aio) : req[r].ret # "inprogress" => Coming(r)

(* "Callbacks must only be run if they belong to the current AsyncContext" *)
(* (async.c:40): while a synchronous read is under way inside a callback,  *)
(* no callback runs but those of the requests that read has made.          *)
CallbacksKeepToContext ==
  /\ context = Cardinality(Readers(Len(stack)))
  /\ \A i \in DOMAIN stack, r \in Request :
       stack[i] = Frame("callback", r) => req[r].context = Cardinality(Readers(i))

(* Every request ends: its callback runs, or it is cancelled.              *)
EveryRequestEnds == \A r \in Request : r \in ToSet(first_aio) ~> r \notin ToSet(first_aio)
=============================================================================
