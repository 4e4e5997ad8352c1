--------------------------- MODULE AioPoolProofs ---------------------------
(***************************************************************************)
(* The safety of AioPool, for every set of requests and worker threads and *)
(* every depth of nested contexts: the counters of the threads are right,  *)
(* a worker stores its result where it belongs, callbacks keep to their    *)
(* context, no wake-up of a worker is lost, and no end of a request.       *)
(*                                                                         *)
(* Three parts of the invariant hang together: a request is in the list,   *)
(* with a worker or running, never two of these (Lists, ResultsGoHome);    *)
(* the number of the current context is the number of synchronous reads on *)
(* the stack (Good); and so a callback's request is of the context in      *)
(* which its frame was pushed.                                             *)
(*                                                                         *)
(* That no end of a request is lost goes through every way in which a step *)
(* can take a reason to look for one away: a signal taken writes the pipe, *)
(* the pipe emptied starts a scan, a scan that ends has passed over the    *)
(* requests of other contexts only, and a context that is left schedules   *)
(* the bottom half of the one below (Coming, HomeInv).                     *)
(***************************************************************************)
EXTENDS AioPool, ListFacts, FiniteSetTheorems

-----------------------------------------------------------------------------
(* Counting worker threads.                                                *)
WorkerState == [at: Place, req: SUBSET Request]
At_(t, places) == {w \in Worker : t[w].at \in places}

(* There are at most max_threads of any kind.                              *)
LEMMA CountFacts ==
  ASSUME NEW t, NEW places
  PROVE  /\ IsFiniteSet(At_(t, places))
         /\ Cardinality(At_(t, places)) \in 0..max_threads
         /\ max_threads \in Nat
<1>1. At_(t, places) \subseteq Worker
  BY DEF At_
<1>2. IsFiniteSet(Worker) /\ Cardinality(Worker) \in Nat
  BY AioAssumption, FS_CardinalityType
<1>3. /\ IsFiniteSet(At_(t, places))
      /\ Cardinality(At_(t, places)) <= Cardinality(Worker)
  BY <1>1, <1>2, FS_Subset
<1>4. Cardinality(At_(t, places)) \in Nat
  BY <1>3, FS_CardinalityType
<1> QED BY <1>2, <1>3, <1>4 DEF max_threads

(* One worker moves.                                                       *)
LEMMA CountMove ==
  ASSUME NEW t, NEW u, NEW w \in Worker, NEW places,
         \A v \in Worker \ {w} : u[v] = t[v]
  PROVE  /\ Cardinality(At_(t, places)) \in Nat
         /\ Cardinality(At_(u, places)) =
              Cardinality(At_(t, places)) + (IF u[w].at \in places THEN 1 ELSE 0)
                                          - (IF t[w].at \in places THEN 1 ELSE 0)
<1> DEFINE T == At_(t, places)
           U == At_(u, places)
<1>1. IsFiniteSet(T) /\ Cardinality(T) \in Nat
  BY CountFacts, FS_CardinalityType
<1>2. /\ w \in T <=> t[w].at \in places
      /\ w \in U <=> u[w].at \in places
      /\ U \ {w} = T \ {w}
  BY DEF At_
<1> SUFFICES Cardinality(U) = Cardinality(T) + (IF w \in U THEN 1 ELSE 0)
                                             - (IF w \in T THEN 1 ELSE 0)
  BY <1>1, <1>2
<1> HIDE DEF T, U
<1>3. CASE w \in T /\ w \notin U
  <2>1. U = T \ {w}
    BY <1>2, <1>3
  <2>2. Cardinality(T \ {w}) = Cardinality(T) - 1
    BY <1>1, <1>3, FS_RemoveElement
  <2> QED BY <1>1, <1>3, <2>1, <2>2
<1>4. CASE w \notin T /\ w \in U
  <2>1. U = T \cup {w}
    BY <1>2, <1>4
  <2> QED BY <1>1, <1>4, <2>1, FS_AddElement
<1>5. CASE w \in T <=> w \in U
  <2>1. U = T
    BY <1>2, <1>5
  <2> QED BY <1>1, <1>5, <2>1
<1> QED BY <1>3, <1>4, <1>5

-----------------------------------------------------------------------------
(* The main thread's stack.                                                *)
Reader == {"read", "done"}
ReadersOf(s, n) == {i \in 1..n : s[i].at \in Reader}
RunningIn(s) == {r \in Request : \E i \in 1..Len(s) : s[i] = Frame("callback", r)}

(* k contexts are entered on the stack s, and the request of a callback    *)
(* there is of the context that its frame lies in.                         *)
Good(s, q, k) ==
  /\ s \in Seq(Frames)
  /\ Cardinality(ReadersOf(s, Len(s))) = k
  /\ \A i \in 1..Len(s), r \in Request :
       s[i] = Frame("callback", r) => q[r].context = Cardinality(ReadersOf(s, i))

LEMMA ReadersFacts ==
  ASSUME NEW s, NEW n \in Nat
  PROVE  IsFiniteSet(ReadersOf(s, n)) /\ Cardinality(ReadersOf(s, n)) \in Nat
<1>1. IsFiniteSet(1..n)
  BY FS_Interval
<1>2. ReadersOf(s, n) \subseteq 1..n
  BY DEF ReadersOf
<1> QED BY <1>1, <1>2, FS_Subset, FS_CardinalityType

(* Frames differ from each other by where they are.                        *)
LEMMA FrameFacts ==
  ASSUME NEW f \in Frames
  PROVE  /\ \A r : f = Frame("callback", r) => f.at = "callback"
         /\ f.at = "callback" => \E r \in Request : f = Frame("callback", r)
BY DEF Frames, Frame, Plain

(* Pushing a frame.                                                        *)
LEMMA PushShape ==
  ASSUME NEW s \in Seq(Frames), NEW f \in Frames
  PROVE  LET t == Append(s, f)
             n == Len(s)
         IN  /\ t \in Seq(Frames) /\ n \in Nat /\ Len(t) = n + 1 /\ t[n + 1] = f
             /\ \A i \in 1..n : t[i] = s[i]
             /\ \A i \in 1..n : ReadersOf(t, i) = ReadersOf(s, i)
             /\ Cardinality(ReadersOf(t, n + 1)) =
                  Cardinality(ReadersOf(s, n)) + (IF f.at \in Reader THEN 1 ELSE 0)
<1> DEFINE t == Append(s, f)
           n == Len(s)
<1>1. /\ t \in Seq(Frames) /\ n \in Nat /\ Len(t) = n + 1 /\ t[n + 1] = f
      /\ \A i \in 1..n : t[i] = s[i]
  OBVIOUS
<1> HIDE DEF t, n
<1>2. \A i \in 1..n : ReadersOf(t, i) = ReadersOf(s, i)
  BY <1>1 DEF ReadersOf
<1>3. ReadersOf(t, n + 1) = IF f.at \in Reader THEN ReadersOf(s, n) \cup {n + 1} ELSE ReadersOf(s, n)
  BY <1>1 DEF ReadersOf
<1>4. n + 1 \notin ReadersOf(s, n)
  BY <1>1 DEF ReadersOf
<1>5. Cardinality(ReadersOf(t, n + 1)) =
        Cardinality(ReadersOf(s, n)) + (IF f.at \in Reader THEN 1 ELSE 0)
  BY <1>1, <1>3, <1>4, ReadersFacts, FS_AddElement
<1> QED BY <1>1, <1>2, <1>5 DEF t, n

LEMMA PushFacts ==
  ASSUME NEW s, NEW q, NEW k, Good(s, q, k), NEW f \in Frames
  PROVE  LET t == Append(s, f)
         IN  /\ f.at \notin Reader \cup {"callback"} => Good(t, q, k) /\ RunningIn(t) = RunningIn(s)
             /\ f.at \in Reader => Good(t, q, k + 1) /\ RunningIn(t) = RunningIn(s)
             /\ \A r \in Request : f = Frame("callback", r) /\ q[r].context = k =>
                  Good(t, q, k) /\ RunningIn(t) = RunningIn(s) \cup {r}
<1> DEFINE t == Append(s, f)
           n == Len(s)
<1>1. s \in Seq(Frames) /\ Cardinality(ReadersOf(s, n)) = k
  BY DEF Good
<1>2. /\ t \in Seq(Frames) /\ n \in Nat /\ Len(t) = n + 1 /\ t[n + 1] = f
      /\ \A i \in 1..n : t[i] = s[i]
      /\ \A i \in 1..n : ReadersOf(t, i) = ReadersOf(s, i)
      /\ Cardinality(ReadersOf(t, n + 1)) = k + (IF f.at \in Reader THEN 1 ELSE 0)
  BY <1>1, PushShape
<1>3. /\ k \in Nat
      /\ \A i \in 1..n, r \in Request :
           s[i] = Frame("callback", r) => q[r].context = Cardinality(ReadersOf(s, i))
  BY <1>1, <1>2, ReadersFacts DEF Good
<1>4. \A i \in 1..(n + 1) : i \in 1..n \/ i = n + 1
  BY <1>2
<1>5. /\ \A r : f = Frame("callback", r) => f.at = "callback"
      /\ "callback" \notin Reader
  BY FrameFacts DEF Reader
<1> HIDE DEF t, n
<1>6. ASSUME f.at \notin Reader \cup {"callback"}
      PROVE  Good(t, q, k) /\ RunningIn(t) = RunningIn(s)
  <2>1. \A r : f # Frame("callback", r)
    BY <1>5, <1>6
  <2>2. RunningIn(t) = RunningIn(s)
    BY <1>2, <1>4, <2>1 DEF RunningIn, n
  <2> QED BY <1>2, <1>3, <1>4, <1>6, <2>1, <2>2 DEF Good
<1>7. ASSUME f.at \in Reader
      PROVE  Good(t, q, k + 1) /\ RunningIn(t) = RunningIn(s)
  <2>1. \A r : f # Frame("callback", r)
    BY <1>5, <1>7
  <2>2. RunningIn(t) = RunningIn(s)
    BY <1>2, <1>4, <2>1 DEF RunningIn, n
  <2> QED BY <1>2, <1>3, <1>4, <1>7, <2>1, <2>2 DEF Good
<1>8. ASSUME NEW r \in Request, f = Frame("callback", r), q[r].context = k
      PROVE  Good(t, q, k) /\ RunningIn(t) = RunningIn(s) \cup {r}
  <2>1. f.at \notin Reader
    BY <1>5, <1>8
  <2>2. \A x \in Request : f = Frame("callback", x) <=> x = r
    BY <1>8 DEF Frame
  <2>3. RunningIn(t) = RunningIn(s) \cup {r}
    BY <1>2, <1>4, <2>2 DEF RunningIn, n
  <2> QED BY <1>2, <1>3, <1>4, <1>8, <2>1, <2>2, <2>3 DEF Good
<1> QED BY <1>6, <1>7, <1>8 DEF t

(* Popping one.                                                            *)
LEMMA PopFacts ==
  ASSUME NEW s, NEW q, NEW k, Good(s, q, k), s # <<>>
  PROVE  LET t == Front(s)
             f == Last(s)
         IN  /\ f \in Frames
             /\ f.at \notin Reader => Good(t, q, k)
             /\ f.at \in Reader => Good(t, q, k - 1) /\ k \in Nat \ {0}
             /\ RunningIn(t) \subseteq RunningIn(s)
             /\ Len(s) \in Nat \ {0} /\ Len(t) = Len(s) - 1 /\ f = s[Len(s)]
             /\ \A i \in 1..Len(t) : t[i] = s[i]
<1> DEFINE t == Front(s)
           f == Last(s)
           n == Len(t)
<1>1. s \in Seq(Frames) /\ Cardinality(ReadersOf(s, Len(s))) = k
  BY DEF Good
<1>2. /\ t \in Seq(Frames) /\ Len(s) \in Nat \ {0} /\ n = Len(s) - 1
      /\ \A i \in 1..(Len(s) - 1) : t[i] = s[i]
      /\ f = s[Len(s)] /\ f \in Frames
  BY <1>1, FrontFacts
<1> HIDE DEF t, f
<1>3. Append(t, f) = s
  <2>1. /\ Append(t, f) \in Seq(Frames) /\ Len(Append(t, f)) = Len(s)
        /\ \A i \in 1..Len(s) : Append(t, f)[i] = s[i]
    BY <1>2
  <2> QED BY <1>1, <2>1, SeqEqual
<1>4. /\ n \in Nat /\ Len(s) = n + 1 /\ s[n + 1] = f
      /\ \A i \in 1..n : s[i] = t[i] /\ ReadersOf(s, i) = ReadersOf(t, i)
      /\ k = Cardinality(ReadersOf(t, n)) + (IF f.at \in Reader THEN 1 ELSE 0)
  <2>1. LET u == Append(t, f)
        IN  /\ n \in Nat /\ Len(u) = n + 1 /\ u[n + 1] = f
            /\ \A i \in 1..n : u[i] = t[i]
            /\ \A i \in 1..n : ReadersOf(u, i) = ReadersOf(t, i)
            /\ Cardinality(ReadersOf(u, n + 1)) =
                  Cardinality(ReadersOf(t, n)) + (IF f.at \in Reader THEN 1 ELSE 0)
    BY <1>2, PushShape
  <2> QED BY <1>1, <1>3, <2>1
<1> HIDE DEF n
<1>5. Cardinality(ReadersOf(t, n)) \in Nat
  BY <1>4, ReadersFacts
<1>6. \A i \in 1..n, r \in Request :
        t[i] = Frame("callback", r) => q[r].context = Cardinality(ReadersOf(t, i))
  BY <1>4 DEF Good
<1>7. RunningIn(t) \subseteq RunningIn(s)
  BY <1>4 DEF RunningIn, n
<1>8. f.at \notin Reader => Good(t, q, k)
  BY <1>2, <1>4, <1>5, <1>6 DEF Good, n
<1>9. f.at \in Reader => Good(t, q, k - 1) /\ k \in Nat \ {0}
  BY <1>2, <1>4, <1>5, <1>6 DEF Good, n
<1> QED BY <1>2, <1>4, <1>7, <1>8, <1>9 DEF t, f, n

(* Changing what a synchronous read waits for, or that it is done.         *)
LEMMA SameFacts ==
  ASSUME NEW s, NEW q, NEW k, Good(s, q, k), NEW t \in Seq(Frames), Len(t) = Len(s),
         \A i \in 1..Len(s) : t[i] = s[i] \/ (t[i].at \in Reader /\ s[i].at \in Reader)
  PROVE  Good(t, q, k) /\ RunningIn(t) = RunningIn(s)
<1>1. s \in Seq(Frames) /\ Len(s) \in Nat
  BY DEF Good
<1>2. \A i \in 0..Len(s) : ReadersOf(t, i) = ReadersOf(s, i)
  BY <1>1 DEF ReadersOf
<1>3. \A i \in 1..Len(s) : \A r : s[i] = Frame("callback", r) <=> t[i] = Frame("callback", r)
  BY DEF Frame, Reader
<1> QED BY <1>1, <1>2, <1>3 DEF Good, RunningIn

(* Changing requests that have no callback running.                        *)
LEMMA ReqFacts ==
  ASSUME NEW s, NEW q, NEW k, NEW p, Good(s, q, k),
         \A r \in RunningIn(s) : p[r].context = q[r].context
  PROVE  Good(s, p, k)
BY DEF Good, RunningIn
-----------------------------------------------------------------------------
(* The inductive invariant.                                                *)

(* A request is on the list of those in progress but once, on the list for *)
(* the workers only if it is on that one and no worker has begun it, and   *)
(* on neither while its callback runs.                                     *)
ListsOf(list, queue, q, running) ==
  /\ IsInjective(list) /\ IsInjective(queue)
  /\ ToSet(queue) \subseteq ToSet(list)
  /\ ToSet(list) \cap running = {}
  /\ \A r \in ToSet(queue) : ~ q[r].active /\ q[r].ret = "inprogress"
Lists == ListsOf(first_aio, request_list, req, RunningIn(stack))

(* A busy worker has one request, of its own; the others have none.        *)
OwnersOf(t, q, list) ==
  \A w \in Worker :
    /\ t[w].at = "busy" => \E r \in Request : t[w].req = {r}
    /\ t[w].at # "busy" => t[w].req = {}
    /\ \A r \in t[w].req :
         /\ r \in ToSet(list) /\ q[r].active /\ q[r].ret = "inprogress"
         /\ \A v \in Worker \ {w} : r \notin t[v].req
Owners == OwnersOf(thread, req, first_aio)

AioInv ==
  /\ TypeOK /\ pos # 0
  /\ CountersMatch
  /\ Lists
  /\ Owners
  /\ Good(stack, req, context)

Types ==
  /\ first_aio \in Seq(Request) /\ request_list \in Seq(Request)
  /\ req \in [Request -> [ret: {"inprogress", "done", "canceled"},
                          active: BOOLEAN, context: Context]]
  /\ thread \in [Worker -> WorkerState]
  /\ signaled \in BOOLEAN /\ rfd \in BOOLEAN
  /\ context \in Context /\ bhs \subseteq Context
  /\ pos \in Nat /\ pos # 0 /\ result \in BOOLEAN

(* The counters' types follow from what they count.                        *)
LEMMA InvParts ==
  AioInv <=> Types /\ CountersMatch /\ Lists /\ Owners /\ Good(stack, req, context)
<1>1. CountersMatch => cur_threads \in 0..max_threads /\ idle_threads \in 0..max_threads
  <2>1. \A places : Workers(places) = At_(thread, places)
    BY DEF Workers, At_
  <2> QED BY <2>1, CountFacts DEF CountersMatch
<1> QED BY <1>1 DEF AioInv, Types, TypeOK, Good, WorkerState

LEMMA InvPartsNext ==
  Types' /\ CountersMatch' /\ Lists' /\ Owners' /\ Good(stack', req', context') => AioInv'
<1>1. CountersMatch' => cur_threads' \in 0..max_threads /\ idle_threads' \in 0..max_threads
  <2>1. /\ Workers(Place \ {"none"})' = At_(thread', Place \ {"none"})
        /\ Workers(Place \ {"none", "busy"})' = At_(thread', Place \ {"none", "busy"})
    BY DEF At_, Workers
  <2> QED BY <2>1, CountFacts DEF CountersMatch
<1>2. Good(stack', req', context') <=> Good(stack, req, context)'
  BY DEF Good, ReadersOf
<1> QED BY <1>1, <1>2 DEF AioInv, Types, TypeOK, Good, WorkerState

LEMMA InitInv == Init => AioInv
<1> SUFFICES ASSUME Init PROVE AioInv
  OBVIOUS
<1>1. Types
  <2>1. 0 \in Context
    BY AioAssumption DEF Context
  <2>2. req \in [Request -> [ret: {"inprogress", "done", "canceled"},
                            active: BOOLEAN, context: Context]]
    BY <2>1 DEF Init
  <2>3. [at |-> "none", req |-> {}] \in WorkerState
    BY DEF WorkerState, Place
  <2>4. thread \in [Worker -> WorkerState]
    BY <2>3 DEF Init
  <2>5. first_aio \in Seq(Request) /\ request_list \in Seq(Request)
    BY DEF Init
  <2>6. signaled \in BOOLEAN /\ rfd \in BOOLEAN /\ result \in BOOLEAN
    BY Zenon DEF Init
  <2>7. context \in Context /\ bhs \subseteq Context /\ pos \in Nat /\ pos # 0
    BY <2>1 DEF Init
  <2> QED BY <2>2, <2>4, <2>5, <2>6, <2>7 DEF Types
<1>2. CountersMatch
  <2>1. Workers(Place \ {"none"}) = {} /\ Workers(Place \ {"none", "busy"}) = {}
    BY DEF Init, Workers
  <2> QED BY <2>1, FS_EmptySet DEF Init, CountersMatch
<1>3. ToSet(first_aio) = {} /\ ToSet(request_list) = {}
  BY EmptyFacts, <1>1 DEF Init, Types
<1>4. Lists
  <2>1. IsInjective(first_aio) /\ IsInjective(request_list)
    BY DEF Init, IsInjective
  <2> QED BY <1>3, <2>1 DEF Lists, ListsOf
<1>5. Owners
  BY DEF Init, Owners, OwnersOf
<1>6. Good(stack, req, context)
  <2>1. stack \in Seq(Frames) /\ Len(stack) = 0 /\ context = 0
    BY DEF Init
  <2>2. ReadersOf(stack, 0) = {}
    BY DEF ReadersOf
  <2> QED BY <2>1, <2>2, FS_EmptySet DEF Good
<1> QED BY <1>1, <1>2, <1>4, <1>5, <1>6, InvParts

-----------------------------------------------------------------------------
(* What the main thread does between its calls changes only its stack, the *)
(* scan and what wakes it.                                                 *)
LEMMA StackStep ==
  ASSUME AioInv, UNCHANGED <<first_aio, request_list, req, pool>>,
         signaled' \in BOOLEAN, rfd' \in BOOLEAN, context' \in Context,
         bhs' \subseteq Context, pos' \in Nat \ {0}, result' \in BOOLEAN,
         Good(stack', req, context'), RunningIn(stack') \subseteq RunningIn(stack)
  PROVE  AioInv'
<1>1. Types /\ CountersMatch /\ Lists /\ Owners
  BY InvParts
<1>2. Types'
  BY <1>1 DEF Types, pool
<1>3. CountersMatch'
  BY <1>1 DEF CountersMatch, Workers, pool
<1>4. RunningIn(stack)' = RunningIn(stack')
  BY DEF RunningIn
<1>5. Lists'
  BY <1>1, <1>4 DEF Lists, ListsOf
<1>6. Owners'
  BY <1>1 DEF Owners, pool
<1>7. Good(stack', req', context')
  OBVIOUS
<1> QED BY <1>2, <1>3, <1>5, <1>6, <1>7, InvPartsNext

(* Dropping the frame on top, or putting a plain one in its place or above *)
(* it.                                                                     *)
PlainPlace == {"flush", "check", "poll", "queue", "select", "leave", "scan"}

LEMMA PlainFacts ==
  ASSUME NEW at \in PlainPlace
  PROVE  Plain(at) \in Frames /\ Plain(at).at = at /\ at \notin Reader \cup {"callback"}
BY DEF Plain, Frames, PlainPlace, Reader

LEMMA PushPlain ==
  ASSUME NEW s, NEW q, NEW k, Good(s, q, k), NEW at \in PlainPlace
  PROVE  /\ Good(Append(s, Plain(at)), q, k)
         /\ RunningIn(Append(s, Plain(at))) = RunningIn(s)
BY PlainFacts, PushFacts

LEMMA ReplacePlain ==
  ASSUME NEW s, NEW q, NEW k, Good(s, q, k), s # <<>>, Last(s).at \notin Reader,
         NEW at \in PlainPlace
  PROVE  /\ Good(Append(Front(s), Plain(at)), q, k)
         /\ RunningIn(Append(Front(s), Plain(at))) \subseteq RunningIn(s)
<1>1. Good(Front(s), q, k) /\ RunningIn(Front(s)) \subseteq RunningIn(s)
  BY PopFacts
<1> QED BY <1>1, PushPlain

(* All that StackStep asks of the variables a step of the main thread does *)
(* not touch.                                                              *)
LEMMA Typed ==
  ASSUME AioInv
  PROVE  /\ signaled \in BOOLEAN /\ rfd \in BOOLEAN /\ result \in BOOLEAN
         /\ context \in Context /\ bhs \subseteq Context /\ pos \in Nat \ {0}
         /\ Good(stack, req, context) /\ stack \in Seq(Frames)
BY DEF AioInv, TypeOK

LEMMA HandlerKeeps ==
  ASSUME AioInv, aio_signal_handler
  PROVE  AioInv'
<1>1. Good(stack', req, context) /\ RunningIn(stack') \subseteq RunningIn(stack)
  BY Typed DEF aio_signal_handler
<1>2. /\ UNCHANGED <<first_aio, request_list, req, pool, context, bhs, pos, result>>
      /\ signaled' = FALSE /\ rfd' = TRUE
  BY DEF aio_signal_handler, scan
<1>3. signaled' \in BOOLEAN /\ rfd' \in BOOLEAN
  BY <1>2
<1> QED BY <1>1, <1>2, <1>3, Typed, StackStep

LEMMA PassKeeps ==
  ASSUME AioInv, Pass
  PROVE  AioInv'
<1>1. pos' \in Nat \ {0}
  BY Typed DEF Pass
<1>2. UNCHANGED <<first_aio, request_list, req, pool, signaled, rfd, context, bhs, stack, result>>
  BY DEF Pass
<1>3. Good(stack', req, context') /\ RunningIn(stack') \subseteq RunningIn(stack)
  BY <1>2, Typed
<1> QED BY <1>1, <1>2, <1>3, Typed, StackStep

LEMMA ScanReturnsKeeps ==
  ASSUME AioInv, ScanReturns
  PROVE  AioInv'
<1> DEFINE below == Front(stack)
           at == IF below = <<>> THEN "main" ELSE Last(below).at
<1>1. stack # <<>> /\ Last(stack).at \notin Reader
  BY DEF ScanReturns, At, Reader
<1>2. Good(below, req, context) /\ RunningIn(below) \subseteq RunningIn(stack)
  BY <1>1, Typed, PopFacts
<1>3. \/ stack' = below
      \/ at \in {"queue", "leave"} /\ stack' \in {Front(below), Append(Front(below), Plain("select"))}
  BY DEF ScanReturns
<1>4. at \in {"queue", "leave"} => below # <<>> /\ Last(below).at \notin Reader
  BY DEF Reader
<1> HIDE DEF below, at
<1>5. Good(stack', req, context) /\ RunningIn(stack') \subseteq RunningIn(stack)
  <2>1. CASE stack' = below
    BY <2>1, <1>2
  <2>2. CASE at \in {"queue", "leave"} /\ stack' = Front(below)
    BY <2>2, <1>2, <1>4, PopFacts
  <2>3. CASE at \in {"queue", "leave"} /\ stack' = Append(Front(below), Plain("select"))
    BY <2>3, <1>2, <1>4, ReplacePlain DEF PlainPlace
  <2> QED BY <1>3, <2>1, <2>2, <2>3
<1>6. /\ UNCHANGED <<first_aio, request_list, req, pool, signaled, rfd, context, bhs>>
      /\ pos' = 1 /\ result' = FALSE
  BY DEF ScanReturns
<1>7. pos' \in Nat \ {0}
  BY <1>6
<1>8. result' \in BOOLEAN
  BY <1>6, Zenon
<1> QED BY <1>5, <1>6, <1>7, <1>8, Typed, StackStep

(* The callback's frame goes, and a read that waited for it is done.       *)
LEMMA CallbackReturnsKeeps ==
  ASSUME AioInv, CallbackReturns
  PROVE  AioInv'
<1>1. stack # <<>> /\ Last(stack).at = "callback" /\ Last(stack).at \notin Reader
  BY DEF CallbackReturns, At, Reader
<1>2. PICK t : t = Front(stack)
  OBVIOUS
<1>3. Good(t, req, context) /\ RunningIn(t) \subseteq RunningIn(stack)
  BY <1>1, <1>2, Typed, PopFacts
<1>4. \E r \in Request : Last(stack).req = {r}
  <2>1. PICK r \in Request : Last(stack) = Frame("callback", r)
    BY <1>1, Typed, PopFacts, FrameFacts
  <2>2. Frame("callback", r).req = {r}
    BY DEF Frame
  <2> QED BY <2>1, <2>2
<1>5. PICK r \in Request :
        stack' = [i \in DOMAIN Front(stack) |->
                    IF stack[i] = Frame("read", r) THEN Frame("done", r) ELSE stack[i]]
  BY <1>4 DEF CallbackReturns
<1>6. /\ t \in Seq(Frames) /\ Len(t) \in Nat /\ DOMAIN t = 1..Len(t)
      /\ \A i \in 1..Len(t) : t[i] = stack[i] /\ t[i] \in Frames
  BY <1>1, <1>2, <1>3, Typed, PopFacts DEF Good
<1>7. stack' = [i \in 1..Len(t) |->
                  IF t[i] = Frame("read", r) THEN Frame("done", r) ELSE t[i]]
  <2>1. stack' = [i \in DOMAIN t |->
                    IF stack[i] = Frame("read", r) THEN Frame("done", r) ELSE stack[i]]
    BY <1>2, <1>5
  <2> QED BY <1>6, <2>1
<1>8. Frame("done", r) \in Frames /\ Frame("done", r).at \in Reader /\ Frame("read", r).at \in Reader
  <2>1. Frame("done", r) \in Frames
    BY DEF Frames
  <2> QED BY <2>1 DEF Frame, Reader
<1>9. /\ stack' \in Seq(Frames) /\ Len(stack') = Len(t)
      /\ \A i \in 1..Len(t) :
           stack'[i] = t[i] \/ (stack'[i].at \in Reader /\ t[i].at \in Reader)
  BY <1>6, <1>7, <1>8
<1>10. Good(stack', req, context) /\ RunningIn(stack') = RunningIn(t)
  BY <1>3, <1>9, SameFacts
<1>11. /\ UNCHANGED <<first_aio, request_list, req, pool, signaled, rfd, context, bhs>>
       /\ pos' = 1 /\ result' = TRUE
  BY DEF CallbackReturns
<1>12. pos' \in Nat \ {0}
  BY <1>11
<1>13. result' \in BOOLEAN
  BY <1>11, Zenon
<1> QED BY <1>3, <1>10, <1>11, <1>12, <1>13, Typed, StackStep

(* The scan starts above the frames b.                                     *)
LEMMA ScanStarts ==
  ASSUME AioInv, NEW b, Good(b, req, context), RunningIn(b) \subseteq RunningIn(stack),
         StartScan(b), rfd' \in BOOLEAN, bhs' \subseteq Context
  PROVE  AioInv'
<1>1. /\ stack' = Append(b, Plain("scan"))
      /\ UNCHANGED <<first_aio, request_list, req, pool, signaled, context, pos, result>>
  BY DEF StartScan, scan
<1>2. Good(stack', req, context) /\ RunningIn(stack') \subseteq RunningIn(stack)
  BY <1>1, PushPlain DEF PlainPlace
<1> QED BY <1>1, <1>2, Typed, StackStep

LEMMA CompletionsKeep ==
  ASSUME AioInv, NEW b, Good(b, req, context), RunningIn(b) \subseteq RunningIn(stack),
         bh_run_aio_completions(b) \/ posix_aio_read(b)
  PROVE  AioInv'
<1>1. StartScan(b)
  BY DEF bh_run_aio_completions, posix_aio_read
<1>2. rfd' \in BOOLEAN
  BY Typed, Zenon DEF bh_run_aio_completions, posix_aio_read
<1>3. bhs' \subseteq Context
  BY Typed DEF bh_run_aio_completions, posix_aio_read
<1> QED BY <1>1, <1>2, <1>3, ScanStarts

LEMMA GoKeeps ==
  ASSUME AioInv, NEW b, Good(b, req, context), RunningIn(b) \subseteq RunningIn(stack),
         Go(b)
  PROVE  AioInv'
<1>1. /\ stack' = b
      /\ UNCHANGED <<first_aio, request_list, req, pool, signaled, rfd, context,
                     bhs, pos, result>>
  BY DEF Go, scan
<1> QED BY <1>1, Typed, StackStep

LEMMA MainLoopKeeps ==
  ASSUME AioInv, main_loop_wait
  PROVE  AioInv'
<1>1. PICK b : b = stack
  OBVIOUS
<1>2. bh_run_aio_completions(b) \/ posix_aio_read(b)
  BY <1>1 DEF main_loop_wait, bh_run_aio_completions, posix_aio_read, StartScan
<1> QED BY <1>1, <1>2, Typed, CompletionsKeep

(* What may be put in the place of the frame on top.                       *)
LEMMA TopFacts ==
  ASSUME AioInv, NEW at \in PlainPlace, At(at)
  PROVE  /\ Good(Front(stack), req, context)
         /\ RunningIn(Front(stack)) \subseteq RunningIn(stack)
         /\ \A next \in PlainPlace :
              /\ Good(Replace(next), req, context)
              /\ RunningIn(Replace(next)) \subseteq RunningIn(stack)
<1>1. stack # <<>> /\ Last(stack).at \notin Reader
  BY PlainFacts DEF At
<1> QED BY <1>1, Typed, PopFacts, ReplacePlain DEF Replace

LEMMA AioWaitKeeps ==
  ASSUME AioInv, qemu_aio_wait
  PROVE  AioInv'
<1>1. PICK leave, queue, front :
        leave = Replace("leave") /\ queue = Replace("queue") /\ front = Front(stack)
  OBVIOUS
<1>2. ASSUME At("poll"), bh_run_aio_completions(leave)
      PROVE  AioInv'
  BY <1>1, <1>2, TopFacts, CompletionsKeep DEF PlainPlace
<1>3. ASSUME At("poll"), StartScan(queue), UNCHANGED <<rfd, bhs>>
      PROVE  AioInv'
  BY <1>1, <1>3, TopFacts, Typed, ScanStarts DEF PlainPlace
<1>4. ASSUME At("select"), Go(front)
      PROVE  AioInv'
  BY <1>1, <1>4, TopFacts, GoKeeps DEF PlainPlace
<1>5. ASSUME At("select"), posix_aio_read(leave)
      PROVE  AioInv'
  BY <1>1, <1>5, TopFacts, CompletionsKeep DEF PlainPlace
<1>6. \/ At("poll") /\ bh_run_aio_completions(leave)
      \/ At("poll") /\ StartScan(queue) /\ UNCHANGED <<rfd, bhs>>
      \/ At("select") /\ Go(front)
      \/ At("select") /\ posix_aio_read(leave)
  BY <1>1 DEF qemu_aio_wait, bh_run_aio_completions, posix_aio_read, StartScan, Go
<1> QED BY <1>2, <1>3, <1>4, <1>5, <1>6

LEMMA FlushKeeps ==
  ASSUME AioInv, FlushStart \/ qemu_aio_flush
  PROVE  AioInv'
<1>1. PICK flush, poll, front :
        /\ flush = Replace("flush") /\ front = Front(stack)
        /\ poll = Append(Replace("check"), Plain("poll"))
  OBVIOUS
<1>2. ASSUME FlushStart
      PROVE  AioInv'
  <2>1. PICK b : b = Append(stack, Plain("flush"))
    OBVIOUS
  <2>2. Good(b, req, context) /\ RunningIn(b) \subseteq RunningIn(stack)
    BY <2>1, Typed, PushPlain DEF PlainPlace
  <2>3. Go(b)
    BY <1>2, <2>1 DEF FlushStart, Go
  <2> QED BY <2>2, <2>3, GoKeeps
<1>3. ASSUME At("flush"), Go(poll)
      PROVE  AioInv'
  <2>1. PICK b : b = Replace("check")
    OBVIOUS
  <2>2. Good(b, req, context) /\ RunningIn(b) \subseteq RunningIn(stack)
    BY <1>3, <2>1, TopFacts DEF PlainPlace
  <2>3. Good(poll, req, context) /\ RunningIn(poll) \subseteq RunningIn(stack)
    BY <1>1, <2>1, <2>2, PushPlain DEF PlainPlace
  <2> QED BY <1>3, <2>3, GoKeeps
<1>4. ASSUME At("check"), bh_run_aio_completions(flush)
      PROVE  AioInv'
  BY <1>1, <1>4, TopFacts, CompletionsKeep DEF PlainPlace
<1>5. ASSUME At("check"), Go(flush) \/ Go(front)
      PROVE  AioInv'
  BY <1>1, <1>5, TopFacts, GoKeeps DEF PlainPlace
<1>6. \/ FlushStart
      \/ At("flush") /\ Go(poll)
      \/ At("check") /\ bh_run_aio_completions(flush)
      \/ At("check") /\ (Go(flush) \/ Go(front))
  BY <1>1 DEF qemu_aio_flush, bh_run_aio_completions, StartScan, Go
<1> QED BY <1>2, <1>3, <1>4, <1>5, <1>6

LEMMA PopKeeps ==
  ASSUME AioInv, At("done"), async_context_pop
  PROVE  AioInv'
<1>1. stack # <<>> /\ Last(stack).at \in Reader
  BY DEF At, Reader
<1>2. /\ Good(Front(stack), req, context - 1) /\ context \in Nat \ {0}
      /\ RunningIn(Front(stack)) \subseteq RunningIn(stack)
  BY <1>1, Typed, PopFacts
<1>3. /\ context' = context - 1 /\ bhs' = bhs \cup {context - 1} /\ stack' = Front(stack)
      /\ UNCHANGED <<first_aio, request_list, req, pool, signaled, rfd, pos, result>>
  BY DEF async_context_pop, PopSchedules, scan
<1>4. context - 1 \in Context
  BY <1>2, Typed, AioAssumption DEF Context
<1>5. context' \in Context /\ bhs' \subseteq Context
  BY <1>3, <1>4, Typed
<1>6. Good(stack', req, context') /\ RunningIn(stack') \subseteq RunningIn(stack)
  BY <1>2, <1>3
<1> QED BY <1>3, <1>5, <1>6, Typed, StackStep

LEMMA LoopKeeps ==
  ASSUME AioInv, bdrv_rw_em_loop
  PROVE  AioInv'
<1>1. PICK b, poll : b = stack /\ poll = Append(stack, Plain("poll"))
  OBVIOUS
<1>2. ASSUME Go(poll) PROVE AioInv'
  BY <1>1, <1>2, Typed, PushPlain, GoKeeps DEF PlainPlace
<1>3. ASSUME bh_run_aio_completions(b) PROVE AioInv'
  BY <1>1, <1>3, Typed, CompletionsKeep
<1>4. Go(poll) \/ bh_run_aio_completions(b) \/ (At("done") /\ async_context_pop)
  BY <1>1 DEF bdrv_rw_em_loop, bh_run_aio_completions, StartScan, Go
<1> QED BY <1>2, <1>3, <1>4, PopKeeps

-----------------------------------------------------------------------------
(* The worker threads.                                                     *)

(* The counters follow one worker's move.                                  *)
Counts(at) == IF at = "none" THEN 0 ELSE 1
Idles(at) == IF at \in {"none", "busy"} THEN 0 ELSE 1

LEMMA CounterFacts ==
  ASSUME AioInv, NEW w \in Worker, NEW m \in WorkerState,
         thread' = [thread EXCEPT ![w] = m],
         cur_threads' = cur_threads + Counts(m.at) - Counts(thread[w].at),
         idle_threads' = idle_threads + Idles(m.at) - Idles(thread[w].at)
  PROVE  thread' \in [Worker -> WorkerState] /\ CountersMatch'
<1> DEFINE A == Place \ {"none"}
           B == Place \ {"none", "busy"}
<1>1. PICK t \in [Worker -> WorkerState] : t = thread
  BY InvParts DEF Types
<1>2. PICK u \in [Worker -> WorkerState] : u = [t EXCEPT ![w] = m]
  BY <1>1
<1>3. thread' = u /\ u[w] = m /\ \A v \in Worker \ {w} : u[v] = t[v]
  BY <1>1, <1>2
<1>4. /\ cur_threads = Cardinality(At_(t, A))
      /\ idle_threads = Cardinality(At_(t, B))
  BY <1>1, InvParts DEF CountersMatch, Workers, At_
<1>5. \A x \in WorkerState : /\ Counts(x.at) = IF x.at \in A THEN 1 ELSE 0
                           /\ Idles(x.at) = IF x.at \in B THEN 1 ELSE 0
  BY DEF Counts, Idles, WorkerState
<1>6. t[w] \in WorkerState
  OBVIOUS
<1> HIDE DEF A, B
<1>7. Cardinality(At_(u, A)) = cur_threads'
  BY <1>1, <1>3, <1>4, <1>5, <1>6, CountMove
<1>8. Cardinality(At_(u, B)) = idle_threads'
  BY <1>1, <1>3, <1>4, <1>5, <1>6, CountMove
<1>9. /\ Workers(Place \ {"none"})' = At_(u, A)
      /\ Workers(Place \ {"none", "busy"})' = At_(u, B)
  BY <1>3 DEF At_, Workers, A, B
<1> QED BY <1>3, <1>7, <1>8, <1>9 DEF CountersMatch

(* A worker moves that has no request before or after.                     *)
LEMMA QuietMove ==
  ASSUME AioInv, NEW w \in Worker, thread[w].at # "busy", NEW at \in Place \ {"busy"},
         Move(w, at),
         cur_threads' = cur_threads + Counts(at) - Counts(thread[w].at),
         idle_threads' = idle_threads + Idles(at) - Idles(thread[w].at),
         UNCHANGED <<first_aio, request_list, req, rfd, context, bhs, pos, result>>,
         signaled' \in BOOLEAN,
         Good(stack', req, context), RunningIn(stack') \subseteq RunningIn(stack)
  PROVE  AioInv'
<1> DEFINE m == [at |-> at, req |-> {}]
<1>1. Types /\ Lists /\ Owners
  BY InvParts
<1>2. m \in WorkerState /\ m.at = at /\ m.req = {}
  BY DEF WorkerState
<1>3. thread' = [thread EXCEPT ![w] = m]
  BY DEF Move
<1> HIDE DEF m
<1>4. thread' \in [Worker -> WorkerState] /\ CountersMatch'
  BY <1>2, <1>3, CounterFacts
<1>5. thread \in [Worker -> WorkerState]
  BY <1>1 DEF Types
<1>6. \A v \in Worker : thread'[v] = IF v = w THEN m ELSE thread[v]
  BY <1>3, <1>5
<1>7. Owners'
  BY <1>1, <1>2, <1>6 DEF Owners, OwnersOf
<1>8. Lists'
  <2>1. RunningIn(stack)' = RunningIn(stack')
    BY DEF RunningIn
  <2> QED BY <1>1, <2>1 DEF Lists, ListsOf
<1>9. Types'
  BY <1>1, <1>4 DEF Types
<1> QED BY <1>4, <1>7, <1>8, <1>9, InvPartsNext

LEMMA IdleWorkerKeeps ==
  ASSUME AioInv, NEW w \in Worker, Wait(w) \/ End(w) \/ Kill(w) \/ TimedOut(w)
  PROVE  AioInv'
<1>1. Good(stack, req, context) /\ signaled \in BOOLEAN
  BY Typed
<1>2. cur_threads \in Int /\ idle_threads \in Int
  BY CountFacts DEF AioInv, TypeOK
<1>3. UNCHANGED <<first_aio, request_list, req, rfd, context, bhs, pos, result, stack>>
  BY DEF Wait, End, Kill, TimedOut, scan
<1>4. Good(stack', req, context) /\ RunningIn(stack') \subseteq RunningIn(stack)
  BY <1>1, <1>3
<1>5. signaled' \in BOOLEAN
  <2>1. signaled' = signaled \/ signaled' = TRUE
    BY Zenon DEF Wait, End, Kill, TimedOut
  <2> QED BY <1>1, <2>1, Zenon
<1>6. PICK at \in Place \ {"busy"} :
        /\ thread[w].at # "busy" /\ Move(w, at)
        /\ cur_threads' = cur_threads + Counts(at) - Counts(thread[w].at)
        /\ idle_threads' = idle_threads + Idles(at) - Idles(thread[w].at)
  <2>1. CASE Wait(w)
    BY <1>2, <2>1 DEF Wait, Counts, Idles, Place
  <2>2. CASE End(w)
    BY <1>2, <2>2 DEF End, Ends, Counts, Idles, Place
  <2>3. CASE Kill(w)
    BY <1>2, <2>3 DEF Kill, Counts, Idles, Place
  <2>4. CASE TimedOut(w)
    BY <1>2, <2>4 DEF TimedOut, Counts, Idles, Place
  <2> QED BY <2>1, <2>2, <2>3, <2>4
<1> QED BY <1>3, <1>4, <1>5, <1>6, QuietMove

(* pthread_cond_signal wakes a sleeper, if there is one.                   *)
LEMMA CondSignalKeeps ==
  ASSUME AioInv, cond_signal
  PROVE  AioInv'
<1>1. stack # <<>> /\ Last(stack).at \notin Reader
  BY DEF cond_signal, At, Reader
<1>2. /\ stack' = Front(stack)
      /\ UNCHANGED <<first_aio, request_list, req, cur_threads, idle_threads,
                     signaled, rfd, context, bhs, pos, result>>
  BY DEF cond_signal, scan
<1>3. Good(stack', req, context) /\ RunningIn(stack') \subseteq RunningIn(stack)
  BY <1>1, <1>2, Typed, PopFacts
<1>4. CASE UNCHANGED thread
  BY <1>2, <1>3, <1>4, Typed, StackStep DEF pool
<1>5. ASSUME NEW w \in Workers({"wait"}), Move(w, "look")
      PROVE  AioInv'
  <2>1. w \in Worker /\ thread[w].at = "wait"
    BY DEF Workers
  <2>2. cur_threads \in Int /\ idle_threads \in Int
    BY CountFacts DEF AioInv, TypeOK
  <2>3. /\ cur_threads' = cur_threads + Counts("look") - Counts(thread[w].at)
        /\ idle_threads' = idle_threads + Idles("look") - Idles(thread[w].at)
    BY <1>2, <2>1, <2>2 DEF Counts, Idles
  <2> QED BY <1>2, <1>3, <1>5, <2>1, <2>3, Typed, QuietMove DEF Place
<1> QED BY <1>4, <1>5 DEF cond_signal

(* One worker and one request change.                                      *)
LEMMA OwnersChange ==
  ASSUME NEW t \in [Worker -> WorkerState], NEW u \in [Worker -> WorkerState], NEW q, NEW p,
         NEW list, OwnersOf(t, q, list), NEW w \in Worker, NEW r \in Request,
         \A v \in Worker \ {w} : u[v] = t[v] /\ r \notin t[v].req,
         \A x \in Request \ {r} : p[x] = q[x],
         \/ /\ u[w].at = "busy" /\ u[w].req = {r} /\ r \in ToSet(list)
            /\ p[r].active /\ p[r].ret = "inprogress"
         \/ u[w].at # "busy" /\ u[w].req = {}
  PROVE  OwnersOf(u, p, list)
<1> SUFFICES ASSUME NEW v \in Worker
             PROVE  /\ u[v].at = "busy" => \E x \in Request : u[v].req = {x}
                    /\ u[v].at # "busy" => u[v].req = {}
                    /\ \A x \in u[v].req :
                         /\ x \in ToSet(list) /\ p[x].active /\ p[x].ret = "inprogress"
                         /\ \A o \in Worker \ {v} : x \notin u[o].req
  BY DEF OwnersOf
<1>1. CASE v = w
  BY <1>1
<1>2. CASE v # w
  <2>1. u[v] = t[v] /\ \A x \in t[v].req : x \in Request \ {r}
    BY <1>2 DEF WorkerState
  <2>2. \A x \in u[v].req : x \in Request \ {r} /\ p[x] = q[x]
    BY <2>1
  <2>3. /\ u[v].at = "busy" => \E x \in Request : u[v].req = {x}
        /\ u[v].at # "busy" => u[v].req = {}
    BY <2>1 DEF OwnersOf
  <2>4. \A x \in u[v].req : x \in ToSet(list) /\ q[x].active /\ q[x].ret = "inprogress"
    BY <2>1 DEF OwnersOf
  <2>5. \A x \in u[v].req, o \in Worker \ {v} : x \notin u[o].req
    BY <2>1 DEF OwnersOf
  <2> QED BY <2>2, <2>3, <2>4, <2>5
<1> QED BY <1>1, <1>2

(* A worker is as busy as before, with the same request.                   *)
SameLoad(x, y) ==
  /\ x.req = y.req
  /\ x.at = "busy" => y.at = "busy"
  /\ y.at = "busy" => x.at = "busy"

LEMMA OwnersSame ==
  ASSUME NEW t, NEW u, NEW q, NEW p, NEW list, NEW longer, OwnersOf(t, q, list),
         ToSet(list) \subseteq ToSet(longer),
         \A v \in Worker : SameLoad(u[v], t[v]),
         \A v \in Worker : \A x \in t[v].req : p[x] = q[x]
  PROVE  OwnersOf(u, p, longer)
<1> SUFFICES ASSUME NEW v \in Worker
             PROVE  /\ u[v].at = "busy" => \E x \in Request : u[v].req = {x}
                    /\ u[v].at # "busy" => u[v].req = {}
                    /\ \A x \in u[v].req :
                         /\ x \in ToSet(longer) /\ p[x].active /\ p[x].ret = "inprogress"
                         /\ \A o \in Worker \ {v} : x \notin u[o].req
  BY DEF OwnersOf
<1>1. /\ t[v].at = "busy" => \E x \in Request : t[v].req = {x}
      /\ t[v].at # "busy" => t[v].req = {}
      /\ \A x \in t[v].req :
           /\ x \in ToSet(list) /\ q[x].active /\ q[x].ret = "inprogress"
           /\ \A o \in Worker \ {v} : x \notin t[o].req
  BY DEF OwnersOf
<1> QED BY <1>1 DEF SameLoad

LEMMA ListsChange ==
  ASSUME NEW list \in Seq(Request), NEW queue, NEW q, NEW running, ListsOf(list, queue, q, running),
         NEW m, IsInjective(m), NEW p, NEW r,
         ToSet(m) \subseteq ToSet(queue) \ {r},
         \A x \in Request \ {r} : p[x] = q[x]
  PROVE  ListsOf(list, m, p, running)
<1>1. ToSet(list) \subseteq Request
  BY DEF ToSet
<1> QED BY <1>1 DEF ListsOf

(* A worker takes the first request of the list: no other has it, for what *)
(* the others have is active.                                              *)
LEMMA TakeKeeps ==
  ASSUME AioInv, NEW w \in Worker, Take(w)
  PROVE  AioInv'
<1>1. Types /\ Lists /\ Owners /\ Good(stack, req, context)
  BY InvParts
<1>2. /\ thread[w].at \in {"look", "late"} /\ request_list # <<>>
      /\ request_list' = Tail(request_list)
      /\ idle_threads' = idle_threads - 1
      /\ UNCHANGED <<first_aio, cur_threads, signaled, rfd, context, bhs, stack, pos, result>>
  BY DEF Take, Takes, scan
<1>3. PICK m : m = request_list'
  OBVIOUS
<1>4. /\ Head(request_list) \in ToSet(request_list)
      /\ m \in Seq(Request) /\ IsInjective(m)
      /\ ToSet(m) = ToSet(request_list) \ {Head(request_list)}
  BY <1>1, <1>2, <1>3, TailFacts DEF Types, Lists, ListsOf
<1>5. PICK r \in Request : r = Head(request_list)
  BY <1>1, <1>4 DEF Types, ToSet
<1>6. PICK p : p = req'
  OBVIOUS
<1>7. p = [req EXCEPT ![r].active = TRUE]
  BY <1>5, <1>6 DEF Take
<1>8. PICK x \in WorkerState : x = [at |-> "busy", req |-> {r}]
  BY DEF WorkerState, Place
<1>9. thread' = [thread EXCEPT ![w] = x]
  BY <1>5, <1>8 DEF Take
<1>10. thread' \in [Worker -> WorkerState] /\ CountersMatch'
  <2>1. cur_threads \in Int /\ idle_threads \in Int
    BY CountFacts DEF AioInv, TypeOK
  <2>2. /\ cur_threads' = cur_threads + Counts(x.at) - Counts(thread[w].at)
        /\ idle_threads' = idle_threads + Idles(x.at) - Idles(thread[w].at)
    BY <1>2, <1>8, <2>1 DEF Counts, Idles
  <2> QED BY <1>9, <2>2, CounterFacts
<1>11. /\ r \in ToSet(request_list) /\ r \in ToSet(first_aio) /\ ~ req[r].active
       /\ req[r].ret = "inprogress"
  BY <1>1, <1>4, <1>5 DEF Lists, ListsOf
<1>12. \A v \in Worker : r \notin thread[v].req
  BY <1>1, <1>11 DEF Owners, OwnersOf
<1>13. /\ p \in [Request -> [ret: {"inprogress", "done", "canceled"},
                             active: BOOLEAN, context: Context]]
       /\ \A y \in Request \ {r} : p[y] = req[y]
       /\ \A y \in Request : p[y].context = req[y].context
       /\ p[r].active /\ p[r].ret = "inprogress"
  BY <1>1, <1>7, <1>11 DEF Types
<1>14. Owners'
  <2>1. PICK u \in [Worker -> WorkerState] : u = thread'
    BY <1>10
  <2>2. /\ thread \in [Worker -> WorkerState] /\ u[w] = x
        /\ \A v \in Worker \ {w} : u[v] = thread[v]
    BY <1>1, <1>9, <2>1 DEF Types
  <2>3. u[w].at = "busy" /\ u[w].req = {r}
    BY <1>8, <2>2
  <2>4. OwnersOf(u, p, first_aio)
    BY <1>1, <1>11, <1>12, <1>13, <2>2, <2>3, OwnersChange DEF Owners
  <2> QED BY <1>2, <1>6, <2>1, <2>4 DEF Owners
<1>15. Lists'
  <2>1. /\ ToSet(m) \subseteq ToSet(request_list) \ {r}
        /\ first_aio \in Seq(Request)
        /\ ListsOf(first_aio, request_list, req, RunningIn(stack))
    BY <1>1, <1>4, <1>5 DEF Lists, Types
  <2>2. ListsOf(first_aio, m, p, RunningIn(stack))
    BY <1>4, <1>13, <2>1, ListsChange
  <2> QED BY <1>2, <1>3, <1>6, <2>2 DEF Lists, RunningIn
<1>16. Types'
  BY <1>1, <1>2, <1>3, <1>4, <1>6, <1>10, <1>13 DEF Types
<1>17. Good(stack', req', context')
  <2>1. \A y \in RunningIn(stack) : p[y].context = req[y].context
    BY <1>13 DEF RunningIn
  <2>2. Good(stack, p, context)
    BY <1>1, <2>1, ReqFacts
  <2> QED BY <1>2, <1>6, <2>2
<1> QED BY <1>10, <1>14, <1>15, <1>16, <1>17, InvPartsNext

(* It stores the result: nobody else has the request.                      *)
LEMMA StoreKeeps ==
  ASSUME AioInv, NEW w \in Worker, Store(w)
  PROVE  AioInv'
<1>1. Types /\ Lists /\ Owners /\ Good(stack, req, context)
  BY InvParts
<1>2. /\ thread[w].at = "busy" /\ Move(w, "kill")
      /\ idle_threads' = idle_threads + 1
      /\ UNCHANGED <<first_aio, request_list, cur_threads, signaled, rfd, context,
                     bhs, stack, pos, result>>
  BY DEF Store, scan
<1>3. PICK r \in Request : thread[w].req = {r}
  BY <1>1, <1>2 DEF Owners, OwnersOf
<1>4. PICK p : p = req'
  OBVIOUS
<1>5. p = [req EXCEPT ![r].ret = "done"]
  BY <1>3, <1>4 DEF Store
<1>6. PICK x \in WorkerState : x = [at |-> "kill", req |-> {}]
  BY DEF WorkerState, Place
<1>7. thread' = [thread EXCEPT ![w] = x]
  BY <1>2, <1>6 DEF Move
<1>8. thread' \in [Worker -> WorkerState] /\ CountersMatch'
  <2>1. cur_threads \in Int /\ idle_threads \in Int
    BY CountFacts DEF AioInv, TypeOK
  <2>2. /\ cur_threads' = cur_threads + Counts(x.at) - Counts(thread[w].at)
        /\ idle_threads' = idle_threads + Idles(x.at) - Idles(thread[w].at)
    BY <1>2, <1>6, <2>1 DEF Counts, Idles
  <2> QED BY <1>7, <2>2, CounterFacts
<1>9. req[r].active /\ r \notin ToSet(request_list)
  BY <1>1, <1>3 DEF Owners, OwnersOf, Lists, ListsOf
<1>10. \A v \in Worker \ {w} : r \notin thread[v].req
  BY <1>1, <1>3 DEF Owners, OwnersOf
<1>11. /\ p \in [Request -> [ret: {"inprogress", "done", "canceled"},
                             active: BOOLEAN, context: Context]]
       /\ \A y \in Request \ {r} : p[y] = req[y]
       /\ \A y \in Request : p[y].context = req[y].context
  BY <1>1, <1>5 DEF Types
<1>12. Owners'
  <2>1. PICK u \in [Worker -> WorkerState] : u = thread'
    BY <1>8
  <2>2. /\ thread \in [Worker -> WorkerState] /\ u[w] = x
        /\ \A v \in Worker \ {w} : u[v] = thread[v]
    BY <1>1, <1>7, <2>1 DEF Types
  <2>3. u[w].at # "busy" /\ u[w].req = {}
    BY <1>6, <2>2
  <2>4. OwnersOf(u, p, first_aio)
    BY <1>1, <1>10, <1>11, <2>2, <2>3, OwnersChange DEF Owners
  <2> QED BY <1>2, <1>4, <2>1, <2>4 DEF Owners
<1>13. Lists'
  <2>1. /\ ToSet(request_list) \subseteq ToSet(request_list) \ {r}
        /\ IsInjective(request_list)
    BY <1>1, <1>9 DEF Lists, ListsOf
  <2>2. ListsOf(first_aio, request_list, p, RunningIn(stack))
    BY <1>1, <1>11, <2>1, ListsChange DEF Lists, Types
  <2> QED BY <1>2, <1>4, <2>2 DEF Lists, RunningIn
<1>14. Types'
  BY <1>1, <1>2, <1>4, <1>8, <1>11 DEF Types
<1>15. Good(stack', req', context')
  <2>1. \A y \in RunningIn(stack) : p[y].context = req[y].context
    BY <1>11 DEF RunningIn
  <2>2. Good(stack, p, context)
    BY <1>1, <2>1, ReqFacts
  <2> QED BY <1>2, <1>4, <2>2
<1> QED BY <1>8, <1>12, <1>13, <1>14, <1>15, InvPartsNext

-----------------------------------------------------------------------------
(* Requests come and go.                                                   *)

LEMMA SpawnKeeps ==
  ASSUME AioInv, spawn_thread
  PROVE  /\ thread' \in [Worker -> WorkerState] /\ CountersMatch'
         /\ \A v \in Worker : SameLoad(thread'[v], thread[v])
<1>1. Types /\ Owners /\ CountersMatch
  BY InvParts
<1>2. CASE UNCHANGED pool
  BY <1>1, <1>2 DEF Types, CountersMatch, Workers, pool, SameLoad
<1>3. ASSUME NEW w \in Workers({"none"}), Move(w, "look"),
             cur_threads' = cur_threads + 1, idle_threads' = idle_threads + 1
      PROVE  /\ thread' \in [Worker -> WorkerState] /\ CountersMatch'
             /\ \A v \in Worker : SameLoad(thread'[v], thread[v])
  <2>1. w \in Worker /\ thread[w].at = "none" /\ thread[w].req = {}
    BY <1>1 DEF Workers, Owners, OwnersOf
  <2>2. PICK m \in WorkerState : m = [at |-> "look", req |-> {}]
    BY DEF WorkerState, Place
  <2>3. thread' = [thread EXCEPT ![w] = m]
    BY <1>3, <2>2 DEF Move
  <2>4. cur_threads \in Int /\ idle_threads \in Int
    BY CountFacts DEF AioInv, TypeOK
  <2>5. /\ cur_threads' = cur_threads + Counts(m.at) - Counts(thread[w].at)
        /\ idle_threads' = idle_threads + Idles(m.at) - Idles(thread[w].at)
    BY <1>3, <2>1, <2>2, <2>4 DEF Counts, Idles
  <2>6. thread' \in [Worker -> WorkerState] /\ CountersMatch'
    BY <2>1, <2>3, <2>5, CounterFacts
  <2>7. \A v \in Worker : thread'[v] = IF v = w THEN m ELSE thread[v]
    BY <1>1, <2>3 DEF Types
  <2> QED BY <2>1, <2>2, <2>6, <2>7 DEF SameLoad
<1> QED BY <1>2, <1>3 DEF spawn_thread

(* A new request, whatever frames paio_submit leaves on the stack.         *)
LEMMA SubmitFacts ==
  ASSUME AioInv, NEW r \in Request, r \notin Held, NEW k \in Context,
         first_aio' = <<r>> \o first_aio,
         req' = [req EXCEPT ![r] = [ret |-> "inprogress", active |-> FALSE, context |-> k]],
         spawn_thread, request_list' = Append(request_list, r),
         UNCHANGED <<signaled, rfd, bhs, pos, result>>, context' \in Context,
         Good(stack', req', context'), RunningIn(stack') \subseteq RunningIn(stack)
  PROVE  AioInv'
<1>1. Types /\ Lists /\ Owners
  BY InvParts
<1>2. r \notin ToSet(first_aio) /\ r \notin RunningIn(stack)
  <2>1. stack \in Seq(Frames)
    BY Typed
  <2> QED BY <2>1 DEF Held, Running, RunningIn
<1>3. PICK list, queue, p : list = first_aio' /\ queue = request_list' /\ p = req'
  OBVIOUS
<1>4. /\ list \in Seq(Request) /\ ToSet(list) = ToSet(first_aio) \cup {r} /\ IsInjective(list)
  BY <1>1, <1>2, <1>3, ConsFacts DEF Types, Lists, ListsOf
<1>5. r \notin ToSet(request_list) /\ IsInjective(request_list)
  BY <1>1, <1>2 DEF Lists, ListsOf
<1>6. /\ queue \in Seq(Request) /\ ToSet(queue) = ToSet(request_list) \cup {r} /\ IsInjective(queue)
  BY <1>1, <1>3, <1>5, AppendFacts DEF Types
<1>7. /\ p \in [Request -> [ret: {"inprogress", "done", "canceled"},
                            active: BOOLEAN, context: Context]]
      /\ \A y \in Request \ {r} : p[y] = req[y]
      /\ ~ p[r].active /\ p[r].ret = "inprogress"
  BY <1>1, <1>3 DEF Types
<1>8. Types'
  BY <1>1, <1>3, <1>4, <1>6, <1>7, SpawnKeeps DEF Types
<1>9. Lists'
  <2>1. PICK running : running = RunningIn(stack)'
    OBVIOUS
  <2>2. running \subseteq RunningIn(stack)
    BY <2>1 DEF RunningIn
  <2>3. ToSet(request_list) \subseteq Request
    BY <1>1 DEF Types, ToSet
  <2>4. ListsOf(list, queue, p, running)
    <3>1. /\ ToSet(request_list) \subseteq ToSet(first_aio)
          /\ ToSet(first_aio) \cap RunningIn(stack) = {}
          /\ \A x \in ToSet(request_list) : ~ req[x].active /\ req[x].ret = "inprogress"
      BY <1>1 DEF Lists, ListsOf
    <3>2. ToSet(queue) \subseteq ToSet(list)
      BY <1>4, <1>6, <3>1
    <3>3. ToSet(list) \cap running = {}
      BY <1>2, <1>4, <2>2, <3>1
    <3>4. \A x \in ToSet(queue) : ~ p[x].active /\ p[x].ret = "inprogress"
      <4>1. \A x \in ToSet(request_list) : x \in Request \ {r} /\ p[x] = req[x]
        BY <1>5, <1>7, <2>3
      <4> QED BY <1>6, <1>7, <3>1, <4>1
    <3> QED BY <1>4, <1>6, <3>2, <3>3, <3>4 DEF ListsOf
  <2> QED BY <1>3, <2>1, <2>4 DEF Lists
<1>10. Owners'
  <2>1. PICK u : u = thread'
    OBVIOUS
  <2>2. \A v \in Worker : SameLoad(u[v], thread[v])
    <3>1. \A v \in Worker : SameLoad(thread'[v], thread[v])
      BY SpawnKeeps
    <3> QED BY <2>1, <3>1
  <2>3. \A v \in Worker : \A x \in thread[v].req : x \in Request \ {r} /\ p[x] = req[x]
    <3>1. \A v \in Worker : thread[v].req \subseteq Request
      BY <1>1 DEF Types, WorkerState
    <3>2. \A v \in Worker : \A x \in thread[v].req : x \in ToSet(first_aio)
      BY <1>1 DEF Owners, OwnersOf
    <3> QED BY <1>2, <1>7, <3>1, <3>2
  <2>4. OwnersOf(u, p, list)
    <3>1. OwnersOf(thread, req, first_aio) /\ ToSet(first_aio) \subseteq ToSet(list)
      BY <1>1, <1>4 DEF Owners
    <3>2. \A v \in Worker : \A x \in thread[v].req : p[x] = req[x]
      BY <2>3
    <3> QED BY <2>2, <3>1, <3>2, OwnersSame
  <2> QED BY <1>3, <2>1, <2>4 DEF Owners
<1> QED BY <1>8, <1>9, <1>10, SpawnKeeps, InvPartsNext

LEMMA SignalFacts ==
  ASSUME NEW s, NEW q, NEW k, Good(s, q, k), NEW r \in Request
  PROVE  Good(Signals(s, r), q, k) /\ RunningIn(Signals(s, r)) = RunningIn(s)
<1>1. PICK f : f = Frame("signal", r)
  OBVIOUS
<1>2. f \in Frames /\ f.at \notin Reader \cup {"callback"}
  <2>1. Frame("signal", r) \in Frames
    BY DEF Frames
  <2>2. Frame("signal", r).at = "signal"
    BY DEF Frame
  <2> QED BY <1>1, <2>1, <2>2 DEF Reader
<1>3. Good(Append(s, f), q, k) /\ RunningIn(Append(s, f)) = RunningIn(s)
  BY <1>2, PushFacts
<1> QED BY <1>1, <1>3 DEF Signals

(* The frames' callbacks are of other requests than the new one.           *)
LEMMA NewReqFacts ==
  ASSUME AioInv, NEW r \in Request, r \notin Held, NEW x,
         NEW p, p = [req EXCEPT ![r] = x]
  PROVE  Good(stack, p, context)
<1>1. stack \in Seq(Frames) /\ Good(stack, req, context)
  BY Typed
<1>2. r \notin RunningIn(stack)
  BY <1>1 DEF Held, Running, RunningIn
<1>3. \A y \in RunningIn(stack) : y \in Request \ {r}
  BY <1>2 DEF RunningIn
<1>4. \A y \in Request \ {r} : p[y] = req[y]
  BY DEF AioInv, TypeOK
<1> QED BY <1>1, <1>3, <1>4, ReqFacts

LEMMA SubmitKeeps ==
  ASSUME AioInv, NEW r \in Request, Submit(r)
  PROVE  AioInv'
<1>1. /\ r \notin Held /\ first_aio' = <<r>> \o first_aio
      /\ req' = [req EXCEPT ![r] = [ret |-> "inprogress", active |-> FALSE, context |-> 0]]
      /\ spawn_thread /\ request_list' = Append(request_list, r)
      /\ stack' = Signals(stack, r)
      /\ UNCHANGED <<signaled, rfd, bhs, context, pos, result>>
  BY DEF Submit, paio_submit, scan
<1>2. PICK p : p = req'
  OBVIOUS
<1>3. Good(stack, p, context)
  BY <1>1, <1>2, NewReqFacts
<1>4. Good(stack', req', context') /\ RunningIn(stack') = RunningIn(stack)
  BY <1>1, <1>2, <1>3, SignalFacts
<1>5. 0 \in Context
  BY AioAssumption DEF Context
<1> QED BY <1>1, <1>4, <1>5, Typed, SubmitFacts

LEMMA ReadKeeps ==
  ASSUME AioInv, NEW r \in Request, bdrv_rw_em(r)
  PROVE  AioInv'
<1>1. PICK k : k = context + 1
  OBVIOUS
<1>2. PICK f : f = Frame("read", r)
  OBVIOUS
<1>3. PICK b : b = Append(stack, f)
  OBVIOUS
<1>4. /\ r \notin Held /\ first_aio' = <<r>> \o first_aio
      /\ req' = [req EXCEPT ![r] = [ret |-> "inprogress", active |-> FALSE, context |-> k]]
      /\ spawn_thread /\ request_list' = Append(request_list, r)
      /\ stack' = Signals(b, r) /\ context' = k /\ context < MaxContext
      /\ UNCHANGED <<signaled, rfd, bhs, pos, result>>
  BY <1>1, <1>2, <1>3 DEF bdrv_rw_em, paio_submit, scan
<1>5. k \in Context
  BY <1>1, <1>4, Typed, AioAssumption DEF Context
<1>6. PICK p : p = req'
  OBVIOUS
<1>7. Good(stack, p, context)
  BY <1>4, <1>6, NewReqFacts
<1>8. f \in Frames /\ f.at \in Reader
  <2>1. Frame("read", r) \in Frames
    BY DEF Frames
  <2>2. Frame("read", r).at = "read"
    BY DEF Frame
  <2> QED BY <1>2, <2>1, <2>2 DEF Reader
<1>9. Good(b, p, k) /\ RunningIn(b) = RunningIn(stack)
  BY <1>1, <1>3, <1>7, <1>8, PushFacts
<1>10. Good(stack', req', context') /\ RunningIn(stack') = RunningIn(stack)
  BY <1>4, <1>6, <1>9, SignalFacts
<1> QED BY <1>4, <1>5, <1>10, SubmitFacts

(* Another request takes the place of the one that a read waits for.       *)
LEMMA ContinueKeeps ==
  ASSUME AioInv, NEW r \in Request, Continue(r)
  PROVE  AioInv'
<1>1. PICK i \in DOMAIN stack :
        stack[i].at = "read" /\ paio_submit(r, context, [stack EXCEPT ![i] = Frame("read", r)])
  BY DEF Continue
<1>2. PICK f : f = Frame("read", r)
  OBVIOUS
<1>3. PICK b : b = [stack EXCEPT ![i] = f]
  OBVIOUS
<1>4. PICK k \in Context : k = context
  BY Typed
<1>5. /\ r \notin Held /\ first_aio' = <<r>> \o first_aio
      /\ req' = [req EXCEPT ![r] = [ret |-> "inprogress", active |-> FALSE, context |-> k]]
      /\ spawn_thread /\ request_list' = Append(request_list, r)
      /\ stack' = Signals(b, r) /\ context' = context
      /\ UNCHANGED <<signaled, rfd, bhs, pos, result>>
  BY <1>1, <1>2, <1>3, <1>4 DEF Continue, paio_submit, scan
<1>6. PICK p : p = req'
  OBVIOUS
<1>7. Good(stack, p, context)
  BY <1>5, <1>6, NewReqFacts
<1>8. f \in Frames /\ f.at \in Reader /\ stack[i].at \in Reader
  <2>1. Frame("read", r) \in Frames
    BY DEF Frames
  <2>2. Frame("read", r).at = "read"
    BY DEF Frame
  <2> QED BY <1>1, <1>2, <2>1, <2>2 DEF Reader
<1>9. /\ b \in Seq(Frames) /\ Len(b) = Len(stack)
      /\ \A j \in 1..Len(stack) :
           b[j] = stack[j] \/ (b[j].at \in Reader /\ stack[j].at \in Reader)
  BY <1>3, <1>8, Typed
<1>10. Good(b, p, context) /\ RunningIn(b) = RunningIn(stack)
  BY <1>7, <1>9, SameFacts
<1>11. Good(stack', req', context') /\ RunningIn(stack') = RunningIn(stack)
  BY <1>5, <1>6, <1>10, SignalFacts
<1> QED BY <1>4, <1>5, <1>11, Typed, SubmitFacts

(* A request is cancelled: one no worker has taken leaves the workers'     *)
(* list.                                                                   *)
LEMMA CancelFacts ==
  ASSUME NEW r \in Request
  PROVE  /\ Frame("cancel", r) \in Frames
         /\ Frame("cancel", r).at \notin Reader \cup {"callback"}
<1>1. Frame("cancel", r) \in Frames
  BY DEF Frames
<1>2. Frame("cancel", r).at = "cancel"
  BY DEF Frame
<1> QED BY <1>1, <1>2 DEF Reader

LEMMA CancelKeeps ==
  ASSUME AioInv, NEW r \in Request, CancelStart(r)
  PROVE  AioInv'
<1>1. Types /\ Lists /\ Owners /\ CountersMatch
  BY InvParts
<1>2. PICK f \in Frames : f = Frame("cancel", r) /\ f.at \notin Reader \cup {"callback"}
  BY CancelFacts
<1>3. PICK s : s = Append(stack, f)
  OBVIOUS
<1>4. /\ stack' = s
      /\ UNCHANGED <<first_aio, pool, signaled, rfd, context, bhs, pos, result>>
  BY <1>2, <1>3 DEF CancelStart, scan
<1>5. Good(s, req, context) /\ RunningIn(s) = RunningIn(stack)
  BY <1>2, <1>3, Typed, PushFacts
<1>6. CASE req[r].active
  <2>1. UNCHANGED <<request_list, req>>
    BY <1>6 DEF CancelStart
  <2> QED BY <1>4, <1>5, <2>1, Typed, StackStep
<1>7. CASE ~ req[r].active
  <2>1. PICK p : p = [req EXCEPT ![r].ret = "canceled"]
    OBVIOUS
  <2>2. PICK queue : queue = RemoveFirst(request_list, r)
    OBVIOUS
  <2>3. req' = p /\ request_list' = queue
    BY <1>7, <2>1, <2>2 DEF CancelStart
  <2>4. /\ queue \in Seq(Request) /\ IsInjective(queue)
        /\ ToSet(queue) = ToSet(request_list) \ {r}
    BY <1>1, <2>2, RemoveFirstFacts DEF Types, Lists, ListsOf
  <2>5. /\ p \in [Request -> [ret: {"inprogress", "done", "canceled"},
                              active: BOOLEAN, context: Context]]
        /\ \A y \in Request \ {r} : p[y] = req[y]
        /\ \A y \in Request : p[y].context = req[y].context
    BY <1>1, <2>1 DEF Types
  <2>6. Types'
    BY <1>1, <1>4, <2>3, <2>4, <2>5 DEF Types, pool
  <2>7. CountersMatch'
    BY <1>1, <1>4 DEF CountersMatch, Workers, pool
  <2>8. Lists'
    <3>1. first_aio \in Seq(Request) /\ ListsOf(first_aio, request_list, req, RunningIn(stack))
      BY <1>1 DEF Types, Lists
    <3>2. ListsOf(first_aio, queue, p, RunningIn(stack))
      BY <2>4, <2>5, <3>1, ListsChange
    <3>3. RunningIn(stack)' = RunningIn(stack)
      BY <1>4, <1>5 DEF RunningIn
    <3> QED BY <1>4, <2>3, <3>2, <3>3 DEF Lists
  <2>9. Owners'
    <3>1. \A v \in Worker : \A x \in thread[v].req : x \in Request \ {r}
      <4>1. \A v \in Worker : thread[v].req \subseteq Request
        BY <1>1 DEF Types, WorkerState
      <4>2. \A v \in Worker : \A x \in thread[v].req : req[x].active
        BY <1>1 DEF Owners, OwnersOf
      <4> QED BY <1>7, <4>1, <4>2
    <3>2. OwnersOf(thread, p, first_aio)
      <4>1. OwnersOf(thread, req, first_aio)
        BY <1>1 DEF Owners
      <4>2. \A v \in Worker : \A x \in thread[v].req : p[x] = req[x]
        BY <2>5, <3>1
      <4>3. \A v \in Worker : SameLoad(thread[v], thread[v])
        BY DEF SameLoad
      <4> QED BY <4>1, <4>2, <4>3, OwnersSame
    <3> QED BY <1>4, <2>3, <3>2 DEF Owners, pool
  <2>10. Good(stack', req', context')
    <3>1. \A y \in RunningIn(s) : p[y].context = req[y].context
      BY <2>5 DEF RunningIn
    <3>2. Good(s, p, context)
      BY <1>5, <3>1, ReqFacts
    <3> QED BY <1>4, <2>3, <3>2
  <2> QED BY <2>6, <2>7, <2>8, <2>9, <2>10, InvPartsNext
<1> QED BY <1>6, <1>7

(* A request leaves the list of those in progress, by its cancellation or  *)
(* for its callback: it is not in progress, and so nobody else has it.     *)
LEMMA LeaveFacts ==
  ASSUME AioInv, NEW r \in Request, req[r].ret # "inprogress",
         NEW list \in Seq(Request), IsInjective(list), ToSet(list) = ToSet(first_aio) \ {r},
         NEW running, running \subseteq RunningIn(stack) \cup {r}
  PROVE  ListsOf(list, request_list, req, running) /\ OwnersOf(thread, req, list)
<1>1. Types /\ Lists /\ Owners
  BY InvParts
<1>2. ListsOf(list, request_list, req, running)
  BY <1>1 DEF Lists, ListsOf
<1>3. \A v \in Worker : r \notin thread[v].req
  BY <1>1 DEF Owners, OwnersOf
<1>4. OwnersOf(thread, req, list)
  <2> SUFFICES ASSUME NEW v \in Worker
               PROVE  /\ thread[v].at = "busy" => \E x \in Request : thread[v].req = {x}
                      /\ thread[v].at # "busy" => thread[v].req = {}
                      /\ \A x \in thread[v].req :
                           /\ x \in ToSet(list) /\ req[x].active /\ req[x].ret = "inprogress"
                           /\ \A o \in Worker \ {v} : x \notin thread[o].req
    BY DEF OwnersOf
  <2>1. /\ thread[v].at = "busy" => \E x \in Request : thread[v].req = {x}
        /\ thread[v].at # "busy" => thread[v].req = {}
        /\ \A x \in thread[v].req :
             /\ x \in ToSet(first_aio) /\ req[x].active /\ req[x].ret = "inprogress"
             /\ \A o \in Worker \ {v} : x \notin thread[o].req
    BY <1>1 DEF Owners, OwnersOf
  <2> QED BY <1>3, <2>1
<1> QED BY <1>2, <1>4

LEMMA RemoveKeeps ==
  ASSUME AioInv, NEW r \in Request, paio_remove(r)
  PROVE  AioInv'
<1>1. Types /\ Lists /\ CountersMatch
  BY InvParts
<1>2. PICK list : list = RemoveFirst(first_aio, r)
  OBVIOUS
<1>3. /\ list \in Seq(Request) /\ IsInjective(list) /\ ToSet(list) = ToSet(first_aio) \ {r}
  BY <1>1, <1>2, RemoveFirstFacts DEF Types, Lists, ListsOf
<1>4. /\ stack # <<>> /\ Last(stack) = Frame("cancel", r) /\ req[r].ret # "inprogress"
      /\ first_aio' = list /\ stack' = Front(stack)
      /\ UNCHANGED <<request_list, req, pool, signaled, rfd, context, bhs, pos, result>>
  BY <1>2 DEF paio_remove, With, CancelWaits, scan
<1>5. Good(Front(stack), req, context) /\ RunningIn(Front(stack)) \subseteq RunningIn(stack)
  BY <1>4, Typed, PopFacts, CancelFacts
<1>6. PICK running : running = RunningIn(stack)'
  OBVIOUS
<1>7. running \subseteq RunningIn(stack) \cup {r}
  BY <1>4, <1>5, <1>6 DEF RunningIn
<1>8. ListsOf(list, request_list, req, running) /\ OwnersOf(thread, req, list)
  BY <1>3, <1>4, <1>7, LeaveFacts
<1>9. Lists' /\ Owners'
  BY <1>4, <1>6, <1>8 DEF Lists, Owners, pool
<1>10. Types'
  BY <1>1, <1>3, <1>4 DEF Types, pool
<1>11. CountersMatch'
  BY <1>1, <1>4 DEF CountersMatch, Workers, pool
<1>12. Good(stack', req', context')
  BY <1>4, <1>5
<1> QED BY <1>9, <1>10, <1>11, <1>12, InvPartsNext

(* The frame of a callback: its request is of the current context, because *)
(* the scan looked (Ripe).                                                 *)
LEMMA CallbackKeeps ==
  ASSUME AioInv, Callback
  PROVE  AioInv'
<1>1. Types /\ Lists /\ CountersMatch
  BY InvParts
<1>2. pos \in 1..Len(first_aio)
  BY <1>1 DEF Types, Callback
<1>3. PICK r \in Request : r = first_aio[pos]
  BY <1>1, <1>2 DEF Types
<1>4. PICK list : list = RemoveAt(first_aio, pos)
  OBVIOUS
<1>5. /\ list \in Seq(Request) /\ IsInjective(list) /\ ToSet(list) = ToSet(first_aio) \ {r}
  BY <1>1, <1>2, <1>3, <1>4, RemoveAtFacts DEF Types, Lists, ListsOf
<1>6. PICK f : f = Frame("callback", r)
  OBVIOUS
<1>7. /\ req[r].context = context /\ req[r].ret # "inprogress"
      /\ first_aio' = list /\ stack' = Append(stack, f)
      /\ UNCHANGED <<request_list, req, pool, signaled, rfd, context, bhs>>
      /\ pos' = 1 /\ result' = FALSE
  BY <1>3, <1>4, <1>6 DEF Callback, Ripe
<1>8. f \in Frames
  <2>1. Frame("callback", r) \in Frames
    BY DEF Frames
  <2> QED BY <1>6, <2>1
<1>9. Good(Append(stack, f), req, context) /\ RunningIn(Append(stack, f)) = RunningIn(stack) \cup {r}
  BY <1>6, <1>7, <1>8, Typed, PushFacts
<1>10. PICK running : running = RunningIn(stack)'
  OBVIOUS
<1>11. running \subseteq RunningIn(stack) \cup {r}
  BY <1>7, <1>9, <1>10 DEF RunningIn
<1>12. ListsOf(list, request_list, req, running) /\ OwnersOf(thread, req, list)
  BY <1>5, <1>7, <1>11, LeaveFacts
<1>13. Lists' /\ Owners'
  BY <1>7, <1>10, <1>12 DEF Lists, Owners, pool
<1>14. result' \in BOOLEAN
  BY <1>7, Zenon
<1>15. Types'
  BY <1>1, <1>5, <1>7, <1>14 DEF Types, pool
<1>16. CountersMatch'
  BY <1>1, <1>7 DEF CountersMatch, Workers, pool
<1>17. Good(stack', req', context')
  BY <1>7, <1>9
<1> QED BY <1>13, <1>15, <1>16, <1>17, InvPartsNext

-----------------------------------------------------------------------------
(* Every step keeps the invariant.                                         *)
LEMMA NextKeeps == AioInv /\ [Next]_vars => AioInv'
<1> SUFFICES ASSUME AioInv, [Next]_vars PROVE AioInv'
  OBVIOUS
<1>1. CASE UNCHANGED vars
  <2>1. /\ UNCHANGED <<first_aio, request_list, req, pool, signaled, rfd, context, bhs,
                       stack, pos, result>>
    BY <1>1 DEF vars, scan
  <2>2. Good(stack', req, context') /\ RunningIn(stack') \subseteq RunningIn(stack)
    BY <2>1, Typed
  <2> QED BY <2>1, <2>2, Typed, StackStep
<1>2. ASSUME NEW r \in Request,
             Submit(r) \/ bdrv_rw_em(r) \/ Continue(r) \/ CancelStart(r) \/ paio_remove(r)
      PROVE  AioInv'
  BY <1>2, SubmitKeeps, ReadKeeps, ContinueKeeps, CancelKeeps, RemoveKeeps
<1>3. ASSUME NEW w \in Worker, WorkerStep(w) \/ TimedOut(w)
      PROVE  AioInv'
  BY <1>3, IdleWorkerKeeps, TakeKeeps, StoreKeeps DEF WorkerStep
<1>4. CASE Pass \/ Callback \/ CallbackReturns \/ ScanReturns
  BY <1>4, PassKeeps, CallbackKeeps, CallbackReturnsKeeps, ScanReturnsKeeps
<1>5. CASE main_loop_wait \/ qemu_aio_wait \/ bdrv_rw_em_loop
  BY <1>5, MainLoopKeeps, AioWaitKeeps, LoopKeeps
<1>6. CASE FlushStart \/ qemu_aio_flush \/ cond_signal \/ aio_signal_handler
  BY <1>6, FlushKeeps, CondSignalKeeps, HandlerKeeps
<1> QED BY <1>1, <1>2, <1>3, <1>4, <1>5, <1>6 DEF Next, Client, MainStep

(* Every reachable state satisfies the inductive invariant.                *)
THEOREM AioInvariant == Spec => []AioInv
BY InitInv, NextKeeps, PTL DEF Spec

(* The lists, the requests, the threads and the stack are of their types.  *)
THEOREM AioTypeCorrect == Spec => []TypeOK
<1>1. AioInv => TypeOK
  BY DEF AioInv
<1> QED BY <1>1, AioInvariant, PTL

(* The counters are those of the threads there are (spawn_thread,          *)
(* aio_thread).                                                            *)
THEOREM CountersAreRight == Spec => []CountersMatch
<1>1. AioInv => CountersMatch
  BY DEF AioInv
<1> QED BY <1>1, AioInvariant, PTL

(* A worker's result goes into the request it took (aio_thread,            *)
(* paio_cancel).                                                           *)
THEOREM ResultsAreStoredHome == Spec => []ResultsGoHome
<1>1. AioInv => ResultsGoHome
  <2> SUFFICES ASSUME AioInv, NEW w \in Worker, NEW r \in thread[w].req
               PROVE  /\ r \in Held \ Running /\ req[r].active /\ req[r].ret = "inprogress"
                      /\ r \notin ToSet(request_list)
                      /\ \A v \in Worker \ {w} : r \notin thread[v].req
    BY DEF ResultsGoHome
  <2>1. Lists /\ Owners /\ stack \in Seq(Frames)
    BY Typed DEF AioInv
  <2>2. /\ r \in ToSet(first_aio) /\ req[r].active /\ req[r].ret = "inprogress"
        /\ \A v \in Worker \ {w} : r \notin thread[v].req
    BY <2>1 DEF Owners, OwnersOf
  <2>3. r \notin ToSet(request_list) /\ r \notin RunningIn(stack)
    BY <2>1, <2>2 DEF Lists, ListsOf
  <2>4. Running = RunningIn(stack)
    BY <2>1 DEF Running, RunningIn
  <2> QED BY <2>2, <2>3, <2>4 DEF Held
<1> QED BY <1>1, AioInvariant, PTL

(* While a synchronous read waits inside a callback, the callbacks that    *)
(* run are those of its own requests (posix_aio_process_queue, async.c).   *)
THEOREM CallbacksStayInContext == Spec => []CallbacksKeepToContext
<1>1. AioInv => CallbacksKeepToContext
  <2> SUFFICES ASSUME AioInv PROVE CallbacksKeepToContext
    OBVIOUS
  <2>1. Good(stack, req, context) /\ stack \in Seq(Frames)
    BY Typed
  <2>2. \A n : Readers(n) = ReadersOf(stack, n)
    BY DEF Readers, ReadersOf, Reader
  <2>3. DOMAIN stack = 1..Len(stack)
    BY <2>1
  <2> QED BY <2>1, <2>2, <2>3 DEF Good, CallbacksKeepToContext
<1> QED BY <1>1, AioInvariant, PTL

-----------------------------------------------------------------------------
(* No wake-up of a worker thread is lost, for every set of requests and of *)
(* worker threads.  A request put on the list either finds, in the threads *)
(* that are about to look at it, one that nobody else counts on, or its    *)
(* signal is still to come; and a sleeper's end of sleep only adds to      *)
(* those threads.                                                          *)


Looking == {"look", "late", "kill"}
Flag == IF At("signal") THEN 1 ELSE 0

(* n requests, threads t, and f signals to come.                           *)
Covered(t, n, f) ==
  At_(t, {"wait"}) # {} => n <= Cardinality(At_(t, Looking)) + f

LEMMA Restated ==
  /\ SleepersAreNotNeeded <=> Covered(thread, Len(request_list), Flag)
  /\ SleepersAreNotNeeded' <=> Covered(thread', Len(request_list'), Flag')
<1>1. /\ Workers({"wait"}) = At_(thread, {"wait"})
      /\ Workers({"look", "late", "kill"}) = At_(thread, Looking)
      /\ Workers({"wait"})' = At_(thread', {"wait"})
      /\ Workers({"look", "late", "kill"})' = At_(thread', Looking)
  BY DEF Workers, At_, Looking
<1>2. At("signal")' <=> (stack' # <<>> /\ Last(stack').at = "signal")
  BY DEF At
<1> QED BY <1>1 DEF SleepersAreNotNeeded, Covered, Flag

LEMMA Sizes ==
  ASSUME AioInv
  PROVE  /\ request_list \in Seq(Request) /\ Len(request_list) \in Nat
         /\ Flag \in {0, 1} /\ Flag' \in {0, 1}
         /\ thread \in [Worker -> WorkerState]
<1>1. Types
  BY InvParts
<1> QED BY <1>1 DEF Types, Flag

(* A worker moves, to somewhere else than sleep.                           *)
LEMMA MoveCovers ==
  ASSUME NEW t, NEW u, NEW w \in Worker, \A v \in Worker \ {w} : u[v] = t[v],
         NEW n \in Nat, NEW m \in Nat, NEW f \in {0, 1}, NEW g \in {0, 1},
         Covered(t, n, f), u[w].at # "wait",
         m - g <= n - f + (IF u[w].at \in Looking THEN 1 ELSE 0)
                        - (IF t[w].at \in Looking THEN 1 ELSE 0)
  PROVE  Covered(u, m, g)
<1>1. At_(u, {"wait"}) \subseteq At_(t, {"wait"})
  BY DEF At_
<1>2. /\ Cardinality(At_(t, Looking)) \in Nat
      /\ Cardinality(At_(u, Looking)) =
           Cardinality(At_(t, Looking)) + (IF u[w].at \in Looking THEN 1 ELSE 0)
                                        - (IF t[w].at \in Looking THEN 1 ELSE 0)
  BY CountMove
<1>3. CASE At_(u, {"wait"}) = {}
  BY <1>3 DEF Covered
<1>4. CASE At_(u, {"wait"}) # {}
  <2>1. n <= Cardinality(At_(t, Looking)) + f
    BY <1>1, <1>4 DEF Covered
  <2> QED BY <1>2, <2>1 DEF Covered
<1> QED BY <1>3, <1>4

(* The worker threads stay where they are, and no signal was to come.      *)
LEMMA StillCovers ==
  ASSUME AioInv, SleepersAreNotNeeded, ~ At("signal"), UNCHANGED thread,
         Len(request_list') \in Nat, Len(request_list') <= Len(request_list)
  PROVE  SleepersAreNotNeeded'
<1>1. Covered(thread, Len(request_list), Flag) /\ Flag = 0
  BY Restated DEF Flag
<1>2. Len(request_list) \in Nat /\ Flag' \in {0, 1}
  BY Sizes
<1>3. Cardinality(At_(thread, Looking)) \in Nat
  BY CountFacts
<1>4. Covered(thread, Len(request_list'), Flag')
  BY <1>1, <1>2, <1>3 DEF Covered
<1> QED BY <1>4, Restated

-----------------------------------------------------------------------------
(* The steps of a worker.                                                  *)

(* A sleeper, and one that ends, found the list empty.                     *)
LEMMA EmptyCovers ==
  ASSUME AioInv, NEW w \in Worker, Wait(w) \/ End(w)
  PROVE  SleepersAreNotNeeded'
<1>1. Len(request_list') = 0
  BY DEF Wait, End
<1>2. Flag' \in {0, 1} /\ Cardinality(At_(thread', Looking)) \in Nat
  BY Sizes, CountFacts
<1>3. Covered(thread', Len(request_list'), Flag')
  BY <1>1, <1>2 DEF Covered
<1> QED BY <1>3, Restated

(* The one that takes a request was about to look at the list.             *)
LEMMA TakeCovers ==
  ASSUME AioInv, SleepersAreNotNeeded, NEW w \in Worker, Take(w)
  PROVE  SleepersAreNotNeeded'
<1>1. Covered(thread, Len(request_list), Flag)
  BY Restated
<1>2. PICK u : u = thread'
  OBVIOUS
<1>3. PICK m : m = Len(request_list')
  OBVIOUS
<1>4. m \in Nat /\ m = Len(request_list) - 1 /\ Len(request_list) \in Nat
  <2>1. request_list \in Seq(Request) /\ request_list # <<>> /\ request_list' = Tail(request_list)
    BY Sizes DEF Take
  <2> QED BY <1>3, <2>1
<1>5. /\ \A v \in Worker \ {w} : u[v] = thread[v]
      /\ u[w].at = "busy" /\ thread[w].at \in Looking
  BY <1>2, Sizes DEF Take, Looking
<1>6. "busy" \notin Looking /\ "busy" # "wait"
  BY DEF Looking
<1>7. Flag' = Flag /\ Flag \in {0, 1}
  BY Sizes DEF Take, Flag, At
<1>8. Covered(u, m, Flag)
  BY <1>1, <1>4, <1>5, <1>6, <1>7, MoveCovers
<1> QED BY <1>2, <1>3, <1>7, <1>8, Restated

(* The others' moves bring one more to the list, or none.                  *)
LEMMA MoveKeepsCover ==
  ASSUME AioInv, SleepersAreNotNeeded, NEW w \in Worker, NEW x \in Looking,
         Move(w, x), UNCHANGED <<request_list, stack>>
  PROVE  SleepersAreNotNeeded'
<1>1. Covered(thread, Len(request_list), Flag)
  BY Restated
<1>2. PICK u : u = thread'
  OBVIOUS
<1>3. /\ \A v \in Worker \ {w} : u[v] = thread[v]
      /\ u[w].at = x
  BY <1>2, Sizes DEF Move
<1>4. x # "wait"
  BY DEF Looking
<1>5. Flag' = Flag /\ Flag \in {0, 1} /\ Len(request_list) \in Nat
  BY Sizes DEF Flag, At
<1>6. PICK n \in Nat, f \in {0, 1} : n = Len(request_list) /\ f = Flag
  BY <1>5
<1>7. PICK t : t = thread
  OBVIOUS
<1>8. Covered(u, n, f)
  <2>1. Covered(t, n, f) /\ (\A v \in Worker \ {w} : u[v] = t[v]) /\ u[w].at # "wait"
    BY <1>1, <1>3, <1>4, <1>6, <1>7
  <2>2. /\ Cardinality(At_(t, Looking)) \in Nat
        /\ Cardinality(At_(u, Looking)) =
             Cardinality(At_(t, Looking)) + (IF u[w].at \in Looking THEN 1 ELSE 0)
                                          - (IF t[w].at \in Looking THEN 1 ELSE 0)
    BY <2>1, CountMove
  <2>3. Cardinality(At_(u, Looking)) \in Nat
    BY CountFacts
  <2>4. u[w].at \in Looking
    BY <1>3
  <2>5. Cardinality(At_(t, Looking)) <= Cardinality(At_(u, Looking))
    BY <2>2, <2>3, <2>4
  <2>6. At_(u, {"wait"}) \subseteq At_(t, {"wait"})
    BY <2>1 DEF At_
  <2> QED BY <1>6, <2>1, <2>2, <2>3, <2>5, <2>6 DEF Covered
<1> QED BY <1>2, <1>5, <1>6, <1>8, Restated

LEMMA WorkerCovers ==
  ASSUME AioInv, SleepersAreNotNeeded, NEW w \in Worker, WorkerStep(w) \/ TimedOut(w)
  PROVE  SleepersAreNotNeeded'
<1>1. CASE Wait(w) \/ End(w)
  BY <1>1, EmptyCovers
<1>2. CASE Take(w)
  BY <1>2, TakeCovers
<1>3. CASE Store(w)
  BY <1>3, MoveKeepsCover DEF Store, Looking
<1>4. CASE Kill(w)
  BY <1>4, MoveKeepsCover DEF Kill, Looking
<1>5. CASE TimedOut(w)
  BY <1>5, MoveKeepsCover DEF TimedOut, Looking
<1> QED BY <1>1, <1>2, <1>3, <1>4, <1>5 DEF WorkerStep

-----------------------------------------------------------------------------
(* The steps of the main thread.                                           *)

(* The signal wakes one that sleeps, which makes up for it.                *)
LEMMA SignalCovers ==
  ASSUME AioInv, SleepersAreNotNeeded, cond_signal
  PROVE  SleepersAreNotNeeded'
<1>1. Covered(thread, Len(request_list), 1) /\ UNCHANGED request_list
  BY Restated DEF Flag, cond_signal
<1>2. Flag' \in {0, 1} /\ Len(request_list) \in Nat
  BY Sizes
<1>3. CASE Workers({"wait"}) = {}
  <2>1. UNCHANGED thread /\ At_(thread, {"wait"}) = {}
    BY <1>3 DEF cond_signal, Workers, At_
  <2>2. Covered(thread', Len(request_list'), Flag')
    BY <2>1 DEF Covered
  <2> QED BY <2>2, Restated
<1>4. ASSUME NEW w \in Workers({"wait"}), Move(w, "look")
      PROVE  SleepersAreNotNeeded'
  <2>1. w \in Worker /\ thread[w].at = "wait"
    BY DEF Workers
  <2>2. PICK u : u = thread'
    OBVIOUS
  <2>3. (\A v \in Worker \ {w} : u[v] = thread[v]) /\ u[w].at = "look"
    BY <1>4, <2>1, <2>2, Sizes DEF Move
  <2>4. "look" \in Looking /\ "wait" \notin Looking
    BY DEF Looking
  <2>5. PICK g \in {0, 1} : g = Flag'
    BY <1>2
  <2>6. Covered(u, Len(request_list), g)
    BY <1>1, <1>2, <2>1, <2>3, <2>4, MoveCovers
  <2> QED BY <1>1, <2>2, <2>5, <2>6, Restated
<1> QED BY <1>3, <1>4 DEF cond_signal

(* A new request brings its signal along, and maybe a thread.              *)
LEMMA SubmitCovers ==
  ASSUME AioInv, SleepersAreNotNeeded, ~ At("signal"), NEW r \in Request, NEW b, NEW q,
         b \in Seq(Frames), paio_submit(r, q, b)
  PROVE  SleepersAreNotNeeded'
<1>1. Covered(thread, Len(request_list), 0)
  BY Restated DEF Flag
<1>2. PICK m : m = Len(request_list')
  OBVIOUS
<1>3. m \in Nat /\ m = Len(request_list) + 1 /\ Len(request_list) \in Nat
  <2>1. request_list \in Seq(Request) /\ request_list' = Append(request_list, r)
    BY Sizes DEF paio_submit
  <2> QED BY <1>2, <2>1
<1>4. Flag' = 1
  <2>1. Frame("signal", r) \in Frames
    BY DEF Frames
  <2>2. PICK f \in Frames : f = Frame("signal", r)
    BY <2>1
  <2>3. f.at = "signal"
    BY <2>2 DEF Frame
  <2>4. stack' = Append(b, f)
    BY <2>2 DEF paio_submit, Signals
  <2>5. PICK t : t = Append(b, f)
    OBVIOUS
  <2>6. t \in Seq(Frames) /\ Len(t) = Len(b) + 1 /\ t[Len(b) + 1] = f /\ Len(b) \in Nat
    BY <2>5
  <2>7. t # <<>> /\ Last(t) = f
    BY <2>6 DEF Last
  <2> QED BY <2>3, <2>4, <2>5, <2>7 DEF Flag, At
<1>5. CASE UNCHANGED thread
  <2>1. Cardinality(At_(thread, Looking)) \in Nat
    BY CountFacts
  <2>2. Covered(thread, m, 1)
    BY <1>1, <1>3, <2>1 DEF Covered
  <2> QED BY <1>2, <1>4, <1>5, <2>2, Restated
<1>6. ASSUME NEW w \in Workers({"none"}), Move(w, "look")
      PROVE  SleepersAreNotNeeded'
  <2>1. w \in Worker /\ thread[w].at = "none"
    BY DEF Workers
  <2>2. PICK u : u = thread'
    OBVIOUS
  <2>3. (\A v \in Worker \ {w} : u[v] = thread[v]) /\ u[w].at = "look"
    BY <1>6, <2>1, <2>2, Sizes DEF Move
  <2>4. "look" \in Looking /\ "none" \notin Looking
    BY DEF Looking
  <2>5. Covered(u, m, 1)
    BY <1>1, <1>3, <2>1, <2>3, <2>4, MoveCovers
  <2> QED BY <1>2, <1>4, <2>2, <2>5, Restated
<1> QED BY <1>5, <1>6 DEF paio_submit, spawn_thread, pool

LEMMA ClientCovers ==
  ASSUME AioInv, SleepersAreNotNeeded, NEW r \in Request,
         Submit(r) \/ bdrv_rw_em(r) \/ Continue(r)
  PROVE  SleepersAreNotNeeded'
<1>1. stack \in Seq(Frames)
  BY Typed
<1>2. PICK f \in Frames : f = Frame("read", r)
  <2>1. Frame("read", r) \in Frames
    BY DEF Frames
  <2> QED BY <2>1
<1>3. ~ At("signal")
  BY DEF Submit, bdrv_rw_em, Continue, InClient, At
<1>4. CASE Submit(r)
  BY <1>1, <1>3, <1>4, SubmitCovers DEF Submit
<1>5. CASE bdrv_rw_em(r)
  <2>1. PICK b : b = Append(stack, f)
    OBVIOUS
  <2>2. b \in Seq(Frames)
    BY <1>1, <2>1
  <2>3. paio_submit(r, context + 1, b)
    BY <1>2, <1>5, <2>1 DEF bdrv_rw_em
  <2> QED BY <1>3, <2>2, <2>3, SubmitCovers
<1>6. CASE Continue(r)
  <2>1. PICK i \in DOMAIN stack : paio_submit(r, context, [stack EXCEPT ![i] = f])
    BY <1>2, <1>6 DEF Continue
  <2>2. PICK b : b = [stack EXCEPT ![i] = f]
    OBVIOUS
  <2>3. b \in Seq(Frames)
    BY <1>1, <2>2
  <2>4. paio_submit(r, context, b)
    BY <2>1, <2>2
  <2> QED BY <1>3, <2>3, <2>4, SubmitCovers
<1> QED BY <1>4, <1>5, <1>6

(* A cancelled request may leave the list.                                 *)
LEMMA CancelCovers ==
  ASSUME AioInv, SleepersAreNotNeeded, NEW r \in Request, CancelStart(r)
  PROVE  SleepersAreNotNeeded'
<1>1. ~ At("signal") /\ UNCHANGED thread
  BY DEF CancelStart, At, pool
<1>2. request_list \in Seq(Request) /\ IsInjective(request_list) /\ Len(request_list) \in Nat
  BY Sizes DEF AioInv, Lists, ListsOf
<1>3. PICK m : m = RemoveFirst(request_list, r)
  OBVIOUS
<1>4. m \in Seq(Request) /\ Len(m) \in Nat /\ Len(m) <= Len(request_list)
  BY <1>2, <1>3, RemoveFirstFacts
<1>5. request_list' = request_list \/ request_list' = m
  BY <1>3 DEF CancelStart
<1> QED BY <1>1, <1>2, <1>4, <1>5, StillCovers

(* Every other step of the main thread leaves the workers and their list   *)
(* alone.                                                                  *)
LEMMA QuietCovers ==
  ASSUME AioInv, SleepersAreNotNeeded, UNCHANGED <<request_list, thread>>,
         ~ At("signal") \/ UNCHANGED stack
  PROVE  SleepersAreNotNeeded'
<1>1. CASE ~ At("signal")
  BY <1>1, Sizes, StillCovers
<1>2. CASE UNCHANGED stack
  BY <1>2 DEF SleepersAreNotNeeded, Workers, At
<1> QED BY <1>1, <1>2

LEMMA MainCovers ==
  ASSUME AioInv, SleepersAreNotNeeded,
         \/ Pass \/ Callback \/ CallbackReturns \/ ScanReturns \/ main_loop_wait
         \/ qemu_aio_wait \/ bdrv_rw_em_loop \/ qemu_aio_flush \/ FlushStart
         \/ aio_signal_handler \/ \E r \in Request : paio_remove(r)
  PROVE  SleepersAreNotNeeded'
<1>1. CASE Pass \/ Callback \/ CallbackReturns \/ ScanReturns
  BY <1>1, QuietCovers DEF Pass, Callback, CallbackReturns, ScanReturns, At, pool
<1>2. CASE main_loop_wait
  BY <1>2, QuietCovers
     DEF main_loop_wait, bh_run_aio_completions, posix_aio_read, StartScan, At, pool
<1>3. CASE qemu_aio_wait
  BY <1>3, QuietCovers
     DEF qemu_aio_wait, bh_run_aio_completions, posix_aio_read, StartScan, Go, At, pool
<1>4. CASE bdrv_rw_em_loop
  BY <1>4, QuietCovers
     DEF bdrv_rw_em_loop, bh_run_aio_completions, async_context_pop, StartScan, Go, At, pool
<1>5. CASE qemu_aio_flush \/ FlushStart
  BY <1>5, QuietCovers
     DEF qemu_aio_flush, FlushStart, bh_run_aio_completions, StartScan, Go, At, pool
<1>6. CASE aio_signal_handler
  BY <1>6, QuietCovers DEF aio_signal_handler, At, pool
<1>7. ASSUME NEW r \in Request, paio_remove(r)
      PROVE  SleepersAreNotNeeded'
  <2>1. Last(stack).at = "cancel"
    BY <1>7 DEF paio_remove, With, Frame
  <2> QED BY <1>7, <2>1, QuietCovers DEF paio_remove, At, pool
<1> QED BY <1>1, <1>2, <1>3, <1>4, <1>5, <1>6, <1>7

-----------------------------------------------------------------------------
LEMMA NextCovers == AioInv /\ SleepersAreNotNeeded /\ [Next]_vars => SleepersAreNotNeeded'
<1> SUFFICES ASSUME AioInv, SleepersAreNotNeeded, [Next]_vars PROVE SleepersAreNotNeeded'
  OBVIOUS
<1>1. CASE UNCHANGED vars
  BY <1>1, QuietCovers DEF vars, pool
<1>2. ASSUME NEW w \in Worker, WorkerStep(w) \/ TimedOut(w)
      PROVE  SleepersAreNotNeeded'
  BY <1>2, WorkerCovers
<1>3. ASSUME NEW r \in Request, Submit(r) \/ bdrv_rw_em(r) \/ Continue(r) \/ CancelStart(r)
      PROVE  SleepersAreNotNeeded'
  BY <1>3, ClientCovers, CancelCovers
<1>4. CASE FlushStart \/ MainStep \/ aio_signal_handler
  BY <1>4, SignalCovers, MainCovers DEF MainStep
<1> QED BY <1>1, <1>2, <1>3, <1>4 DEF Next, Client

(* While a worker sleeps, every request that no worker has taken has one   *)
(* of its own on the way, or its signal is to come: no wake-up is lost     *)
(* (qemu_paio_submit, aio_thread).                                         *)
THEOREM NoWakeupIsLost == Spec => []SleepersAreNotNeeded
<1>1. Init => SleepersAreNotNeeded
  BY DEF Init, SleepersAreNotNeeded, Workers
<1> QED BY <1>1, NextCovers, AioInvariant, PTL DEF Spec

-----------------------------------------------------------------------------
(* No end of a request goes unnoticed.  What the stack has to do with it:  *)
(* a callback runs above the scan that will start over; a request of an    *)
(* inner context is the one that a synchronous read there waits for, so a  *)
(* context that is left has none; and only paio_cancel, which waits for    *)
(* nothing else, has a cancelled one on the list.                          *)
Nested(s) == \A i \in 1..Len(s) : s[i].at = "callback" => i # 1 /\ s[i - 1].at = "scan"
ReadsHeld(s, q, list) ==
  \A i \in 1..Len(s), r \in Request :
    s[i] = Frame("read", r) =>
      /\ q[r].context = Cardinality(ReadersOf(s, i))
      /\ r \in ToSet(list) \cup RunningIn(s)
InnerRead(s, q, list) ==
  \A r \in ToSet(list) : q[r].context = 0 \/ \E i \in 1..Len(s) : s[i] = Frame("read", r)
Canceled(s, q, list) ==
  \A r \in ToSet(list) : q[r].ret = "canceled" => Len(s) = 1 /\ s[1] = Frame("cancel", r)

Alone(s) == \A i \in 1..Len(s) : s[i].at = "cancel" => Len(s) = 1

Home(s, q, list) ==
  /\ Nested(s) /\ Alone(s)
  /\ ReadsHeld(s, q, list) /\ InnerRead(s, q, list) /\ Canceled(s, q, list)
ScanStart == pos = 1 \/ At("scan")
HomeInv == Home(stack, req, first_aio) /\ ScanStart

(* The frames of reads, callbacks and cancellations are the same in s and  *)
(* in t.                                                                   *)
Lasting == {"read", "callback", "cancel"}
KeptUpto(s, t, m) ==
  /\ m <= Len(s) /\ m <= Len(t)
  /\ \A i \in 1..m : t[i] = s[i]
  /\ \A i \in 1..Len(s) : i > m => s[i].at \notin Lasting
  /\ \A i \in 1..Len(t) : i > m => t[i].at \notin Lasting
Kept(s, t) == \E m \in Nat : KeptUpto(s, t, m)

(* Those of the callbacks lie in the same contexts.                        *)
KeptCalls(s, t) ==
  \A i \in 1..Len(s) : s[i].at = "callback" =>
    /\ i \in 1..Len(t) /\ t[i].at = "callback"
    /\ Cardinality(ReadersOf(t, i)) = Cardinality(ReadersOf(s, i))

LEMMA KeptFacts ==
  ASSUME NEW s \in Seq(Frames)
  PROVE  /\ Kept(s, s)
         /\ \A f \in Frames : f.at \notin Lasting => Kept(s, Append(s, f))
         /\ s # <<>> /\ Last(s).at \notin Lasting => Kept(s, Front(s))
<1>1. Len(s) \in Nat
  OBVIOUS
<1>2. Kept(s, s)
  <2>1. KeptUpto(s, s, Len(s))
    BY <1>1 DEF KeptUpto
  <2> QED BY <1>1, <2>1 DEF Kept
<1>3. ASSUME NEW f \in Frames, f.at \notin Lasting PROVE Kept(s, Append(s, f))
  <2>1. PICK t : t = Append(s, f)
    OBVIOUS
  <2>2. Len(t) = Len(s) + 1 /\ t[Len(s) + 1] = f /\ \A i \in 1..Len(s) : t[i] = s[i]
    BY <2>1, PushShape
  <2>3. \A i \in 1..Len(t) : i > Len(s) => i = Len(s) + 1
    BY <1>1, <2>2
  <2>4. KeptUpto(s, t, Len(s))
    BY <1>1, <1>3, <2>2, <2>3 DEF KeptUpto
  <2> QED BY <1>1, <2>1, <2>4 DEF Kept
<1>4. ASSUME s # <<>>, Last(s).at \notin Lasting PROVE Kept(s, Front(s))
  <2>1. PICK t : t = Front(s)
    OBVIOUS
  <2>2. PICK n \in Nat : n = Len(s)
    BY <1>1
  <2>3. /\ n # 0 /\ Len(t) = n - 1 /\ Last(s) = s[n]
        /\ \A i \in 1..(n - 1) : t[i] = s[i]
    BY <1>4, <2>1, <2>2, FrontFacts
  <2>4. \A i \in 1..n : i > n - 1 => i = n
    BY <2>2
  <2>5. KeptUpto(s, t, n - 1)
    BY <1>4, <2>2, <2>3, <2>4 DEF KeptUpto
  <2> QED BY <2>1, <2>2, <2>3, <2>5 DEF Kept
<1> QED BY <1>2, <1>3, <1>4

LEMMA KeptTwice ==
  ASSUME NEW s \in Seq(Frames), NEW t \in Seq(Frames), NEW u \in Seq(Frames),
         Kept(s, t), Kept(t, u)
  PROVE  Kept(s, u)
<1>1. PICK a \in Nat : KeptUpto(s, t, a)
  BY DEF Kept
<1>2. PICK b \in Nat : KeptUpto(t, u, b)
  BY DEF Kept
<1>3. PICK m \in Nat : m = (IF a <= b THEN a ELSE b) /\ m <= a /\ m <= b
  OBVIOUS
<1>4. PICK ls \in Nat, lt \in Nat, lu \in Nat : ls = Len(s) /\ lt = Len(t) /\ lu = Len(u)
  OBVIOUS
<1>5. m <= ls /\ m <= lu /\ a <= ls /\ a <= lt /\ b <= lt /\ b <= lu
  BY <1>1, <1>2, <1>3, <1>4 DEF KeptUpto
<1>6. ASSUME NEW i \in 1..m PROVE u[i] = s[i]
  <2>1. i \in 1..a /\ i \in 1..b
    BY <1>3
  <2> QED BY <1>1, <1>2, <2>1 DEF KeptUpto
<1>7. ASSUME NEW i \in 1..ls, i > m PROVE s[i].at \notin Lasting
  <2>1. CASE i > a
    BY <1>1, <1>4, <2>1 DEF KeptUpto
  <2>2. CASE ~ (i > a)
    <3>1. i \in 1..a /\ i \in 1..lt /\ i > b
      BY <1>3, <1>5, <1>7, <2>2
    <3>2. t[i].at \notin Lasting /\ t[i] = s[i]
      BY <1>1, <1>2, <1>4, <3>1 DEF KeptUpto
    <3> QED BY <3>2
  <2> QED BY <2>1, <2>2
<1>8. ASSUME NEW i \in 1..lu, i > m PROVE u[i].at \notin Lasting
  <2>1. CASE i > b
    BY <1>2, <1>4, <2>1 DEF KeptUpto
  <2>2. CASE ~ (i > b)
    <3>1. i \in 1..b /\ i \in 1..lt /\ i > a
      BY <1>3, <1>5, <1>8, <2>2
    <3>2. t[i].at \notin Lasting /\ u[i] = t[i]
      BY <1>1, <1>2, <1>4, <3>1 DEF KeptUpto
    <3> QED BY <3>2
  <2> QED BY <2>1, <2>2
<1>9. KeptUpto(s, u, m)
  BY <1>4, <1>5, <1>6, <1>7, <1>8 DEF KeptUpto
<1> QED BY <1>9 DEF Kept

LEMMA KeptReaders ==
  ASSUME NEW s \in Seq(Frames), NEW t \in Seq(Frames), Kept(s, t)
  PROVE  /\ \A i \in 1..Len(s) : s[i].at \in Lasting =>
              i \in 1..Len(t) /\ t[i] = s[i] /\ ReadersOf(t, i) = ReadersOf(s, i)
         /\ \A i \in 1..Len(t) : t[i].at \in Lasting =>
              i \in 1..Len(s) /\ t[i] = s[i] /\ ReadersOf(t, i) = ReadersOf(s, i)
         /\ \A i \in 1..Len(t) : t[i].at \in Lasting /\ i # 1 => t[i - 1] = s[i - 1]
         /\ RunningIn(t) = RunningIn(s)
         /\ KeptCalls(s, t)
<1>1. PICK m \in Nat : KeptUpto(s, t, m)
  BY DEF Kept
<1>2. PICK ls \in Nat, lt \in Nat : ls = Len(s) /\ lt = Len(t) /\ m <= ls /\ m <= lt
  BY <1>1 DEF KeptUpto
<1>3. \A i \in 1..m : i \in 1..ls /\ i \in 1..lt /\ t[i] = s[i]
  BY <1>1, <1>2 DEF KeptUpto
<1>4. \A i \in 1..ls : s[i].at \in Lasting => i \in 1..m
  <2>1. \A i \in 1..ls : i > m => s[i].at \notin Lasting
    BY <1>1, <1>2 DEF KeptUpto
  <2> QED BY <2>1
<1>5. \A i \in 1..lt : t[i].at \in Lasting => i \in 1..m
  <2>1. \A i \in 1..lt : i > m => t[i].at \notin Lasting
    BY <1>1, <1>2 DEF KeptUpto
  <2> QED BY <2>1
<1>6. ASSUME NEW i \in 1..m PROVE ReadersOf(t, i) = ReadersOf(s, i)
  <2>1. \A j \in 1..i : j \in 1..m
    OBVIOUS
  <2> QED BY <1>3, <2>1 DEF ReadersOf
<1>7. \A i \in 1..m : i # 1 => i - 1 \in 1..m
  OBVIOUS
<1>8. RunningIn(t) = RunningIn(s)
  <2>1. "callback" \in Lasting /\ \A f, r : f = Frame("callback", r) => f.at = "callback"
    BY DEF Lasting, Frame
  <2>2. \A r : (\E i \in 1..ls : s[i] = Frame("callback", r)) <=>
               (\E i \in 1..lt : t[i] = Frame("callback", r))
    BY <1>3, <1>4, <1>5, <2>1
  <2> QED BY <1>2, <2>2 DEF RunningIn
<1>9. "callback" \in Lasting
  BY DEF Lasting
<1>10. KeptCalls(s, t)
  BY <1>2, <1>3, <1>4, <1>6, <1>9 DEF KeptCalls
<1> QED BY <1>2, <1>3, <1>4, <1>5, <1>6, <1>7, <1>8, <1>10

(* A frame of a read is one, and of one request.                           *)
LEMMA ReadFrames ==
  /\ \A r, x : Frame("read", r) = Frame("read", x) => r = x
  /\ \A r : Frame("read", r).at = "read"
  /\ \A r, x : Frame("callback", r) = Frame("callback", x) => r = x
  /\ \A r, x : Frame("cancel", r) = Frame("cancel", x) => r = x
  /\ \A r : Frame("callback", r).at = "callback" /\ Frame("cancel", r).at = "cancel"
  /\ "read" \in Lasting /\ "callback" \in Lasting /\ "done" \notin Lasting
  /\ \A at \in PlainPlace : at \notin Lasting
  /\ "signal" \notin Lasting /\ "cancel" \in Lasting
BY DEF Frame, Lasting, PlainPlace

(* Steps that keep the frames of reads and callbacks, and no request is    *)
(* cancelled or put on the list.                                           *)
LEMMA HomeKept ==
  ASSUME NEW s \in Seq(Frames), NEW t \in Seq(Frames), NEW q, NEW p, NEW list,
         Home(s, q, list), Kept(s, t),
         t = s \/ s = <<>> \/ Last(s).at # "cancel",
         ToSet(list) \subseteq Request,
         \A r \in Request : p[r].context = q[r].context,
         \A r \in Request : p[r].ret = "canceled" => q[r].ret = "canceled"
  PROVE  Home(t, p, list)
<1>1. /\ \A i \in 1..Len(s) : s[i].at \in Lasting =>
           i \in 1..Len(t) /\ t[i] = s[i] /\ ReadersOf(t, i) = ReadersOf(s, i)
      /\ \A i \in 1..Len(t) : t[i].at \in Lasting =>
           i \in 1..Len(s) /\ t[i] = s[i] /\ ReadersOf(t, i) = ReadersOf(s, i)
      /\ \A i \in 1..Len(t) : t[i].at \in Lasting /\ i # 1 => t[i - 1] = s[i - 1]
      /\ RunningIn(t) = RunningIn(s)
  BY KeptReaders
<1>2. Nested(t)
  BY <1>1, ReadFrames DEF Home, Nested
<1>3. ReadsHeld(t, p, list)
  <2> SUFFICES ASSUME NEW i \in 1..Len(t), NEW r \in Request, t[i] = Frame("read", r)
               PROVE  /\ p[r].context = Cardinality(ReadersOf(t, i))
                      /\ r \in ToSet(list) \cup RunningIn(t)
    BY DEF ReadsHeld
  <2>1. t[i].at \in Lasting
    BY ReadFrames
  <2> QED BY <1>1, <2>1 DEF Home, ReadsHeld
<1>4. InnerRead(t, p, list)
  <2> SUFFICES ASSUME NEW r \in ToSet(list), p[r].context # 0
               PROVE  \E i \in 1..Len(t) : t[i] = Frame("read", r)
    BY DEF InnerRead
  <2>1. PICK i \in 1..Len(s) : s[i] = Frame("read", r)
    BY DEF Home, InnerRead
  <2> QED BY <1>1, <2>1, ReadFrames
<1>5. Canceled(t, p, list)
  <2> SUFFICES ASSUME NEW r \in ToSet(list), p[r].ret = "canceled"
               PROVE  Len(t) = 1 /\ t[1] = Frame("cancel", r)
    BY DEF Canceled
  <2>1. Len(s) = 1 /\ s[1] = Frame("cancel", r)
    BY DEF Home, Canceled
  <2>2. s # <<>>
    <3>1. Len(<<>>) = 0 /\ 0 # 1
      OBVIOUS
    <3> QED BY <2>1, <3>1, Zenon
  <2>3. Last(s).at = "cancel"
    BY <2>1, ReadFrames DEF Last
  <2> QED BY <2>1, <2>2, <2>3
<1>6. Alone(t)
  <2> SUFFICES ASSUME NEW i \in 1..Len(t), t[i].at = "cancel" PROVE Len(t) = 1
    BY DEF Alone
  <2>1. i \in 1..Len(s) /\ s[i].at = "cancel"
    BY <1>1, ReadFrames
  <2>2. Len(s) = 1 /\ i = 1
    BY <2>1 DEF Home, Alone
  <2>3. s # <<>>
    <3>1. Len(<<>>) = 0 /\ 0 # 1
      OBVIOUS
    <3> QED BY <2>2, <3>1, Zenon
  <2>4. Last(s).at = "cancel"
    BY <2>1, <2>2 DEF Last
  <2> QED BY <2>2, <2>3, <2>4
<1> QED BY <1>2, <1>3, <1>4, <1>5, <1>6 DEF Home

(* A request on the list is of a context that has been entered; and of one *)
(* further out when the read on top is done.                               *)
LEMMA ContextsEntered ==
  ASSUME NEW s, NEW q, NEW k, NEW list, Good(s, q, k), Home(s, q, list),
         NEW r \in ToSet(list), r \in Request, q[r].context \in Nat
  PROVE  /\ q[r].context <= k /\ k \in Nat
         /\ s # <<>> /\ Last(s).at = "done" => q[r].context <= k - 1
<1>1. s \in Seq(Frames) /\ Len(s) \in Nat /\ k = Cardinality(ReadersOf(s, Len(s)))
  BY DEF Good
<1>2. k \in Nat /\ IsFiniteSet(ReadersOf(s, Len(s)))
  BY <1>1, ReadersFacts
<1>3. CASE q[r].context = 0
  <2>1. ASSUME s # <<>>, Last(s).at = "done" PROVE k # 0
    <3>1. Len(s) \in 1..Len(s) /\ Last(s) = s[Len(s)]
      BY <1>1, <2>1 DEF Last
    <3>2. Len(s) \in ReadersOf(s, Len(s))
      BY <2>1, <3>1 DEF ReadersOf, Reader
    <3> QED BY <1>1, <1>2, <3>2, FS_EmptySet
  <2> QED BY <1>2, <1>3, <2>1
<1>4. CASE q[r].context # 0
  <2>1. PICK i \in 1..Len(s) : s[i] = Frame("read", r)
    BY <1>4 DEF Home, InnerRead
  <2>2. q[r].context = Cardinality(ReadersOf(s, i))
    BY <2>1 DEF Home, ReadsHeld
  <2>3. ReadersOf(s, i) \subseteq ReadersOf(s, Len(s))
    <3>1. \A j \in 1..i : j \in 1..Len(s)
      BY <1>1
    <3> QED BY <3>1 DEF ReadersOf
  <2>4. q[r].context <= k
    BY <1>1, <1>2, <2>2, <2>3, FS_Subset
  <2>5. ASSUME s # <<>>, Last(s).at = "done" PROVE q[r].context <= k - 1
    <3>1. Len(s) \in 1..Len(s) /\ Last(s) = s[Len(s)]
      BY <1>1, <2>5 DEF Last
    <3>2. i # Len(s)
      BY <2>1, <2>5, <3>1, ReadFrames
    <3>3. Len(s) \in ReadersOf(s, Len(s)) /\ Len(s) \notin ReadersOf(s, i)
      <4>1. Len(s) \notin 1..i
        BY <1>1, <3>2
      <4> QED BY <2>5, <3>1, <4>1 DEF ReadersOf, Reader
    <3>4. ReadersOf(s, i) # ReadersOf(s, Len(s))
      BY <3>3
    <3>5. q[r].context # k
      BY <1>1, <1>2, <2>2, <2>3, <3>4, FS_Subset
    <3> QED BY <1>2, <2>4, <3>5
  <2> QED BY <1>2, <2>4, <2>5
<1> QED BY <1>3, <1>4

LEMMA HomeNext == Home(stack', req', first_aio') /\ ScanStart' => HomeInv'
BY DEF HomeInv, Home, Nested, Alone, ReadsHeld, InnerRead, Canceled, ReadersOf, RunningIn

(* The frame that a step puts on top.                                      *)
LEMMA Topped ==
  ASSUME NEW b \in Seq(Frames), NEW f \in Frames, NEW t, t = Append(b, f)
  PROVE  t \in Seq(Frames) /\ t # <<>> /\ Last(t) = f
<1>1. t \in Seq(Frames) /\ Len(t) = Len(b) + 1 /\ t[Len(b) + 1] = f /\ Len(b) \in Nat
  BY PushShape
<1>2. Len(t) # 0 /\ Last(t) = f
  BY <1>1 DEF Last
<1> QED BY <1>1, <1>2, EmptySeq

(* What a step of the main thread between callbacks leaves of the stack.   *)
Quiet ==
  /\ Kept(stack, stack') /\ stack' \in Seq(Frames)
  /\ stack' = stack \/ ~ At("cancel")
  /\ UNCHANGED <<first_aio, req>> /\ ScanStart'

LEMMA HomeQuiet ==
  ASSUME AioInv, HomeInv, Quiet
  PROVE  HomeInv'
<1>1. stack \in Seq(Frames) /\ ToSet(first_aio) \subseteq Request
  BY DEF AioInv, TypeOK, ToSet
<1>2. PICK s, t : s = stack /\ t = stack'
  OBVIOUS
<1>3. t = s \/ s = <<>> \/ Last(s).at # "cancel"
  BY <1>2 DEF Quiet, At
<1>4. Home(t, req, first_aio)
  <2>1. /\ s \in Seq(Frames) /\ t \in Seq(Frames) /\ Kept(s, t) /\ Home(s, req, first_aio)
    BY <1>1, <1>2 DEF Quiet, HomeInv
  <2> QED BY <1>1, <1>3, <2>1, HomeKept
<1> QED BY <1>2, <1>4, HomeNext DEF Quiet

LEMMA ScanQuiet ==
  ASSUME AioInv, NEW b \in Seq(Frames), Kept(stack, b), ~ At("cancel"), StartScan(b)
  PROVE  /\ Quiet /\ At("scan")' /\ pos' = pos
<1>1. /\ stack' = Append(b, Plain("scan")) /\ UNCHANGED <<first_aio, req, pos>>
  BY DEF StartScan, scan
<1>2. "scan" \in PlainPlace
  BY DEF PlainPlace
<1>3. PICK f \in Frames : f = Plain("scan") /\ f.at = "scan" /\ f.at \notin Lasting
  BY <1>2, PlainFacts, ReadFrames
<1>4. PICK t : t = Append(b, f)
  OBVIOUS
<1>5. t \in Seq(Frames) /\ t # <<>> /\ Last(t) = f
  BY <1>4, Topped
<1>6. Kept(b, t)
  BY <1>3, <1>4, KeptFacts
<1>7. Kept(stack, t)
  BY <1>5, <1>6, Typed, KeptTwice
<1>8. At("scan")'
  BY <1>1, <1>3, <1>4, <1>5 DEF At
<1> QED BY <1>1, <1>3, <1>4, <1>5, <1>7, <1>8 DEF Quiet, ScanStart

LEMMA GoQuiet ==
  ASSUME AioInv, ScanStart, ~ At("scan"), ~ At("cancel"),
         NEW b \in Seq(Frames), Kept(stack, b), stack' = b, UNCHANGED <<first_aio, req, pos>>
  PROVE  Quiet
BY DEF Quiet, ScanStart

(* The frame on top goes, or another takes its place.                      *)
LEMMA KeptTop ==
  ASSUME AioInv, NEW at \in PlainPlace \cup {"signal", "done"}, At(at)
  PROVE  /\ Front(stack) \in Seq(Frames) /\ Kept(stack, Front(stack)) /\ ~ At("cancel")
         /\ (at # "scan" => ~ At("scan"))
         /\ \A next \in PlainPlace :
              Replace(next) \in Seq(Frames) /\ Kept(stack, Replace(next))
<1>1. stack \in Seq(Frames) /\ stack # <<>> /\ Last(stack).at = at
  BY Typed DEF At
<1>2. at \notin Lasting /\ at # "cancel"
  BY ReadFrames DEF PlainPlace
<1>3. PICK b : b = Front(stack)
  OBVIOUS
<1>4. b \in Seq(Frames) /\ Kept(stack, b)
  BY <1>1, <1>2, <1>3, KeptFacts, FrontFacts
<1>5. ASSUME NEW next \in PlainPlace
      PROVE  Replace(next) \in Seq(Frames) /\ Kept(stack, Replace(next))
  <2>1. PICK f \in Frames : f = Plain(next) /\ f.at \notin Lasting
    BY PlainFacts, ReadFrames
  <2>2. PICK t : t = Append(b, f)
    OBVIOUS
  <2>3. t \in Seq(Frames) /\ Kept(b, t)
    BY <1>4, <2>1, <2>2, Topped, KeptFacts
  <2>4. Kept(stack, t)
    BY <1>1, <1>4, <2>3, KeptTwice
  <2> QED BY <1>3, <2>1, <2>2, <2>3, <2>4 DEF Replace
<1> QED BY <1>1, <1>2, <1>3, <1>4, <1>5 DEF At

LEMMA PushQuiet ==
  ASSUME NEW b \in Seq(Frames), Kept(stack, b), stack \in Seq(Frames), NEW at \in PlainPlace
  PROVE  Append(b, Plain(at)) \in Seq(Frames) /\ Kept(stack, Append(b, Plain(at)))
<1>1. PICK f \in Frames : f = Plain(at) /\ f.at \notin Lasting
  BY PlainFacts, ReadFrames
<1>2. PICK t : t = Append(b, f)
  OBVIOUS
<1>3. t \in Seq(Frames) /\ Kept(b, t)
  BY <1>1, <1>2, Topped, KeptFacts
<1>4. Kept(stack, t)
  BY <1>3, KeptTwice
<1> QED BY <1>1, <1>2, <1>3, <1>4

LEMMA ScanReturnsQuiet ==
  ASSUME AioInv, ScanReturns
  PROVE  Quiet
<1> DEFINE below == Front(stack)
           at == IF below = <<>> THEN "main" ELSE Last(below).at
<1>1. At("scan") /\ "scan" \in PlainPlace
  BY DEF ScanReturns, PlainPlace
<1>2. below \in Seq(Frames) /\ Kept(stack, below) /\ ~ At("cancel") /\ stack \in Seq(Frames)
  BY <1>1, KeptTop, Typed
<1>3. \/ stack' = below
      \/ at \in {"queue", "leave"} /\ stack' \in {Front(below), Append(Front(below), Plain("select"))}
  BY DEF ScanReturns
<1>4. at \in {"queue", "leave"} => below # <<>> /\ Last(below).at \notin Lasting
  BY DEF Lasting
<1>5. UNCHANGED <<first_aio, req>> /\ pos' = 1
  BY DEF ScanReturns
<1> HIDE DEF below, at
<1>6. at \in {"queue", "leave"} =>
        /\ Front(below) \in Seq(Frames) /\ Kept(stack, Front(below))
        /\ Append(Front(below), Plain("select")) \in Seq(Frames)
        /\ Kept(stack, Append(Front(below), Plain("select")))
  <2> SUFFICES ASSUME at \in {"queue", "leave"}
               PROVE  /\ Front(below) \in Seq(Frames) /\ Kept(stack, Front(below))
                      /\ Append(Front(below), Plain("select")) \in Seq(Frames)
                      /\ Kept(stack, Append(Front(below), Plain("select")))
    OBVIOUS
  <2>1. PICK b : b = Front(below)
    OBVIOUS
  <2>2. b \in Seq(Frames) /\ Kept(below, b)
    BY <1>2, <1>4, <2>1, KeptFacts, FrontFacts
  <2>3. Kept(stack, b) /\ "select" \in PlainPlace
    BY <1>2, <2>2, KeptTwice DEF PlainPlace
  <2>4. Append(b, Plain("select")) \in Seq(Frames) /\ Kept(stack, Append(b, Plain("select")))
    BY <1>2, <2>2, <2>3, PushQuiet
  <2> QED BY <2>1, <2>2, <2>3, <2>4
<1> QED BY <1>2, <1>3, <1>5, <1>6 DEF Quiet, ScanStart

(* Such a step starts a scan, or leaves all that will.                     *)
Restarts == At("scan")' /\ pos' = 1
Leaves ==
  /\ ~ At("poll") /\ (At("scan") => pos > Len(first_aio))
  /\ UNCHANGED <<signaled, rfd, bhs, context, thread>>

LEMMA AioWaitQuiet ==
  ASSUME AioInv, ScanStart, qemu_aio_wait
  PROVE  Quiet /\ (Restarts \/ Leaves)
<1>1. PICK leave, queue, front :
        leave = Replace("leave") /\ queue = Replace("queue") /\ front = Front(stack)
  OBVIOUS
<1>2. {"poll", "select", "leave", "queue"} \subseteq PlainPlace
  BY DEF PlainPlace
<1>3. At("poll") \/ At("select")
  BY DEF qemu_aio_wait
<1>4. /\ front \in Seq(Frames) /\ Kept(stack, front)
      /\ leave \in Seq(Frames) /\ Kept(stack, leave)
      /\ queue \in Seq(Frames) /\ Kept(stack, queue)
      /\ ~ At("scan") /\ ~ At("cancel") /\ pos = 1
  BY <1>1, <1>2, <1>3, KeptTop DEF ScanStart
<1>5. ASSUME StartScan(leave) \/ StartScan(queue) PROVE Quiet /\ Restarts
  BY <1>4, <1>5, ScanQuiet DEF Restarts
<1>6. ASSUME At("select"), Go(front) PROVE Quiet /\ Leaves
  <2>1. stack' = front /\ UNCHANGED <<first_aio, req, pos, signaled, rfd, bhs, context, thread>>
    BY <1>6 DEF Go, scan, pool
  <2>2. ~ At("poll")
    BY <1>6 DEF At
  <2> QED BY <1>4, <2>1, <2>2, GoQuiet DEF Leaves
<1>7. \/ StartScan(leave) \/ StartScan(queue)
      \/ At("select") /\ Go(front)
  BY <1>1 DEF qemu_aio_wait, bh_run_aio_completions, posix_aio_read, StartScan, Go
<1> QED BY <1>5, <1>6, <1>7

LEMMA FlushQuiet ==
  ASSUME AioInv, ScanStart, FlushStart \/ qemu_aio_flush
  PROVE  Quiet /\ (Restarts \/ Leaves)
<1>1. PICK flush, check, front :
        flush = Replace("flush") /\ check = Replace("check") /\ front = Front(stack)
  OBVIOUS
<1>2. {"poll", "flush", "check"} \subseteq PlainPlace
  BY DEF PlainPlace
<1>3. CASE FlushStart
  <2>1. /\ stack = <<>> /\ stack' = <<Plain("flush")>>
        /\ UNCHANGED <<first_aio, req, pos, signaled, rfd, bhs, context, thread>>
    BY <1>3 DEF FlushStart, Go, scan, pool
  <2>2. stack \in Seq(Frames) /\ Kept(stack, stack)
    BY Typed, KeptFacts
  <2>3. PICK t : t = Append(stack, Plain("flush"))
    OBVIOUS
  <2>4. t \in Seq(Frames) /\ Kept(stack, t)
    BY <1>2, <2>2, <2>3, PushQuiet
  <2>5. ~ At("scan") /\ ~ At("cancel") /\ ~ At("poll")
    BY <2>1 DEF At
  <2>6. stack' = t
    BY <2>1, <2>3
  <2>7. Quiet
    BY <2>1, <2>4, <2>5, <2>6, GoQuiet
  <2> QED BY <2>1, <2>5, <2>7 DEF Leaves
<1>4. ASSUME qemu_aio_flush PROVE Quiet /\ (Restarts \/ Leaves)
  <2>1. At("flush") \/ At("check")
    BY <1>4 DEF qemu_aio_flush
  <2>2. /\ front \in Seq(Frames) /\ Kept(stack, front)
        /\ flush \in Seq(Frames) /\ Kept(stack, flush)
        /\ check \in Seq(Frames) /\ Kept(stack, check)
        /\ ~ At("scan") /\ ~ At("cancel") /\ pos = 1
    BY <1>1, <1>2, <2>1, KeptTop DEF ScanStart
  <2>3. PICK poll : poll = Append(check, Plain("poll"))
    OBVIOUS
  <2>4. poll \in Seq(Frames) /\ Kept(stack, poll)
    BY <1>2, <2>2, <2>3, Typed, PushQuiet
  <2>5. ~ At("poll")
    BY <2>1 DEF At
  <2>6. ASSUME StartScan(flush) PROVE Quiet /\ Restarts
    BY <2>2, <2>6, ScanQuiet DEF Restarts
  <2>7. ASSUME NEW b \in {front, flush, poll}, Go(b) PROVE Quiet /\ Leaves
    <3>1. stack' = b /\ UNCHANGED <<first_aio, req, pos, signaled, rfd, bhs, context, thread>>
      BY <2>7 DEF Go, scan, pool
    <3>2. b \in Seq(Frames) /\ Kept(stack, b)
      BY <2>2, <2>4
    <3> QED BY <2>2, <2>5, <3>1, <3>2, GoQuiet DEF Leaves
  <2>8. StartScan(flush) \/ Go(poll) \/ Go(flush) \/ Go(front)
    BY <1>1, <1>4, <2>3 DEF qemu_aio_flush, bh_run_aio_completions, StartScan, Go
  <2> QED BY <2>6, <2>7, <2>8
<1> QED BY <1>3, <1>4

LEMMA LoopQuiet ==
  ASSUME AioInv, ScanStart, main_loop_wait \/ bdrv_rw_em_loop
  PROVE  Quiet /\ (Restarts \/ Leaves \/ (At("done") /\ async_context_pop))
<1>1. PICK b : b = stack
  OBVIOUS
<1>2. "poll" \in PlainPlace
  BY DEF PlainPlace
<1>3. b \in Seq(Frames) /\ Kept(stack, b) /\ ~ At("scan") /\ ~ At("cancel") /\ ~ At("poll") /\ pos = 1
  BY <1>1, Typed, KeptFacts DEF ScanStart, main_loop_wait, bdrv_rw_em_loop, At
<1>4. ASSUME StartScan(b) PROVE Quiet /\ Restarts
  BY <1>3, <1>4, ScanQuiet DEF Restarts
<1>5. PICK poll : poll = Append(b, Plain("poll"))
  OBVIOUS
<1>6. ASSUME Go(poll) PROVE Quiet /\ Leaves
  <2>1. stack' = poll /\ UNCHANGED <<first_aio, req, pos, signaled, rfd, bhs, context, thread>>
    BY <1>6 DEF Go, scan, pool
  <2>2. poll \in Seq(Frames) /\ Kept(stack, poll)
    BY <1>2, <1>3, <1>5, Typed, PushQuiet
  <2> QED BY <1>3, <2>1, <2>2, GoQuiet DEF Leaves
<1>7. ASSUME At("done"), async_context_pop PROVE Quiet
  <2>1. stack' = Front(stack) /\ UNCHANGED <<first_aio, req, pos>>
    BY <1>7 DEF async_context_pop, scan
  <2>2. Front(stack) \in Seq(Frames) /\ Kept(stack, Front(stack))
    BY <1>7, KeptTop
  <2> QED BY <1>3, <2>1, <2>2, GoQuiet
<1>8. StartScan(b) \/ Go(poll) \/ (At("done") /\ async_context_pop)
  BY <1>1, <1>5 DEF main_loop_wait, bdrv_rw_em_loop, bh_run_aio_completions, posix_aio_read,
     StartScan, Go
<1> QED BY <1>4, <1>6, <1>7, <1>8

LEMMA SignalQuiet ==
  ASSUME AioInv, ScanStart, cond_signal \/ aio_signal_handler \/ Pass
  PROVE  Quiet
<1>1. UNCHANGED <<first_aio, req>>
  BY DEF cond_signal, aio_signal_handler, Pass
<1>2. stack \in Seq(Frames) /\ Kept(stack, stack)
  BY Typed, KeptFacts
<1>3. CASE stack' = stack /\ ~ Pass
  <2>1. pos' = pos
    BY <1>3 DEF cond_signal, aio_signal_handler, scan
  <2>2. At("scan")' <=> At("scan")
    BY <1>3 DEF At
  <2> QED BY <1>1, <1>2, <1>3, <2>1, <2>2 DEF Quiet, ScanStart
<1>4. CASE Pass
  <2>1. stack' = stack /\ At("scan")
    BY <1>4 DEF Pass
  <2>2. At("scan")'
    BY <2>1 DEF At
  <2> QED BY <1>1, <1>2, <2>1, <2>2 DEF Quiet, ScanStart
<1>5. CASE At("signal") /\ stack' = Front(stack) /\ ~ Pass
  <2>1. pos' = pos
    BY <1>5 DEF cond_signal, aio_signal_handler, scan
  <2>2. "signal" # "scan"
    OBVIOUS
  <2>3. /\ Front(stack) \in Seq(Frames) /\ Kept(stack, Front(stack))
        /\ ~ At("cancel") /\ ~ At("scan")
    BY <1>5, <2>2, KeptTop
  <2> QED BY <1>1, <1>5, <2>1, <2>3, GoQuiet
<1>6. stack' = stack \/ (At("signal") /\ stack' = Front(stack))
  BY DEF cond_signal, aio_signal_handler, Pass
<1> QED BY <1>3, <1>4, <1>5, <1>6

(* A worker changes no request's context and cancels none.                 *)
LEMMA WorkerHome ==
  ASSUME AioInv, HomeInv, NEW w \in Worker, WorkerStep(w) \/ TimedOut(w)
  PROVE  /\ HomeInv' /\ stack' = stack /\ first_aio' = first_aio
         /\ \A r \in Request : req'[r].context = req[r].context
<1>1. UNCHANGED <<first_aio, stack, pos>>
  BY DEF WorkerStep, Wait, End, Take, Store, Kill, TimedOut, scan
<1>2. req \in [Request -> [ret: {"inprogress", "done", "canceled"},
                           active: BOOLEAN, context: Context]]
  BY DEF AioInv, TypeOK
<1>3. \/ req' = req
      \/ \E r \in Request : req' = [req EXCEPT ![r].active = TRUE]
      \/ \E r \in Request : req' = [req EXCEPT ![r].ret = "done"]
  <2>1. CASE Take(w)
    <3>1. Head(request_list) \in Request
      <4>1. request_list \in Seq(Request) /\ request_list # <<>>
        BY <2>1 DEF Take, AioInv, TypeOK
      <4> QED BY <4>1, HeadTailProperties
    <3> QED BY <2>1, <3>1 DEF Take
  <2>2. CASE Store(w)
    <3>1. thread[w].req \subseteq Request
      BY DEF AioInv, TypeOK
    <3> QED BY <2>2, <3>1 DEF Store
  <2> QED BY <2>1, <2>2 DEF WorkerStep, Wait, End, Kill, TimedOut
<1>4. /\ \A r \in Request : req'[r].context = req[r].context
      /\ \A r \in Request : req'[r].ret = "canceled" => req[r].ret = "canceled"
  BY <1>2, <1>3
<1>5. PICK s : s = stack
  OBVIOUS
<1>6. /\ s \in Seq(Frames) /\ Kept(s, s) /\ Home(s, req, first_aio)
      /\ ToSet(first_aio) \subseteq Request
  BY <1>5, Typed, KeptFacts DEF HomeInv, AioInv, TypeOK, ToSet
<1>7. PICK p : p = req'
  OBVIOUS
<1>8. Home(s, p, first_aio)
  BY <1>4, <1>6, <1>7, HomeKept
<1>9. ScanStart'
  <2>1. At("scan")' <=> At("scan")
    BY <1>1 DEF At
  <2> QED BY <1>1, <2>1 DEF HomeInv, ScanStart
<1> QED BY <1>1, <1>4, <1>5, <1>7, <1>8, <1>9, HomeNext

(* paio_cancel begins, and ends.                                           *)
LEMMA CancelHome ==
  ASSUME AioInv, HomeInv, NEW r \in Request, CancelStart(r)
  PROVE  HomeInv'
<1>1. /\ stack = <<>> /\ stack' = <<Frame("cancel", r)>>
      /\ UNCHANGED <<first_aio, pos>>
      /\ req' = req \/ req' = [req EXCEPT ![r].ret = "canceled"]
  BY DEF CancelStart, scan
<1>2. /\ req \in [Request -> [ret: {"inprogress", "done", "canceled"},
                              active: BOOLEAN, context: Context]]
      /\ ToSet(first_aio) \subseteq Request
  BY DEF AioInv, TypeOK, ToSet
<1>3. /\ \A y \in Request : req'[y].context = req[y].context
      /\ \A y \in Request \ {r} : req'[y] = req[y]
  BY <1>1, <1>2
<1>4. PICK t, p : t = stack' /\ p = req'
  OBVIOUS
<1>5. Len(t) = 1 /\ t[1] = Frame("cancel", r) /\ t[1].at = "cancel" /\ Len(stack) = 0
  BY <1>1, <1>4, ReadFrames
<1>6. Nested(t) /\ Alone(t) /\ ReadsHeld(t, p, first_aio)
  BY <1>5, ReadFrames DEF Nested, Alone, ReadsHeld
<1>7. \A y \in ToSet(first_aio) : req[y].context = 0 /\ req[y].ret # "canceled"
  BY <1>5 DEF HomeInv, Home, InnerRead, Canceled
<1>8. InnerRead(t, p, first_aio)
  BY <1>2, <1>3, <1>4, <1>7 DEF InnerRead
<1>9. Canceled(t, p, first_aio)
  BY <1>2, <1>3, <1>4, <1>5, <1>7 DEF Canceled
<1>10. ScanStart'
  BY <1>1 DEF HomeInv, ScanStart, At
<1> QED BY <1>1, <1>4, <1>6, <1>8, <1>9, <1>10, HomeNext DEF Home

LEMMA RemoveHome ==
  ASSUME AioInv, HomeInv, NEW r \in Request, paio_remove(r)
  PROVE  /\ HomeInv' /\ stack' = <<>> /\ Len(stack) = 1 /\ stack[1].at = "cancel"
         /\ ToSet(first_aio') = ToSet(first_aio) \ {r} /\ UNCHANGED req
<1>1. PICK f \in Frames : f = Frame("cancel", r) /\ f.at = "cancel"
  BY CancelFacts, ReadFrames
<1>2. /\ stack # <<>> /\ Last(stack) = f /\ UNCHANGED <<req, pos>>
      /\ stack' = Front(stack) /\ first_aio' = RemoveFirst(first_aio, r)
  BY <1>1 DEF paio_remove, With, scan
<1>3. PICK t, list : t = stack' /\ list = first_aio'
  OBVIOUS
<1>4. ToSet(list) = ToSet(first_aio) \ {r}
  <2>1. first_aio \in Seq(Request) /\ IsInjective(first_aio)
    BY DEF AioInv, TypeOK, Lists, ListsOf
  <2> QED BY <1>2, <1>3, <2>1, RemoveFirstFacts
<1>5. PICK s : s = stack /\ s \in Seq(Frames) /\ Len(s) \in Nat \ {0} /\ s[Len(s)] = f
               /\ t \in Seq(Frames) /\ Len(t) = Len(s) - 1
  BY <1>2, <1>3, Typed, FrontFacts
<1>6. Home(s, req, first_aio)
  BY <1>5 DEF HomeInv
<1>7. Len(s) = 1 /\ Len(t) = 0
  <2>1. Len(s) \in 1..Len(s)
    BY <1>5
  <2> QED BY <1>1, <1>5, <1>6, <2>1 DEF Home, Alone
<1>8. t = <<>>
  BY <1>5, <1>7, EmptySeq
<1>9. \A y \in ToSet(list) : req[y].context = 0 /\ req[y].ret # "canceled"
  <2> SUFFICES ASSUME NEW y \in ToSet(list) PROVE req[y].context = 0 /\ req[y].ret # "canceled"
    OBVIOUS
  <2>1. s[1] = f /\ y \in ToSet(first_aio) /\ y # r /\ \A i \in 1..Len(s) : i = 1
    BY <1>4, <1>5, <1>7
  <2>2. f # Frame("read", y) /\ f # Frame("cancel", y)
    BY <1>1, <2>1, ReadFrames
  <2> QED BY <1>6, <2>1, <2>2 DEF Home, InnerRead, Canceled
<1>10. Home(t, req, list)
  BY <1>7, <1>9 DEF Home, Nested, Alone, ReadsHeld, InnerRead, Canceled
<1>11. ScanStart'
  BY <1>1, <1>2 DEF HomeInv, ScanStart, At
<1>12. Home(stack', req', first_aio')
  BY <1>2, <1>3, <1>10
<1> QED BY <1>1, <1>2, <1>3, <1>4, <1>5, <1>7, <1>8, <1>11, <1>12, HomeNext

(* A callback begins above the scan.                                       *)
LEMMA CallbackHome ==
  ASSUME AioInv, HomeInv, Callback
  PROVE  /\ HomeInv' /\ UNCHANGED req /\ ToSet(first_aio') \subseteq ToSet(first_aio)
         /\ stack' \in Seq(Frames) /\ Len(stack') = Len(stack) + 1
         /\ \A i \in 1..Len(stack) : stack'[i] = stack[i] /\ ReadersOf(stack', i) = ReadersOf(stack, i)
         /\ stack'[Len(stack) + 1].at = "callback"
         /\ Cardinality(ReadersOf(stack', Len(stack) + 1)) = context
<1>1. /\ first_aio \in Seq(Request) /\ IsInjective(first_aio) /\ pos \in 1..Len(first_aio)
      /\ ToSet(first_aio) \subseteq Request
  BY DEF AioInv, TypeOK, Lists, ListsOf, Callback, ToSet
<1>2. PICK r \in Request : r = first_aio[pos] /\ r \in ToSet(first_aio)
  BY <1>1 DEF ToSet
<1>3. PICK f \in Frames : f = Frame("callback", r) /\ f.at = "callback"
  <2>1. Frame("callback", r) \in Frames
    BY DEF Frames
  <2> QED BY <2>1, ReadFrames
<1>4. PICK s, t, list : s = stack /\ t = stack' /\ list = first_aio'
  OBVIOUS
<1>5. /\ t = Append(s, f) /\ list = RemoveAt(first_aio, pos) /\ pos' = 1 /\ UNCHANGED <<req, context>>
      /\ s # <<>> /\ Last(s).at = "scan"
  BY <1>2, <1>3, <1>4 DEF Callback, At
<1>6. ToSet(list) = ToSet(first_aio) \ {r}
  BY <1>1, <1>2, <1>5, RemoveAtFacts
<1>7. /\ Good(s, req, context) /\ s \in Seq(Frames) /\ Home(s, req, first_aio)
  BY <1>4, Typed DEF HomeInv
<1>8. PICK n \in Nat \ {0} : n = Len(s) /\ s[n].at = "scan"
  <2>1. Len(s) \in Nat \ {0} /\ Last(s) = s[Len(s)]
    BY <1>5, <1>7, FrontFacts
  <2> QED BY <1>5, <2>1
<1>9. /\ t \in Seq(Frames) /\ Len(t) = n + 1 /\ t[n + 1] = f
      /\ \A i \in 1..n : t[i] = s[i] /\ ReadersOf(t, i) = ReadersOf(s, i)
      /\ Cardinality(ReadersOf(t, n + 1)) = context
  <2>1. /\ t \in Seq(Frames) /\ Len(t) = n + 1 /\ t[n + 1] = f
        /\ \A i \in 1..n : t[i] = s[i]
        /\ \A i \in 1..n : ReadersOf(t, i) = ReadersOf(s, i)
        /\ Cardinality(ReadersOf(t, n + 1)) =
             Cardinality(ReadersOf(s, n)) + (IF f.at \in Reader THEN 1 ELSE 0)
    BY <1>5, <1>7, <1>8, PushShape
  <2>2. f.at \notin Reader
    BY <1>3 DEF Reader
  <2>3. Cardinality(ReadersOf(s, n)) = context /\ context \in Nat
    <3>1. Cardinality(ReadersOf(s, n)) = context
      BY <1>7, <1>8 DEF Good
    <3> QED BY <3>1, ReadersFacts
  <2> QED BY <2>1, <2>2, <2>3
<1>10. RunningIn(t) = RunningIn(s) \cup {r}
  <2>1. req[r].context = context
    BY <1>2 DEF Callback, Ripe
  <2> QED BY <1>3, <1>5, <1>7, <2>1, PushFacts
<1>11. \A i \in 1..(n + 1) : i \in 1..n \/ i = n + 1
  BY <1>8
<1>12. Nested(t)
  <2> SUFFICES ASSUME NEW i \in 1..(n + 1), t[i].at = "callback"
               PROVE  i # 1 /\ t[i - 1].at = "scan"
    BY <1>9 DEF Nested
  <2>1. CASE i \in 1..n
    <3>1. s[i].at = "callback"
      BY <1>9, <2>1
    <3>2. i # 1 /\ s[i - 1].at = "scan"
      BY <1>7, <1>8, <2>1, <3>1 DEF Home, Nested
    <3>3. i - 1 \in 1..n
      BY <2>1, <3>2
    <3> QED BY <1>9, <3>2, <3>3
  <2>2. CASE i = n + 1
    <3>1. i - 1 = n /\ n \in 1..n /\ i # 1
      BY <1>8, <2>2
    <3> QED BY <1>8, <1>9, <3>1
  <2> QED BY <1>11, <2>1, <2>2
<1>13. Alone(t)
  <2> SUFFICES ASSUME NEW i \in 1..(n + 1), t[i].at = "cancel" PROVE FALSE
    BY <1>9 DEF Alone
  <2>1. i \in 1..n
    BY <1>3, <1>9, <1>11
  <2>2. s[i].at = "cancel"
    BY <1>9, <2>1
  <2>3. n = 1 /\ i = 1
    BY <1>7, <1>8, <2>1, <2>2 DEF Home, Alone
  <2> QED BY <1>8, <2>2, <2>3
<1>14. ReadsHeld(t, req, list)
  <2> SUFFICES ASSUME NEW i \in 1..(n + 1), NEW y \in Request, t[i] = Frame("read", y)
               PROVE  /\ req[y].context = Cardinality(ReadersOf(t, i))
                      /\ y \in ToSet(list) \cup RunningIn(t)
    BY <1>9 DEF ReadsHeld
  <2>1. i \in 1..n
    BY <1>3, <1>9, <1>11, ReadFrames
  <2>2. s[i] = Frame("read", y)
    BY <1>9, <2>1
  <2>3. req[y].context = Cardinality(ReadersOf(s, i)) /\ y \in ToSet(first_aio) \cup RunningIn(s)
    BY <1>7, <1>8, <2>1, <2>2 DEF Home, ReadsHeld
  <2> QED BY <1>6, <1>9, <1>10, <2>1, <2>3
<1>15. InnerRead(t, req, list)
  <2> SUFFICES ASSUME NEW y \in ToSet(list), req[y].context # 0
               PROVE  \E i \in 1..Len(t) : t[i] = Frame("read", y)
    BY DEF InnerRead
  <2>1. PICK i \in 1..n : s[i] = Frame("read", y)
    BY <1>6, <1>7, <1>8 DEF Home, InnerRead
  <2> QED BY <1>9, <2>1
<1>16. Canceled(t, req, list)
  <2> SUFFICES ASSUME NEW y \in ToSet(list), req[y].ret = "canceled" PROVE FALSE
    BY DEF Canceled
  <2>1. n = 1 /\ s[1] = Frame("cancel", y)
    BY <1>6, <1>7, <1>8 DEF Home, Canceled
  <2> QED BY <1>8, <2>1, ReadFrames
<1>17. ScanStart'
  BY <1>5 DEF ScanStart
<1>18. HomeInv'
  <2>1. Home(stack', req', first_aio')
    BY <1>4, <1>5, <1>12, <1>13, <1>14, <1>15, <1>16 DEF Home
  <2> QED BY <1>17, <2>1, HomeNext
<1> QED BY <1>3, <1>4, <1>5, <1>6, <1>8, <1>9, <1>18

(* A callback returns to the scan below it.                                *)
LEMMA CallbackReturnsHome ==
  ASSUME AioInv, HomeInv, CallbackReturns
  PROVE  HomeInv' /\ At("scan")' /\ pos' = 1
<1>1. stack # <<>> /\ Last(stack).at = "callback" /\ UNCHANGED <<first_aio, req>> /\ pos' = 1
  BY DEF CallbackReturns, At
<1>2. PICK s : s = stack
  OBVIOUS
<1>3. /\ s \in Seq(Frames) /\ Home(s, req, first_aio) /\ s # <<>> /\ Last(s).at = "callback"
      /\ ToSet(first_aio) \cap RunningIn(s) = {}
  BY <1>1, <1>2, Typed DEF HomeInv, AioInv, Lists, ListsOf
<1>4. PICK n \in Nat \ {0} : n = Len(s) /\ Last(s) = s[n] /\ s[n] \in Frames
  <2>1. Len(s) \in Nat \ {0} /\ Last(s) = s[Len(s)] /\ Last(s) \in Frames
    BY <1>3, FrontFacts
  <2> QED BY <2>1
<1>5. PICK r \in Request : s[n] = Frame("callback", r)
  BY <1>3, <1>4, FrameFacts
<1>6. PICK t : t = Front(s) /\ t \in Seq(Frames) /\ Len(t) = n - 1 /\ \A i \in 1..(n - 1) : t[i] = s[i]
  BY <1>3, <1>4, FrontFacts
<1>7. DOMAIN t = 1..(n - 1)
  BY <1>6
<1>8. stack' = [i \in 1..(n - 1) |-> IF s[i] = Frame("read", r) THEN Frame("done", r) ELSE s[i]]
  <2>1. Last(stack).req = {r}
    BY <1>2, <1>4, <1>5 DEF Frame
  <2>2. stack' = [i \in DOMAIN t |-> IF s[i] = Frame("read", r) THEN Frame("done", r) ELSE s[i]]
    BY <1>2, <1>6, <2>1 DEF CallbackReturns
  <2> QED BY <1>7, <2>2
<1>9. PICK u : u = stack'
  OBVIOUS
<1>10. Frame("done", r) \in Frames /\ Frame("done", r).at = "done"
  <2>1. Frame("done", r) \in Frames
    BY DEF Frames
  <2> QED BY <2>1 DEF Frame
<1>11. /\ u \in Seq(Frames) /\ Len(u) = n - 1
       /\ \A i \in 1..(n - 1) : u[i] = IF s[i] = Frame("read", r) THEN Frame("done", r) ELSE s[i]
  BY <1>4, <1>6, <1>8, <1>9, <1>10
<1>12. \A i \in 1..(n - 1) : i \in 1..n
  BY <1>4
<1>13. \A i \in 1..(n - 1) : u[i].at \in Reader <=> s[i].at \in Reader
  BY <1>10, <1>11, ReadFrames DEF Reader
<1>14. \A i \in 1..(n - 1) : ReadersOf(u, i) = ReadersOf(s, i)
  <2> SUFFICES ASSUME NEW i \in 1..(n - 1) PROVE ReadersOf(u, i) = ReadersOf(s, i)
    OBVIOUS
  <2>1. \A j \in 1..i : j \in 1..(n - 1)
    BY <1>4
  <2> QED BY <1>13, <2>1 DEF ReadersOf
<1>15. n # 1 /\ s[n - 1].at = "scan" /\ n - 1 \in 1..(n - 1)
  <2>1. n \in 1..Len(s) /\ s[n].at = "callback"
    BY <1>4, <1>5, ReadFrames
  <2>2. n # 1 /\ s[n - 1].at = "scan"
    BY <1>3, <2>1 DEF Home, Nested
  <2> QED BY <1>4, <2>2
<1>16. u[n - 1].at = "scan"
  BY <1>11, <1>15, ReadFrames
<1>17. At("scan")'
  <2>1. u # <<>>
    <3>1. Len(u) # 0
      BY <1>11, <1>15
    <3> QED BY <1>11, <3>1, EmptySeq
  <2>2. Last(u).at = "scan"
    BY <1>11, <1>16 DEF Last
  <2> QED BY <1>9, <2>1, <2>2 DEF At
<1>18. Nested(u)
  <2> SUFFICES ASSUME NEW i \in 1..(n - 1), u[i].at = "callback"
               PROVE  i # 1 /\ u[i - 1].at = "scan"
    BY <1>11 DEF Nested
  <2>1. s[i].at = "callback" /\ i \in 1..n
    BY <1>10, <1>11, <1>12
  <2>2. i # 1 /\ s[i - 1].at = "scan"
    BY <1>3, <1>4, <2>1 DEF Home, Nested
  <2>3. i - 1 \in 1..(n - 1)
    BY <1>4, <2>2
  <2> QED BY <1>11, <2>2, <2>3, ReadFrames
<1>19. Alone(u)
  <2> SUFFICES ASSUME NEW i \in 1..(n - 1), u[i].at = "cancel" PROVE FALSE
    BY <1>11 DEF Alone
  <2>1. s[i].at = "cancel" /\ i \in 1..n
    BY <1>10, <1>11, <1>12
  <2>2. n = 1
    BY <1>3, <1>4, <2>1 DEF Home, Alone
  <2> QED BY <1>15, <2>2
<1>20. \A x : x # r => (x \in RunningIn(u) <=> x \in RunningIn(s))
  <2> SUFFICES ASSUME NEW x \in Request, x # r
               PROVE  (\E i \in 1..(n - 1) : u[i] = Frame("callback", x)) <=>
                      (\E i \in 1..n : s[i] = Frame("callback", x))
    BY <1>4, <1>11 DEF RunningIn
  <2>1. \A i \in 1..n : s[i] = Frame("callback", x) => i \in 1..(n - 1)
    <3>1. s[n] # Frame("callback", x)
      BY <1>5, ReadFrames
    <3> QED BY <1>4, <3>1
  <2>2. \A i \in 1..(n - 1) : u[i] = Frame("callback", x) <=> s[i] = Frame("callback", x)
    BY <1>10, <1>11, ReadFrames
  <2> QED BY <1>12, <2>1, <2>2
<1>21. ReadsHeld(u, req, first_aio)
  <2> SUFFICES ASSUME NEW i \in 1..(n - 1), NEW y \in Request, u[i] = Frame("read", y)
               PROVE  /\ req[y].context = Cardinality(ReadersOf(u, i))
                      /\ y \in ToSet(first_aio) \cup RunningIn(u)
    BY <1>11 DEF ReadsHeld
  <2>1. s[i] = Frame("read", y) /\ y # r /\ i \in 1..n
    BY <1>10, <1>11, <1>12, ReadFrames
  <2>2. req[y].context = Cardinality(ReadersOf(s, i)) /\ y \in ToSet(first_aio) \cup RunningIn(s)
    BY <1>3, <1>4, <2>1 DEF Home, ReadsHeld
  <2> QED BY <1>14, <1>20, <2>1, <2>2
<1>22. InnerRead(u, req, first_aio)
  <2> SUFFICES ASSUME NEW y \in ToSet(first_aio), req[y].context # 0
               PROVE  \E i \in 1..(n - 1) : u[i] = Frame("read", y)
    BY <1>11 DEF InnerRead
  <2>1. PICK i \in 1..n : s[i] = Frame("read", y)
    BY <1>3, <1>4 DEF Home, InnerRead
  <2>2. i # n
    BY <1>5, <2>1, ReadFrames
  <2>3. r \in RunningIn(s)
    BY <1>4, <1>5 DEF RunningIn
  <2>4. y # r
    BY <1>3, <2>3
  <2>5. i \in 1..(n - 1)
    BY <1>4, <2>2
  <2> QED BY <1>11, <2>1, <2>4, <2>5, ReadFrames
<1>23. Canceled(u, req, first_aio)
  <2> SUFFICES ASSUME NEW y \in ToSet(first_aio), req[y].ret = "canceled" PROVE FALSE
    BY DEF Canceled
  <2>1. n = 1
    BY <1>3, <1>4 DEF Home, Canceled
  <2> QED BY <1>15, <2>1
<1>24. Home(stack', req', first_aio')
  BY <1>1, <1>9, <1>18, <1>19, <1>21, <1>22, <1>23 DEF Home
<1>25. ScanStart'
  BY <1>1 DEF ScanStart
<1> QED BY <1>1, <1>17, <1>24, <1>25, HomeNext

(* A client submits a request: nobody is cancelling, and the new one is    *)
(* waited for by no read yet.                                              *)
NewReq(k) == [ret |-> "inprogress", active |-> FALSE, context |-> k]

Submitted(r, k, p, list) ==
  /\ ToSet(list) = ToSet(first_aio) \cup {r} /\ ToSet(first_aio) \subseteq Request
  /\ r \notin ToSet(first_aio) /\ p[r].context = k /\ p[r].ret = "inprogress"
  /\ \A y \in Request \ {r} : p[y] = req[y]
  /\ \A y \in ToSet(list) : p[y].ret # "canceled"
  /\ \A i \in 1..Len(stack) : stack[i].at # "cancel"
  /\ \A i \in 1..Len(stack), y \in Request : stack[i] = Frame("read", y) =>
       /\ y # r /\ p[y].context = Cardinality(ReadersOf(stack, i))
       /\ y \in ToSet(list) \cup RunningIn(stack)

LEMMA SubmitParts ==
  ASSUME AioInv, HomeInv, InClient, NEW r \in Request, r \notin Held, NEW k, NEW p,
         p = [req EXCEPT ![r] = NewReq(k)], NEW list, list = <<r>> \o first_aio
  PROVE  Submitted(r, k, p, list)
<1>1. PICK s : s = stack
  OBVIOUS
<1>2. /\ s \in Seq(Frames) /\ Home(s, req, first_aio) /\ Held = ToSet(first_aio) \cup RunningIn(s)
      /\ s = <<>> \/ Last(s).at = "callback"
  <2>1. DOMAIN stack = 1..Len(stack)
    BY Typed
  <2> QED BY <1>1, <2>1, Typed DEF HomeInv, InClient, At, Held, Running, RunningIn
<1>3. /\ first_aio \in Seq(Request) /\ IsInjective(first_aio) /\ ToSet(first_aio) \subseteq Request
      /\ req \in [Request -> [ret: {"inprogress", "done", "canceled"},
                              active: BOOLEAN, context: Context]]
  BY DEF AioInv, TypeOK, Lists, ListsOf, ToSet
<1>4. ToSet(list) = ToSet(first_aio) \cup {r}
  BY <1>2, <1>3, ConsFacts
<1>5. p[r].context = k /\ p[r].ret = "inprogress" /\ \A y \in Request \ {r} : p[y] = req[y]
  BY <1>3 DEF NewReq
<1>6. ~ (Len(s) = 1 /\ s[1].at = "cancel")
  <2> SUFFICES ASSUME Len(s) = 1, s[1].at = "cancel" PROVE FALSE
    OBVIOUS
  <2>1. Last(s).at = "cancel"
    BY DEF Last
  <2>2. s # <<>>
    <3>1. Len(<<>>) = 0 /\ 0 # 1
      OBVIOUS
    <3> QED BY <3>1, Zenon
  <2> QED BY <1>2, <2>1, <2>2
<1>7. ASSUME NEW y \in ToSet(list) PROVE p[y].ret # "canceled"
  <2>1. CASE y = r
    BY <1>5, <2>1
  <2>2. CASE y # r
    <3>1. y \in ToSet(first_aio) /\ p[y] = req[y]
      BY <1>3, <1>4, <1>5, <2>2
    <3> QED BY <1>2, <1>6, <3>1, ReadFrames DEF Home, Canceled
  <2> QED BY <2>1, <2>2
<1>8. ASSUME NEW i \in 1..Len(s) PROVE s[i].at # "cancel"
  <2> SUFFICES ASSUME s[i].at = "cancel" PROVE FALSE
    OBVIOUS
  <2>1. Len(s) = 1
    BY <1>2 DEF Home, Alone
  <2>2. i = 1
    BY <2>1
  <2> QED BY <1>6, <2>1, <2>2
<1>9. ASSUME NEW i \in 1..Len(s), NEW y \in Request, s[i] = Frame("read", y)
      PROVE  /\ y # r /\ p[y].context = Cardinality(ReadersOf(s, i))
             /\ y \in ToSet(list) \cup RunningIn(s)
  <2>1. req[y].context = Cardinality(ReadersOf(s, i)) /\ y \in ToSet(first_aio) \cup RunningIn(s)
    BY <1>2, <1>9 DEF Home, ReadsHeld
  <2> QED BY <1>2, <1>4, <1>5, <2>1
<1> QED BY <1>1, <1>2, <1>3, <1>4, <1>5, <1>7, <1>8, <1>9 DEF Submitted

(* The frames b on which the signal of the new request is put.             *)
LEMMA SubmitHome ==
  ASSUME AioInv, NEW r \in Request, NEW k, NEW b \in Seq(Frames),
         NEW p, NEW list, Home(b, p, list), ToSet(list) \subseteq Request,
         req' = p, first_aio' = list, stack' = Signals(b, r),
         \A i \in 1..Len(b) : b[i].at # "cancel", pos' = 1
  PROVE  HomeInv' /\ stack' \in Seq(Frames) /\ KeptCalls(b, stack')
<1>1. PICK f \in Frames : f = Frame("signal", r) /\ f.at = "signal"
  <2>1. Frame("signal", r) \in Frames
    BY DEF Frames
  <2> QED BY <2>1 DEF Frame
<1>2. PICK t : t = Append(b, f) /\ t \in Seq(Frames)
  BY Topped
<1>3. Kept(b, t)
  BY <1>1, <1>2, KeptFacts, ReadFrames
<1>4. b = <<>> \/ Last(b).at # "cancel"
  <2>1. ASSUME b # <<>> PROVE Last(b).at # "cancel"
    <3>1. Len(b) \in Nat \ {0} /\ Last(b) = b[Len(b)]
      BY <2>1, FrontFacts
    <3> QED BY <3>1
  <2> QED BY <2>1
<1>5. Home(t, p, list)
  BY <1>2, <1>3, <1>4, HomeKept
<1>6. stack' = t
  BY <1>1, <1>2 DEF Signals
<1>7. ScanStart'
  BY DEF ScanStart
<1>8. KeptCalls(b, t)
  BY <1>2, <1>3, KeptReaders
<1> QED BY <1>2, <1>5, <1>6, <1>7, <1>8, HomeNext

LEMMA CallsTwice ==
  ASSUME NEW s, NEW t, NEW u, KeptCalls(s, t), KeptCalls(t, u)
  PROVE  KeptCalls(s, u)
BY DEF KeptCalls

(* What a step of a client keeps.                                          *)
Submits(r) ==
  /\ HomeInv' /\ KeptCalls(stack, stack')
  /\ ToSet(first_aio') = ToSet(first_aio) \cup {r} /\ req'[r].ret = "inprogress"
  /\ \A y \in Request \ {r} : req'[y] = req[y]
  /\ ToSet(first_aio) \subseteq Request /\ r \in Request

LEMMA SubmitKeepsHome ==
  ASSUME AioInv, HomeInv, NEW r \in Request, Submit(r)
  PROVE  Submits(r)
<1>1. /\ InClient /\ r \notin Held /\ req' = [req EXCEPT ![r] = NewReq(0)]
      /\ first_aio' = <<r>> \o first_aio /\ stack' = Signals(stack, r) /\ pos' = pos
  BY DEF Submit, paio_submit, NewReq, scan
<1>2. PICK p, list : p = req' /\ list = first_aio'
  OBVIOUS
<1>3. /\ ToSet(list) = ToSet(first_aio) \cup {r} /\ ToSet(first_aio) \subseteq Request
      /\ r \notin ToSet(first_aio) /\ p[r].context = 0 /\ p[r].ret = "inprogress"
      /\ \A y \in Request \ {r} : p[y] = req[y]
      /\ \A y \in ToSet(list) : p[y].ret # "canceled"
      /\ \A i \in 1..Len(stack) : stack[i].at # "cancel"
      /\ \A i \in 1..Len(stack), y \in Request : stack[i] = Frame("read", y) =>
           /\ y # r /\ p[y].context = Cardinality(ReadersOf(stack, i))
           /\ y \in ToSet(list) \cup RunningIn(stack)
  <2>1. Submitted(r, 0, p, list)
    BY <1>1, <1>2, SubmitParts
  <2> QED BY <2>1 DEF Submitted
<1>4. PICK b : b = stack /\ b \in Seq(Frames)
  BY Typed
<1>5. Home(stack, req, first_aio) /\ pos = 1
  <2>1. ~ At("scan")
    BY <1>1 DEF InClient, At
  <2> QED BY <2>1 DEF HomeInv, ScanStart
<1>6. InnerRead(b, p, list)
  <2> SUFFICES ASSUME NEW y \in ToSet(list), p[y].context # 0
               PROVE  \E i \in 1..Len(b) : b[i] = Frame("read", y)
    BY DEF InnerRead
  <2>1. y # r
    BY <1>3
  <2>2. y \in ToSet(first_aio) /\ req[y].context # 0
    BY <1>3, <2>1
  <2> QED BY <1>4, <1>5, <2>2 DEF Home, InnerRead
<1>7. Home(b, p, list)
  BY <1>3, <1>4, <1>5, <1>6 DEF Home, ReadsHeld, Canceled
<1>8. HomeInv' /\ KeptCalls(b, stack')
  <2>1. ToSet(list) \subseteq Request /\ pos' = 1 /\ stack' = Signals(b, r)
    BY <1>1, <1>3, <1>4, <1>5
  <2> QED BY <1>2, <1>3, <1>4, <1>7, <2>1, SubmitHome
<1> QED BY <1>2, <1>3, <1>4, <1>8 DEF Submits

LEMMA ReadKeepsHome ==
  ASSUME AioInv, HomeInv, NEW r \in Request, bdrv_rw_em(r)
  PROVE  Submits(r)
<1>1. PICK k : k = context + 1
  OBVIOUS
<1>2. PICK f \in Frames : f = Frame("read", r) /\ f.at = "read"
  <2>1. Frame("read", r) \in Frames
    BY DEF Frames
  <2> QED BY <2>1, ReadFrames
<1>3. PICK b : b = Append(stack, f)
  OBVIOUS
<1>4. /\ InClient /\ r \notin Held /\ req' = [req EXCEPT ![r] = NewReq(k)]
      /\ first_aio' = <<r>> \o first_aio /\ stack' = Signals(b, r) /\ pos' = pos
  BY <1>1, <1>2, <1>3 DEF bdrv_rw_em, paio_submit, NewReq, scan
<1>5. PICK p, list : p = req' /\ list = first_aio'
  OBVIOUS
<1>6. /\ ToSet(list) = ToSet(first_aio) \cup {r} /\ ToSet(first_aio) \subseteq Request
      /\ r \notin ToSet(first_aio) /\ p[r].context = k /\ p[r].ret = "inprogress"
      /\ \A y \in Request \ {r} : p[y] = req[y]
      /\ \A y \in ToSet(list) : p[y].ret # "canceled"
      /\ \A i \in 1..Len(stack) : stack[i].at # "cancel"
      /\ \A i \in 1..Len(stack), y \in Request : stack[i] = Frame("read", y) =>
           /\ y # r /\ p[y].context = Cardinality(ReadersOf(stack, i))
           /\ y \in ToSet(list) \cup RunningIn(stack)
  <2>1. Submitted(r, k, p, list)
    BY <1>4, <1>5, SubmitParts
  <2> QED BY <2>1 DEF Submitted
<1>7. Home(stack, req, first_aio) /\ pos = 1
  <2>1. ~ At("scan")
    BY <1>4 DEF InClient, At
  <2> QED BY <2>1 DEF HomeInv, ScanStart
<1>8. PICK s, n : s = stack /\ s \in Seq(Frames) /\ n = Len(s) /\ n \in Nat
  BY Typed
<1>9. /\ b \in Seq(Frames) /\ Len(b) = n + 1 /\ b[n + 1] = f
      /\ \A i \in 1..n : b[i] = s[i] /\ ReadersOf(b, i) = ReadersOf(s, i)
      /\ Cardinality(ReadersOf(b, n + 1)) = k
  <2>1. /\ b \in Seq(Frames) /\ Len(b) = n + 1 /\ b[n + 1] = f
        /\ \A i \in 1..n : b[i] = s[i]
        /\ \A i \in 1..n : ReadersOf(b, i) = ReadersOf(s, i)
        /\ Cardinality(ReadersOf(b, n + 1)) =
             Cardinality(ReadersOf(s, n)) + (IF f.at \in Reader THEN 1 ELSE 0)
    BY <1>3, <1>8, PushShape
  <2>2. f.at \in Reader
    BY <1>2 DEF Reader
  <2>3. Cardinality(ReadersOf(s, n)) = context
    BY <1>8, Typed DEF Good
  <2> QED BY <1>1, <2>1, <2>2, <2>3
<1>10. /\ \A i \in 1..(n + 1) : i \in 1..n \/ i = n + 1
       /\ \A i \in 1..n : i \in 1..(n + 1) /\ (i # 1 => i - 1 \in 1..n)
       /\ n + 1 \in 1..(n + 1)
  BY <1>8
<1>11. RunningIn(b) = RunningIn(s)
  <2>1. Good(s, req, context)
    BY <1>8, Typed
  <2>2. f.at \in Reader
    BY <1>2 DEF Reader
  <2> QED BY <1>3, <1>8, <2>1, <2>2, PushFacts
<1>12. Nested(b)
  <2> SUFFICES ASSUME NEW i \in 1..(n + 1), b[i].at = "callback"
               PROVE  i # 1 /\ b[i - 1].at = "scan"
    BY <1>9 DEF Nested
  <2>1. i \in 1..n
    BY <1>2, <1>9, <1>10
  <2>2. s[i].at = "callback"
    BY <1>9, <2>1
  <2>3. i # 1 /\ s[i - 1].at = "scan"
    BY <1>7, <1>8, <2>1, <2>2 DEF Home, Nested
  <2> QED BY <1>9, <1>10, <2>1, <2>3
<1>13. \A i \in 1..(n + 1) : b[i].at # "cancel"
  BY <1>2, <1>6, <1>8, <1>9, <1>10
<1>14. ReadsHeld(b, p, list)
  <2> SUFFICES ASSUME NEW i \in 1..(n + 1), NEW y \in Request, b[i] = Frame("read", y)
               PROVE  /\ p[y].context = Cardinality(ReadersOf(b, i))
                      /\ y \in ToSet(list) \cup RunningIn(b)
    BY <1>9 DEF ReadsHeld
  <2>1. CASE i \in 1..n
    <3>1. s[i] = Frame("read", y)
      BY <1>9, <2>1
    <3> QED BY <1>6, <1>8, <1>9, <1>11, <2>1, <3>1
  <2>2. CASE i = n + 1
    <3>1. y = r
      BY <1>2, <1>9, <2>2, ReadFrames
    <3> QED BY <1>6, <1>9, <2>2, <3>1
  <2> QED BY <1>10, <2>1, <2>2
<1>15. InnerRead(b, p, list)
  <2> SUFFICES ASSUME NEW y \in ToSet(list), p[y].context # 0
               PROVE  \E i \in 1..(n + 1) : b[i] = Frame("read", y)
    BY <1>9 DEF InnerRead
  <2>1. CASE y = r
    BY <1>2, <1>9, <1>10, <2>1
  <2>2. CASE y # r
    <3>1. y \in ToSet(first_aio) /\ req[y].context # 0
      BY <1>6, <2>2
    <3>2. PICK i \in 1..n : s[i] = Frame("read", y)
      BY <1>7, <1>8, <3>1 DEF Home, InnerRead
    <3> QED BY <1>9, <1>10, <3>2
  <2> QED BY <2>1, <2>2
<1>16. Home(b, p, list)
  BY <1>6, <1>9, <1>12, <1>13, <1>14, <1>15 DEF Home, Alone, Canceled
<1>17. HomeInv' /\ KeptCalls(b, stack')
  <2>1. ToSet(list) \subseteq Request /\ pos' = 1
    BY <1>4, <1>6, <1>7
  <2> QED BY <1>4, <1>5, <1>9, <1>13, <1>16, <2>1, SubmitHome
<1>18. KeptCalls(s, b)
  BY <1>8, <1>9, <1>10 DEF KeptCalls
<1> QED BY <1>5, <1>6, <1>8, <1>17, <1>18, CallsTwice DEF Submits

LEMMA ReadFrameOf ==
  ASSUME NEW g \in Frames, NEW o, g.at = "read", g.req = {o}
  PROVE  g = Frame("read", o)
<1>1. ~ \E at \in {"flush", "check", "poll", "queue", "select", "leave", "scan"} : g = Plain(at)
  BY DEF Plain
<1>2. PICK at \in {"read", "done", "callback", "signal", "cancel"}, r \in Request : g = Frame(at, r)
  BY <1>1 DEF Frames
<1>3. at = "read" /\ {r} = {o}
  BY <1>2 DEF Frame
<1>4. r = o
  BY <1>3
<1> QED BY <1>2, <1>3, <1>4

LEMMA ContinueKeepsHome ==
  ASSUME AioInv, HomeInv, NEW r \in Request, Continue(r)
  PROVE  Submits(r)
<1>1. PICK h \in DOMAIN stack :
        /\ stack[h].at = "read" /\ stack[h].req = Last(stack).req
        /\ paio_submit(r, context, [stack EXCEPT ![h] = Frame("read", r)])
  BY DEF Continue
<1>2. PICK f \in Frames : f = Frame("read", r) /\ f.at = "read"
  <2>1. Frame("read", r) \in Frames
    BY DEF Frames
  <2> QED BY <2>1, ReadFrames
<1>3. PICK b, k : b = [stack EXCEPT ![h] = f] /\ k = context
  OBVIOUS
<1>4. /\ InClient /\ r \notin Held /\ req' = [req EXCEPT ![r] = NewReq(k)]
      /\ first_aio' = <<r>> \o first_aio /\ stack' = Signals(b, r) /\ pos' = pos
  BY <1>1, <1>2, <1>3 DEF Continue, InClient, paio_submit, NewReq, scan
<1>5. PICK p, list : p = req' /\ list = first_aio'
  OBVIOUS
<1>6. /\ ToSet(list) = ToSet(first_aio) \cup {r} /\ ToSet(first_aio) \subseteq Request
      /\ r \notin ToSet(first_aio) /\ p[r].context = k /\ p[r].ret = "inprogress"
      /\ \A y \in Request \ {r} : p[y] = req[y]
      /\ \A y \in ToSet(list) : p[y].ret # "canceled"
      /\ \A i \in 1..Len(stack) : stack[i].at # "cancel"
      /\ \A i \in 1..Len(stack), y \in Request : stack[i] = Frame("read", y) =>
           /\ y # r /\ p[y].context = Cardinality(ReadersOf(stack, i))
           /\ y \in ToSet(list) \cup RunningIn(stack)
  <2>1. Submitted(r, k, p, list)
    BY <1>4, <1>5, SubmitParts
  <2> QED BY <2>1 DEF Submitted
<1>7. Home(stack, req, first_aio) /\ pos = 1 /\ stack # <<>> /\ Last(stack).at = "callback"
  <2>1. ~ At("scan") /\ At("callback")
    BY DEF Continue, At
  <2> QED BY <2>1 DEF HomeInv, ScanStart, At
<1>8. PICK s : s = stack /\ s \in Seq(Frames)
  BY Typed
<1>9. PICK n \in Nat \ {0} : n = Len(s) /\ s[n] \in Frames /\ s[n] = Last(s) /\ n \in 1..n
  <2>1. s \in Seq(Frames) /\ s # <<>>
    BY <1>7, <1>8
  <2>2. Len(s) \in Nat \ {0} /\ Last(s) = s[Len(s)] /\ Last(s) \in Frames
    BY <2>1, FrontFacts
  <2> QED BY <2>2
<1>10. PICK o \in Request : s[n] = Frame("callback", o)
  BY <1>7, <1>8, <1>9, FrameFacts
<1>11. h \in 1..n /\ s[h] = Frame("read", o)
  <2>1. h \in 1..n /\ s[h] \in Frames
    BY <1>1, <1>8, <1>9
  <2>2. s[h].at = "read" /\ s[h].req = {o}
    BY <1>1, <1>8, <1>9, <1>10 DEF Frame
  <2> QED BY <2>1, <2>2, ReadFrameOf
<1>12. Cardinality(ReadersOf(s, h)) = k
  <2>1. Good(s, req, k)
    BY <1>3, <1>8, Typed
  <2>2. req[o].context = k
    BY <1>9, <1>10, <2>1 DEF Good
  <2> QED BY <1>7, <1>8, <1>9, <1>11, <2>2 DEF Home, ReadsHeld
<1>13. /\ b \in Seq(Frames) /\ Len(b) = n /\ b[h] = f
       /\ \A i \in 1..n : i # h => b[i] = s[i]
  BY <1>3, <1>8, <1>9, <1>11
<1>14. \A i \in 1..n : b[i].at = s[i].at
  BY <1>2, <1>11, <1>13, ReadFrames
<1>15. \A i \in 1..n : ReadersOf(b, i) = ReadersOf(s, i)
  <2> SUFFICES ASSUME NEW i \in 1..n PROVE ReadersOf(b, i) = ReadersOf(s, i)
    OBVIOUS
  <2>1. \A j \in 1..i : j \in 1..n
    OBVIOUS
  <2> QED BY <1>14, <2>1 DEF ReadersOf
<1>16. RunningIn(b) = RunningIn(s)
  <2>1. \A i \in 1..n : \A x : b[i] = Frame("callback", x) <=> s[i] = Frame("callback", x)
    BY <1>2, <1>11, <1>13, ReadFrames
  <2> QED BY <1>9, <1>13, <2>1 DEF RunningIn
<1>17. Nested(b)
  <2> SUFFICES ASSUME NEW i \in 1..n, b[i].at = "callback" PROVE i # 1 /\ b[i - 1].at = "scan"
    BY <1>13 DEF Nested
  <2>1. i # 1 /\ s[i - 1].at = "scan"
    BY <1>7, <1>8, <1>9, <1>14 DEF Home, Nested
  <2>2. i - 1 \in 1..n
    BY <2>1
  <2> QED BY <1>14, <2>1, <2>2
<1>18. \A i \in 1..n : b[i].at # "cancel"
  BY <1>6, <1>8, <1>9, <1>14
<1>19. ReadsHeld(b, p, list)
  <2> SUFFICES ASSUME NEW i \in 1..n, NEW y \in Request, b[i] = Frame("read", y)
               PROVE  /\ p[y].context = Cardinality(ReadersOf(b, i))
                      /\ y \in ToSet(list) \cup RunningIn(b)
    BY <1>13 DEF ReadsHeld
  <2>1. CASE i = h
    <3>1. y = r
      BY <1>2, <1>13, <2>1, ReadFrames
    <3> QED BY <1>6, <1>11, <1>12, <1>15, <2>1, <3>1
  <2>2. CASE i # h
    <3>1. s[i] = Frame("read", y)
      BY <1>13, <2>2
    <3> QED BY <1>6, <1>8, <1>9, <1>15, <1>16, <3>1
  <2> QED BY <2>1, <2>2
<1>20. InnerRead(b, p, list)
  <2> SUFFICES ASSUME NEW y \in ToSet(list), p[y].context # 0
               PROVE  \E i \in 1..n : b[i] = Frame("read", y)
    BY <1>13 DEF InnerRead
  <2>1. CASE y = r
    BY <1>2, <1>11, <1>13, <2>1
  <2>2. CASE y # r
    <3>1. y \in ToSet(first_aio) /\ req[y].context # 0
      BY <1>6, <2>2
    <3>2. PICK i \in 1..n : s[i] = Frame("read", y)
      BY <1>7, <1>8, <1>9, <3>1 DEF Home, InnerRead
    <3>3. o \in RunningIn(s) /\ ToSet(first_aio) \cap RunningIn(s) = {}
      BY <1>8, <1>9, <1>10 DEF RunningIn, AioInv, Lists, ListsOf
    <3>4. i # h
      BY <1>11, <3>1, <3>2, <3>3, ReadFrames
    <3> QED BY <1>13, <3>2, <3>4
  <2> QED BY <2>1, <2>2
<1>21. Home(b, p, list)
  BY <1>6, <1>13, <1>17, <1>18, <1>19, <1>20 DEF Home, Alone, Canceled
<1>22. HomeInv' /\ KeptCalls(b, stack')
  <2>1. ToSet(list) \subseteq Request /\ pos' = 1
    BY <1>4, <1>6, <1>7
  <2> QED BY <1>4, <1>5, <1>13, <1>18, <1>21, <2>1, SubmitHome
<1>23. KeptCalls(s, b)
  BY <1>9, <1>13, <1>14, <1>15 DEF KeptCalls
<1> QED BY <1>5, <1>6, <1>8, <1>22, <1>23, CallsTwice DEF Submits

LEMMA InitHome == Init => HomeInv
BY EmptySeq DEF Init, HomeInv, Home, Nested, Alone, ReadsHeld, InnerRead, Canceled, ScanStart, ToSet

LEMMA HomeKeeps == AioInv /\ HomeInv /\ [Next]_vars => HomeInv'
<1> SUFFICES ASSUME AioInv, HomeInv, [Next]_vars PROVE HomeInv'
  OBVIOUS
<1>1. ScanStart
  BY DEF HomeInv
<1>2. CASE UNCHANGED vars
  BY <1>2 DEF vars, scan, HomeInv, Home, Nested, Alone, ReadsHeld, InnerRead, Canceled,
     ReadersOf, RunningIn, ScanStart, At
<1>3. CASE FlushStart \/ qemu_aio_flush
  BY <1>1, <1>3, FlushQuiet, HomeQuiet
<1>4. ASSUME NEW r \in Request, Submit(r) \/ bdrv_rw_em(r) \/ Continue(r) \/ CancelStart(r)
      PROVE  HomeInv'
  BY <1>4, SubmitKeepsHome, ReadKeepsHome, ContinueKeepsHome, CancelHome DEF Submits
<1>5. CASE cond_signal \/ aio_signal_handler \/ Pass
  BY <1>1, <1>5, SignalQuiet, HomeQuiet
<1>6. CASE Callback \/ CallbackReturns
  BY <1>6, CallbackHome, CallbackReturnsHome
<1>7. CASE ScanReturns
  BY <1>7, ScanReturnsQuiet, HomeQuiet
<1>8. CASE main_loop_wait \/ bdrv_rw_em_loop
  BY <1>1, <1>8, LoopQuiet, HomeQuiet
<1>9. CASE qemu_aio_wait
  BY <1>1, <1>9, AioWaitQuiet, HomeQuiet
<1>10. ASSUME NEW r \in Request, paio_remove(r) PROVE HomeInv'
  BY <1>10, RemoveHome
<1>11. ASSUME NEW w \in Worker, WorkerStep(w) \/ TimedOut(w) PROVE HomeInv'
  BY <1>11, WorkerHome
<1> QED BY <1>2, <1>3, <1>4, <1>5, <1>6, <1>7, <1>8, <1>9, <1>10, <1>11 DEF Next, Client, MainStep

-----------------------------------------------------------------------------
(* Why a request's end is still to be noticed: whatever the main thread is *)
(* in the middle of, or because of a frame of its stack, or of the scan.   *)
Anyway(r) ==
  \/ signaled \/ rfd \/ Workers({"kill"}) # {}
  \/ req[r].context \in bhs \/ req[r].context < context
Above(r) ==
  \E i \in DOMAIN stack : stack[i].at = "callback" /\ Cardinality(Readers(i)) = req[r].context
InFront(r) == At("scan") /\ \E i \in DOMAIN first_aio : first_aio[i] = r /\ i >= pos

LEMMA Reasons ==
  ASSUME NEW r
  PROVE  /\ Coming(r) <=> Anyway(r) \/ At("poll") \/ With("cancel", r) \/ Above(r) \/ InFront(r)
         /\ Anyway(r)' => Coming(r)'
         /\ At("poll")' => Coming(r)'
         /\ With("cancel", r)' => Coming(r)'
         /\ Above(r)' => Coming(r)'
         /\ InFront(r)' => Coming(r)'
BY DEF Coming, Anyway, Above, InFront

(* No worker that is about to send the signal is forgotten.                *)
KillKept == Workers({"kill"}) \subseteq Workers({"kill"})'
SameReasons ==
  /\ KillKept /\ UNCHANGED <<signaled, rfd, bhs>>
  /\ context \in Int /\ context' \in Int /\ context <= context'

LEMMA KillMove ==
  ASSUME AioInv, NEW w \in Worker, thread[w].at # "kill", NEW v, thread' = [thread EXCEPT ![w] = v]
  PROVE  KillKept
<1>1. thread \in [Worker -> [at: Place, req: SUBSET Request]]
  BY DEF AioInv, TypeOK
<1>2. \A x \in Worker : thread[x].at = "kill" => thread'[x] = thread[x]
  BY <1>1
<1> QED BY <1>2 DEF KillKept, Workers

LEMMA KillSame ==
  ASSUME thread' = thread
  PROVE  KillKept
BY DEF KillKept, Workers

LEMMA AnywayStill ==
  ASSUME NEW x, Anyway(x), SameReasons, req'[x].context = req[x].context, req[x].context \in Int
  PROVE  Anyway(x)'
<1>1. CASE signaled \/ rfd
  BY <1>1 DEF SameReasons, Anyway
<1>2. CASE Workers({"kill"}) # {}
  <2>1. Workers({"kill"})' # {}
    BY <1>2 DEF SameReasons, KillKept
  <2> QED BY <2>1 DEF Anyway
<1>3. CASE req[x].context \in bhs
  BY <1>3 DEF SameReasons, Anyway
<1>4. CASE req[x].context < context
  <2>1. req'[x].context < context'
    BY <1>4 DEF SameReasons
  <2> QED BY <2>1 DEF Anyway
<1> QED BY <1>1, <1>2, <1>3, <1>4 DEF Anyway

LEMMA AboveStill ==
  ASSUME NEW x, Above(x), stack \in Seq(Frames), stack' \in Seq(Frames),
         KeptCalls(stack, stack'), req'[x].context = req[x].context
  PROVE  Above(x)'
<1>1. DOMAIN stack = 1..Len(stack) /\ DOMAIN stack' = 1..Len(stack')
  OBVIOUS
<1>2. PICK i \in 1..Len(stack) : stack[i].at = "callback" /\ Cardinality(Readers(i)) = req[x].context
  BY <1>1 DEF Above
<1>3. Readers(i) = ReadersOf(stack, i) /\ Readers(i)' = ReadersOf(stack', i)
  BY DEF Readers, ReadersOf, Reader
<1>4. /\ i \in 1..Len(stack') /\ stack'[i].at = "callback"
      /\ Cardinality(ReadersOf(stack', i)) = Cardinality(ReadersOf(stack, i))
  BY <1>2 DEF KeptCalls
<1>5. Cardinality(Readers(i)') = req'[x].context
  BY <1>2, <1>3, <1>4
<1> QED BY <1>1, <1>4, <1>5 DEF Above

(* A scan that starts looks at the whole list.                             *)
LEMMA RestartNotices ==
  ASSUME first_aio' \in Seq(Request), Restarts
  PROVE  EndsAreNoticed'
<1> SUFFICES ASSUME NEW x \in ToSet(first_aio') PROVE Coming(x)'
  BY DEF EndsAreNoticed
<1>1. PICK i \in DOMAIN first_aio' : first_aio'[i] = x
  BY DEF ToSet
<1>2. i >= 1
  OBVIOUS
<1>3. InFront(x)'
  BY <1>1, <1>2 DEF InFront, Restarts
<1> QED BY <1>3, Reasons

(* A step that leaves the list and its requests alone, and whose frames of *)
(* callbacks stay.                                                         *)
LEMMA QuietNotices ==
  ASSUME AioInv, EndsAreNoticed, Quiet, SameReasons,
         ~ At("poll"), At("scan") => pos > Len(first_aio)
  PROVE  EndsAreNoticed'
<1> SUFFICES ASSUME NEW x \in ToSet(first_aio'), req'[x].ret # "inprogress" PROVE Coming(x)'
  BY DEF EndsAreNoticed
<1>1. first_aio' = first_aio /\ req' = req /\ stack' \in Seq(Frames) /\ Kept(stack, stack')
  BY DEF Quiet
<1>2. x \in ToSet(first_aio) /\ req[x].ret # "inprogress"
  BY <1>1
<1>3. Coming(x)
  BY <1>2 DEF EndsAreNoticed
<1>4. first_aio \in Seq(Request) /\ x \in Request /\ req[x].context \in Int
  <2>1. /\ first_aio \in Seq(Request)
        /\ req \in [Request -> [ret: {"inprogress", "done", "canceled"},
                                active: BOOLEAN, context: Context]]
    BY DEF AioInv, TypeOK
  <2>2. x \in Request
    BY <1>2, <2>1 DEF ToSet
  <2>3. req[x].context \in Context
    BY <2>1, <2>2
  <2> QED BY <2>1, <2>2, <2>3 DEF Context
<1>5. ~ InFront(x)
  <2> SUFFICES ASSUME InFront(x) PROVE FALSE
    OBVIOUS
  <2>1. PICK i \in 1..Len(first_aio) : i >= pos /\ pos > Len(first_aio)
    BY <1>4 DEF InFront
  <2>2. pos \in Nat /\ Len(first_aio) \in Nat
    BY <1>4 DEF AioInv, TypeOK
  <2> QED BY <2>1, <2>2
<1>6. CASE Anyway(x)
  BY <1>1, <1>4, <1>6, AnywayStill, Reasons
<1>7. CASE With("cancel", x)
  <2>1. At("cancel")
    BY <1>7, ReadFrames DEF With, At
  <2>2. stack' = stack
    BY <2>1 DEF Quiet
  <2>3. With("cancel", x)'
    BY <1>7, <2>2 DEF With
  <2> QED BY <2>3, Reasons
<1>8. CASE Above(x)
  <2>1. stack \in Seq(Frames)
    BY Typed
  <2>2. KeptCalls(stack, stack')
    <3>1. PICK s, t : s = stack /\ t = stack'
      OBVIOUS
    <3>2. s \in Seq(Frames) /\ t \in Seq(Frames) /\ Kept(s, t)
      BY <1>1, <2>1, <3>1
    <3> QED BY <3>1, <3>2, KeptReaders
  <2> QED BY <1>1, <1>8, <2>1, <2>2, AboveStill, Reasons
<1> QED BY <1>3, <1>5, <1>6, <1>7, <1>8, Reasons

(* Of a worker's steps, two make every end come, and the others forget     *)
(* none; so does the signal's handler.                                     *)
LEMMA AllCome ==
  ASSUME signaled' \/ rfd' \/ Workers({"kill"})' # {}
  PROVE  EndsAreNoticed'
<1>1. \A x : Anyway(x)'
  BY DEF Anyway
<1> QED BY <1>1, Reasons DEF EndsAreNoticed

LEMMA WorkerNotices ==
  ASSUME AioInv, EndsAreNoticed, NEW w \in Worker, WorkerStep(w) \/ TimedOut(w)
  PROVE  EndsAreNoticed'
<1>1. CASE Store(w)
  <2>1. thread' = [thread EXCEPT ![w] = [at |-> "kill", req |-> {}]]
    BY <1>1 DEF Store, Move
  <2>2. thread'[w].at = "kill"
    BY <2>1 DEF AioInv, TypeOK
  <2>3. Workers({"kill"})' # {}
    BY <2>2 DEF Workers
  <2> QED BY <2>3, AllCome
<1>2. CASE Kill(w)
  BY <1>2, AllCome DEF Kill
<1>3. CASE Wait(w) \/ End(w) \/ Take(w) \/ TimedOut(w)
  <2>1. PICK v : thread' = [thread EXCEPT ![w] = v] /\ thread[w].at # "kill"
    BY <1>3 DEF Wait, End, Take, TimedOut, Move
  <2>2. KillKept
    BY <2>1, KillMove
  <2>3. UNCHANGED <<first_aio, stack, pos, signaled, rfd, bhs, context>>
    BY <1>3 DEF Wait, End, Take, TimedOut, scan
  <2>4. /\ first_aio \in Seq(Request) /\ context \in Int
        /\ req \in [Request -> [ret: {"inprogress", "done", "canceled"},
                                active: BOOLEAN, context: Context]]
    BY DEF AioInv, TypeOK, Context
  <2>5. ASSUME NEW x \in Request PROVE req'[x].ret = req[x].ret /\ req'[x].context = req[x].context
    <3>1. req' = req \/ \E r \in Request : req' = [req EXCEPT ![r].active = TRUE]
      <4>1. CASE Take(w)
        <5>1. Head(request_list) \in Request
          <6>1. request_list \in Seq(Request) /\ request_list # <<>>
            BY <4>1 DEF Take, AioInv, TypeOK
          <6> QED BY <6>1, HeadTailProperties
        <5> QED BY <4>1, <5>1 DEF Take
      <4> QED BY <1>3, <4>1 DEF Wait, End, TimedOut
    <3> QED BY <2>4, <3>1
  <2> SUFFICES ASSUME NEW x \in ToSet(first_aio'), req'[x].ret # "inprogress" PROVE Coming(x)'
    BY DEF EndsAreNoticed
  <2>6. x \in Request /\ x \in ToSet(first_aio)
    BY <2>3, <2>4 DEF ToSet
  <2>7. Coming(x) /\ req'[x].context = req[x].context
    BY <2>5, <2>6 DEF EndsAreNoticed
  <2>8. req[x].context \in Int
    BY <2>4, <2>6 DEF Context
  <2>9. CASE Anyway(x)
    <3>1. SameReasons
      BY <2>2, <2>3, <2>4 DEF SameReasons
    <3> QED BY <2>7, <2>8, <2>9, <3>1, AnywayStill, Reasons
  <2>10. CASE At("poll") \/ With("cancel", x) \/ InFront(x)
    <3>1. At("poll")' \/ With("cancel", x)' \/ InFront(x)'
      BY <2>3, <2>10 DEF At, With, InFront
    <3> QED BY <3>1, Reasons
  <2>11. CASE Above(x)
    <3>1. Above(x)'
      BY <2>3, <2>7, <2>11 DEF Above, Readers
    <3> QED BY <3>1, Reasons
  <2> QED BY <2>7, <2>9, <2>10, <2>11, Reasons
<1> QED BY <1>1, <1>2, <1>3 DEF WorkerStep

LEMMA HandlerNotices ==
  ASSUME AioInv, HomeInv, EndsAreNoticed, cond_signal \/ aio_signal_handler
  PROVE  EndsAreNoticed'
<1>1. CASE aio_signal_handler
  BY <1>1, AllCome DEF aio_signal_handler
<1>2. CASE cond_signal
  <2>1. Quiet
    BY <1>2, SignalQuiet DEF HomeInv
  <2>2. KillKept
    <3>1. CASE thread' = thread
      BY <3>1, KillSame
    <3>2. CASE \E w \in Workers({"wait"}) : Move(w, "look")
      <4>1. PICK w \in Workers({"wait"}) : thread' = [thread EXCEPT ![w] = [at |-> "look", req |-> {}]]
        BY <3>2 DEF Move
      <4>2. w \in Worker /\ thread[w].at # "kill"
        BY DEF Workers
      <4> QED BY <4>1, <4>2, KillMove
    <3> QED BY <1>2, <3>1, <3>2 DEF cond_signal
  <2>3. SameReasons
    <3>1. UNCHANGED <<signaled, rfd, bhs, context>> /\ context \in Int
      BY <1>2 DEF cond_signal, AioInv, TypeOK, Context
    <3> QED BY <2>2, <3>1 DEF SameReasons
  <2>4. ~ At("poll") /\ ~ At("scan")
    BY <1>2 DEF cond_signal, At
  <2> QED BY <2>1, <2>3, <2>4, QuietNotices
<1> QED BY <1>1, <1>2

LEMMA LeavesNotices ==
  ASSUME AioInv, EndsAreNoticed, Quiet, Restarts \/ Leaves
  PROVE  EndsAreNoticed'
<1>1. CASE Restarts
  <2>1. first_aio' \in Seq(Request)
    BY DEF Quiet, AioInv, TypeOK
  <2> QED BY <1>1, <2>1, RestartNotices
<1>2. CASE Leaves
  <2>1. SameReasons
    <3>1. UNCHANGED <<signaled, rfd, bhs, context, thread>> /\ context \in Int
      BY <1>2 DEF Leaves, AioInv, TypeOK, Context
    <3> QED BY <3>1, KillSame DEF SameReasons
  <2> QED BY <1>2, <2>1, QuietNotices DEF Leaves
<1> QED BY <1>1, <1>2

(* The contexts that requests on the list are of.                          *)
LEMMA ListedFacts ==
  ASSUME AioInv, HomeInv, NEW x \in ToSet(first_aio)
  PROVE  /\ x \in Request /\ req[x].context \in Nat /\ context \in Nat
         /\ req[x].context <= context
         /\ At("done") => req[x].context <= context - 1
<1>1. /\ first_aio \in Seq(Request) /\ context \in Nat
      /\ req \in [Request -> [ret: {"inprogress", "done", "canceled"},
                              active: BOOLEAN, context: Context]]
  BY DEF AioInv, TypeOK, Context
<1>2. x \in Request
  BY <1>1 DEF ToSet
<1>3. req[x].context \in Nat
  BY <1>1, <1>2 DEF Context
<1>4. PICK s : s = stack
  OBVIOUS
<1>5. Good(s, req, context) /\ Home(s, req, first_aio)
  BY <1>4, Typed DEF HomeInv
<1> QED BY <1>1, <1>2, <1>3, <1>4, <1>5, ContextsEntered DEF At

(* A context is left: what is done is of one further out.                  *)
LEMMA PopNotices ==
  ASSUME AioInv, HomeInv, EndsAreNoticed, At("done"), async_context_pop
  PROVE  EndsAreNoticed'
<1>1. /\ first_aio' = first_aio /\ req' = req
      /\ context' = context - 1 /\ bhs' = bhs \cup {context - 1}
  BY DEF async_context_pop, PopSchedules
<1> SUFFICES ASSUME NEW x \in ToSet(first_aio') PROVE Coming(x)'
  BY DEF EndsAreNoticed
<1>2. x \in ToSet(first_aio)
  BY <1>1
<1>3. req[x].context \in Nat /\ context \in Nat /\ req[x].context <= context - 1
  BY <1>2, ListedFacts
<1>4. req[x].context = context - 1 \/ req[x].context < context - 1
  BY <1>3
<1>5. Anyway(x)'
  BY <1>1, <1>4 DEF Anyway
<1> QED BY <1>5, Reasons

(* What is passed is in progress, or of a context further out.             *)
LEMMA PassNotices ==
  ASSUME AioInv, HomeInv, EndsAreNoticed, Pass
  PROVE  EndsAreNoticed'
<1>1. /\ At("scan") /\ pos' = pos + 1 /\ ~ Ripe(first_aio[pos])
      /\ UNCHANGED <<first_aio, req, thread, signaled, rfd, context, bhs, stack>>
  BY DEF Pass, pool
<1> SUFFICES ASSUME NEW x \in ToSet(first_aio'), req'[x].ret # "inprogress" PROVE Coming(x)'
  BY DEF EndsAreNoticed
<1>2. x \in ToSet(first_aio) /\ req[x].ret # "inprogress"
  BY <1>1
<1>3. /\ x \in Request /\ req[x].context \in Nat /\ context \in Nat
      /\ req[x].context <= context
  BY <1>2, ListedFacts
<1>4. Coming(x)
  BY <1>2 DEF EndsAreNoticed
<1>5. ~ At("poll") /\ ~ With("cancel", x)
  BY <1>1, ReadFrames DEF At, With
<1>6. CASE Anyway(x)
  <2>1. SameReasons
    BY <1>1, <1>3, KillSame DEF SameReasons
  <2> QED BY <1>1, <1>3, <1>6, <2>1, AnywayStill, Reasons
<1>7. CASE Above(x)
  <2>1. Above(x)'
    BY <1>1, <1>7 DEF Above, Readers
  <2> QED BY <2>1, Reasons
<1>8. CASE InFront(x)
  <2>1. PICK i \in DOMAIN first_aio : first_aio[i] = x /\ i >= pos
    BY <1>8 DEF InFront
  <2>2. i \in Nat /\ pos \in Nat
    BY DEF AioInv, TypeOK
  <2>3. CASE i = pos
    <3>1. req[x].ret # "canceled"
      <4> SUFFICES ASSUME req[x].ret = "canceled" PROVE FALSE
        OBVIOUS
      <4>1. Len(stack) = 1 /\ stack[1] = Frame("cancel", x)
        BY <1>2 DEF HomeInv, Home, Canceled
      <4>2. Last(stack).at = "cancel"
        BY <4>1, ReadFrames DEF Last
      <4> QED BY <1>1, <4>2 DEF At
    <3>2. req[x].ret = "done"
      BY <1>2, <1>3, <3>1 DEF AioInv, TypeOK
    <3>3. req[x].context # context
      BY <1>1, <2>1, <2>3, <3>2 DEF Ripe
    <3>4. req[x].context < context
      BY <1>3, <3>3
    <3>5. Anyway(x)'
      BY <1>1, <3>4 DEF Anyway
    <3> QED BY <3>5, Reasons
  <2>4. CASE i # pos
    <3>1. i >= pos + 1
      BY <2>1, <2>2, <2>4
    <3>2. At("scan")' /\ i \in DOMAIN first_aio' /\ first_aio'[i] = x /\ i >= pos'
      BY <1>1, <2>1, <3>1 DEF At
    <3>3. InFront(x)'
      BY <3>2 DEF InFront
    <3> QED BY <3>3, Reasons
  <2> QED BY <2>3, <2>4
<1> QED BY <1>4, <1>5, <1>6, <1>7, <1>8, Reasons

(* While a callback runs, the scan below it will start over.               *)
LEMMA CallbackNotices ==
  ASSUME AioInv, HomeInv, Callback
  PROVE  EndsAreNoticed'
<1>1. /\ UNCHANGED req /\ ToSet(first_aio') \subseteq ToSet(first_aio)
      /\ stack' \in Seq(Frames) /\ Len(stack') = Len(stack) + 1
      /\ stack'[Len(stack) + 1].at = "callback"
      /\ Cardinality(ReadersOf(stack', Len(stack) + 1)) = context
  BY CallbackHome
<1>2. context' = context /\ Len(stack) \in Nat
  BY Typed DEF Callback
<1> SUFFICES ASSUME NEW x \in ToSet(first_aio') PROVE Coming(x)'
  BY DEF EndsAreNoticed
<1>3. req[x].context \in Nat /\ context \in Nat /\ req[x].context <= context
  BY <1>1, ListedFacts
<1>4. CASE req[x].context < context
  <2>1. Anyway(x)'
    BY <1>1, <1>2, <1>4 DEF Anyway
  <2> QED BY <2>1, Reasons
<1>5. CASE req[x].context = context
  <2>1. PICK i : i = Len(stack) + 1
    OBVIOUS
  <2>2. i \in DOMAIN stack' /\ stack'[i].at = "callback" /\ Cardinality(ReadersOf(stack', i)) = req'[x].context
    BY <1>1, <1>2, <1>5, <2>1
  <2>3. Readers(i)' = ReadersOf(stack', i)
    BY DEF Readers, ReadersOf, Reader
  <2>4. Above(x)'
    BY <2>2, <2>3 DEF Above
  <2> QED BY <2>4, Reasons
<1> QED BY <1>3, <1>4, <1>5

(* paio_cancel: the request it waits for is the only one that it hides.    *)
LEMMA CancelNotices ==
  ASSUME AioInv, EndsAreNoticed, NEW r \in Request, CancelStart(r)
  PROVE  EndsAreNoticed'
<1>1. /\ stack = <<>> /\ stack' = <<Frame("cancel", r)>>
      /\ UNCHANGED <<first_aio, thread, signaled, rfd, context, bhs>>
      /\ req' = req \/ req' = [req EXCEPT ![r].ret = "canceled"]
  BY DEF CancelStart, pool
<1>2. /\ first_aio \in Seq(Request) /\ context \in Int
      /\ req \in [Request -> [ret: {"inprogress", "done", "canceled"},
                              active: BOOLEAN, context: Context]]
  BY DEF AioInv, TypeOK, Context
<1> SUFFICES ASSUME NEW x \in ToSet(first_aio'), req'[x].ret # "inprogress" PROVE Coming(x)'
  BY DEF EndsAreNoticed
<1>3. x \in ToSet(first_aio) /\ x \in Request
  BY <1>1, <1>2 DEF ToSet
<1>4. req'[x].context = req[x].context /\ req[x].context \in Int
  BY <1>1, <1>2, <1>3 DEF Context
<1>5. CASE x = r
  <2>1. PICK t, f : t = stack' /\ f = Frame("cancel", r)
    OBVIOUS
  <2>2. t = <<f>>
    BY <1>1, <2>1
  <2>3. t # <<>> /\ Last(t) = f
    BY <2>2 DEF Last
  <2>4. With("cancel", x)'
    BY <1>5, <2>1, <2>3 DEF With
  <2> QED BY <2>4, Reasons
<1>6. CASE x # r
  <2>1. req'[x] = req[x]
    BY <1>1, <1>2, <1>3, <1>6
  <2>2. Coming(x)
    BY <1>3, <2>1 DEF EndsAreNoticed
  <2>3. Anyway(x)
    BY <1>1, <2>2, Reasons DEF At, With, Above, InFront
  <2>4. SameReasons
    BY <1>1, <1>2, KillSame DEF SameReasons
  <2> QED BY <1>4, <2>3, <2>4, AnywayStill, Reasons
<1> QED BY <1>5, <1>6

LEMMA RemoveNotices ==
  ASSUME AioInv, HomeInv, EndsAreNoticed, NEW r \in Request, paio_remove(r)
  PROVE  EndsAreNoticed'
<1>1. /\ Len(stack) = 1 /\ stack[1].at = "cancel" /\ stack[1] = Frame("cancel", r)
      /\ stack # <<>> /\ Last(stack) = Frame("cancel", r)
      /\ ToSet(first_aio') = ToSet(first_aio) \ {r} /\ UNCHANGED req
  <2>1. Len(stack) = 1 /\ stack[1].at = "cancel" /\ ToSet(first_aio') = ToSet(first_aio) \ {r} /\ UNCHANGED req
    BY RemoveHome
  <2>2. stack # <<>> /\ Last(stack) = Frame("cancel", r)
    BY DEF paio_remove, With
  <2>3. Last(stack) = stack[1]
    BY <2>1 DEF Last
  <2> QED BY <2>1, <2>2, <2>3
<1>2. UNCHANGED <<thread, signaled, rfd, context, bhs>>
  BY DEF paio_remove, pool
<1> SUFFICES ASSUME NEW x \in ToSet(first_aio'), req'[x].ret # "inprogress" PROVE Coming(x)'
  BY DEF EndsAreNoticed
<1>3. x \in ToSet(first_aio) /\ x # r /\ req[x].ret # "inprogress"
  BY <1>1
<1>4. Coming(x) /\ req[x].context \in Nat /\ context \in Nat
  BY <1>3, ListedFacts DEF EndsAreNoticed
<1>5. ~ At("poll") /\ ~ With("cancel", x) /\ ~ InFront(x)
  BY <1>1, <1>3, ReadFrames DEF At, With, InFront
<1>6. ~ Above(x)
  <2>1. DOMAIN stack = 1..1
    BY <1>1, Typed
  <2> QED BY <1>1, <2>1 DEF Above
<1>7. Anyway(x)
  BY <1>4, <1>5, <1>6, Reasons
<1>8. SameReasons
  BY <1>2, <1>4, KillSame DEF SameReasons
<1> QED BY <1>1, <1>4, <1>7, <1>8, AnywayStill, Reasons

(* A new request is in progress, and hides none.                           *)
LEMMA SpawnKeepsKill ==
  ASSUME AioInv, spawn_thread
  PROVE  KillKept
<1>1. CASE UNCHANGED pool
  BY <1>1, KillSame DEF pool
<1>2. CASE \E w \in Workers({"none"}) : Move(w, "look")
  <2>1. PICK w \in Workers({"none"}) : thread' = [thread EXCEPT ![w] = [at |-> "look", req |-> {}]]
    BY <1>2 DEF Move
  <2>2. w \in Worker /\ thread[w].at # "kill"
    BY DEF Workers
  <2> QED BY <2>1, <2>2, KillMove
<1> QED BY <1>1, <1>2 DEF spawn_thread

LEMMA SubmitNotices ==
  ASSUME AioInv, AioInv', HomeInv, EndsAreNoticed, NEW r \in Request,
         Submit(r) \/ bdrv_rw_em(r) \/ Continue(r)
  PROVE  EndsAreNoticed'
<1>1. Submits(r)
  BY SubmitKeepsHome, ReadKeepsHome, ContinueKeepsHome
<1>2. /\ InClient /\ spawn_thread /\ UNCHANGED <<signaled, rfd, bhs>>
      /\ context' = context \/ context' = context + 1
  BY DEF Submit, bdrv_rw_em, Continue, InClient, paio_submit
<1>3. /\ \A y \in Request \ {r} : req'[y] = req[y]
      /\ ToSet(first_aio') = ToSet(first_aio) \cup {r} /\ ToSet(first_aio) \subseteq Request
      /\ req'[r].ret = "inprogress" /\ KeptCalls(stack, stack')
  BY <1>1 DEF Submits
<1> SUFFICES ASSUME NEW x \in ToSet(first_aio'), req'[x].ret # "inprogress" PROVE Coming(x)'
  BY DEF EndsAreNoticed
<1>4. x # r /\ x \in ToSet(first_aio) /\ req'[x] = req[x]
  BY <1>3
<1>5. Coming(x) /\ req[x].context \in Nat /\ context \in Nat
  BY <1>4, ListedFacts DEF EndsAreNoticed
<1>6. ~ At("poll") /\ ~ With("cancel", x) /\ ~ InFront(x)
  BY <1>2, ReadFrames DEF InClient, At, With, InFront
<1>7. CASE Anyway(x)
  <2>1. SameReasons
    <3>1. context \in Int /\ context' \in Int /\ context <= context'
      BY <1>2, <1>5
    <3> QED BY <1>2, <3>1, SpawnKeepsKill DEF SameReasons
  <2> QED BY <1>4, <1>5, <1>7, <2>1, AnywayStill, Reasons
<1>8. CASE Above(x)
  <2>1. stack \in Seq(Frames) /\ stack' \in Seq(Frames)
    BY Typed DEF AioInv, TypeOK
  <2> QED BY <1>3, <1>4, <1>8, <2>1, AboveStill, Reasons
<1> QED BY <1>5, <1>6, <1>7, <1>8, Reasons

LEMMA NextNotices ==
  AioInv /\ AioInv' /\ HomeInv /\ EndsAreNoticed /\ [Next]_vars => EndsAreNoticed'
<1> SUFFICES ASSUME AioInv, AioInv', HomeInv, EndsAreNoticed, [Next]_vars PROVE EndsAreNoticed'
  OBVIOUS
<1>1. ScanStart
  BY DEF HomeInv
<1>2. CASE UNCHANGED vars
  <2>1. /\ UNCHANGED <<first_aio, req, thread, signaled, rfd>>
        /\ UNCHANGED <<context, bhs, stack, pos>>
    BY <1>2 DEF vars, scan, pool
  <2>2. At("poll")' = At("poll") /\ At("scan")' = At("scan")
    BY <2>1 DEF At
  <2>3. ASSUME NEW x PROVE Coming(x)' <=> Coming(x)
    <3>1. Anyway(x)' <=> Anyway(x)
      BY <2>1 DEF Anyway, Workers
    <3>2. Above(x)' <=> Above(x)
      BY <2>1 DEF Above, Readers
    <3>3. InFront(x)' <=> InFront(x)
      BY <2>1, <2>2 DEF InFront
    <3>4. With("cancel", x)' <=> With("cancel", x)
      BY <2>1 DEF With
    <3>5. Coming(x)' <=> Anyway(x)' \/ At("poll")' \/ With("cancel", x)' \/ Above(x)' \/ InFront(x)'
      BY DEF Coming, Anyway, Above, InFront
    <3> QED BY <2>2, <3>1, <3>2, <3>3, <3>4, <3>5, Reasons
  <2> QED BY <2>1, <2>3 DEF EndsAreNoticed
<1>3. CASE FlushStart \/ qemu_aio_flush
  BY <1>1, <1>3, FlushQuiet, LeavesNotices
<1>4. ASSUME NEW r \in Request, Submit(r) \/ bdrv_rw_em(r) \/ Continue(r) PROVE EndsAreNoticed'
  BY <1>4, SubmitNotices
<1>5. ASSUME NEW r \in Request, CancelStart(r) PROVE EndsAreNoticed'
  BY <1>5, CancelNotices
<1>6. CASE cond_signal \/ aio_signal_handler
  BY <1>6, HandlerNotices
<1>7. CASE Pass
  BY <1>7, PassNotices
<1>8. CASE Callback
  BY <1>8, CallbackNotices
<1>9. CASE CallbackReturns
  <2>1. Restarts
    BY <1>9, CallbackReturnsHome DEF Restarts
  <2>2. first_aio' \in Seq(Request)
    BY DEF AioInv, TypeOK
  <2> QED BY <2>1, <2>2, RestartNotices
<1>10. CASE ScanReturns
  <2>1. Leaves
    BY <1>10 DEF ScanReturns, Leaves, At, pool
  <2> QED BY <1>10, <2>1, ScanReturnsQuiet, LeavesNotices
<1>11. CASE main_loop_wait \/ bdrv_rw_em_loop
  BY <1>1, <1>11, LoopQuiet, LeavesNotices, PopNotices
<1>12. CASE qemu_aio_wait
  BY <1>1, <1>12, AioWaitQuiet, LeavesNotices
<1>13. ASSUME NEW r \in Request, paio_remove(r) PROVE EndsAreNoticed'
  BY <1>13, RemoveNotices
<1>14. ASSUME NEW w \in Worker, WorkerStep(w) \/ TimedOut(w) PROVE EndsAreNoticed'
  BY <1>14, WorkerNotices
<1> QED BY <1>2, <1>3, <1>4, <1>5, <1>6, <1>7, <1>8, <1>9, <1>10, <1>11, <1>12, <1>13, <1>14
    DEF Next, Client, MainStep

(* No end of a request goes unnoticed: whatever a worker has finished and  *)
(* nobody has been told of, the scan under way, a signal, the pipe, a      *)
(* bottom half or the leaving of a context will find                       *)
(* (posix_aio_process_queue, async_context_pop).                           *)
THEOREM EndsOfRequestsAreNoticed == Spec => []EndsAreNoticed
<1>1. Init => HomeInv /\ EndsAreNoticed
  <2>1. Init => EndsAreNoticed
    BY DEF Init, EndsAreNoticed, ToSet
  <2> QED BY <2>1, InitHome
<1>2. AioInv /\ AioInv' /\ (HomeInv /\ EndsAreNoticed) /\ [Next]_vars => (HomeInv /\ EndsAreNoticed)'
  BY HomeKeeps, NextNotices
<1>3. Spec => []AioInv
  BY AioInvariant
<1> QED BY <1>1, <1>2, <1>3, PTL DEF Spec
=============================================================================
