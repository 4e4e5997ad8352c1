---------------------- MODULE GoldfishInterruptProofs ----------------------
(***************************************************************************)
(* The board of GoldfishInterrupt, for every set of pipes, channels,       *)
(* services and threads and every bound on the input that waits.           *)
(*                                                                         *)
(* The controller's count is right after each of its operations, whoever   *)
(* calls it (Counted).  The pipe's line at the controller is the device's  *)
(* (LineIsDevices) and its handler runs when the processor is in it        *)
(* (HandlerRuns), so that each step is one of GoldfishPipe or none of its  *)
(* business, and what is proved of GoldfishPipe holds here.                *)
(***************************************************************************)
EXTENDS GoldfishInterrupt, GoldfishPipeProofs, FiniteSetTheorems

Counted(s) ==
  /\ s \in Pic
  /\ s.pending_count = Cardinality(PendingLines(s))
  /\ s.parent_irq <=> PendingLines(s) # {}

LineIsDevices == dev.irq <=> "pipe" \in pic.level
HandlerRuns == isr.at # "idle" <=> cpu = "pipe"

(* Before the kernel has started nothing can be raised.                    *)
ResetIsQuiet ==
  cpu = "reset" => /\ dev = InitDevice /\ pic.level = {} /\ found = {}
                   /\ input.state # "live"

(* The words that wait are whole events and what is left of the one that   *)
(* is being read.                                                          *)
InputWaits ==
  /\ input \in Input /\ input.words <= MaxInput + 3
  /\ input.state = "init" => input.words = 0
  /\ input.state = "buffered" => input.words > 0
  /\ (input.state = "live" /\ input.words > 0) <=> "events" \in pic.level
  /\ \E n \in Nat : input.words = 3 * n + left
  /\ left \in 0..3
  /\ left # 0 => cpu = "events"
  /\ cpu = "events" => input.state = "live"

BoardInv ==
  /\ Counted(pic)
  /\ bus \in Bus /\ found \subseteq Line /\ cpu \in Cpu
  /\ LineIsDevices
  /\ HandlerRuns
  /\ ResetIsQuiet
  /\ InputWaits

-----------------------------------------------------------------------------
(* The controller's operations.                                            *)
LEMMA LinesAreFinite ==
  ASSUME NEW s, s.level \in SUBSET Line
  PROVE  IsFiniteSet(PendingLines(s)) /\ Cardinality(PendingLines(s)) \in Nat
<1>1. IsFiniteSet({"bus"})
  BY FS_Singleton
<1>2. IsFiniteSet({"bus"} \cup {"events"})
  BY <1>1, FS_AddElement
<1>3. IsFiniteSet(({"bus"} \cup {"events"}) \cup {"pipe"})
  BY <1>2, FS_AddElement
<1>4. Line = ({"bus"} \cup {"events"}) \cup {"pipe"}
  BY DEF Line
<1>5. PendingLines(s) \in SUBSET Line
  BY DEF PendingLines
<1>6. IsFiniteSet(PendingLines(s))
  BY <1>3, <1>4, <1>5, FS_Subset
<1> QED BY <1>6, FS_CardinalityType

LEMMA UpdateFacts ==
  ASSUME NEW s \in Pic, s.pending_count = Cardinality(PendingLines(s))
  PROVE  LET t == goldfish_int_update(s)
         IN  Counted(t) /\ t.level = s.level /\ t.irq_enabled = s.irq_enabled
<1> DEFINE t == goldfish_int_update(s)
<1>1. /\ t \in Pic /\ t.level = s.level /\ t.irq_enabled = s.irq_enabled
      /\ t.pending_count = s.pending_count
      /\ t.parent_irq = (PendingLines(s) # {})
  BY DEF goldfish_int_update, Pic
<1>2. PendingLines(t) = PendingLines(s)
  BY <1>1 DEF PendingLines
<1> QED BY <1>1, <1>2, Zenon DEF Counted

(* An operation that sets the lines x and the enabled lines y, and counts. *)
With(s, n, x, y) ==
  [s EXCEPT !.pending_count = n, !.level = x, !.irq_enabled = y]

LEMMA CountFacts ==
  ASSUME NEW s \in Pic, NEW x \in SUBSET Line, NEW y \in SUBSET Line, NEW n,
         n = Cardinality(x \cap y)
  PROVE  LET t == goldfish_int_update(With(s, n, x, y))
         IN  Counted(t) /\ t.level = x /\ t.irq_enabled = y
<1> DEFINE u == With(s, n, x, y)
<1>1. /\ u.level = x /\ u.irq_enabled = y /\ u.pending_count = n
      /\ PendingLines(u) = x \cap y
  BY DEF PendingLines, Pic, With
<1>2. n \in Nat
  BY <1>1, LinesAreFinite
<1>3. u \in Pic
  BY <1>2 DEF Pic, With
<1> HIDE DEF u
<1>4. LET t == goldfish_int_update(u)
      IN  Counted(t) /\ t.level = u.level /\ t.irq_enabled = u.irq_enabled
  BY <1>1, <1>3, UpdateFacts
<1> QED BY <1>1, <1>4 DEF u

LEMMA AddLine ==
  ASSUME NEW x \in SUBSET Line, NEW y \in SUBSET Line, NEW l, l \notin x
  PROVE  /\ Cardinality(x \cap y) \in Nat
         /\ Cardinality((x \cup {l}) \cap y) =
              IF l \in y THEN Cardinality(x \cap y) + 1 ELSE Cardinality(x \cap y)
<1>1. IsFiniteSet(x \cap y) /\ Cardinality(x \cap y) \in Nat
  <2> DEFINE s == [level |-> x, irq_enabled |-> y]
  <2>1. s.level \in SUBSET Line /\ PendingLines(s) = x \cap y
    BY DEF PendingLines
  <2> QED BY <2>1, LinesAreFinite
<1>2. (x \cup {l}) \cap y = IF l \in y THEN (x \cap y) \cup {l} ELSE x \cap y
  OBVIOUS
<1>3. l \notin x \cap y
  OBVIOUS
<1>4. Cardinality((x \cap y) \cup {l}) = Cardinality(x \cap y) + 1
  BY <1>1, <1>3, FS_AddElement
<1> QED BY <1>1, <1>2, <1>4

LEMMA RemoveLine ==
  ASSUME NEW x \in SUBSET Line, NEW y \in SUBSET Line, NEW l \in x
  PROVE  Cardinality((x \ {l}) \cap y) =
           IF l \in y THEN Cardinality(x \cap y) - 1 ELSE Cardinality(x \cap y)
<1> DEFINE z == x \ {l}
<1>1. z \in SUBSET Line /\ l \notin z /\ z \cup {l} = x
  OBVIOUS
<1>2. /\ Cardinality(z \cap y) \in Nat
      /\ Cardinality((z \cup {l}) \cap y) =
           IF l \in y THEN Cardinality(z \cap y) + 1 ELSE Cardinality(z \cap y)
  BY <1>1, AddLine
<1> QED BY <1>1, <1>2

(* A device's line is set, whatever it was.                                *)
LEMMA SetIrqFacts ==
  ASSUME NEW s, Counted(s), NEW l \in Line
  PROVE  /\ Counted(goldfish_int_set_irq(s, l, TRUE))
         /\ goldfish_int_set_irq(s, l, TRUE).level = s.level \cup {l}
         /\ Counted(goldfish_int_set_irq(s, l, FALSE))
         /\ goldfish_int_set_irq(s, l, FALSE).level = s.level \ {l}
<1> DEFINE x == s.level
           y == s.irq_enabled
           k == s.pending_count
<1>1. s \in Pic /\ x \in SUBSET Line /\ y \in SUBSET Line /\ k \in Nat
      /\ k = Cardinality(x \cap y)
  BY DEF Counted, Pic, PendingLines
<1>2. LET t == goldfish_int_update(s)
      IN  Counted(t) /\ t.level = x /\ t.irq_enabled = y
  BY <1>1, UpdateFacts DEF Counted
<1>3. ASSUME l \notin x
      PROVE  LET t == goldfish_int_update(Raised(s, l))
             IN  Counted(t) /\ t.level = x \cup {l} /\ t.irq_enabled = y
  <2> DEFINE n == IF l \in y THEN k + 1 ELSE k
             u == With(s, n, x \cup {l}, y)
  <2>1. Raised(s, l) = u
    BY <1>1, <1>3 DEF Raised, Pic, With
  <2>2. x \cup {l} \in SUBSET Line /\ n = Cardinality((x \cup {l}) \cap y)
    BY <1>1, <1>3, AddLine
  <2> HIDE DEF n, x, y, k
  <2>3. LET t == goldfish_int_update(u)
        IN  Counted(t) /\ t.level = x \cup {l} /\ t.irq_enabled = y
    BY <1>1, <2>2, CountFacts
  <2> QED BY <2>1, <2>3
<1>4. ASSUME l \in x
      PROVE  LET t == goldfish_int_update(Lowered(s, l))
             IN  Counted(t) /\ t.level = x \ {l} /\ t.irq_enabled = y
  <2> DEFINE n == IF l \in y THEN k - 1 ELSE k
             u == With(s, n, x \ {l}, y)
  <2>1. Lowered(s, l) = u
    BY <1>1, <1>4 DEF Lowered, Pic, With
  <2>2. x \ {l} \in SUBSET Line /\ n = Cardinality((x \ {l}) \cap y)
    BY <1>1, <1>4, RemoveLine
  <2> HIDE DEF n, x, y, k
  <2>3. LET t == goldfish_int_update(u)
        IN  Counted(t) /\ t.level = x \ {l} /\ t.irq_enabled = y
    BY <1>1, <2>2, CountFacts
  <2> QED BY <2>1, <2>3
<1>5. /\ Counted(goldfish_int_set_irq(s, l, TRUE))
      /\ goldfish_int_set_irq(s, l, TRUE).level = x \cup {l}
  <2>1. CASE l \in x
    <3>1. goldfish_int_set_irq(s, l, TRUE) = goldfish_int_update(s)
      BY <2>1 DEF goldfish_int_set_irq, Raised
    <3> QED BY <1>2, <2>1, <3>1
  <2>2. CASE l \notin x
    <3>1. goldfish_int_set_irq(s, l, TRUE) = goldfish_int_update(Raised(s, l))
      BY DEF goldfish_int_set_irq
    <3> QED BY <1>3, <2>2, <3>1
  <2> QED BY <2>1, <2>2
<1>6. /\ Counted(goldfish_int_set_irq(s, l, FALSE))
      /\ goldfish_int_set_irq(s, l, FALSE).level = x \ {l}
  <2>1. CASE l \notin x
    <3>1. goldfish_int_set_irq(s, l, FALSE) = goldfish_int_update(s)
      BY <2>1 DEF goldfish_int_set_irq, Lowered
    <3> QED BY <1>2, <2>1, <3>1
  <2>2. CASE l \in x
    <3>1. goldfish_int_set_irq(s, l, FALSE) = goldfish_int_update(Lowered(s, l))
      BY DEF goldfish_int_set_irq
    <3> QED BY <1>4, <2>2, <3>1
  <2> QED BY <2>1, <2>2
<1> QED BY <1>5, <1>6

(* The same of the pipe's line, which the device's record holds.           *)
LEMMA PipeLineFacts ==
  ASSUME Counted(pic), pic' = goldfish_int_set_irq(pic, "pipe", dev'.irq)
  PROVE  /\ Counted(pic')
         /\ dev'.irq => pic'.level = pic.level \cup {"pipe"}
         /\ ~ dev'.irq => pic'.level = pic.level \ {"pipe"}
<1>1. "pipe" \in Line
  BY DEF Line
<1>2. CASE dev'.irq
  <2>1. pic' = goldfish_int_set_irq(pic, "pipe", TRUE)
    BY <1>2 DEF goldfish_int_set_irq
  <2>2. /\ Counted(goldfish_int_set_irq(pic, "pipe", TRUE))
        /\ goldfish_int_set_irq(pic, "pipe", TRUE).level = pic.level \cup {"pipe"}
    BY <1>1, SetIrqFacts
  <2>3. Counted(pic') /\ pic'.level = pic.level \cup {"pipe"}
    BY <2>1, <2>2, Zenon
  <2> QED BY <1>2, <2>3, Zenon
<1>3. CASE ~ dev'.irq
  <2>1. pic' = goldfish_int_set_irq(pic, "pipe", FALSE)
    BY <1>3 DEF goldfish_int_set_irq
  <2>2. /\ Counted(goldfish_int_set_irq(pic, "pipe", FALSE))
        /\ goldfish_int_set_irq(pic, "pipe", FALSE).level = pic.level \ {"pipe"}
    BY <1>1, SetIrqFacts
  <2>3. Counted(pic') /\ pic'.level = pic.level \ {"pipe"}
    BY <2>1, <2>2, Zenon
  <2> QED BY <1>3, <2>3, Zenon
<1> QED BY <1>2, <1>3

(* The guest masks a line, and lets it through again.                      *)
LEMMA MaskFacts ==
  ASSUME NEW s, Counted(s), NEW l \in Line
  PROVE  /\ Counted(INTERRUPT_DISABLE(s, l)) /\ Counted(INTERRUPT_ENABLE(s, l))
         /\ INTERRUPT_DISABLE(s, l).level = s.level
         /\ INTERRUPT_ENABLE(s, l).level = s.level
<1> DEFINE x == s.level
           y == s.irq_enabled
           k == s.pending_count
<1>1. s \in Pic /\ x \in SUBSET Line /\ y \in SUBSET Line /\ k \in Nat
      /\ k = Cardinality(x \cap y) /\ x \cap y = y \cap x
  BY DEF Counted, Pic, PendingLines
<1>2. LET t == goldfish_int_update(s)
      IN  Counted(t) /\ t.level = x
  BY <1>1, UpdateFacts DEF Counted
<1>3. Counted(INTERRUPT_DISABLE(s, l)) /\ INTERRUPT_DISABLE(s, l).level = x
  <2>1. CASE l \notin y
    BY <1>2, <2>1 DEF INTERRUPT_DISABLE
  <2>2. CASE l \in y
    <3> DEFINE n == IF l \in x THEN k - 1 ELSE k
               u == With(s, n, x, y \ {l})
    <3>1. INTERRUPT_DISABLE(s, l) = goldfish_int_update(u)
      <4>1. [s EXCEPT !.pending_count = IF l \in s.level THEN @ - 1 ELSE @,
                      !.irq_enabled = @ \ {l}] = u
        BY <1>1 DEF Pic, With
      <4> QED BY <2>2, <4>1 DEF INTERRUPT_DISABLE
    <3>2. Cardinality((y \ {l}) \cap x) =
            IF l \in x THEN Cardinality(y \cap x) - 1 ELSE Cardinality(y \cap x)
      BY <1>1, <2>2, RemoveLine
    <3>3. y \ {l} \in SUBSET Line /\ n = Cardinality(x \cap (y \ {l}))
      <4>1. (y \ {l}) \cap x = x \cap (y \ {l})
        OBVIOUS
      <4> QED BY <1>1, <3>2, <4>1
    <3> HIDE DEF n, x, y, k
    <3>4. LET t == goldfish_int_update(u)
          IN  Counted(t) /\ t.level = x /\ t.irq_enabled = y \ {l}
      BY <1>1, <3>3, CountFacts
    <3> QED BY <3>1, <3>4
  <2> QED BY <2>1, <2>2
<1>4. Counted(INTERRUPT_ENABLE(s, l)) /\ INTERRUPT_ENABLE(s, l).level = x
  <2>1. CASE l \in y
    BY <1>2, <2>1 DEF INTERRUPT_ENABLE
  <2>2. CASE l \notin y
    <3> DEFINE n == IF l \in x THEN k + 1 ELSE k
               u == With(s, n, x, y \cup {l})
    <3>1. INTERRUPT_ENABLE(s, l) = goldfish_int_update(u)
      <4>1. [s EXCEPT !.pending_count = IF l \in s.level THEN @ + 1 ELSE @,
                      !.irq_enabled = @ \cup {l}] = u
        BY <1>1 DEF Pic, With
      <4> QED BY <2>2, <4>1 DEF INTERRUPT_ENABLE
    <3>2. Cardinality((y \cup {l}) \cap x) =
            IF l \in x THEN Cardinality(y \cap x) + 1 ELSE Cardinality(y \cap x)
      BY <1>1, <2>2, AddLine
    <3>3. y \cup {l} \in SUBSET Line /\ n = Cardinality(x \cap (y \cup {l}))
      <4>1. (y \cup {l}) \cap x = x \cap (y \cup {l})
        OBVIOUS
      <4> QED BY <1>1, <3>2, <4>1
    <3> HIDE DEF n, x, y, k
    <3>4. LET t == goldfish_int_update(u)
          IN  Counted(t) /\ t.level = x /\ t.irq_enabled = y \cup {l}
      BY <1>1, <3>3, CountFacts
    <3> QED BY <3>1, <3>4
  <2> QED BY <2>1, <2>2
<1> QED BY <1>3, <1>4

LEMMA DisableAllFacts ==
  ASSUME NEW s, Counted(s)
  PROVE  Counted(INTERRUPT_DISABLE_ALL(s)) /\ INTERRUPT_DISABLE_ALL(s).level = {}
<1> DEFINE u == [s EXCEPT !.pending_count = 0, !.level = {}]
<1>1. u \in Pic /\ u.level = {} /\ u.pending_count = 0 /\ PendingLines(u) = {}
  BY DEF Counted, Pic, PendingLines
<1>2. u.pending_count = Cardinality(PendingLines(u))
  BY <1>1, FS_EmptySet
<1> HIDE DEF u
<1>3. Counted(goldfish_int_update(u)) /\ goldfish_int_update(u).level = u.level
  BY <1>1, <1>2, UpdateFacts
<1> QED BY <1>1, <1>3 DEF u, INTERRUPT_DISABLE_ALL

(* When the count is not zero there is an interrupt with the lowest number.*)
LEMMA NumberFacts ==
  ASSUME NEW s, Counted(s), s.pending_count # 0
  PROVE  INTERRUPT_NUMBER(s) \in PendingLines(s)
<1>1. PendingLines(s) # {} /\ PendingLines(s) \subseteq Line
  BY FS_EmptySet DEF Counted, Pic, PendingLines
<1>2. first_device[1] = "bus" /\ first_device[2] = "events" /\ first_device[3] = "pipe"
      /\ DOMAIN first_device = {1, 2, 3}
  BY DEF first_device
<1>3. Number("bus") = 1
  BY <1>2 DEF Number
<1>4. Number("events") = 2
  BY <1>2 DEF Number
<1>5. Number("pipe") = 3
  BY <1>2 DEF Number
<1>6. \E l \in PendingLines(s) : \A m \in PendingLines(s) : Number(l) <= Number(m)
  <2>1. CASE "bus" \in PendingLines(s)
    BY <1>1, <1>3, <1>4, <1>5, <2>1 DEF Line
  <2>2. CASE "bus" \notin PendingLines(s) /\ "events" \in PendingLines(s)
    BY <1>1, <1>4, <1>5, <2>2 DEF Line
  <2>3. CASE PendingLines(s) = {"pipe"}
    BY <1>5, <2>3
  <2> QED BY <1>1, <2>1, <2>2, <2>3 DEF Line
<1> QED BY <1>6 DEF INTERRUPT_NUMBER
-----------------------------------------------------------------------------
(* The inductive invariant.                                                *)
LEMMA InitBoardInv == BoardInit => BoardInv
<1> SUFFICES ASSUME BoardInit PROVE BoardInv
  OBVIOUS
<1>1. pic \in Pic /\ PendingLines(pic) = {} /\ pic.pending_count = 0
      /\ pic.level = {} /\ ~ pic.parent_irq
  BY DEF BoardInit, Pic, PendingLines
<1>2. Counted(pic)
  BY <1>1, FS_EmptySet DEF Counted
<1>3. bus \in Bus /\ found \subseteq Line /\ cpu \in Cpu
  BY DEF BoardInit, Bus, Cpu
<1>4. LineIsDevices /\ HandlerRuns /\ ResetIsQuiet
  BY <1>1 DEF BoardInit, Init, InitDevice, Idle, LineIsDevices, HandlerRuns, ResetIsQuiet
<1>5. InputWaits
  <2>1. input \in Input /\ input.words = 0 /\ input.state = "init" /\ left = 0
    BY DEF BoardInit, Input, MAX_EVENTS
  <2>2. 0 \in Nat /\ input.words = 3 * 0 + left
    BY <2>1
  <2>3. input.words <= MaxInput + 3
    BY <2>1, InputAssumption
  <2> QED BY <1>1, <2>1, <2>2, <2>3 DEF BoardInit, InputWaits
<1> QED BY <1>2, <1>3, <1>4, <1>5 DEF BoardInv

(* What leaves the events device, its line and its handler alone.          *)
LEMMA OthersKeepInput ==
  ASSUME BoardInv, UNCHANGED <<input, left>>,
         "events" \in pic'.level <=> "events" \in pic.level,
         cpu' = "events" <=> cpu = "events"
  PROVE  InputWaits'
BY DEF BoardInv, InputWaits

LEMMA PutKeeps == ASSUME BoardInv, KeyEvent PROVE BoardInv'
<1>1. input \in Input /\ input.words \in Nat /\ input.words <= MaxInput /\ Counted(pic)
  BY DEF BoardInv, InputWaits, KeyEvent, Input
<1>2. ~ Full(input) /\ (input.words + 3) % MAX_EVENTS = input.words + 3
      /\ input.words + 3 \in 0..(MAX_EVENTS - 1) /\ input.words + 3 > 0
      /\ input.words + 3 <= MaxInput + 3
  BY <1>1, InputAssumption DEF Full, MAX_EVENTS
<1>3. /\ input' \in Input /\ input'.words = input.words + 3
      /\ input'.state = IF input.words = 0 /\ input.state # "live"
                        THEN "buffered" ELSE input.state
  <2>1. input' = [state |-> IF input.words = 0 /\ input.state # "live"
                            THEN "buffered" ELSE input.state,
                  words |-> input.words + 3]
    BY <1>2 DEF KeyEvent, enqueue_event
  <2>2. input.state \in {"init", "buffered", "live"}
    BY <1>1 DEF Input
  <2> QED BY <1>2, <2>1, <2>2 DEF Input
<1>4. /\ Counted(pic')
      /\ pic'.level = IF Raises(input) THEN pic.level \cup {"events"} ELSE pic.level
  BY <1>1, SetIrqFacts DEF KeyEvent, Line
<1>5. \E n \in Nat : input'.words = 3 * n + left'
  <2>1. left \in 0..3
    BY DEF BoardInv, InputWaits
  <2>2. PICK n \in Nat : input.words = 3 * n + left
    BY DEF BoardInv, InputWaits
  <2>3. n + 1 \in Nat /\ input'.words = 3 * (n + 1) + left'
    BY <1>3, <2>1, <2>2 DEF KeyEvent
  <2> QED BY <2>3
<1>6. InputWaits'
  <2>1. (input'.state = "live" /\ input'.words > 0) <=> "events" \in pic'.level
    BY <1>1, <1>2, <1>3, <1>4 DEF BoardInv, InputWaits, Raises
  <2>2. /\ input'.state = "init" => input'.words = 0
        /\ input'.state = "buffered" => input'.words > 0
        /\ input'.words <= MaxInput + 3
    BY <1>1, <1>2, <1>3 DEF BoardInv, InputWaits
  <2> QED BY <1>3, <1>5, <2>1, <2>2 DEF BoardInv, InputWaits, KeyEvent
<1>7. LineIsDevices' /\ HandlerRuns'
  BY <1>4 DEF BoardInv, KeyEvent, pipe, vars, LineIsDevices, HandlerRuns
<1>8. ResetIsQuiet'
  BY <1>3, <1>4 DEF BoardInv, KeyEvent, pipe, vars, ResetIsQuiet, Raises
<1> QED BY <1>4, <1>6, <1>7, <1>8 DEF BoardInv, KeyEvent

(* Neither a command nor a service touches the guest's handler.            *)
LEMMA HandlerStays == Command \/ Signal \/ ServiceEvent => isr' = isr
BY DEF Command, Signal, ServiceEvent, Open, Close, Connect, Transfer, WakeOn,
       Interrupted, guest

LEMMA PipeKeeps ==
  ASSUME BoardInv, PipeCommand \/ PipeService
  PROVE  BoardInv'
<1>1. Counted(pic) /\ "pipe" \in Line /\ pic' = goldfish_int_set_irq(pic, "pipe", dev'.irq)
      /\ UNCHANGED <<bus, found, input, cpu, left>> /\ isr' = isr
  BY HandlerStays DEF BoardInv, PipeCommand, PipeService, PipeLine, Line
<1>2. /\ Counted(pic')
      /\ dev'.irq => pic'.level = pic.level \cup {"pipe"}
      /\ ~ dev'.irq => pic'.level = pic.level \ {"pipe"}
  BY <1>1, PipeLineFacts
<1>3. InputWaits'
  BY <1>1, <1>2, OthersKeepInput
<1>4. LineIsDevices' /\ HandlerRuns'
  BY <1>1, <1>2 DEF BoardInv, LineIsDevices, HandlerRuns
<1>5. cpu # "reset"
  <2>1. CASE PipeCommand
    BY <2>1 DEF PipeCommand
  <2>2. CASE PipeService
    <3>1. PICK p \in Served(dev) : TRUE
      BY <2>2 DEF PipeService, ServiceEvent
    <3>2. dev # InitDevice
      BY <3>1 DEF Served, InitDevice, ToSet
    <3> QED BY <3>2 DEF BoardInv, ResetIsQuiet
  <2> QED BY <2>1, <2>2
<1> QED BY <1>1, <1>2, <1>3, <1>4, <1>5 DEF BoardInv, ResetIsQuiet

LEMMA KernelStarts ==
  ASSUME BoardInv, Boot \/ goldfish_bus_op_init \/ EventsReady \/ \E l \in Line : Enable(l)
  PROVE  BoardInv'
<1>1. Counted(pic) /\ UNCHANGED pipe /\ UNCHANGED left
  BY DEF BoardInv, Boot, goldfish_bus_op_init, EventsReady, Enable
<1>2. CASE Boot
  <2>1. Counted(pic') /\ pic'.level = {} /\ pic.level = {} /\ cpu = "reset" /\ cpu' = "threads"
    BY <1>1, <1>2, DisableAllFacts DEF Boot, BoardInv, ResetIsQuiet
  <2>2. InputWaits'
    BY <1>2, <2>1, OthersKeepInput DEF Boot
  <2> QED BY <1>1, <1>2, <2>1, <2>2
          DEF Boot, BoardInv, pipe, vars, LineIsDevices, HandlerRuns, ResetIsQuiet, Cpu
<1>3. CASE goldfish_bus_op_init
  <2>1. Counted(pic') /\ pic'.level = pic.level \cup {"bus"}
    BY <1>1, <1>3, SetIrqFacts DEF goldfish_bus_op_init, Line
  <2>2. InputWaits'
    BY <1>3, <2>1, OthersKeepInput DEF goldfish_bus_op_init
  <2>3. bus' \in Bus /\ found' \subseteq Line
    BY <1>3 DEF goldfish_bus_op_init, Bus, Line, first_device
  <2> QED BY <1>1, <1>3, <2>1, <2>2, <2>3
          DEF goldfish_bus_op_init, BoardInv, pipe, vars, LineIsDevices, HandlerRuns, ResetIsQuiet
<1>4. CASE EventsReady
  <2>1. /\ Counted(pic')
        /\ pic'.level = IF input.state = "buffered" THEN pic.level \cup {"events"} ELSE pic.level
    BY <1>1, <1>4, SetIrqFacts DEF EventsReady, Line
  <2>2. input' = [input EXCEPT !.state = "live"] /\ input.state # "live" /\ input \in Input
    BY <1>4 DEF EventsReady, BoardInv, InputWaits
  <2>3. input' \in Input /\ input'.state = "live" /\ input'.words = input.words
        /\ input.words \in Nat
    BY <2>2 DEF Input
  <2>4. InputWaits'
    <3>1. (input'.state = "live" /\ input'.words > 0) <=> "events" \in pic'.level
      <4>1. input.state = "init" \/ input.state = "buffered"
        BY <2>2 DEF Input
      <4> QED BY <2>1, <2>2, <2>3, <4>1 DEF BoardInv, InputWaits
    <3> QED BY <1>1, <1>4, <2>2, <2>3, <3>1 DEF EventsReady, BoardInv, InputWaits
  <2> QED BY <1>1, <1>4, <2>1, <2>4
          DEF EventsReady, BoardInv, pipe, vars, LineIsDevices, HandlerRuns, ResetIsQuiet
<1>5. CASE \E l \in Line : Enable(l)
  <2>1. Counted(pic') /\ pic'.level = pic.level /\ UNCHANGED <<bus, found, input, cpu, left>>
    BY <1>1, <1>5, MaskFacts DEF Enable
  <2>2. InputWaits'
    BY <2>1, OthersKeepInput
  <2> QED BY <1>1, <2>1, <2>2
          DEF BoardInv, pipe, vars, LineIsDevices, HandlerRuns, ResetIsQuiet
<1> QED BY <1>2, <1>3, <1>4, <1>5

(* What the processor dispatches is high at the controller.                *)
LEMMA DispatchFacts ==
  ASSUME BoardInv, Dispatch, pic.pending_count # 0
  PROVE  /\ cpu' = INTERRUPT_NUMBER(pic) /\ cpu' \in pic.level /\ cpu' \in Line
         /\ Counted(pic') /\ pic'.level = pic.level
<1>1. Counted(pic)
  BY DEF BoardInv
<1>2. INTERRUPT_NUMBER(pic) \in PendingLines(pic)
  BY <1>1, NumberFacts
<1>3. INTERRUPT_NUMBER(pic) \in pic.level /\ INTERRUPT_NUMBER(pic) \in Line
  BY <1>1, <1>2 DEF Counted, Pic, PendingLines
<1>4. cpu' = INTERRUPT_NUMBER(pic) /\ pic' = INTERRUPT_DISABLE(pic, INTERRUPT_NUMBER(pic))
  BY DEF Dispatch
<1> QED BY <1>1, <1>3, <1>4, MaskFacts

LEMMA DispatchKeeps ==
  ASSUME BoardInv, Interrupt \/ Dispatch
  PROVE  BoardInv'
<1>1. CASE Interrupt
  <2>1. InputWaits'
    BY <1>1, OthersKeepInput DEF Interrupt
  <2> QED BY <1>1, <2>1
          DEF Interrupt, BoardInv, pipe, vars, LineIsDevices, HandlerRuns, ResetIsQuiet, Cpu
<1>2. CASE Dispatch /\ pic.pending_count = 0
  <2>1. cpu = "dispatch" /\ cpu' = "threads"
        /\ UNCHANGED <<pic, isr, left, dev, bus, found, input>>
    BY <1>2 DEF Dispatch
  <2>2. InputWaits'
    BY <2>1, OthersKeepInput
  <2> QED BY <2>1, <2>2
          DEF BoardInv, LineIsDevices, HandlerRuns, ResetIsQuiet, Cpu
<1>3. CASE Dispatch /\ pic.pending_count # 0
  <2>1. /\ cpu = "dispatch" /\ cpu' \in pic.level /\ cpu' \in Line
        /\ Counted(pic') /\ pic'.level = pic.level
        /\ left' = IF cpu' = "events" THEN 3 ELSE left
        /\ isr' = IF cpu' = "pipe" THEN [at |-> "list", chan |-> 0] ELSE isr
        /\ UNCHANGED <<dev, bus, found, input>>
    <3>1. cpu' = INTERRUPT_NUMBER(pic)
      BY <1>3, DispatchFacts
    <3> QED BY <1>3, <3>1, DispatchFacts DEF Dispatch
  <2>2. LineIsDevices' /\ HandlerRuns' /\ ResetIsQuiet' /\ cpu' \in Cpu
    BY <2>1 DEF BoardInv, LineIsDevices, HandlerRuns, ResetIsQuiet, Cpu, Line
  <2>3. InputWaits'
    <3>1. CASE cpu' # "events"
      BY <2>1, <3>1, OthersKeepInput
    <3>2. CASE cpu' = "events"
      <4>1. input.state = "live" /\ input.words > 0 /\ left = 0 /\ left' = 3
        BY <2>1, <3>2 DEF BoardInv, InputWaits
      <4>2. PICK n \in Nat : input.words = 3 * n + left
        BY DEF BoardInv, InputWaits
      <4>3. n - 1 \in Nat /\ input'.words = 3 * (n - 1) + left'
        BY <2>1, <4>1, <4>2
      <4>4. \E m \in Nat : input'.words = 3 * m + left'
        BY <4>3
      <4> QED BY <2>1, <3>2, <4>1, <4>4 DEF BoardInv, InputWaits
    <3> QED BY <3>1, <3>2
  <2> QED BY <2>1, <2>2, <2>3 DEF BoardInv
<1> QED BY <1>1, <1>2, <1>3

LEMMA NextDeviceFacts ==
  ASSUME NEW b \in Bus
  PROVE  NextDevice(b) \in Bus /\ NextDevice(b).current \in 0..3
<1> DEFINE told == IF b.current = 0 THEN b.reported ELSE b.reported \cup {b.current}
           rest == {j \in DOMAIN first_device : j > b.current} \ told
<1>1. Len(first_device) = 3 /\ DOMAIN first_device = {1, 2, 3}
  BY DEF first_device
<1>2. b.current \in 0..3 /\ b.reported \subseteq 1..3
  BY <1>1 DEF Bus
<1>3. told \subseteq 1..3 /\ rest \subseteq {1, 2, 3}
  BY <1>1, <1>2
<1>4. NextDevice(b) = [current |-> IF rest = {} THEN 0 ELSE Min(rest), reported |-> told]
  BY Zenon DEF NextDevice
<1> HIDE DEF told, rest
<1>5. rest # {} => Min(rest) \in rest
  <2>1. rest # {} => \E x \in rest : \A y \in rest : x <= y
    <3>1. CASE 1 \in rest
      BY <1>3, <3>1
    <3>2. CASE 1 \notin rest /\ 2 \in rest
      BY <1>3, <3>2
    <3>3. CASE 1 \notin rest /\ 2 \notin rest
      <4>1. rest # {} => rest = {3}
        BY <1>3, <3>3
      <4> QED BY <4>1
    <3> QED BY <3>1, <3>2, <3>3
  <2> QED BY <2>1 DEF Min
<1>6. NextDevice(b).reported = told /\ NextDevice(b).current \in 0..3
  <2>1. NextDevice(b).current = IF rest = {} THEN 0 ELSE Min(rest)
    BY <1>4
  <2>2. rest # {} => Min(rest) \in 0..3
    <3>1. {1, 2, 3} \subseteq 0..3
      OBVIOUS
    <3> QED BY <1>3, <1>5, <3>1, Zenon
  <2>3. NextDevice(b).reported = told
    BY <1>4
  <2>4. 0 \in 0..3
    OBVIOUS
  <2> QED BY <2>1, <2>2, <2>3, <2>4
<1>7. Bus = [current: 0..3, reported: SUBSET (1..3)]
  BY <1>1 DEF Bus
<1> QED BY <1>3, <1>4, <1>6, <1>7

LEMMA HandlersKeep ==
  ASSUME BoardInv, BusHandler \/ EventsHandler \/ PipeHandler
  PROVE  BoardInv'
<1>1. Counted(pic)
  BY DEF BoardInv
<1>2. CASE BusHandler
  <2>1. UNCHANGED pipe /\ UNCHANGED <<input, left>> /\ cpu = "bus" /\ bus' = NextDevice(bus)
    BY <1>2 DEF BusHandler
  <2>2. bus' \in Bus /\ bus'.current \in 0..3
    BY <2>1, NextDeviceFacts DEF BoardInv
  <2>3. CASE bus'.current = 0
    <3>1. pic' = INTERRUPT_ENABLE(goldfish_int_set_irq(pic, "bus", FALSE), "bus")
          /\ cpu' = "dispatch" /\ found' = found
      BY <1>2, <2>3 DEF BusHandler
    <3> DEFINE s == goldfish_int_set_irq(pic, "bus", FALSE)
    <3>2. Counted(s) /\ s.level = pic.level \ {"bus"}
      BY <1>1, SetIrqFacts DEF Line
    <3> HIDE DEF s
    <3>3. Counted(pic') /\ pic'.level = pic.level \ {"bus"}
      <4>1. Counted(INTERRUPT_ENABLE(s, "bus")) /\ INTERRUPT_ENABLE(s, "bus").level = s.level
        BY <3>2, MaskFacts DEF Line
      <4> QED BY <3>1, <3>2, <4>1 DEF s
    <3>4. InputWaits'
      BY <2>1, <3>1, <3>3, OthersKeepInput
    <3> QED BY <2>1, <2>2, <3>1, <3>3, <3>4
            DEF BoardInv, pipe, vars, LineIsDevices, HandlerRuns, ResetIsQuiet, Cpu
  <2>4. CASE bus'.current # 0
    <3>1. found' = found \cup {first_device[bus'.current]} /\ UNCHANGED <<cpu, pic>>
      BY <1>2, <2>4 DEF BusHandler
    <3>2. first_device[bus'.current] \in Line
      BY <2>2, <2>4 DEF first_device, Line
    <3>3. InputWaits'
      BY <2>1, <3>1, OthersKeepInput
    <3> QED BY <2>1, <2>2, <3>1, <3>2, <3>3
            DEF BoardInv, pipe, vars, LineIsDevices, HandlerRuns, ResetIsQuiet
  <2> QED BY <2>3, <2>4
<1>3. CASE EventsHandler
  <2>1. UNCHANGED pipe /\ UNCHANGED <<bus, found>> /\ cpu = "events"
        /\ input.state = "live" /\ left \in 0..3 /\ input \in Input
    BY <1>3 DEF EventsHandler, BoardInv, InputWaits
  <2>2. CASE left = 0
    <3>1. cpu' = "dispatch" /\ Counted(pic') /\ pic'.level = pic.level /\ UNCHANGED <<input, left>>
      BY <1>1, <1>3, <2>2, MaskFacts DEF EventsHandler, Done, Line
    <3>2. InputWaits'
      BY <2>1, <2>2, <3>1 DEF BoardInv, InputWaits
    <3> QED BY <2>1, <3>1, <3>2
            DEF BoardInv, pipe, vars, LineIsDevices, HandlerRuns, ResetIsQuiet, Cpu
  <2>3. CASE left # 0
    <3>1. left' = left - 1 /\ input' = dequeue_event(input) /\ cpu' = cpu
      BY <1>3, <2>3 DEF EventsHandler
    <3>2. /\ Counted(pic')
          /\ pic'.level = IF Lowers(input) THEN pic.level \ {"events"} ELSE pic.level
      <4>1. pic' = IF Lowers(input) THEN goldfish_int_set_irq(pic, "events", FALSE) ELSE pic
        BY <1>3, <2>3 DEF EventsHandler
      <4>2. "events" \in Line
        BY DEF Line
      <4> QED BY <1>1, <4>1, <4>2, SetIrqFacts
    <3>3. PICK n \in Nat : input.words = 3 * n + left
      BY DEF BoardInv, InputWaits
    <3>4. input.words \in 1..(MAX_EVENTS - 1)
      BY <2>1, <2>3, <3>3 DEF Input, MAX_EVENTS
    <3>5. input' \in Input /\ input'.words = input.words - 1 /\ input'.state = "live"
      BY <2>1, <3>1, <3>4 DEF dequeue_event, Input, MAX_EVENTS
    <3>6. InputWaits'
      <4>1. input'.words = 3 * n + left' /\ left' \in 0..3
        BY <2>1, <2>3, <3>1, <3>3, <3>5
      <4>2. (input'.state = "live" /\ input'.words > 0) <=> "events" \in pic'.level
        BY <2>1, <3>2, <3>4, <3>5 DEF BoardInv, InputWaits, Lowers, MAX_EVENTS
      <4>3. input'.words <= MaxInput + 3
        BY <3>4, <3>5, InputAssumption DEF BoardInv, InputWaits, MAX_EVENTS
      <4> QED BY <2>1, <3>1, <3>5, <4>1, <4>2, <4>3 DEF InputWaits
    <3> QED BY <2>1, <3>1, <3>2, <3>6
            DEF BoardInv, pipe, vars, LineIsDevices, HandlerRuns, ResetIsQuiet
  <2> QED BY <2>2, <2>3
<1>4. CASE PipeHandler
  <2>1. cpu = "pipe" /\ UNCHANGED <<bus, found, input, left>>
    BY <1>4 DEF PipeHandler
  <2>2. CASE isr'.at = "idle"
    <3>1. dev' = dev
      BY <1>4, <2>2 DEF PipeHandler, IsrChannel, IsrWakes
    <3>2. cpu' = "dispatch" /\ Counted(pic') /\ pic'.level = pic.level
      BY <1>1, <1>4, <2>2, MaskFacts DEF PipeHandler, Done, Line
    <3>3. InputWaits'
      BY <2>1, <3>2, OthersKeepInput
    <3> QED BY <2>1, <2>2, <3>1, <3>2, <3>3
            DEF BoardInv, LineIsDevices, HandlerRuns, ResetIsQuiet, Cpu
  <2>3. CASE isr'.at # "idle"
    <3>1. cpu' = cpu /\ pic' = goldfish_int_set_irq(pic, "pipe", dev'.irq) /\ "pipe" \in Line
      BY <1>4, <2>3 DEF PipeHandler, PipeLine, Line
    <3>2. /\ Counted(pic')
          /\ dev'.irq => pic'.level = pic.level \cup {"pipe"}
          /\ ~ dev'.irq => pic'.level = pic.level \ {"pipe"}
      BY <1>1, <3>1, PipeLineFacts
    <3>3. InputWaits'
      BY <2>1, <3>1, <3>2, OthersKeepInput
    <3> QED BY <2>1, <2>3, <3>1, <3>2, <3>3
            DEF BoardInv, LineIsDevices, HandlerRuns, ResetIsQuiet
  <2> QED BY <2>2, <2>3
<1> QED BY <1>2, <1>3, <1>4

LEMMA NextBoardInv == BoardInv /\ [BoardNext]_allVars => BoardInv'
<1> SUFFICES ASSUME BoardInv, [BoardNext]_allVars PROVE BoardInv'
  OBVIOUS
<1>1. CASE UNCHANGED allVars
  BY <1>1 DEF allVars, vars, board, BoardInv, Counted, PendingLines, LineIsDevices,
              HandlerRuns, ResetIsQuiet, InputWaits
<1> QED BY <1>1, PutKeeps, PipeKeeps, KernelStarts, DispatchKeeps, HandlersKeep
        DEF BoardNext, Kernel

(* A step of the board is one of GoldfishPipe, or leaves it as it was.     *)
LEMMA StepIsPipes == BoardInv /\ [BoardNext]_allVars => [Next]_vars
<1> SUFFICES ASSUME BoardInv, [BoardNext]_allVars PROVE [Next]_vars
  OBVIOUS
<1>1. CASE UNCHANGED pipe \/ UNCHANGED allVars
  BY <1>1 DEF pipe, allVars
<1>2. CASE PipeCommand \/ PipeService \/ PipeHandler
  BY <1>2 DEF PipeCommand, PipeService, PipeHandler, Next
<1>3. CASE Dispatch
  <2>1. CASE pic.pending_count = 0
    BY <1>3, <2>1 DEF Dispatch, vars
  <2>2. CASE pic.pending_count # 0
    <3>1. cpu = "dispatch" /\ cpu' = INTERRUPT_NUMBER(pic) /\ cpu' \in pic.level
      BY <1>3, <2>2, DispatchFacts DEF Dispatch
    <3>2. CASE cpu' = "pipe"
      <4>1. isr.at = "idle" /\ dev.irq
        BY <3>1, <3>2 DEF BoardInv, HandlerRuns, LineIsDevices
      <4> QED BY <1>3, <2>2, <3>1, <3>2, <4>1 DEF Dispatch, IsrEnter, Next
    <3>3. CASE cpu' # "pipe"
      BY <1>3, <2>2, <3>1, <3>3 DEF Dispatch, vars
    <3> QED BY <3>2, <3>3
  <2> QED BY <2>1, <2>2
<1>4. CASE KeyEvent \/ Boot \/ goldfish_bus_op_init \/ EventsReady \/ Interrupt
           \/ BusHandler \/ EventsHandler \/ \E l \in Line : Enable(l)
  BY <1>1, <1>4 DEF KeyEvent, Boot, goldfish_bus_op_init, EventsReady, Interrupt,
                    BusHandler, EventsHandler, Enable
<1> QED BY <1>1, <1>2, <1>3, <1>4 DEF BoardNext, Kernel

-----------------------------------------------------------------------------
(* Every reachable state of the board satisfies the inductive invariant.   *)
THEOREM BoardInvariant == BoardSpec => []BoardInv
BY InitBoardInv, NextBoardInv, PTL DEF BoardSpec

(* The guest behind the controller is a guest of GoldfishPipe, so that the *)
(* device's theorems hold of it (goldfish_int_set_irq).                    *)
THEOREM BoardIsGoldfishPipe == BoardSpec => IsGoldfishPipe
<1>1. BoardInit => Init
  BY DEF BoardInit
<1> QED BY <1>1, StepIsPipes, BoardInvariant, PTL DEF BoardSpec, IsGoldfishPipe, Spec

(* The count the guest goes by and the processor's line are right.         *)
THEOREM CountIsRight == BoardSpec => []PendingIsCounted
<1>1. BoardInv => PendingIsCounted
  BY DEF BoardInv, Counted, PendingIsCounted
<1> QED BY <1>1, BoardInvariant, PTL

(* What waits in a device holds its line at the controller: DISABLE_ALL    *)
(* never clears a line that is high.                                       *)
THEOREM DevicesAreHeard == BoardSpec => []WaitingIsHeard
<1>1. BoardInv /\ SignalHoldsLine => WaitingIsHeard
  BY DEF BoardInv, LineIsDevices, InputWaits, SignalHoldsLine, WaitingIsHeard
<1> QED BY <1>1, BoardInvariant, BoardIsGoldfishPipe, LineStaysHigh, PTL DEF IsGoldfishPipe

(* The controller, the bus, the input and the processor are of their types.*)
THEOREM BoardTypeCorrect == BoardSpec => []BoardTypeOK
<1>1. BoardInv => BoardTypeOK
  BY DEF BoardInv, Counted, InputWaits, BoardTypeOK
<1> QED BY <1>1, BoardInvariant, PTL

(* The guest's handler reads whole events.                                 *)
THEOREM EventsAreWhole == BoardSpec => []EventsStayWhole
<1>1. BoardInv => EventsStayWhole
  <2> SUFFICES ASSUME BoardInv PROVE EventsStayWhole
    OBVIOUS
  <2>1. left \in {0, 1, 2, 3}
    BY DEF BoardInv, InputWaits
  <2>2. PICK n \in Nat : input.words = 3 * n + left
    BY DEF BoardInv, InputWaits
  <2>3. (3 * n + left) % 3 = left % 3
    BY <2>1
  <2> QED BY <2>2, <2>3 DEF EventsStayWhole
<1> QED BY <1>1, BoardInvariant, PTL
=============================================================================
