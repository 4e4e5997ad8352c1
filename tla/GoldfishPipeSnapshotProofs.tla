--------------------- MODULE GoldfishPipeSnapshotProofs ---------------------
(***************************************************************************)
(* The safety of GoldfishPipeSnapshot: what GoldfishPipe promises holds    *)
(* across snapshots that are saved at any moment and loaded into any       *)
(* machine, and whoever slept when one was saved is about to be woken when *)
(* it is loaded.                                                           *)
(*                                                                         *)
(* ChannelsDiffer, on which the proofs of GoldfishPipe rest, is lost by a  *)
(* load into the running machine.  What carries these proofs is the first  *)
(* pipe of a channel, which lookups find: nothing that pushes or removes a *)
(* pipe of another channel changes it.  And since a load sets the line to  *)
(* what the interrupt controller had saved, the line being high for the    *)
(* pipes signaled before the load rests on their recording something       *)
(* (SignaledWant), for which the loop at the end of the load wakes them.   *)
(***************************************************************************)
EXTENDS GoldfishPipeSnapshot, GoldfishPipeProofs

(* A pipe is in the handler's list only with something to tell.            *)
SignaledWant(d) == \A p \in ToSet(d.signaled) : d.node[p].wanted # {}

HasChannels(d) == \A p \in ToSet(d.pipes) : d.node[p].channel \in Channel

DeviceOK(d) == d \in Device /\ Linked(d) /\ HasChannels(d) /\ SignaledWant(d)

(* From d to e a lookup of channel c finds the same pipe, which records no *)
(* less and is still listed if it was.                                     *)
SameFor(d, e, c) ==
  LET p == PipeOf(d, c)
  IN  HasPipe(d, c) =>
        /\ HasPipe(e, c) /\ PipeOf(e, c) = p
        /\ d.node[p].wanted \subseteq e.node[p].wanted
        /\ p \in ToSet(d.signaled) => p \in ToSet(e.signaled)

(* Request e of channel c is recorded by the pipe that a lookup finds, and *)
(* the pipe is listed.                                                     *)
Asked(d, c, e) == HasPipe(d, c) /\ e \in d.node[PipeOf(d, c)].wanted
Listed(d, c) == HasPipe(d, c) /\ PipeOf(d, c) \in ToSet(d.signaled)

(* What a snapshot holds.                                                  *)
SavedPipe == [channel: Channel, wanted: SUBSET Event,
              closed: BOOLEAN, service: Service \cup {Connector}]

FileOK ==
  /\ snap.file.pipes \in Seq(SavedPipe)
  /\ snap.file.wakes \in SUBSET Event
  /\ snap.line \in BOOLEAN
  /\ snap.fds \subseteq Channel
  /\ snap.again \in [Channel -> SUBSET IoEvent]
  /\ snap.asleep \in [Channel -> SUBSET IoEvent]
  /\ snap.isr \in Isr
  /\ \A i \in 1..Len(snap.file.pipes) :
       snap.raised[i] \in SUBSET snap.file.pipes[i].wanted

(* Every sleeper has its request in the file.                              *)
FileHears ==
  \A c \in Channel : \A e \in snap.asleep[c] :
    \E i \in 1..Len(snap.file.pipes) :
      /\ snap.file.pipes[i].channel = c
      /\ \/ e \in snap.file.pipes[i].wanted
         \/ snap.isr.at = "mask" /\ snap.isr.chan = c /\ e \in snap.file.wakes

SnapInv ==
  /\ TypeOK
  /\ DeviceOK(dev)
  /\ Pending(dev, raised)
  /\ resumed \subseteq Sleepers(asleep)
  /\ SleepersAreHeard
  /\ ResumedAreWoken
  /\ snap.taken => FileOK /\ (~ mixed /\ OnePipeEach(snap.file) => FileHears)

-----------------------------------------------------------------------------
(* Lookups.                                                                *)

(* A lookup depends on the list of pipes and on their channels only.       *)
LEMMA LookupSame ==
  ASSUME NEW d \in Device, NEW e, e.pipes = d.pipes,
         \A q \in PipeId : e.node[q].channel = d.node[q].channel, NEW c
  PROVE  /\ HasPipe(e, c) <=> HasPipe(d, c)
         /\ PipeOf(e, c) = PipeOf(d, c)
<1>1. \A i \in 1..Len(d.pipes) : d.pipes[i] \in PipeId
  BY DEF Device
<1>2. PlacesOf(e, c) = PlacesOf(d, c)
  BY <1>1 DEF PlacesOf
<1>3. pipe_list_findp_channel(e, c) = pipe_list_findp_channel(d, c)
  BY <1>2 DEF pipe_list_findp_channel
<1> QED BY <1>3 DEF HasPipe, PipeOf

(* So does what is found when pipes only record more, or are listed.       *)
LEMMA RecordSame ==
  ASSUME NEW d \in Device, NEW e, e.pipes = d.pipes,
         ToSet(d.signaled) \subseteq ToSet(e.signaled),
         \A q \in PipeId : /\ e.node[q].channel = d.node[q].channel
                           /\ d.node[q].wanted \subseteq e.node[q].wanted,
         NEW c
  PROVE  SameFor(d, e, c)
<1>1. /\ HasPipe(e, c) <=> HasPipe(d, c)
      /\ PipeOf(e, c) = PipeOf(d, c)
  BY LookupSame
<1>2. HasPipe(d, c) => PipeOf(d, c) \in PipeId
  BY LookupFacts
<1> QED BY <1>1, <1>2 DEF SameFor

LEMMA GrowsSame ==
  ASSUME NEW d \in Device, NEW e, Grows(d, e), NEW c
  PROVE  SameFor(d, e, c)
BY RecordSame DEF Grows

LEMMA SameTransitive ==
  ASSUME NEW d, NEW e, NEW f, NEW c, SameFor(d, e, c), SameFor(e, f, c)
  PROVE  SameFor(d, f, c)
BY DEF SameFor

(* A pipe that is pushed hides none of another channel.                    *)
LEMMA PipeNewSame ==
  ASSUME NEW d \in Device, Linked(d), NEW c \in Channel, ~ HasPipe(d, c),
         NEW p \in PipeId \ ToSet(d.pipes), NEW k, k # c
  PROVE  SameFor(d, pipe_new(d, c, p), k)
<1> SUFFICES ASSUME HasPipe(d, k) PROVE SameFor(d, pipe_new(d, c, p), k)
  BY DEF SameFor
<1>0. PICK e : e = pipe_new(d, c, p)
  OBVIOUS
<1>1. /\ e \in Device /\ e.signaled = d.signaled /\ e.node[p].channel = c
      /\ \A q \in PipeId \ {p} : e.node[q] = d.node[q]
  BY <1>0, PipeNewFacts
<1>2. PICK s : s = d.pipes
  OBVIOUS
<1>3. PICK n \in Nat : n = Len(s) /\ s \in Seq(PipeId)
  BY <1>2 DEF Device
<1>4. PICK t : t = <<p>> \o s
  OBVIOUS
<1>5. e.pipes = t
  BY <1>0, <1>2, <1>4 DEF pipe_new, Device
<1>6. /\ Len(t) = n + 1 /\ t[1] = p
      /\ \A i \in 1..n : t[i + 1] = s[i]
  <2>1. <<p>> \in Seq(PipeId) /\ Len(<<p>>) = 1 /\ <<p>>[1] = p
    OBVIOUS
  <2>2. /\ Len(t) = 1 + n
        /\ \A i \in 1..(1 + n) : t[i] = IF i <= 1 THEN <<p>>[i] ELSE s[i - 1]
    BY <1>3, <1>4, <2>1, ConcatProperties
  <2>3. \A i \in 1..n : i + 1 \in 1..(1 + n) /\ ~ (i + 1 <= 1) /\ (i + 1) - 1 = i
    OBVIOUS
  <2> QED BY <2>1, <2>2, <2>3
<1>7. PICK i \in 1..n : First(d, k, i)
  BY <1>2, <1>3, LookupFacts DEF First
<1>8. \A j \in 1..n : s[j] \in PipeId \ {p}
  BY <1>2, <1>3 DEF ToSet
<1>9. First(e, k, i + 1)
  <2>1. i + 1 \in 1..(n + 1) /\ e.node[t[i + 1]].channel = k
    BY <1>1, <1>2, <1>6, <1>7, <1>8 DEF First
  <2>2. ASSUME NEW j \in 1..(n + 1), e.node[t[j]].channel = k PROVE i + 1 <= j
    <3>1. j # 1
      BY <1>1, <1>6, <2>2
    <3>2. j - 1 \in 1..n /\ (j - 1) + 1 = j
      BY <3>1
    <3>3. d.node[s[j - 1]].channel = k
      BY <1>1, <1>6, <1>8, <2>2, <3>2
    <3>4. i <= j - 1
      BY <1>2, <1>3, <1>7, <3>2, <3>3 DEF First
    <3> QED BY <3>2, <3>4
  <2> QED BY <1>5, <1>6, <2>1, <2>2 DEF First
<1>10. HasPipe(e, k) /\ PipeOf(e, k) = t[i + 1]
  BY <1>1, <1>5, <1>9, LookupIsFirst
<1>11. PipeOf(d, k) = s[i]
  BY <1>2, <1>7, LookupIsFirst
<1>12. e.node[s[i]] = d.node[s[i]]
  BY <1>1, <1>7, <1>8
<1> QED BY <1>0, <1>1, <1>6, <1>7, <1>10, <1>11, <1>12 DEF SameFor

(* What RemoveAt leaves, place by place.                                   *)
LEMMA RemoveAtPlaces ==
  ASSUME NEW S, NEW s \in Seq(S), NEW k \in 1..Len(s)
  PROVE  /\ Len(RemoveAt(s, k)) = Len(s) - 1
         /\ \A i \in 1..(Len(s) - 1) :
              RemoveAt(s, k)[i] = IF i < k THEN s[i] ELSE s[i + 1]
<1>1. PICK n \in Nat : n = Len(s) /\ k \in 1..n
  BY LenProperties
<1>2. PICK a, b : a = SubSeq(s, 1, k - 1) /\ b = SubSeq(s, k + 1, n)
  OBVIOUS
<1>3. RemoveAt(s, k) = a \o b
  BY <1>1, <1>2 DEF RemoveAt
<1>4. a \in Seq(S) /\ Len(a) = k - 1 /\ \A i \in 1..(k - 1) : a[i] = s[i]
  <2>1. /\ a \in Seq(S)
        /\ Len(a) = IF 1 <= k - 1 THEN (k - 1) - 1 + 1 ELSE 0
        /\ \A i \in 1..((k - 1) - 1 + 1) : a[i] = s[1 + i - 1]
    BY <1>1, <1>2, SubSeqProperties, 1 \in Int, k - 1 \in Int, \A i \in 1..(k - 1) : s[i] \in S
  <2> QED BY <1>1, <2>1
<1>5. b \in Seq(S) /\ Len(b) = n - k /\ \A i \in 1..(n - k) : b[i] = s[k + i]
  <2>1. /\ b \in Seq(S)
        /\ Len(b) = IF k + 1 <= n THEN n - (k + 1) + 1 ELSE 0
        /\ \A i \in 1..(n - (k + 1) + 1) : b[i] = s[(k + 1) + i - 1]
    BY <1>1, <1>2, SubSeqProperties, k + 1 \in Int, n \in Int,
       \A i \in (k + 1)..n : s[i] \in S
  <2> QED BY <1>1, <2>1
<1>6. PICK t : t = a \o b
  OBVIOUS
<1>7. /\ Len(t) = Len(a) + Len(b)
      /\ \A i \in 1..(Len(a) + Len(b)) :
           t[i] = IF i <= Len(a) THEN a[i] ELSE b[i - Len(a)]
  BY <1>4, <1>5, <1>6, ConcatProperties
<1>8. Len(t) = n - 1
  BY <1>1, <1>4, <1>5, <1>7
<1>9. ASSUME NEW i \in 1..(n - 1) PROVE t[i] = IF i < k THEN s[i] ELSE s[i + 1]
  <2>1. t[i] = IF i <= k - 1 THEN a[i] ELSE b[i - (k - 1)]
    BY <1>1, <1>4, <1>5, <1>7
  <2>2. CASE i < k
    <3>1. i \in 1..(k - 1) /\ i <= k - 1
      BY <1>1, <2>2
    <3> QED BY <1>4, <2>1, <2>2, <3>1
  <2>3. CASE ~ (i < k)
    <3>1. i - (k - 1) \in 1..(n - k) /\ k + (i - (k - 1)) = i + 1 /\ ~ (i <= k - 1)
      BY <1>1, <2>3
    <3> QED BY <1>5, <2>1, <2>3, <3>1
  <2> QED BY <2>2, <2>3
<1> QED BY <1>1, <1>3, <1>6, <1>8, <1>9

(* Nor does a pipe that is removed change the first of another channel.    *)
LEMMA PipeFreeSame ==
  ASSUME NEW d \in Device, Linked(d), NEW c, HasPipe(d, c), NEW k, k # c
  PROVE  SameFor(d, pipe_free(d, c), k)
<1> SUFFICES ASSUME HasPipe(d, k) PROVE SameFor(d, pipe_free(d, c), k)
  BY DEF SameFor
<1>0. PICK e : e = pipe_free(d, c)
  OBVIOUS
<1>00. PICK p : p = PipeOf(d, c)
  OBVIOUS
<1>1. /\ e \in Device
      /\ ToSet(e.signaled) = ToSet(d.signaled) \ {p}
      /\ \A q \in PipeId \ {p} : e.node[q] = d.node[q]
  BY <1>0, <1>00, PipeFreeFacts
<1>2. PICK s : s = d.pipes
  OBVIOUS
<1>3. PICK n \in Nat : n = Len(s) /\ s \in Seq(PipeId) /\ n = Len(d.pipes)
                       /\ \A j \in 1..n : s[j] \in PipeId
  BY <1>2 DEF Device
<1>4. PICK m \in 1..n : m = pipe_list_findp_channel(d, c)
  BY <1>2, <1>3, LookupFacts
<1>5. PICK t : t = RemoveAt(s, m)
  OBVIOUS
<1>6. e.pipes = t /\ p = s[m] /\ d.node[p].channel = c
  BY <1>0, <1>00, <1>2, <1>4, <1>5, LookupFacts DEF pipe_free, Device, PipeOf
<1>7. Len(t) = n - 1 /\ \A i \in 1..(n - 1) : t[i] = IF i < m THEN s[i] ELSE s[i + 1]
  BY <1>3, <1>4, <1>5, RemoveAtPlaces
<1>8. PICK i \in 1..n : First(d, k, i)
  BY <1>3, LookupFacts DEF First
<1>80. d.node[s[i]].channel = k /\ \A j \in 1..n : d.node[s[j]].channel = k => i <= j
  BY <1>2, <1>3, <1>8 DEF First
<1>9. \A j \in 1..n : j # m => s[j] # p
  BY <1>2, <1>3, <1>6 DEF Linked, IsInjective
<1>10. i # m /\ s[i] # p
  BY <1>6, <1>80
<1>11. PICK h \in 1..(n - 1) : h = IF i < m THEN i ELSE i - 1
  BY <1>10
<1>12. t[h] = s[i]
  BY <1>7, <1>10, <1>11
<1>13. First(e, k, h)
  <2>1. e.node[t[h]].channel = k
    BY <1>1, <1>3, <1>10, <1>12, <1>80
  <2>2. ASSUME NEW j \in 1..(n - 1), e.node[t[j]].channel = k PROVE h <= j
    <3>1. PICK g \in 1..n : g = IF j < m THEN j ELSE j + 1
      OBVIOUS
    <3>2. g # m /\ t[j] = s[g]
      BY <1>7, <3>1
    <3>3. e.node[s[g]] = d.node[s[g]]
      BY <1>1, <1>3, <1>9, <3>2
    <3>4. i <= g
      BY <1>80, <2>2, <3>2, <3>3
    <3> QED BY <1>10, <1>11, <3>1, <3>2, <3>4
  <2> QED BY <1>6, <1>7, <2>1, <2>2 DEF First
<1>14. HasPipe(e, k) /\ PipeOf(e, k) = t[h]
  BY <1>1, <1>6, <1>13, LookupIsFirst
<1>15. PipeOf(d, k) = s[i]
  BY <1>2, <1>8, LookupIsFirst
<1>16. e.node[s[i]] = d.node[s[i]]
  BY <1>1, <1>3, <1>10
<1> QED BY <1>0, <1>1, <1>10, <1>12, <1>14, <1>15, <1>16 DEF SameFor
-----------------------------------------------------------------------------
(* Steps of the running machine.                                           *)

LEMMA DeviceParts ==
  ASSUME NEW d, DeviceOK(d)
  PROVE  /\ d \in Device /\ Linked(d) /\ HasChannels(d) /\ SignaledWant(d)
         /\ d.node \in [PipeId -> Pipe]
         /\ ToSet(d.pipes) \subseteq PipeId
         /\ ToSet(d.signaled) \subseteq ToSet(d.pipes)
<1>1. d \in Device /\ Linked(d) /\ HasChannels(d) /\ SignaledWant(d)
  BY DEF DeviceOK
<1>2. d.node \in [PipeId -> Pipe] /\ ToSet(d.pipes) \subseteq PipeId
  BY <1>1 DEF Device, ToSet
<1> QED BY <1>1, <1>2 DEF Linked

(* A service that runs keeps the record well formed and hides no pipe.     *)
LEMMA RunsKeep ==
  ASSUME NEW d, DeviceOK(d), NEW r \in [PipeId -> SUBSET Event], Pending(d, r),
         ServiceRuns(d, r)
  PROVE  /\ DeviceOK(dev') /\ Grows(d, dev')
         /\ raised' \in [PipeId -> SUBSET Event] /\ Pending(dev', raised')
         /\ \A c : SameFor(d, dev', c)
<1>1. /\ d \in Device /\ Linked(d) /\ HasChannels(d) /\ SignaledWant(d)
      /\ ToSet(d.pipes) \subseteq PipeId /\ ToSet(d.signaled) \subseteq PipeId
  BY DEF DeviceOK, Device, ToSet
<1>2. /\ dev' \in Device /\ Linked(dev') /\ Grows(d, dev')
      /\ raised' \in [PipeId -> SUBSET Event] /\ Pending(dev', raised')
  BY <1>1, ServiceRunsFacts
<1>3. HasChannels(dev')
  BY <1>1, <1>2 DEF HasChannels, Grows
<1>4. \A c : SameFor(d, dev', c)
  BY <1>1, <1>2, GrowsSame
<1>5. SignaledWant(dev')
  <2>1. CASE dev' = d
    BY <1>1, <2>1
  <2>2. CASE \E p \in Served(d), events \in Raisable : dev' = Raise(d, p, events)
    <3>1. PICK p \in Served(d), events \in Raisable : dev' = Raise(d, p, events)
      BY <2>2
    <3>2. p \in ToSet(d.pipes) /\ events \in SUBSET Event
      BY RaisableAssumption DEF Served
    <3>3. PICK f : f = Fresh(d, p, events)
      OBVIOUS
    <3>4. Exactly(d, dev', p, f)
      BY <1>1, <3>1, <3>2, <3>3, RaiseExactly
    <3> QED BY <1>1, <1>2, <3>2, <3>4 DEF Exactly, SignaledWant, Grows
  <2> QED BY <2>1, <2>2 DEF ServiceRuns
<1> QED BY <1>2, <1>3, <1>4, <1>5 DEF DeviceOK

(* A step that hides no pipe that a sleeper waits for, and takes no report *)
(* from the list, keeps the invariant.                                     *)
LEMMA StepKeeps ==
  ASSUME SnapInv, Meanwhile,
         TypeOK', DeviceOK(dev'), Pending(dev', raised'),
         isr' = isr, dev'.wakes = dev.wakes,
         ~ mixed => \A c \in Channel : asleep[c] # {} => SameFor(dev, dev', c),
         \A c \in Channel : \A e \in asleep'[c] : e \in asleep[c] \/ Asked(dev', c, e)
  PROVE  SnapInv'
<1>1. resumed' \subseteq Sleepers(asleep') /\ resumed' \subseteq resumed
      /\ mixed' = mixed /\ snap' = snap
  BY DEF Meanwhile
<1>2. SleepersAreHeard'
  <2> SUFFICES ASSUME ~ mixed, NEW c \in Channel, NEW e \in asleep'[c]
               PROVE  /\ HasPipe(dev', c)
                      /\ \/ e \in dev'.node[PipeOf(dev', c)].wanted
                         \/ isr.at = "mask" /\ isr.chan = c /\ e \in dev.wakes
    BY <1>1 DEF SleepersAreHeard, NoDeafSleeper
  <2>1. CASE e \in asleep[c]
    <3>1. /\ HasPipe(dev, c)
          /\ \/ e \in dev.node[PipeOf(dev, c)].wanted
             \/ isr.at = "mask" /\ isr.chan = c /\ e \in dev.wakes
      BY <2>1 DEF SnapInv, SleepersAreHeard, NoDeafSleeper
    <3>2. SameFor(dev, dev', c)
      BY <2>1
    <3> QED BY <3>1, <3>2 DEF SameFor
  <2>2. CASE Asked(dev', c, e)
    BY <2>2 DEF Asked
  <2> QED BY <2>1, <2>2
<1>3. ResumedAreWoken'
  <2> SUFFICES ASSUME ~ mixed, NEW t \in resumed PROVE IsWoken(t)'
    BY <1>1 DEF ResumedAreWoken
  <2>1. t \in Thread /\ t[2] \in asleep[t[1]] /\ t[1] \in Channel
    BY ThreadAssumption DEF SnapInv, Sleepers
  <2>2. SameFor(dev, dev', t[1])
    BY <2>1
  <2>3. IsWoken(t)
    BY DEF SnapInv, ResumedAreWoken
  <2> QED BY <2>2, <2>3 DEF IsWoken, SameFor, Signaled
<1>4. snap'.taken => FileOK' /\ (~ mixed' /\ OnePipeEach(snap'.file) => FileHears')
  BY <1>1 DEF SnapInv, FileOK, FileHears
<1> QED BY <1>1, <1>2, <1>3, <1>4 DEF SnapInv

(* A sleeper's channel has a pipe, unless a load has mixed them up.        *)
LEMMA SleeperHasPipe ==
  ASSUME SnapInv, ~ mixed, NEW c \in Channel, asleep[c] # {}
  PROVE  HasPipe(dev, c)
BY DEF SnapInv, SleepersAreHeard, NoDeafSleeper

LEMMA OpenKeeps ==
  ASSUME SnapInv, Meanwhile, NEW c \in Channel, Open(c)
  PROVE  SnapInv'
<1>1. /\ dev \in Device /\ Linked(dev) /\ HasChannels(dev) /\ SignaledWant(dev)
      /\ ToSet(dev.pipes) \subseteq PipeId
      /\ ToSet(dev.signaled) \subseteq ToSet(dev.pipes)
      /\ ~ HasPipe(dev, c)
  BY DeviceParts DEF SnapInv, Open
<1>2. PICK p \in PipeId \ ToSet(dev.pipes) :
        dev' = pipe_new(dev, c, p) /\ raised' = [raised EXCEPT ![p] = {}]
  BY DEF Open
<1>3. /\ dev' \in Device /\ Linked(dev')
      /\ ToSet(dev'.pipes) = ToSet(dev.pipes) \cup {p}
      /\ dev'.signaled = dev.signaled
      /\ dev'.wakes = dev.wakes
      /\ dev'.node[p].channel = c
      /\ \A q \in PipeId \ {p} : dev'.node[q] = dev.node[q]
  BY <1>1, <1>2, PipeNewFacts
<1>4. fds' = fds \cup {c} /\ again' = again /\ asleep' = asleep /\ isr' = isr
  BY DEF Open
<1>5. TypeOK'
  BY <1>2, <1>3, <1>4 DEF SnapInv, TypeOK
<1>6. Pending(dev', raised')
  BY <1>2, <1>3 DEF SnapInv, TypeOK, Pending
<1>7. DeviceOK(dev')
  BY <1>1, <1>3 DEF DeviceOK, HasChannels, SignaledWant
<1>8. ~ mixed => \A k \in Channel : asleep[k] # {} => SameFor(dev, dev', k)
  BY <1>1, <1>2, PipeNewSame, SleeperHasPipe
<1> QED BY <1>3, <1>4, <1>5, <1>6, <1>7, <1>8, StepKeeps

LEMMA CloseKeeps ==
  ASSUME SnapInv, Meanwhile, NEW c \in Channel, Close(c)
  PROVE  SnapInv'
<1>0. /\ DeviceOK(dev) /\ dev \in Device /\ Linked(dev)
      /\ HasChannels(dev) /\ SignaledWant(dev) /\ ToSet(dev.pipes) \subseteq PipeId
      /\ ToSet(dev.signaled) \subseteq ToSet(dev.pipes)
  BY DeviceParts DEF SnapInv
<1>1. /\ asleep' = asleep /\ isr' = isr /\ again' = again /\ asleep[c] = {}
      /\ fds' = fds \ {c}
  BY DEF Close
<1>2. CASE ~ HasPipe(dev, c)
  <2>1. dev' = dev /\ raised' = raised
    BY <1>2 DEF Close
  <2>2. TypeOK' /\ Pending(dev', raised')
    BY <1>1, <2>1 DEF SnapInv, TypeOK
  <2>3. \A k : SameFor(dev, dev', k)
    BY <2>1 DEF SameFor
  <2> QED BY <1>0, <1>1, <2>1, <2>2, <2>3, StepKeeps
<1>3. CASE HasPipe(dev, c)
  <2>1. PICK d, p, r : /\ d = pipe_free(dev, c) /\ p = PipeOf(dev, c)
                       /\ r = [raised EXCEPT ![p] = {}]
    OBVIOUS
  <2>2. /\ d \in Device /\ Linked(d)
        /\ ToSet(d.pipes) = ToSet(dev.pipes) \ {p}
        /\ ToSet(d.signaled) = ToSet(dev.signaled) \ {p}
        /\ d.wakes = dev.wakes
        /\ \A q \in PipeId \ {p} : d.node[q] = dev.node[q]
    BY <1>0, <1>3, <2>1, PipeFreeFacts
  <2>3. p \in PipeId
    BY <1>0, <1>3, <2>1, LookupFacts
  <2>4. ServiceRuns(d, r)
    BY <1>3, <2>1 DEF Close
  <2>5. r \in [PipeId -> SUBSET Event] /\ Pending(d, r)
    BY <2>1, <2>2, <2>3 DEF SnapInv, TypeOK, Pending
  <2>6. DeviceOK(d)
    BY <1>0, <2>2 DEF DeviceOK, HasChannels, SignaledWant
  <2>7. /\ DeviceOK(dev') /\ Grows(d, dev')
        /\ raised' \in [PipeId -> SUBSET Event] /\ Pending(dev', raised')
        /\ \A k : SameFor(d, dev', k)
    BY <2>4, <2>5, <2>6, RunsKeep
  <2>8. TypeOK'
    BY <1>1, <2>7 DEF SnapInv, TypeOK, DeviceOK
  <2>9. \A k \in Channel : asleep[k] # {} => SameFor(dev, dev', k)
    BY <1>0, <1>1, <1>3, <2>1, <2>7, PipeFreeSame, SameTransitive
  <2>10. dev'.wakes = dev.wakes
    BY <2>2, <2>7 DEF Grows
  <2> QED BY <1>1, <2>7, <2>8, <2>9, <2>10, StepKeeps
<1> QED BY <1>2, <1>3

LEMMA ConnectKeeps ==
  ASSUME SnapInv, Meanwhile, NEW c \in Channel, Connect(c)
  PROVE  SnapInv'
<1>0. /\ dev \in Device /\ Linked(dev)
      /\ HasChannels(dev) /\ SignaledWant(dev) /\ ToSet(dev.pipes) \subseteq PipeId
      /\ ToSet(dev.signaled) \subseteq ToSet(dev.pipes)
  BY DeviceParts DEF SnapInv
<1>1. PICK svc \in Service :
        ServiceRuns(Serve(dev, PipeOf(dev, c), svc), raised)
  BY DEF Connect
<1>2. PICK d, p : p = PipeOf(dev, c) /\ d = Serve(dev, p, svc)
  OBVIOUS
<1>3. p \in PipeId
  BY <1>0, <1>2, LookupFacts DEF Connect, Refuses
<1>4. ServiceRuns(d, raised)
  BY <1>1, <1>2
<1>5. /\ d \in Device /\ Linked(d)
      /\ d.pipes = dev.pipes /\ d.signaled = dev.signaled /\ d.wakes = dev.wakes
      /\ \A q \in PipeId : /\ d.node[q].channel = dev.node[q].channel
                           /\ d.node[q].wanted = dev.node[q].wanted
  BY <1>0, <1>2, <1>3, ConnectFacts
<1>6. DeviceOK(d)
  BY <1>0, <1>5 DEF DeviceOK, HasChannels, SignaledWant
<1>7. raised \in [PipeId -> SUBSET Event] /\ Pending(d, raised)
  BY <1>5 DEF SnapInv, TypeOK, Pending
<1>8. /\ DeviceOK(dev') /\ Grows(d, dev')
      /\ raised' \in [PipeId -> SUBSET Event] /\ Pending(dev', raised')
      /\ \A k : SameFor(d, dev', k)
  BY <1>4, <1>6, <1>7, RunsKeep
<1>9. fds' = fds /\ again' = again /\ asleep' = asleep /\ isr' = isr
  BY DEF Connect, guest
<1>10. TypeOK'
  BY <1>8, <1>9 DEF SnapInv, TypeOK, DeviceOK
<1>11. \A k : SameFor(dev, d, k)
  BY <1>0, <1>5, RecordSame
<1>12. \A k : SameFor(dev, dev', k)
  BY <1>8, <1>11, SameTransitive
<1>13. dev'.wakes = dev.wakes
  BY <1>5, <1>8 DEF Grows
<1> QED BY <1>8, <1>9, <1>10, <1>12, <1>13, StepKeeps

(* A step in which services run from the present record, and the guest's   *)
(* sleepers and handler stay as they are.                                  *)
LEMMA JustRunsKeeps ==
  ASSUME SnapInv, Meanwhile, ServiceRuns(dev, raised),
         fds' = fds, asleep' = asleep, isr' = isr,
         again' \in [Channel -> SUBSET IoEvent]
  PROVE  SnapInv'
<1>1. /\ DeviceOK(dev') /\ Grows(dev, dev')
      /\ raised' \in [PipeId -> SUBSET Event] /\ Pending(dev', raised')
      /\ \A k : SameFor(dev, dev', k)
  <2>1. DeviceOK(dev) /\ raised \in [PipeId -> SUBSET Event] /\ Pending(dev, raised)
    BY DEF SnapInv, TypeOK
  <2> QED BY <2>1, RunsKeep
<1>2. TypeOK'
  BY <1>1 DEF SnapInv, TypeOK, DeviceOK
<1>3. dev'.wakes = dev.wakes
  BY <1>1 DEF Grows
<1> QED BY <1>1, <1>2, <1>3, StepKeeps

LEMMA TransferKeeps ==
  ASSUME SnapInv, Meanwhile, NEW c \in Channel, NEW e \in IoEvent, Transfer(c, e)
  PROVE  SnapInv'
<1>1. again' \in [Channel -> SUBSET IoEvent]
  BY DEF Transfer, SnapInv, TypeOK
<1> QED BY <1>1, JustRunsKeeps DEF Transfer

LEMMA ServiceEventKeeps ==
  ASSUME SnapInv, Meanwhile, ServiceEvent
  PROVE  SnapInv'
<1>1. ServiceRuns(dev, raised)
  BY DEF ServiceEvent, ServiceRuns
<1>2. fds' = fds /\ asleep' = asleep /\ isr' = isr /\ again' = again
  BY DEF ServiceEvent, guest
<1>3. again' \in [Channel -> SUBSET IoEvent]
  BY <1>2 DEF SnapInv, TypeOK
<1> QED BY <1>1, <1>2, <1>3, JustRunsKeeps

LEMMA WakeOnKeeps ==
  ASSUME SnapInv, Meanwhile, NEW c \in Channel, NEW e \in IoEvent, WakeOn(c, e)
  PROVE  SnapInv'
<1>0. /\ DeviceOK(dev) /\ dev \in Device /\ Linked(dev)
      /\ HasChannels(dev) /\ SignaledWant(dev) /\ ToSet(dev.pipes) \subseteq PipeId
      /\ ToSet(dev.signaled) \subseteq ToSet(dev.pipes)
      /\ raised \in [PipeId -> SUBSET Event] /\ Pending(dev, raised)
  BY DeviceParts DEF SnapInv, TypeOK
<1>1. again' \in [Channel -> SUBSET IoEvent] /\ fds' = fds /\ isr' = isr
  BY DEF WakeOn, SnapInv, TypeOK
<1>2. CASE Refuses(dev, c)
  <2>1. dev' = dev /\ raised' = raised /\ asleep' = asleep
    BY <1>2 DEF WakeOn
  <2>2. TypeOK'
    BY <1>1, <2>1 DEF SnapInv, TypeOK
  <2>3. \A k : SameFor(dev, dev', k)
    BY <2>1 DEF SameFor
  <2> QED BY <1>0, <1>1, <2>1, <2>2, <2>3, StepKeeps
<1>3. CASE ~ Refuses(dev, c)
  <2>1. PICK p : p = PipeOf(dev, c)
    OBVIOUS
  <2>2. asleep' = [asleep EXCEPT ![c] = @ \cup {e}]
        /\ asleep' \in [Channel -> SUBSET IoEvent]
    BY <1>3 DEF WakeOn, SnapInv, TypeOK
  <2>3. HasPipe(dev, c) /\ p \in PipeId
    BY <1>0, <1>3, <2>1, LookupFacts DEF Refuses
  <2>4. /\ DeviceOK(dev') /\ Grows(dev, dev') /\ e \in dev'.node[p].wanted
        /\ raised' \in [PipeId -> SUBSET Event] /\ Pending(dev', raised')
    <3>1. CASE WantsWake(dev, p, e)
      <4>1. dev' = dev /\ raised' = raised
        BY <1>3, <2>1, <3>1 DEF WakeOn
      <4> QED BY <1>0, <3>1, <4>1 DEF Grows, WantsWake
    <3>2. CASE ~ WantsWake(dev, p, e)
      <4>1. PICK d : d = AddWanted(dev, p, e)
        OBVIOUS
      <4>2. ServiceRuns(d, raised)
        BY <1>3, <2>1, <3>2, <4>1 DEF WakeOn
      <4>3. /\ d \in Device /\ Linked(d) /\ Grows(dev, d)
            /\ d.signaled = dev.signaled /\ e \in d.node[p].wanted
        BY <1>0, <2>3, <4>1, AddWantedFacts DEF Event
      <4>4. DeviceOK(d) /\ Pending(d, raised)
        BY <1>0, <4>3 DEF DeviceOK, HasChannels, SignaledWant, Pending, Grows
      <4>5. /\ DeviceOK(dev') /\ Grows(d, dev')
            /\ raised' \in [PipeId -> SUBSET Event] /\ Pending(dev', raised')
        BY <1>0, <4>2, <4>4, RunsKeep
      <4> QED BY <2>3, <4>3, <4>5, GrowsTransitive DEF Grows
    <3> QED BY <3>1, <3>2
  <2>5. TypeOK'
    BY <1>1, <2>2, <2>4 DEF SnapInv, TypeOK, DeviceOK
  <2>6. \A k : SameFor(dev, dev', k)
    BY <1>0, <2>4, GrowsSame
  <2>7. Asked(dev', c, e)
    BY <2>1, <2>3, <2>4, <2>6 DEF Asked, SameFor
  <2>8. \A k \in Channel : \A x \in asleep'[k] : x \in asleep[k] \/ Asked(dev', k, x)
    BY <2>2, <2>7 DEF SnapInv, TypeOK
  <2>9. dev'.wakes = dev.wakes
    BY <2>4 DEF Grows
  <2> QED BY <1>1, <2>4, <2>5, <2>6, <2>8, <2>9, StepKeeps
<1> QED BY <1>2, <1>3

LEMMA InterruptedKeeps ==
  ASSUME SnapInv, Meanwhile, NEW c \in Channel, NEW e \in IoEvent, Interrupted(c, e)
  PROVE  SnapInv'
<1>1. dev' = dev /\ raised' = raised /\ isr' = isr
  BY DEF Interrupted
<1>2. TypeOK'
  BY DEF SnapInv, TypeOK, Interrupted
<1>3. \A k \in Channel : asleep'[k] \subseteq asleep[k]
  BY DEF SnapInv, TypeOK, Interrupted
<1>4. \A k : SameFor(dev, dev', k)
  BY <1>1 DEF SameFor
<1>5. DeviceOK(dev') /\ Pending(dev', raised')
  BY <1>1 DEF SnapInv
<1> QED BY <1>1, <1>2, <1>3, <1>4, <1>5, StepKeeps

(* What Meanwhile leaves alone needs no proof action by action.            *)
LEMMA MeanwhileKeeps ==
  ASSUME SnapInv, Meanwhile
  PROVE  /\ resumed' \subseteq Sleepers(asleep') /\ resumed' \subseteq resumed
         /\ mixed' = mixed
         /\ \A t \in resumed : t[1] \in Channel /\ t[2] \in asleep[t[1]]
         /\ snap'.taken =>
              FileOK' /\ (~ mixed' /\ OnePipeEach(snap'.file) => FileHears')
<1>1. resumed' \subseteq Sleepers(asleep') /\ resumed' \subseteq resumed
      /\ mixed' = mixed /\ snap' = snap
  BY DEF Meanwhile
<1>2. \A t \in resumed : t[1] \in Channel /\ t[2] \in asleep[t[1]]
  BY ThreadAssumption DEF SnapInv, Sleepers
<1>3. snap'.taken => FileOK' /\ (~ mixed' /\ OnePipeEach(snap'.file) => FileHears')
  BY <1>1 DEF SnapInv, FileOK, FileHears
<1> QED BY <1>1, <1>2, <1>3

LEMMA IsrEnterKeeps ==
  ASSUME SnapInv, Meanwhile, IsrEnter
  PROVE  SnapInv'
<1>1. /\ isr.at = "idle" /\ isr' = [at |-> "list", chan |-> 0]
      /\ dev' = dev /\ fds' = fds /\ again' = again /\ asleep' = asleep
      /\ raised' = raised
  BY DEF IsrEnter
<1>2. TypeOK'
  BY <1>1 DEF SnapInv, TypeOK, Isr
<1>3. SleepersAreHeard'
  BY <1>1, MeanwhileKeeps DEF SnapInv, SleepersAreHeard, NoDeafSleeper
<1>4. ResumedAreWoken'
  BY <1>1, MeanwhileKeeps DEF SnapInv, ResumedAreWoken, IsWoken, Signaled
<1>5. DeviceOK(dev') /\ Pending(dev', raised')
  BY <1>1 DEF SnapInv
<1> QED BY <1>2, <1>3, <1>4, <1>5, MeanwhileKeeps DEF SnapInv

(* What the handler takes out of the list it holds in hand.                *)
LEMMA IsrChannelKeeps ==
  ASSUME SnapInv, Meanwhile, IsrChannel
  PROVE  SnapInv'
<1>0. /\ dev \in Device /\ Linked(dev) /\ HasChannels(dev) /\ SignaledWant(dev)
      /\ dev.node \in [PipeId -> Pipe] /\ ToSet(dev.pipes) \subseteq PipeId
      /\ ToSet(dev.signaled) \subseteq ToSet(dev.pipes)
      /\ raised \in [PipeId -> SUBSET Event] /\ Pending(dev, raised)
  BY DeviceParts DEF SnapInv, TypeOK
<1>1. isr.at = "list" /\ fds' = fds /\ again' = again /\ asleep' = asleep
  BY DEF IsrChannel
<1>2. CASE dev.signaled = <<>>
  <2>1. dev' = dev /\ raised' = raised /\ isr' = Idle
    BY <1>2 DEF IsrChannel
  <2>2. TypeOK'
    BY <1>1, <2>1 DEF SnapInv, TypeOK, Isr
  <2>3. SleepersAreHeard'
    BY <1>1, <2>1, MeanwhileKeeps DEF SnapInv, SleepersAreHeard, NoDeafSleeper
  <2>4. ResumedAreWoken'
    BY <1>1, <2>1, MeanwhileKeeps DEF SnapInv, ResumedAreWoken, IsWoken, Signaled
  <2>5. DeviceOK(dev') /\ Pending(dev', raised')
    BY <2>1 DEF SnapInv
  <2> QED BY <2>2, <2>3, <2>4, <2>5, MeanwhileKeeps DEF SnapInv
<1>3. CASE dev.signaled # <<>>
  <2>1. PICK p : p = Head(dev.signaled)
    OBVIOUS
  <2>2. /\ dev' = PopSignaled(dev)
        /\ isr' = [at |-> "mask", chan |-> dev.node[p].channel]
        /\ raised' = [raised EXCEPT ![p] = {}]
    BY <1>3, <2>1 DEF IsrChannel
  <2>3. /\ dev' \in Device /\ Linked(dev')
        /\ dev'.pipes = dev.pipes
        /\ p \in ToSet(dev.pipes) /\ p \in PipeId
        /\ ToSet(dev'.signaled) = ToSet(dev.signaled) \ {p}
        /\ dev'.wakes = dev.node[p].wanted
        /\ dev'.node[p].channel = dev.node[p].channel
        /\ \A q \in PipeId \ {p} : dev'.node[q] = dev.node[q]
    BY <1>0, <1>3, <2>1, <2>2, PopFacts
  <2>4. DeviceOK(dev')
    BY <1>0, <2>3 DEF DeviceOK, HasChannels, SignaledWant
  <2>5. TypeOK'
    <3>1. isr' \in Isr
      BY <1>0, <2>2, <2>3 DEF HasChannels, Isr
    <3>2. raised' \in [PipeId -> SUBSET Event]
      BY <1>0, <2>2
    <3> QED BY <1>1, <2>3, <3>1, <3>2 DEF SnapInv, TypeOK
  <2>6. Pending(dev', raised')
    BY <1>0, <2>2, <2>3 DEF Pending
  <2>7. \A c : HasPipe(dev, c) =>
          /\ HasPipe(dev', c) /\ PipeOf(dev', c) = PipeOf(dev, c)
          /\ PipeOf(dev, c) \in PipeId
          /\ dev.node[PipeOf(dev, c)].channel = c
    BY <1>0, <2>3, LookupSame, LookupFacts
  <2>8. ASSUME NEW c \in Channel, NEW e, Asked(dev, c, e)
        PROVE  /\ HasPipe(dev', c)
               /\ \/ /\ PipeOf(dev, c) # p /\ PipeOf(dev', c) = PipeOf(dev, c)
                     /\ dev'.node[PipeOf(dev', c)] = dev.node[PipeOf(dev, c)]
                     /\ e \in dev'.node[PipeOf(dev', c)].wanted
                  \/ isr'.at = "mask" /\ isr'.chan = c /\ e \in dev'.wakes
    <3>1. CASE PipeOf(dev, c) = p
      BY <2>2, <2>3, <2>7, <2>8, <3>1 DEF Asked
    <3>2. CASE PipeOf(dev, c) # p
      BY <2>3, <2>7, <2>8, <3>2 DEF Asked
    <3> QED BY <3>1, <3>2
  <2>9. SleepersAreHeard'
    <3> SUFFICES ASSUME ~ mixed, NEW c \in Channel, NEW e \in asleep[c]
                 PROVE  /\ HasPipe(dev', c)
                        /\ \/ e \in dev'.node[PipeOf(dev', c)].wanted
                           \/ isr'.at = "mask" /\ isr'.chan = c /\ e \in dev'.wakes
      BY <1>1, MeanwhileKeeps DEF SleepersAreHeard, NoDeafSleeper
    <3>1. Asked(dev, c, e)
      BY <1>1 DEF SnapInv, SleepersAreHeard, NoDeafSleeper, Asked
    <3> QED BY <2>8, <3>1
  <2>10. ResumedAreWoken'
    <3> SUFFICES ASSUME ~ mixed, NEW t \in resumed PROVE IsWoken(t)'
      BY MeanwhileKeeps DEF ResumedAreWoken
    <3>1. t[1] \in Channel
      BY MeanwhileKeeps
    <3>2. Asked(dev, t[1], t[2]) /\ PipeOf(dev, t[1]) \in ToSet(dev.signaled)
      BY <1>1 DEF SnapInv, ResumedAreWoken, IsWoken, Signaled, Asked
    <3> QED BY <2>3, <2>8, <3>1, <3>2 DEF IsWoken, Signaled
  <2> QED BY <2>4, <2>5, <2>6, <2>9, <2>10, MeanwhileKeeps DEF SnapInv
<1> QED BY <1>2, <1>3

(* What the handler holds it delivers.                                     *)
LEMMA IsrWakesKeeps ==
  ASSUME SnapInv, Meanwhile, IsrWakes
  PROVE  SnapInv'
<1>1. /\ isr.at = "mask" /\ isr' = [at |-> "list", chan |-> 0]
      /\ asleep' = [asleep EXCEPT ![isr.chan] = @ \ dev.wakes]
      /\ dev' = dev /\ fds' = fds /\ again' = again /\ raised' = raised
  BY DEF IsrWakes
<1>2. isr.chan \in Channel /\ asleep \in [Channel -> SUBSET IoEvent]
  BY <1>1 DEF SnapInv, TypeOK, Isr, Idle
<1>3. /\ asleep' \in [Channel -> SUBSET IoEvent]
      /\ \A k \in Channel : asleep'[k] \subseteq asleep[k]
      /\ \A x \in asleep'[isr.chan] : x \notin dev.wakes
  BY <1>1, <1>2
<1>4. TypeOK'
  BY <1>1, <1>3 DEF SnapInv, TypeOK, Isr
<1>5. SleepersAreHeard'
  BY <1>1, <1>3, MeanwhileKeeps DEF SnapInv, SleepersAreHeard, NoDeafSleeper
<1>6. ResumedAreWoken'
  <2> SUFFICES ASSUME ~ mixed, NEW t \in resumed' PROVE IsWoken(t)'
    BY MeanwhileKeeps DEF ResumedAreWoken
  <2>1. t \in resumed /\ t[2] \in asleep'[t[1]]
    BY MeanwhileKeeps DEF Sleepers
  <2>2. IsWoken(t)
    BY <2>1 DEF SnapInv, ResumedAreWoken
  <2> QED BY <1>1, <1>3, <2>1, <2>2 DEF IsWoken, Signaled
<1>7. DeviceOK(dev') /\ Pending(dev', raised')
  BY <1>1 DEF SnapInv
<1> QED BY <1>4, <1>5, <1>6, <1>7, MeanwhileKeeps DEF SnapInv

LEMMA RunningKeeps ==
  ASSUME SnapInv, Next, Meanwhile
  PROVE  SnapInv'
<1>1. ASSUME NEW c \in Channel, Open(c) PROVE SnapInv'
  BY <1>1, OpenKeeps
<1>2. ASSUME NEW c \in Channel, Close(c) PROVE SnapInv'
  BY <1>2, CloseKeeps
<1>3. ASSUME NEW c \in Channel, Connect(c) PROVE SnapInv'
  BY <1>3, ConnectKeeps
<1>4. ASSUME NEW t \in Thread, Transfer(t[1], t[2]) PROVE SnapInv'
  BY <1>4, TransferKeeps, ThreadAssumption
<1>5. ASSUME NEW t \in Thread, WakeOn(t[1], t[2]) PROVE SnapInv'
  BY <1>5, WakeOnKeeps, ThreadAssumption
<1>6. ASSUME NEW t \in Thread, Interrupted(t[1], t[2]) PROVE SnapInv'
  BY <1>6, InterruptedKeeps, ThreadAssumption
<1>7. CASE IsrEnter
  BY <1>7, IsrEnterKeeps
<1>8. CASE IsrChannel
  BY <1>8, IsrChannelKeeps
<1>9. CASE IsrWakes
  BY <1>9, IsrWakesKeeps
<1>10. CASE ServiceEvent
  BY <1>10, ServiceEventKeeps
<1> QED
  BY <1>1, <1>2, <1>3, <1>4, <1>5, <1>6, <1>7, <1>8, <1>9, <1>10
     DEF Next, Command, Signal

-----------------------------------------------------------------------------
(* A snapshot is saved.                                                    *)
LEMMA SaveKeeps ==
  ASSUME SnapInv, Save
  PROVE  SnapInv'
<1>0. /\ dev \in Device /\ Linked(dev) /\ HasChannels(dev) /\ SignaledWant(dev)
      /\ dev.node \in [PipeId -> Pipe] /\ ToSet(dev.pipes) \subseteq PipeId
      /\ ToSet(dev.signaled) \subseteq ToSet(dev.pipes)
      /\ raised \in [PipeId -> SUBSET Event] /\ Pending(dev, raised)
  BY DeviceParts DEF SnapInv, TypeOK
<1>1. /\ snap'.taken
      /\ snap'.file = goldfish_pipe_save(dev) /\ snap'.line = dev.irq
      /\ snap'.fds = fds /\ snap'.again = again /\ snap'.asleep = asleep
      /\ snap'.isr = isr
      /\ snap'.raised = [i \in DOMAIN dev.pipes |-> raised[dev.pipes[i]]]
  BY DEF Save
<1>10. PICK s, f : s = dev.pipes /\ f = snap'.file.pipes
  OBVIOUS
<1>11. PICK n \in Nat : s \in Seq(PipeId) /\ n = Len(s) /\ DOMAIN s = 1..n
  BY <1>0, <1>10 DEF Device
<1>2. /\ s = dev.pipes /\ f = snap'.file.pipes
      /\ s \in Seq(PipeId) /\ n = Len(s) /\ DOMAIN s = 1..n
  BY <1>10, <1>11
<1>3. f = [i \in 1..n |-> pipe_save(dev.node[s[i]])] /\ snap'.file.wakes = dev.wakes
  BY <1>1, <1>2 DEF goldfish_pipe_save
<1>4. \A i \in 1..n :
        /\ s[i] \in ToSet(dev.pipes) /\ s[i] \in PipeId
        /\ f[i] = pipe_save(dev.node[s[i]])
        /\ f[i] \in SavedPipe
        /\ f[i].channel = dev.node[s[i]].channel
        /\ f[i].wanted = dev.node[s[i]].wanted
  <2> SUFFICES ASSUME NEW i \in 1..n
               PROVE  /\ s[i] \in ToSet(dev.pipes) /\ s[i] \in PipeId
                      /\ f[i] = pipe_save(dev.node[s[i]])
                      /\ f[i] \in SavedPipe
                      /\ f[i].channel = dev.node[s[i]].channel
                      /\ f[i].wanted = dev.node[s[i]].wanted
    OBVIOUS
  <2>1. s[i] \in ToSet(dev.pipes) /\ s[i] \in PipeId
    BY <1>0, <1>2 DEF ToSet
  <2>2. dev.node[s[i]] \in Pipe /\ dev.node[s[i]].channel \in Channel
    BY <1>0, <2>1 DEF HasChannels
  <2>3. f[i] = pipe_save(dev.node[s[i]])
    BY <1>3
  <2> QED BY <2>1, <2>2, <2>3 DEF pipe_save, Pipe, SavedPipe
<1>5. f \in Seq(SavedPipe) /\ Len(f) = n
  BY <1>3, <1>4
<1>6. FileOK'
  <2>1. dev.wakes \in SUBSET Event /\ dev.irq \in BOOLEAN
    BY <1>0 DEF Device
  <2>2. ASSUME NEW i \in 1..n PROVE snap'.raised[i] \in SUBSET f[i].wanted
    <3>1. snap'.raised[i] = raised[s[i]]
      BY <1>1, <1>2
    <3>2. raised[s[i]] \subseteq dev.node[s[i]].wanted
      BY <1>0, <1>4 DEF Pending
    <3> QED BY <1>4, <3>1, <3>2
  <2>3. /\ fds \subseteq Channel /\ again \in [Channel -> SUBSET IoEvent]
        /\ asleep \in [Channel -> SUBSET IoEvent] /\ isr \in Isr
    BY DEF SnapInv, TypeOK
  <2> QED BY <1>1, <1>2, <1>3, <1>5, <2>1, <2>2, <2>3 DEF FileOK
<1>7. ~ mixed => FileHears'
  <2> SUFFICES ASSUME ~ mixed, NEW c \in Channel, NEW e \in asleep[c]
               PROVE  \E i \in 1..n :
                        /\ f[i].channel = c
                        /\ \/ e \in f[i].wanted
                           \/ isr.at = "mask" /\ isr.chan = c /\ e \in dev.wakes
    BY <1>1, <1>2, <1>3, <1>5 DEF FileHears
  <2>1. /\ HasPipe(dev, c)
        /\ \/ e \in dev.node[PipeOf(dev, c)].wanted
           \/ isr.at = "mask" /\ isr.chan = c /\ e \in dev.wakes
    BY DEF SnapInv, SleepersAreHeard, NoDeafSleeper
  <2>2. PICK i \in 1..n : i = pipe_list_findp_channel(dev, c)
    BY <1>0, <1>2, <2>1, LookupFacts
  <2>3. PipeOf(dev, c) = s[i] /\ dev.node[s[i]].channel = c
    BY <1>0, <1>2, <2>1, <2>2, LookupFacts DEF PipeOf
  <2> QED BY <1>4, <2>1, <2>3
<1>8. UNCHANGED <<vars, resumed, mixed>>
  BY DEF Save
<1>9. /\ TypeOK' /\ DeviceOK(dev') /\ Pending(dev', raised')
      /\ resumed' \subseteq Sleepers(asleep')
      /\ SleepersAreHeard' /\ ResumedAreWoken'
  BY <1>8 DEF vars, SnapInv, TypeOK, SleepersAreHeard, NoDeafSleeper,
              ResumedAreWoken, IsWoken, Signaled
<1> QED BY <1>6, <1>7, <1>8, <1>9 DEF SnapInv

-----------------------------------------------------------------------------
(* The loop at the end of goldfish_pipe_load.                              *)

(* From d to e the pipes of S that record something were signaled, and no  *)
(* more.                                                                   *)
Woken(d, e, S) ==
  /\ e \in Device
  /\ e.pipes = d.pipes /\ e.node = d.node /\ e.wakes = d.wakes
  /\ IsInjective(e.signaled)
  /\ ToSet(e.signaled) = ToSet(d.signaled) \cup {p \in S : d.node[p].wanted # {}}
  /\ d.irq \/ (\E p \in S : d.node[p].wanted # {}) => e.irq

(* One turn of it.  Waking a pipe for what it records changes no record,   *)
(* and a pipe that is closed already is not closed again.                  *)
LEMMA WakeLoadedFacts ==
  ASSUME NEW d \in Device, IsInjective(d.signaled), NEW p \in PipeId
  PROVE  Woken(d, WakeLoaded(d, p), {p})
<1>1. PICK e, w : /\ e = WakeLoaded(d, p)
                  /\ w = IF d.node[p].wanted # {}
                         THEN goldfish_pipe_wake(d, p, d.node[p].wanted) ELSE d
  OBVIOUS
<1>2. e = IF w.node[p].closed THEN goldfish_pipe_close(w, p) ELSE w
  BY <1>1 DEF WakeLoaded
<1>3. e = w
  BY <1>2 DEF goldfish_pipe_close
<1>4. CASE d.node[p].wanted = {}
  BY <1>1, <1>3, <1>4 DEF Woken
<1>5. CASE d.node[p].wanted # {}
  <2>1. PICK s, n : /\ s = IF p \in ToSet(d.signaled) THEN d.signaled
                           ELSE <<p>> \o d.signaled
                    /\ n = [d.node EXCEPT ![p].wanted = @ \cup d.node[p].wanted]
    OBVIOUS
  <2>2. d.signaled \in Seq(PipeId) /\ d.node \in [PipeId -> Pipe]
    BY DEF Device
  <2>3. s \in Seq(PipeId) /\ IsInjective(s) /\ ToSet(s) = ToSet(d.signaled) \cup {p}
    <3>1. CASE p \in ToSet(d.signaled)
      BY <2>1, <2>2, <3>1
    <3>2. CASE p \notin ToSet(d.signaled)
      BY <2>1, <2>2, <3>2, ConsFacts
    <3> QED BY <3>1, <3>2
  <2>4. n = d.node
    <3>1. n[p] = d.node[p]
      BY <2>1, <2>2 DEF Pipe
    <3>2. \A q \in PipeId \ {p} : n[q] = d.node[q]
      BY <2>1, <2>2
    <3>3. n = [q \in PipeId |-> n[q]]
      BY <2>1, <2>2
    <3> QED BY <2>2, <3>1, <3>2, <3>3
  <2>5. w = [d EXCEPT !.signaled = s, !.node = n, !.irq = TRUE]
    BY <1>1, <1>5, <2>1 DEF goldfish_pipe_wake, Device
  <2>6. /\ w \in Device /\ w.pipes = d.pipes /\ w.signaled = s /\ w.node = n
        /\ w.irq /\ w.wakes = d.wakes
    BY <2>2, <2>3, <2>4, <2>5 DEF Device
  <2>7. {q \in {p} : d.node[q].wanted # {}} = {p}
    BY <1>5
  <2>8. /\ ToSet(w.signaled) = ToSet(d.signaled) \cup {q \in {p} : d.node[q].wanted # {}}
        /\ IsInjective(w.signaled) /\ w.node = d.node
    BY <2>3, <2>4, <2>6, <2>7
  <2>9. Woken(d, w, {p})
    BY <2>6, <2>8 DEF Woken
  <2> QED BY <1>1, <1>3, <2>9
<1> QED BY <1>1, <1>4, <1>5

LEMMA WokenMore ==
  ASSUME NEW d \in Device, NEW e, NEW S, Woken(d, e, S), NEW p \in PipeId
  PROVE  Woken(d, WakeLoaded(e, p), S \cup {p})
<1>1. PICK f : f = WakeLoaded(e, p)
  OBVIOUS
<1>2. e \in Device /\ IsInjective(e.signaled)
  BY DEF Woken
<1>3. Woken(e, f, {p})
  BY <1>1, <1>2, WakeLoadedFacts
<1>4. {q \in S \cup {p} : d.node[q].wanted # {}}
        = {q \in S : d.node[q].wanted # {}} \cup {q \in {p} : d.node[q].wanted # {}}
  OBVIOUS
<1>5. ToSet(f.signaled) = ToSet(d.signaled) \cup {q \in S \cup {p} : d.node[q].wanted # {}}
  BY <1>3, <1>4 DEF Woken
<1>6. d.irq \/ (\E q \in S \cup {p} : d.node[q].wanted # {}) => f.irq
  BY <1>3 DEF Woken
<1> QED BY <1>1, <1>3, <1>5, <1>6 DEF Woken

(* What the recursion of FoldLeft says of a function, for the first k.     *)
FoldsWakes(ps, base, k, f) ==
  f = [s \in SUBSET (1..k) |->
         IF s = {} THEN base ELSE WakeLoaded(f[s \ {Max(s)}], ps[Max(s)])]

LEMMA FoldsWakesExists ==
  ASSUME NEW ps, NEW base, NEW k \in Nat
  PROVE  \E f : FoldsWakes(ps, base, k, f)
<1> DEFINE T == {j \in Nat : \E f : FoldsWakes(ps, base, j, f)}
           Turn(f, s) ==
             IF s = {} THEN base ELSE WakeLoaded(f[s \ {Max(s)}], ps[Max(s)])
<1>1. 0 \in T
  <2> DEFINE f == [s \in SUBSET (1..0) |-> base]
  <2>1. \A s \in SUBSET (1..0) : s = {}
    OBVIOUS
  <2>2. f = [s \in SUBSET (1..0) |->
               IF s = {} THEN base ELSE WakeLoaded(f[s \ {Max(s)}], ps[Max(s)])]
    BY <2>1
  <2> HIDE DEF f
  <2>3. FoldsWakes(ps, base, 0, f)
    BY <2>2 DEF FoldsWakes
  <2> QED BY <2>3
<1>2. ASSUME NEW j \in Nat, j \in T PROVE j + 1 \in T
  <2>1. PICK f : FoldsWakes(ps, base, j, f)
    BY <1>2
  <2> DEFINE new(s) == WakeLoaded(f[s \ {j + 1}], ps[j + 1])
             g == [s \in SUBSET (1..(j + 1)) |-> IF j + 1 \in s THEN new(s) ELSE f[s]]
  <2>2. \A s \in SUBSET (1..j) : f[s] = Turn(f, s)
    BY <2>1 DEF FoldsWakes
  <2>3. \A s \in SUBSET (1..j) : g[s] = f[s]
    BY j + 1 \notin 1..j, \A s \in SUBSET (1..j) : s \in SUBSET (1..(j + 1))
  <2>4. \A s \in SUBSET (1..(j + 1)) : j + 1 \in s => g[s] = new(s)
    OBVIOUS
  <2>5. g = [s \in SUBSET (1..(j + 1)) |-> g[s]]
    OBVIOUS
  <2> HIDE DEF g, new
  <2>6. ASSUME NEW s \in SUBSET (1..(j + 1)) PROVE g[s] = Turn(g, s)
    <3>1. CASE j + 1 \in s
      <4>1. s \ {j + 1} \in SUBSET (1..j)
        OBVIOUS
      <4>2. Max(s) = j + 1
        BY <3>1, MaxOfPrefix
      <4>3. g[s \ {j + 1}] = f[s \ {j + 1}]
        BY <2>3, <4>1
      <4> QED BY <2>4, <3>1, <4>1, <4>2, <4>3 DEF new
    <3>2. CASE j + 1 \notin s
      <4>1. s \in SUBSET (1..j) /\ s \ {Max(s)} \in SUBSET (1..j)
        <5>1. s \subseteq 1..j
          BY <3>2
        <5> QED BY <5>1
      <4>2. g[s] = f[s] /\ g[s \ {Max(s)}] = f[s \ {Max(s)}]
        BY <2>3, <4>1
      <4> QED BY <2>2, <4>1, <4>2
    <3> QED BY <3>1, <3>2
  <2>7. FoldsWakes(ps, base, j + 1, g)
    BY <2>5, <2>6 DEF FoldsWakes
  <2> QED BY <2>7
<1> HIDE DEF T
<1>3. Nat \subseteq T
  BY <1>1, <1>2, SetInduction
<1> QED BY <1>3 DEF T

(* The whole loop: every pipe that records something is signaled.          *)
LEMMA LoopWakes ==
  ASSUME NEW d \in Device, IsInjective(d.signaled)
  PROVE  Woken(d, FoldLeft(WakeLoaded, d, d.pipes), ToSet(d.pipes))
<1>1. PICK n \in Nat : /\ n = Len(d.pipes) /\ DOMAIN d.pipes = 1..n
                      /\ \A i \in 1..n : d.pipes[i] \in PipeId
  BY DEF Device
<1> DEFINE f == CHOOSE f : FoldsWakes(d.pipes, d, n, f)
<1>2. FoldsWakes(d.pipes, d, n, f)
  BY FoldsWakesExists
<1>3. FoldLeft(WakeLoaded, d, d.pipes) = f[1..n]
  BY <1>1 DEF FoldLeft, MapThenFoldSet, FoldsWakes
<1>4. \A s \in SUBSET (1..n) :
        f[s] = IF s = {} THEN d ELSE WakeLoaded(f[s \ {Max(s)}], d.pipes[Max(s)])
  BY <1>2 DEF FoldsWakes
<1> HIDE DEF f
<1> DEFINE Done(j) == {d.pipes[i] : i \in 1..j}
           T == {j \in Nat : j <= n => Woken(d, f[1..j], Done(j))}
<1>5. 0 \in T
  <2>1. 1..0 = {} /\ {} \in SUBSET (1..n) /\ Done(0) = {}
    OBVIOUS
  <2>2. f[{}] = d
    BY <1>4, <2>1
  <2>3. Woken(d, d, {})
    BY DEF Woken
  <2> QED BY <2>1, <2>2, <2>3
<1>6. ASSUME NEW j \in Nat, j \in T PROVE j + 1 \in T
  <2> SUFFICES ASSUME j + 1 <= n PROVE Woken(d, f[1..(j + 1)], Done(j + 1))
    OBVIOUS
  <2>1. j + 1 \in 1..n /\ 1..(j + 1) \in SUBSET (1..n) /\ j + 1 \in 1..(j + 1)
        /\ (1..(j + 1)) \ {j + 1} = 1..j /\ 1..(j + 1) # {}
    OBVIOUS
  <2>2. Max(1..(j + 1)) = j + 1
    BY <2>1, MaxOfPrefix
  <2>3. f[1..(j + 1)] = WakeLoaded(f[1..j], d.pipes[j + 1])
    BY <1>4, <2>1, <2>2
  <2>4. Done(j + 1) = Done(j) \cup {d.pipes[j + 1]}
    <3>1. \A i \in 1..(j + 1) : i \in 1..j \/ i = j + 1
      OBVIOUS
    <3>2. \A i \in 1..j : i \in 1..(j + 1)
      OBVIOUS
    <3> QED BY <2>1, <3>1, <3>2
  <2>5. Woken(d, f[1..j], Done(j)) /\ d.pipes[j + 1] \in PipeId
    BY <1>1, <1>6, <2>1
  <2> HIDE DEF Done
  <2> QED BY <2>3, <2>4, <2>5, WokenMore
<1>7. ASSUME NEW j \in T PROVE j <= n => Woken(d, f[1..j], Done(j))
  BY <1>7
<1> HIDE DEF T
<1>10. Nat \subseteq T
  BY <1>5, <1>6, SetInduction
<1>11. n <= n => Woken(d, f[1..n], Done(n))
  BY <1>7, <1>10
<1>8. Woken(d, f[1..n], Done(n))
  BY <1>11
<1>9. Done(n) = ToSet(d.pipes)
  BY <1>1 DEF ToSet
<1> QED BY <1>3, <1>8, <1>9

-----------------------------------------------------------------------------
(* What goldfish_pipe_load makes of the device.                            *)

(* The place of an address is found again.                                 *)
LEMMA PlaceInFacts ==
  ASSUME NEW at \in Seq(PipeId), IsInjective(at), NEW k \in 1..Len(at)
  PROVE  PlaceIn(at, at[k]) = k
<1> DEFINE I == {i \in 1..Len(at) : at[i] = at[k]}
<1>1. I = {k}
  BY DEF IsInjective
<1>2. Min(I) = k
  BY <1>1 DEF Min
<1> QED BY <1>1, <1>2 DEF PlaceIn, SelectInSeq

(* The list after the pushes: the last pipe of the file comes first, and   *)
(* the pipes that were there come after those of the file.                 *)
LEMMA PushedFacts ==
  ASSUME NEW s \in Seq(PipeId), IsInjective(s),
         NEW at \in Seq(PipeId), IsInjective(at), ToSet(at) \cap ToSet(s) = {}
  PROVE  LET t == Reverse(at) \o s
         IN  /\ t \in Seq(PipeId)
             /\ Len(t) = Len(at) + Len(s)
             /\ \A i \in 1..Len(at) : t[i] = at[(Len(at) - i) + 1]
             /\ \A i \in 1..Len(s) : t[Len(at) + i] = s[i]
             /\ ToSet(t) = ToSet(at) \cup ToSet(s)
             /\ IsInjective(t)
<1>1. PICK n \in Nat, m \in Nat :
        /\ n = Len(at) /\ m = Len(s) /\ DOMAIN at = 1..n /\ DOMAIN s = 1..m
        /\ \A i \in 1..n : at[i] \in PipeId
        /\ \A i \in 1..m : s[i] \in PipeId
  OBVIOUS
<1>2. PICK r : r = Reverse(at)
  OBVIOUS
<1>3. /\ r \in Seq(PipeId) /\ Len(r) = n
      /\ \A i \in 1..n : r[i] = at[(n - i) + 1]
  <2>1. r = [i \in 1..n |-> at[(n - i) + 1]]
    BY <1>1, <1>2 DEF Reverse
  <2>2. \A i \in 1..n : (n - i) + 1 \in 1..n
    OBVIOUS
  <2> QED BY <1>1, <2>1, <2>2
<1>4. PICK t : t = r \o s
  OBVIOUS
<1>5. /\ t \in Seq(PipeId) /\ Len(t) = n + m
      /\ \A i \in 1..(n + m) : t[i] = IF i <= n THEN r[i] ELSE s[i - n]
  <2>1. /\ t \in Seq(PipeId) /\ Len(t) = Len(r) + Len(s)
        /\ \A i \in 1..(Len(r) + Len(s)) :
             t[i] = IF i <= Len(r) THEN r[i] ELSE s[i - Len(r)]
    BY <1>3, <1>4, ConcatProperties
  <2> QED BY <1>1, <1>3, <2>1
<1>6. DOMAIN t = 1..(n + m)
  BY <1>5
<1>7. \A i \in 1..n : t[i] = at[(n - i) + 1]
  <2>1. \A i \in 1..n : i \in 1..(n + m) /\ i <= n
    OBVIOUS
  <2> QED BY <1>3, <1>5, <2>1
<1>8. \A i \in 1..m : t[n + i] = s[i]
  <2>1. \A i \in 1..m : n + i \in 1..(n + m) /\ ~ (n + i <= n) /\ (n + i) - n = i
    OBVIOUS
  <2> QED BY <1>5, <2>1
<1>9. \A i \in 1..(n + m) :
        \/ i \in 1..n /\ (n - i) + 1 \in 1..n /\ t[i] = at[(n - i) + 1]
        \/ i - n \in 1..m /\ n + (i - n) = i /\ t[i] = s[i - n]
  BY <1>5, <1>7
<1>10. ToSet(t) = ToSet(at) \cup ToSet(s)
  <2>1. ASSUME NEW x \in ToSet(t) PROVE x \in ToSet(at) \cup ToSet(s)
    <3>1. PICK i \in 1..(n + m) : x = t[i]
      BY <1>6 DEF ToSet
    <3>2. (\E j \in 1..n : x = at[j]) \/ (\E j \in 1..m : x = s[j])
      BY <1>9, <3>1
    <3> QED BY <1>1, <3>2 DEF ToSet
  <2>2. ASSUME NEW x \in ToSet(at) PROVE x \in ToSet(t)
    <3>1. PICK i \in 1..n : x = at[i]
      BY <1>1 DEF ToSet
    <3>2. PICK j \in 1..n : j = (n - i) + 1
      OBVIOUS
    <3>3. (n - j) + 1 = i /\ j \in 1..(n + m)
      BY <3>2
    <3>4. t[j] = x
      BY <1>7, <3>1, <3>3
    <3> QED BY <1>6, <3>3, <3>4 DEF ToSet
  <2>3. ASSUME NEW x \in ToSet(s) PROVE x \in ToSet(t)
    <3>1. PICK i \in 1..m : x = s[i]
      BY <1>1 DEF ToSet
    <3>2. n + i \in 1..(n + m)
      OBVIOUS
    <3> QED BY <1>6, <1>8, <3>1, <3>2 DEF ToSet
  <2> QED BY <2>1, <2>2, <2>3
<1>11. IsInjective(t)
  <2> SUFFICES ASSUME NEW i \in 1..(n + m), NEW j \in 1..(n + m), t[i] = t[j]
               PROVE  i = j
    BY <1>6 DEF IsInjective
  <2>1. CASE i \in 1..n /\ j \in 1..n
    <3>2. /\ (n - i) + 1 \in 1..n /\ (n - j) + 1 \in 1..n
          /\ at[(n - i) + 1] = at[(n - j) + 1]
      BY <1>7, <2>1
    <3>1. (n - i) + 1 = (n - j) + 1
      BY <1>1, <3>2 DEF IsInjective
    <3> QED BY <2>1, <3>1
  <2>2. CASE i \notin 1..n /\ j \notin 1..n
    <3>1. i - n \in 1..m /\ j - n \in 1..m /\ s[i - n] = s[j - n]
      BY <1>9, <2>2
    <3>2. i - n = j - n
      BY <1>1, <3>1 DEF IsInjective
    <3> QED BY <3>2
  <2>3. ASSUME NEW k \in 1..n, NEW l \in 1..(n + m), l \notin 1..n PROVE t[k] # t[l]
    <3>1. (n - k) + 1 \in 1..n /\ t[k] = at[(n - k) + 1]
      BY <1>7
    <3>3. t[k] \in ToSet(at)
      BY <1>1, <3>1 DEF ToSet
    <3>4. l - n \in 1..m /\ t[l] = s[l - n]
      BY <1>9, <2>3
    <3>2. t[l] \in ToSet(s)
      BY <1>1, <3>4 DEF ToSet
    <3> QED BY <3>2, <3>3
  <2> QED BY <2>1, <2>2, <2>3
<1> QED BY <1>1, <1>2, <1>4, <1>5, <1>7, <1>8, <1>10, <1>11

(* The device once the pipes are pushed and the registers loaded.          *)
IsLoaded(d, file, at, line, new) ==
  /\ new \in Device
  /\ new.pipes = Reverse(at) \o d.pipes
  /\ ToSet(new.pipes) = ToSet(at) \cup ToSet(d.pipes)
  /\ IsInjective(new.pipes)
  /\ new.signaled = d.signaled
  /\ new.irq = line /\ new.wakes = file.wakes
  /\ \A p \in PipeId \ ToSet(at) : new.node[p] = d.node[p]
  /\ \A k \in 1..Len(at) :
       /\ new.node[at[k]].channel = file.pipes[k].channel
       /\ new.node[at[k]].wanted = file.pipes[k].wanted

LEMMA LoadedFacts ==
  ASSUME NEW d, DeviceOK(d), NEW file,
         file.pipes \in Seq(SavedPipe), file.wakes \in SUBSET Event,
         NEW at \in Seq(PipeId \ ToSet(d.pipes)), Len(at) = Len(file.pipes),
         IsInjective(at), NEW line \in BOOLEAN
  PROVE  IsLoaded(d, file, at, line, Loaded(d, file, at, line))
<1>1. /\ d \in Device /\ Linked(d) /\ d.node \in [PipeId -> Pipe]
      /\ d.pipes \in Seq(PipeId) /\ IsInjective(d.pipes)
  BY DeviceParts DEF Linked, Device
<1>2. /\ at \in Seq(PipeId) /\ ToSet(at) \subseteq PipeId
      /\ ToSet(at) \cap ToSet(d.pipes) = {}
      /\ \A p \in ToSet(at) : \E k \in 1..Len(at) : p = at[k]
      /\ \A k \in 1..Len(at) : at[k] \in ToSet(at)
  BY DEF ToSet
<1>3. PICK s, t : s = d.pipes /\ t = Reverse(at) \o s
  OBVIOUS
<1>4. t \in Seq(PipeId) /\ ToSet(t) = ToSet(at) \cup ToSet(s) /\ IsInjective(t)
  BY <1>1, <1>2, <1>3, PushedFacts
<1>5. PICK n : n = [p \in PipeId |-> IF p \in ToSet(at)
                                    THEN pipe_load(file.pipes[PlaceIn(at, p)])
                                    ELSE d.node[p]]
  OBVIOUS
<1>6. \A k \in 1..Len(at) : n[at[k]] = pipe_load(file.pipes[k])
  BY <1>2, <1>5, PlaceInFacts
<1>7. \A k \in 1..Len(at) :
        /\ n[at[k]] \in Pipe
        /\ n[at[k]].channel = file.pipes[k].channel
        /\ n[at[k]].wanted = file.pipes[k].wanted
  <2> SUFFICES ASSUME NEW k \in 1..Len(at)
               PROVE  /\ n[at[k]] \in Pipe
                      /\ n[at[k]].channel = file.pipes[k].channel
                      /\ n[at[k]].wanted = file.pipes[k].wanted
    OBVIOUS
  <2>1. PICK saved \in SavedPipe : saved = file.pipes[k]
    OBVIOUS
  <2>2. n[at[k]] = pipe_load(saved)
    BY <1>6, <2>1
  <2>3. /\ pipe_load(saved) \in Pipe
        /\ pipe_load(saved).channel = saved.channel
        /\ pipe_load(saved).wanted = saved.wanted
    BY SaveableAssumption DEF pipe_load, SavedPipe, Pipe
  <2> QED BY <2>1, <2>2, <2>3
<1>8. /\ \A p \in PipeId \ ToSet(at) : n[p] = d.node[p]
      /\ n \in [PipeId -> Pipe]
  BY <1>1, <1>2, <1>5, <1>7
<1>9. Loaded(d, file, at, line)
        = [d EXCEPT !.pipes = t, !.node = n, !.irq = line, !.wakes = file.wakes]
  BY <1>3, <1>5 DEF Loaded, PushLoaded, Device
<1>10. PICK new : new = [d EXCEPT !.pipes = t, !.node = n, !.irq = line, !.wakes = file.wakes]
  OBVIOUS
<1>11. /\ new \in Device /\ new.pipes = t /\ new.signaled = d.signaled
       /\ new.irq = line /\ new.wakes = file.wakes /\ new.node = n
  BY <1>1, <1>4, <1>8, <1>10 DEF Device
<1>12. IsLoaded(d, file, at, line, new)
  BY <1>3, <1>4, <1>7, <1>8, <1>11 DEF IsLoaded
<1> QED BY <1>9, <1>10, <1>12, Zenon

(* What services raised on the pipes of a device that is loaded over.      *)
PendingOn(d, r) ==
  \A p \in ToSet(d.pipes) :
    r[p] # {} => p \in ToSet(d.signaled) /\ r[p] \subseteq d.node[p].wanted

(* A snapshot is loaded over a device that is well formed.  Whatever line  *)
(* it brings, the loop raises it for the pipes that were signaled already, *)
(* for they record something; and every request of the file is signaled    *)
(* by the pipe that a lookup finds.                                        *)
LEMMA LoadKeeps ==
  ASSUME SnapInv, NEW old, DeviceOK(old), PendingOn(old, raised), Load(old)
  PROVE  SnapInv'
<1>1. PICK file, n : file = snap.file /\ n = Len(file.pipes)
  OBVIOUS
<1>2. /\ file.pipes \in Seq(SavedPipe) /\ file.wakes \in SUBSET Event
      /\ n \in Nat /\ snap.line \in BOOLEAN /\ snap.isr \in Isr
      /\ snap.fds \subseteq Channel
      /\ snap.again \in [Channel -> SUBSET IoEvent]
      /\ snap.asleep \in [Channel -> SUBSET IoEvent]
      /\ \A i \in 1..n : /\ file.pipes[i] \in SavedPipe
                         /\ snap.raised[i] \in SUBSET file.pipes[i].wanted
  <2>1. FileOK
    BY DEF SnapInv, Load
  <2>2. /\ file.pipes \in Seq(SavedPipe) /\ file.wakes \in SUBSET Event
        /\ \A i \in 1..n : snap.raised[i] \in SUBSET file.pipes[i].wanted
    BY <1>1, <2>1 DEF FileOK
  <2>3. n \in Nat /\ \A i \in 1..n : file.pipes[i] \in SavedPipe
    BY <1>1, <2>2
  <2> QED BY <2>1, <2>2, <2>3 DEF FileOK
<1>3. PICK at \in [1..n -> PipeId \ ToSet(old.pipes)] :
        /\ IsInjective(at)
        /\ dev' = goldfish_pipe_load(old, file, at, snap.line)
        /\ raised' = [p \in PipeId |->
                        IF p \in ToSet(at) THEN snap.raised[PlaceIn(at, p)]
                        ELSE IF p \in ToSet(old.pipes) THEN raised[p] ELSE {}]
  BY <1>1 DEF Load
<1>4. /\ fds' = snap.fds /\ again' = snap.again
      /\ asleep' = snap.asleep /\ isr' = snap.isr
      /\ resumed' = Sleepers(snap.asleep)
      /\ mixed' = (mixed \/ ~ OnePipeEach(file))
      /\ snap' = snap
  BY <1>1 DEF Load
<1>5. /\ at \in Seq(PipeId \ ToSet(old.pipes)) /\ at \in Seq(PipeId)
      /\ Len(at) = n /\ DOMAIN at = 1..n
      /\ \A i \in 1..n : at[i] \in PipeId /\ at[i] \in ToSet(at)
      /\ \A p \in ToSet(at) : \E i \in 1..n : p = at[i]
  BY <1>2 DEF ToSet
<1>6. /\ old \in Device /\ Linked(old) /\ HasChannels(old) /\ SignaledWant(old)
      /\ ToSet(old.pipes) \subseteq PipeId
      /\ ToSet(old.signaled) \subseteq ToSet(old.pipes)
      /\ IsInjective(old.signaled)
      /\ ToSet(at) \cap ToSet(old.pipes) = {}
  <2>1. ToSet(at) \cap ToSet(old.pipes) = {}
    BY <1>5
  <2> QED BY <2>1, DeviceParts DEF Linked
<1>7. PICK new : new = Loaded(old, file, at, snap.line)
  OBVIOUS
<1>8. /\ new \in Device
      /\ new.pipes = Reverse(at) \o old.pipes
      /\ ToSet(new.pipes) = ToSet(at) \cup ToSet(old.pipes)
      /\ IsInjective(new.pipes)
      /\ new.signaled = old.signaled /\ new.wakes = file.wakes
      /\ \A p \in PipeId \ ToSet(at) : new.node[p] = old.node[p]
      /\ \A k \in 1..n : /\ new.node[at[k]].channel = file.pipes[k].channel
                         /\ new.node[at[k]].wanted = file.pipes[k].wanted
  <2>1. IsLoaded(old, file, at, snap.line, Loaded(old, file, at, snap.line))
    BY <1>1, <1>2, <1>3, <1>5, LoadedFacts
  <2>2. IsLoaded(old, file, at, snap.line, new)
    BY <1>7, <2>1, Zenon
  <2> QED BY <1>5, <2>2 DEF IsLoaded
<1>9. Woken(new, dev', ToSet(new.pipes))
  <2>1. dev' = FoldLeft(WakeLoaded, new, new.pipes)
    BY <1>3, <1>7 DEF goldfish_pipe_load
  <2> QED BY <1>6, <1>8, <2>1, LoopWakes
<1>10. /\ dev' \in Device /\ dev'.pipes = new.pipes /\ dev'.node = new.node
       /\ dev'.wakes = file.wakes /\ IsInjective(dev'.signaled)
       /\ ToSet(dev'.signaled) = ToSet(old.signaled)
            \cup {p \in ToSet(new.pipes) : new.node[p].wanted # {}}
       /\ (\E p \in ToSet(new.pipes) : new.node[p].wanted # {}) => dev'.irq
  BY <1>8, <1>9 DEF Woken
<1>11. \A p \in ToSet(old.pipes) : new.node[p] = old.node[p]
  BY <1>6, <1>8
<1>12. \A p \in ToSet(dev'.signaled) :
         p \in ToSet(new.pipes) /\ new.node[p].wanted # {}
  BY <1>6, <1>8, <1>10, <1>11 DEF SignaledWant
<1>13. DeviceOK(dev')
  <2>1. dev'.signaled # <<>> => dev'.irq
    <3>1. dev'.signaled \in Seq(PipeId)
      BY <1>10 DEF Device
    <3> QED BY <1>10, <1>12, <3>1, EmptyFacts
  <2>2. Linked(dev')
    BY <1>8, <1>10, <1>12, <2>1 DEF Linked
  <2>3. HasChannels(dev')
    <3>2. \A k \in 1..n : file.pipes[k].channel \in Channel
      BY <1>2 DEF SavedPipe
    <3>1. \A k \in 1..n : new.node[at[k]].channel \in Channel
      BY <1>8, <3>2
    <3>3. \A p \in ToSet(at) : new.node[p].channel \in Channel
      BY <1>5, <3>1
    <3>4. \A p \in ToSet(old.pipes) : new.node[p].channel \in Channel
      BY <1>6, <1>11 DEF HasChannels
    <3> QED BY <1>8, <1>10, <3>3, <3>4 DEF HasChannels
  <2>4. SignaledWant(dev')
    BY <1>10, <1>12 DEF SignaledWant
  <2> QED BY <1>10, <2>2, <2>3, <2>4 DEF DeviceOK
<1>14. \A k \in 1..n : raised'[at[k]] = snap.raised[k]
  BY <1>3, <1>5, PlaceInFacts
<1>15. /\ \A p \in ToSet(old.pipes) : raised'[p] = raised[p]
       /\ \A p \in PipeId : p \notin ToSet(at) \cup ToSet(old.pipes) => raised'[p] = {}
  BY <1>3, <1>6
<1>16. raised \in [PipeId -> SUBSET Event]
  BY DEF SnapInv, TypeOK
<1>17. raised' \in [PipeId -> SUBSET Event]
  <2>1. \A k \in 1..n : snap.raised[k] \in SUBSET Event
    BY <1>2 DEF SavedPipe
  <2>2. \A p \in PipeId : raised'[p] \in SUBSET Event
    BY <1>5, <1>6, <1>14, <1>15, <1>16, <2>1
  <2>3. raised' = [p \in PipeId |-> raised'[p]]
    BY <1>3
  <2> QED BY <2>2, <2>3
<1>18. Pending(dev', raised')
  <2> SUFFICES ASSUME NEW p \in PipeId, raised'[p] # {}
               PROVE  p \in ToSet(dev'.signaled) /\ raised'[p] \subseteq dev'.node[p].wanted
    BY DEF Pending
  <2>1. CASE p \in ToSet(at)
    <3>1. PICK k \in 1..n : p = at[k]
      BY <1>5, <2>1
    <3>2. raised'[p] \subseteq new.node[p].wanted /\ p \in ToSet(new.pipes)
      BY <1>2, <1>8, <1>14, <2>1, <3>1
    <3>3. new.node[p].wanted # {}
      BY <3>2
    <3> QED BY <1>10, <3>2, <3>3
  <2>2. CASE p \in ToSet(old.pipes)
    BY <1>10, <1>11, <1>15, <2>2 DEF PendingOn
  <2> QED BY <1>15, <2>1, <2>2
<1>19. TypeOK'
  BY <1>2, <1>4, <1>10, <1>17 DEF TypeOK
<1>20. ASSUME ~ mixed', NEW c \in Channel, NEW e \in snap.asleep[c]
       PROVE  /\ HasPipe(dev', c)
              /\ \/ /\ e \in dev'.node[PipeOf(dev', c)].wanted
                    /\ PipeOf(dev', c) \in ToSet(dev'.signaled)
                 \/ isr'.at = "mask" /\ isr'.chan = c /\ e \in dev'.wakes
  <2>1. FileHears /\ OnePipeEach(file)
    BY <1>1, <1>4, <1>20 DEF SnapInv, Load
  <2>2. PICK i \in 1..n :
          /\ file.pipes[i].channel = c
          /\ \/ e \in file.pipes[i].wanted
             \/ snap.isr.at = "mask" /\ snap.isr.chan = c /\ e \in file.wakes
    BY <1>1, <1>20, <2>1 DEF FileHears
  <2>3. \A j \in 1..n : file.pipes[j].channel = c => j = i
    BY <1>1, <1>2, <2>1, <2>2 DEF OnePipeEach
  <2>4. PICK s, t : s = old.pipes /\ t = Reverse(at) \o s
    OBVIOUS
  <2>5. s \in Seq(PipeId) /\ IsInjective(s) /\ ToSet(at) \cap ToSet(s) = {} /\ t = new.pipes
    BY <1>6, <1>8, <2>4 DEF Linked, Device
  <2>6. Len(t) = n + Len(s) /\ \A j \in 1..n : t[j] = at[(n - j) + 1]
    <3>1. IsInjective(at)
      BY <1>3
    <3>3. at \in Seq(PipeId) /\ Len(at) = n
      BY <1>5
    <3>2. Len(t) = Len(at) + Len(s) /\ \A j \in 1..Len(at) : t[j] = at[(Len(at) - j) + 1]
      <4>1. /\ Len(Reverse(at) \o s) = Len(at) + Len(s)
            /\ \A j \in 1..Len(at) : (Reverse(at) \o s)[j] = at[(Len(at) - j) + 1]
        BY <2>5, <3>1, <3>3, PushedFacts, Zenon
      <4> QED BY <2>4, <4>1, Zenon
    <3> QED BY <3>2, <3>3
  <2>7. PICK m \in Nat : m = Len(t) /\ n <= m
    BY <1>2, <2>5, <2>6
  <2>8. PICK h \in 1..n : h = (n - i) + 1 /\ (n - h) + 1 = i /\ h \in 1..m
    BY <1>2, <2>7
  <2>9. t[h] = at[i]
    BY <2>6, <2>8
  <2>10. ASSUME NEW j \in 1..m, new.node[t[j]].channel = c PROVE h <= j
    <3>1. CASE j \in 1..n
      <4>1. PICK g \in 1..n : g = (n - j) + 1
        BY <1>2, <3>1
      <4>2. t[j] = at[g]
        BY <2>6, <3>1, <4>1
      <4>3. g = i
        BY <1>8, <2>3, <2>10, <4>2
      <4> QED BY <1>2, <2>8, <3>1, <4>1, <4>3
    <3>2. CASE j \notin 1..n
      BY <1>2, <2>8, <3>2
    <3> QED BY <3>1, <3>2
  <2>11. First(dev', c, h)
    <3>1. dev'.pipes = t /\ dev'.node = new.node /\ m = Len(dev'.pipes) /\ h \in 1..m
      BY <1>10, <2>5, <2>7, <2>8
    <3>2. new.node[t[h]].channel = c
      BY <1>8, <2>2, <2>9
    <3> QED BY <2>10, <3>1, <3>2 DEF First
  <2>12. HasPipe(dev', c) /\ PipeOf(dev', c) = at[i]
    BY <1>10, <2>5, <2>9, <2>11, LookupIsFirst
  <2>13. CASE e \in file.pipes[i].wanted
    <3>1. e \in new.node[at[i]].wanted /\ at[i] \in ToSet(new.pipes)
      BY <1>5, <1>8, <2>13
    <3>2. at[i] \in ToSet(dev'.signaled) /\ e \in dev'.node[at[i]].wanted
      BY <1>10, <3>1
    <3> QED BY <2>12, <3>2
  <2>14. CASE snap.isr.at = "mask" /\ snap.isr.chan = c /\ e \in file.wakes
    BY <1>4, <1>10, <2>12, <2>14
  <2> QED BY <2>2, <2>13, <2>14
<1>21. SleepersAreHeard'
  BY <1>4, <1>20 DEF SleepersAreHeard, NoDeafSleeper
<1>22. ResumedAreWoken'
  <2> SUFFICES ASSUME ~ mixed', NEW t \in Sleepers(snap.asleep) PROVE IsWoken(t)'
    BY <1>4 DEF ResumedAreWoken
  <2>1. t[1] \in Channel /\ t[2] \in snap.asleep[t[1]]
    BY ThreadAssumption DEF Sleepers
  <2> QED BY <1>20, <2>1 DEF IsWoken, Signaled
<1>23. resumed' \subseteq Sleepers(asleep')
  BY <1>4
<1>24. snap'.taken => FileOK' /\ (~ mixed' /\ OnePipeEach(snap'.file) => FileHears')
  BY <1>4 DEF SnapInv, FileOK, FileHears
<1> QED BY <1>13, <1>18, <1>19, <1>21, <1>22, <1>23, <1>24 DEF SnapInv

(* A new process has no pipes.                                             *)
LEMMA InitDeviceFacts == DeviceOK(InitDevice) /\ \A r : PendingOn(InitDevice, r)
<1>1. PICK d : d = InitDevice
  OBVIOUS
<1>2. FreePipe \in Pipe
  BY DEF FreePipe, Pipe
<1>3. d \in Device /\ d.pipes = <<>> /\ d.signaled = <<>>
  BY <1>1, <1>2 DEF InitDevice, Device
<1>4. ToSet(d.pipes) = {} /\ ToSet(d.signaled) = {}
  BY <1>3 DEF ToSet
<1>5. Linked(d)
  BY <1>3, <1>4 DEF Linked, IsInjective
<1> QED BY <1>1, <1>3, <1>4, <1>5 DEF DeviceOK, HasChannels, SignaledWant, PendingOn

LEMMA InitSnapInv == SnapInit => SnapInv
<1> SUFFICES ASSUME SnapInit PROVE SnapInv
  OBVIOUS
<1>1. DeviceOK(dev)
  BY InitDeviceFacts DEF SnapInit, Init
<1>2. TypeOK
  BY <1>1 DEF SnapInit, Init, TypeOK, DeviceOK, Isr
<1>3. Pending(dev, raised)
  BY DEF SnapInit, Init, Pending
<1>4. SleepersAreHeard /\ ResumedAreWoken /\ resumed \subseteq Sleepers(asleep)
  BY DEF SnapInit, Init, SleepersAreHeard, NoDeafSleeper, ResumedAreWoken
<1>5. ~ snap.taken
  BY DEF SnapInit, NoSnapshot
<1> QED BY <1>1, <1>2, <1>3, <1>4, <1>5 DEF SnapInv

LEMMA NextSnapInv == SnapInv /\ [SnapNext]_svars => SnapInv'
<1> SUFFICES ASSUME SnapInv, [SnapNext]_svars PROVE SnapInv'
  OBVIOUS
<1>1. CASE Next /\ Meanwhile
  BY <1>1, RunningKeeps
<1>2. CASE Save
  BY <1>2, SaveKeeps
<1>3. CASE LoadLive
  <2>1. DeviceOK(dev) /\ ToSet(dev.pipes) \subseteq PipeId /\ Pending(dev, raised)
    BY DeviceParts DEF SnapInv
  <2>2. PendingOn(dev, raised)
    BY <2>1 DEF PendingOn, Pending
  <2> QED BY <1>3, <2>1, <2>2, LoadKeeps DEF LoadLive
<1>4. CASE LoadFresh
  BY <1>4, InitDeviceFacts, LoadKeeps DEF LoadFresh
<1>5. CASE UNCHANGED svars
  BY <1>5 DEF svars, vars, SnapInv, TypeOK, SleepersAreHeard, NoDeafSleeper,
              ResumedAreWoken, IsWoken, Signaled, FileOK, FileHears
<1> QED BY <1>1, <1>2, <1>3, <1>4, <1>5 DEF SnapNext, OpenRefused

-----------------------------------------------------------------------------
(* Every state that saves and loads lead to satisfies the invariant.       *)
THEOREM SnapInvariant == SnapSpec => []SnapInv
BY InitSnapInv, NextSnapInv, PTL DEF SnapSpec

(* What goldfish_pipe_load puts together is a device again.                *)
THEOREM SnapTypeCorrect == SnapSpec => []TypeOK
<1>1. SnapInv => TypeOK
  BY DEF SnapInv
<1> QED BY <1>1, SnapInvariant, PTL

(* The list of signaled pipes, which is not in the file, holds live pipes  *)
(* only, each once, also when a snapshot is loaded over pipes that are     *)
(* signaled.                                                               *)
THEOREM SnapNoDanglingPipe == SnapSpec => []SignaledAreLive
<1>1. SnapInv => SignaledAreLive
  BY DEF SnapInv, DeviceOK, Linked, SignaledAreLive, Signaled
<1> QED BY <1>1, SnapInvariant, PTL

(* The line is high while a pipe is signaled, although a load sets it to   *)
(* what it was when the snapshot was saved.                                *)
THEOREM SnapLineStaysHigh == SnapSpec => []SignalHoldsLine
<1>1. SnapInv => SignalHoldsLine
  BY DEF SnapInv, DeviceOK, Linked, SignalHoldsLine
<1> QED BY <1>1, SnapInvariant, PTL

(* What services raised before a snapshot was saved, or before one was     *)
(* loaded over their pipes, is still to be reported.                       *)
THEOREM SnapNoEventForgotten == SnapSpec => []RaisedStaysPending
<1>1. SnapInv => RaisedStaysPending
  BY DEF SnapInv, Pending, RaisedStaysPending, Signaled
<1> QED BY <1>1, SnapInvariant, PTL

(* No guest thread becomes deaf by a load, unless the snapshot had two     *)
(* pipes of one channel.                                                   *)
THEOREM SnapSleepersAreHeard == SnapSpec => []SleepersAreHeard
<1>1. SnapInv => SleepersAreHeard
  BY DEF SnapInv
<1> QED BY <1>1, SnapInvariant, PTL

(* Whoever slept when the snapshot was saved is about to be woken by the   *)
(* handler once it is loaded, and until then stays so.                     *)
THEOREM SnapSleepersResume == SnapSpec => []ResumedAreWoken
<1>1. SnapInv => ResumedAreWoken
  BY DEF SnapInv
<1> QED BY <1>1, SnapInvariant, PTL
=============================================================================
