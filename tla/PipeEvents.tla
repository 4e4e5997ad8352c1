----------------------------- MODULE PipeEvents -----------------------------
(***************************************************************************)
(* What the pipe device's code keeps to about events, without lists,       *)
(* registers or an interrupt line: an event that a service raises on an    *)
(* open channel is due until the guest has been told of it or has closed   *)
(* the channel; what the guest asked to hear of is told along with it;     *)
(* and the guest is told that it has heard everything only when nothing is *)
(* due.  Nothing is promised about the order in which channels are told.   *)
(*                                                                         *)
(* This is not what docs/ANDROID-QEMU-PIPE.TXT says (192-200), where READ  *)
(* means that "the channel is now readable" and is "only reported for a    *)
(* given channel if CMD_WAKE_ON_READ" was issued for it, and WRITE         *)
(* likewise.  The code reports whatever a service raises, asked for or not *)
(* (goldfish_pipe.c:1302), and with it what was only asked for (:1162).    *)
(* A guest may rely on no event being lost, but not on a READ or WRITE     *)
(* having been asked for or having happened.  QemudPipe!ReaderIsWoken is   *)
(* about what follows from an event that is reported unasked.              *)
(***************************************************************************)
CONSTANTS Channel, Event, IoEvent

VARIABLES
  open,   \* the channels the guest has opened
  asked,  \* [c] : the events the guest asked to hear of that are not due
  due,    \* [c] : the events raised on c of which the guest was not told
  phase,  \* whether the guest is not asking, asks, or is being told
  chan,   \* the channel it is being told of, or 0
  told    \* the events it is being told of

talk == <<phase, chan, told>>
vars == <<open, asked, due, talk>>

Init ==
  /\ open = {}
  /\ asked = [c \in Channel |-> {}]
  /\ due = [c \in Channel |-> {}]
  /\ phase = "idle" /\ chan = 0 /\ told = {}

(* Services raise events, or none, on the given channels: due and asked    *)
(* were d and a before.                                                    *)
Raises(channels, d, a) ==
  /\ due' \in [Channel -> SUBSET Event]
  /\ \A c \in Channel :
       /\ d[c] \subseteq due'[c]
       /\ c \notin channels => due'[c] = d[c]
  /\ asked' = [c \in Channel |-> a[c] \ due'[c]]

Open(c) ==
  /\ c \notin open
  /\ open' = open \cup {c}
  /\ UNCHANGED <<asked, due, talk>>

(* Closing a channel forgets what was due on it.                           *)
Close(c) ==
  /\ c \in open
  /\ open' = open \ {c}
  /\ Raises(open \ {c}, [due EXCEPT ![c] = {}], [asked EXCEPT ![c] = {}])
  /\ UNCHANGED talk

Ask(c, e) ==
  /\ c \in open
  /\ e \notin due[c]
  /\ Raises(open, due, [asked EXCEPT ![c] = @ \cup {e}])
  /\ UNCHANGED <<open, talk>>

Raise == Raises(open, due, asked) /\ UNCHANGED <<open, talk>>

Start ==
  /\ phase = "idle"
  /\ phase' = "list"
  /\ UNCHANGED <<open, asked, due, chan, told>>

(* The guest is told of what is due on a channel, whether or not it asked  *)
(* for it, and of what it asked for there, whether or not it has happened: *)
(* REG_CHANNEL hands over `wanted`, which does not tell them apart.        *)
Tell(c) ==
  /\ phase = "list"
  /\ due[c] # {}
  /\ phase' = "mask"
  /\ chan' = c
  /\ told' = due[c] \cup asked[c]
  /\ due' = [due EXCEPT ![c] = {}]
  /\ asked' = [asked EXCEPT ![c] = {}]
  /\ UNCHANGED open

Heard ==
  /\ phase = "mask"
  /\ phase' = "list"
  /\ chan' = 0
  /\ told' = {}
  /\ UNCHANGED <<open, asked, due>>

AllTold ==
  /\ phase = "list"
  /\ \A c \in Channel : due[c] = {}
  /\ phase' = "idle"
  /\ UNCHANGED <<open, asked, due, chan, told>>

Next ==
  \/ Raise \/ Start \/ Heard \/ AllTold
  \/ \E c \in Channel : Open(c) \/ Close(c) \/ Tell(c)
  \/ \E c \in Channel, e \in IoEvent : Ask(c, e)

Spec == Init /\ [][Next]_vars
=============================================================================
