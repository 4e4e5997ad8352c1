------------------------------ MODULE CharPipe ------------------------------
(***************************************************************************)
(* One direction of a character pipe (charpipe.c) with the ring buffers it *)
(* is made of (cbuffer.c).                                                 *)
(*                                                                         *)
(* What one end writes goes straight to the reader at the other end as     *)
(* long as nothing waits and the reader has room; the rest is kept in a    *)
(* list of ring buffers that the main loop empties when the reader has     *)
(* room again.  The reader here is a device's buffer of reader_size bytes. *)
(***************************************************************************)
EXTENDS Integers, SequencesExt

(* The size of a ring buffer (512) and of the reader's buffer (128).       *)
CONSTANTS BIP_BUFFER_SIZE, reader_size
ASSUME CharPipeAssumption ==
  BIP_BUFFER_SIZE \in Nat \ {0} /\ reader_size \in Nat \ {0}

(* The lesser number; the first n bytes of s; s without them.              *)
Least(m, n) == IF m <= n THEN m ELSE n
First(s, n) == SubSeq(s, 1, n)
From(s, n) == SubSeq(s, n + 1, Len(s))

-----------------------------------------------------------------------------
(* A ring buffer: `count` bytes from position rpos on.  A place that is not*)
(* in use holds `blank`.                                                   *)
CONSTANT blank
Place == 0..(BIP_BUFFER_SIZE - 1)

cbuffer_reset == [rpos |-> 0, count |-> 0, buff |-> [i \in Place |-> blank]]

(* cbuffer_write, as far as there is room.                                 *)
(* Mutant: the writing position is not brought back to the start.          *)
WritesPastEnd(cb, i) == i - (cb.rpos + cb.count)
Offset(cb, i) == (i - (cb.rpos + cb.count)) % BIP_BUFFER_SIZE

cbuffer_write(cb, bytes) ==
  [cb EXCEPT !.count = @ + Len(bytes),
             !.buff = [i \in Place |->
                         IF Offset(cb, i) \in 0..(Len(bytes) - 1)
                         THEN bytes[Offset(cb, i) + 1] ELSE @[i]]]

(* cbuffer_read_peek: what there is up to the end of the buffer.           *)
cbuffer_read_peek(cb) ==
  [i \in 1..Least(cb.count, BIP_BUFFER_SIZE - cb.rpos) |-> cb.buff[cb.rpos + i - 1]]

cbuffer_read_step(cb, n) ==
  [rpos |-> (cb.rpos + n) % BIP_BUFFER_SIZE, count |-> cb.count - n,
   buff |-> [i \in Place |-> IF i \in cb.rpos..(cb.rpos + n - 1) THEN blank ELSE cb.buff[i]]]

(* All that waits in one buffer, and in a list of them.                    *)
Held(cb) == [i \in 1..cb.count |-> cb.buff[(cb.rpos + i - 1) % BIP_BUFFER_SIZE]]
Waiting(bips) == FlattenSeq([i \in DOMAIN bips |-> Held(bips[i])])

-----------------------------------------------------------------------------
(* A half of the pipe: the buffers, first to last, and what the reader at  *)
(* the other end has.                                                      *)
EmptyHalf == [bips |-> <<>>, reader |-> <<>>]

can_read(h) == reader_size - Len(h.reader)

(* The buffers that are needed for some bytes, each full but for the last. *)
Buffers(bytes) ==
  [k \in 1..((Len(bytes) + BIP_BUFFER_SIZE - 1) \div BIP_BUFFER_SIZE) |->
     cbuffer_write(cbuffer_reset,
                   First(From(bytes, (k - 1) * BIP_BUFFER_SIZE),
                         Least(BIP_BUFFER_SIZE, Len(bytes) - (k - 1) * BIP_BUFFER_SIZE)))]

(* Mutant: it is tried whether or not something waits.                     *)
WritesAlways(h, n) == Least(can_read(h), n)
Direct(h, n) == IF h.bips = <<>> THEN Least(can_read(h), n) ELSE 0

charpipehalf_write(h, bytes) ==
  LET direct == Direct(h, Len(bytes))
      rest == From(bytes, direct)
      old == IF h.bips = <<>> THEN 0
             ELSE Least(BIP_BUFFER_SIZE - Last(h.bips).count, Len(rest))
  IN  [bips |-> (IF h.bips = <<>> THEN <<>>
                 ELSE Append(Front(h.bips), cbuffer_write(Last(h.bips), First(rest, old))))
                \o Buffers(From(rest, old)),
       reader |-> h.reader \o First(bytes, direct)]

(* One turn of charpipehalf_poll's loop, when there is one to make.        *)
HasWork(h) == h.bips # <<>> /\ (Head(h.bips).count = 0 \/ can_read(h) > 0)

charpipehalf_poll(h) ==
  LET bip == Head(h.bips)
      n == Least(Len(cbuffer_read_peek(bip)), can_read(h))
  IN  IF bip.count = 0 THEN [h EXCEPT !.bips = Tail(@)]
      ELSE [bips |-> <<cbuffer_read_step(bip, n)>> \o Tail(h.bips),
            reader |-> h.reader \o First(cbuffer_read_peek(bip), n)]
=============================================================================
