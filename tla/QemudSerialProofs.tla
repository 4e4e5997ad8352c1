------------------------- MODULE QemudSerialProofs -------------------------
(***************************************************************************)
(* The serial side of qemud, for every number of channels, services and    *)
(* limits, every size of packets, pieces and buffers, and however much is  *)
(* written: what a service is given is what its client wrote, the guest    *)
(* reads what it was sent, clients are counted, and the two sides agree    *)
(* when nothing is on its way.                                             *)
(*                                                                         *)
(* A state does not say which packets are under way: their bytes are cut   *)
(* at arbitrary places, between the line, what charpipehalf_write still    *)
(* holds, the header and payload that qemud_serial_read has, and msg.  The *)
(* invariant is therefore that there is a sequence of packets, ps, of      *)
(* which these are the bytes (StreamOK).  Of ps it then says which control *)
(* messages are in it and what they and the answers on their way mean for  *)
(* a channel (ControlInv, ChannelOK), and that the bytes in it for a       *)
(* channel, behind the part of a frame that its client has, are the frames *)
(* that its service has not been given (FramesInv).                        *)
(*                                                                         *)
(* First come the ring buffers and the character pipe, which hold what is  *)
(* sent to the guest; then packets and frames as bytes; then one lemma for *)
(* each action, which says what becomes of ps.                             *)
(***************************************************************************)
EXTENDS QemudSerial, ListFacts, FiniteSetTheorems

-----------------------------------------------------------------------------
(* Positions in a ring of B places.                                        *)
B == BIP_BUFFER_SIZE

(* The remainders that occur.                                              *)
LEMMA ModFacts ==
  ASSUME NEW N \in Nat \ {0}
  PROVE  /\ \A a \in 0..(N - 1) : a % N = a
         /\ \A a \in N..(N + N - 1) : a % N = a - N
         /\ \A a \in (-N)..(-1) : a % N = a + N
         /\ \A a \in (-(N + N))..(-(N + 1)) : a % N = a + N + N
<1>1. \A a \in 0..(N - 1) : a % N = a
  OBVIOUS
<1>2. \A a \in N..(N + N - 1) : a % N = a - N
  OBVIOUS
<1>3. \A a \in (-N)..(-1) : a % N = a + N
  OBVIOUS
<1>4. \A a \in (-(N + N))..(-(N + 1)) : a % N = a + N + N
  OBVIOUS
<1> QED BY <1>1, <1>2, <1>3, <1>4

(* How many pieces of N bytes n bytes make.                                *)
LEMMA DivFacts ==
  ASSUME NEW N \in Nat \ {0}, NEW n \in Nat
  PROVE  LET q == (n + N - 1) \div N
         IN  /\ q \in Nat /\ n <= q * N
             /\ \A k \in 1..q : (k - 1) * N \in Nat /\ (k - 1) * N < n
             /\ q = 0 <=> n = 0
             /\ n \in 1..N => q = 1
<1> DEFINE q == (n + N - 1) \div N
           m == (n + N - 1) % N
<1>1. n + N - 1 = N * q + m /\ m \in 0..(N - 1) /\ q \in Int
  OBVIOUS
<1> HIDE DEF q, m
<1>2. q \in Nat
  BY <1>1
<1>3. n <= q * N
  BY <1>1, <1>2
<1>4. ASSUME NEW k \in 1..q PROVE (k - 1) * N \in Nat /\ (k - 1) * N < n
  BY <1>1, <1>2, <1>4
<1>5. q = 0 <=> n = 0
  BY <1>1, <1>2
<1>6. n \in 1..N => q = 1
  BY <1>1, <1>2
<1> QED BY <1>2, <1>3, <1>4, <1>5, <1>6 DEF q

-----------------------------------------------------------------------------
(* Ring buffers (cbuffer.c).  A ring that holds elements of T: what it     *)
(* holds are its count places from rpos on, and no blank is among them.    *)
Ring(cb, T) ==
  /\ cb \in [rpos: Place, count: 0..BIP_BUFFER_SIZE, buff: [Place -> T \cup {blank}]]
  /\ \A i \in 1..cb.count : cb.buff[(cb.rpos + i - 1) % BIP_BUFFER_SIZE] \in T

(* A ring has no blank where it holds something, and holds count elements. *)
LEMMA RingFacts ==
  ASSUME NEW T, NEW cb, Ring(cb, T)
  PROVE  /\ Held(cb) \in Seq(T) /\ Len(Held(cb)) = cb.count
         /\ \A i \in 1..cb.count :
              Held(cb)[i] = cb.buff[(cb.rpos + i - 1) % BIP_BUFFER_SIZE]
         /\ cb.count \in 0..BIP_BUFFER_SIZE /\ cb.rpos \in Place
<1>1. cb.count \in 0..BIP_BUFFER_SIZE /\ cb.rpos \in Place /\ BIP_BUFFER_SIZE \in Nat \ {0}
  BY CharPipeAssumption DEF Ring
<1>2. Held(cb) = [i \in 1..cb.count |-> cb.buff[(cb.rpos + i - 1) % BIP_BUFFER_SIZE]]
  BY DEF Held
<1>3. Held(cb) \in [1..cb.count -> T]
  BY <1>2 DEF Ring
<1>4. cb.count \in Nat
  BY <1>1
<1>5. Held(cb) \in Seq(T)
  BY <1>3, <1>4, SeqDef
<1>6. Len(Held(cb)) = cb.count
  <2>1. DOMAIN Held(cb) = 1..cb.count
    BY <1>3
  <2> QED BY <1>4, <1>5, <2>1, LenProperties
<1> QED BY <1>1, <1>2, <1>5, <1>6

(* A ring that was reset is empty.                                         *)
LEMMA EmptyRing ==
  ASSUME NEW T
  PROVE  Ring(cbuffer_reset, T) /\ Held(cbuffer_reset) = <<>> /\ cbuffer_reset.count = 0
<1>1. Ring(cbuffer_reset, T)
  BY CharPipeAssumption DEF Ring, cbuffer_reset, Place
<1>2. cbuffer_reset.count = 0
  BY DEF cbuffer_reset
<1> QED BY <1>1, <1>2, RingFacts, EmptySeq

(* Where the i-th place from rpos on lies, seen from the first free one.   *)
LEMMA OffsetFacts ==
  ASSUME NEW N \in Nat \ {0}, NEW r \in 0..(N - 1), NEW c \in 0..N, NEW i \in 1..N
  PROVE  /\ (r + i - 1) % N \in 0..(N - 1)
         /\ (r + i - 1) % N = IF r + i - 1 < N THEN r + i - 1 ELSE r + i - 1 - N
         /\ (((r + i - 1) % N) - (r + c)) % N = IF i <= c THEN N + i - 1 - c ELSE i - 1 - c
<1> DEFINE p == (r + i - 1) % N
           d == p - (r + c)
<1>1. p = IF r + i - 1 < N THEN r + i - 1 ELSE r + i - 1 - N
  <2>1. CASE r + i - 1 < N
    <3>1. r + i - 1 \in 0..(N - 1)
      BY <2>1
    <3> QED BY <2>1, <3>1, ModFacts
  <2>2. CASE ~ (r + i - 1 < N)
    <3>1. r + i - 1 \in N..(N + N - 1)
      BY <2>2
    <3> QED BY <2>2, <3>1, ModFacts
  <2> QED BY <2>1, <2>2
<1>2. p \in 0..(N - 1)
  BY <1>1
<1> HIDE DEF p
<1>3. d % N = IF i <= c THEN N + i - 1 - c ELSE i - 1 - c
  <2>1. CASE i <= c /\ r + i - 1 < N
    <3>1. d \in (-N)..(-1) /\ d = i - 1 - c
      BY <1>1, <2>1
    <3>2. d % N = d + N
      BY <3>1, ModFacts
    <3> QED BY <2>1, <3>1, <3>2
  <2>2. CASE i <= c /\ ~ (r + i - 1 < N)
    <3>1. d \in (-(N + N))..(-(N + 1)) /\ d = i - 1 - c - N
      BY <1>1, <2>2
    <3>2. d % N = d + N + N
      BY <3>1, ModFacts
    <3> QED BY <2>2, <3>1, <3>2
  <2>3. CASE ~ (i <= c) /\ r + i - 1 < N
    <3>1. d \in 0..(N - 1) /\ d = i - 1 - c
      BY <1>1, <2>3
    <3>2. d % N = d
      BY <3>1, ModFacts
    <3> QED BY <2>3, <3>1, <3>2
  <2>4. CASE ~ (i <= c) /\ ~ (r + i - 1 < N)
    <3>1. d \in (-N)..(-1) /\ d = i - 1 - c - N
      BY <1>1, <2>4
    <3>2. d % N = d + N
      BY <3>1, ModFacts
    <3> QED BY <2>4, <3>1, <3>2
  <2> QED BY <2>1, <2>2, <2>3, <2>4
<1> QED BY <1>1, <1>2, <1>3 DEF p

(* cbuffer_write puts bytes behind those that are held, if they fit.       *)
LEMMA WriteFacts ==
  ASSUME NEW T, NEW cb, Ring(cb, T), NEW bytes \in Seq(T),
         cb.count + Len(bytes) <= BIP_BUFFER_SIZE
  PROVE  /\ Ring(cbuffer_write(cb, bytes), T)
         /\ Held(cbuffer_write(cb, bytes)) = Held(cb) \o bytes
         /\ cbuffer_write(cb, bytes).count = cb.count + Len(bytes)
<1>1. PICK N \in Nat \ {0} : N = BIP_BUFFER_SIZE /\ Place = 0..(N - 1)
  BY CharPipeAssumption DEF Place
<1>2. PICK r \in 0..(N - 1), c \in 0..N, f \in [Place -> T \cup {blank}] :
        cb = [rpos |-> r, count |-> c, buff |-> f]
  BY <1>1 DEF Ring
<1>3. PICK m \in Nat : m = Len(bytes) /\ c + m \in 0..N /\ \A i \in 1..m : bytes[i] \in T
  BY <1>1, <1>2
<1>4. PICK w : w = cbuffer_write(cb, bytes)
  OBVIOUS
<1>5. PICK g : g = [p \in Place |-> IF (p - (r + c)) % N \in 0..(m - 1)
                                    THEN bytes[((p - (r + c)) % N) + 1] ELSE f[p]]
  OBVIOUS
<1>6. w = [rpos |-> r, count |-> c + m, buff |-> g]
  BY <1>1, <1>2, <1>3, <1>4, <1>5 DEF cbuffer_write, Offset
<1>7. g \in [Place -> T \cup {blank}]
  <2>1. ASSUME NEW p \in Place PROVE g[p] \in T \cup {blank}
    <3>1. CASE (p - (r + c)) % N \in 0..(m - 1)
      <4>1. ((p - (r + c)) % N) + 1 \in 1..m
        BY <1>3, <3>1
      <4> QED BY <1>3, <1>5, <3>1, <4>1
    <3>2. CASE (p - (r + c)) % N \notin 0..(m - 1)
      BY <1>5, <3>2
    <3> QED BY <3>1, <3>2
  <2> QED BY <1>5, <2>1
<1>8. ASSUME NEW i \in 1..(c + m)
      PROVE  g[(r + i - 1) % N] = IF i <= c THEN f[(r + i - 1) % N] ELSE bytes[i - c]
  <2>1. PICK p \in Place : p = (r + i - 1) % N /\ i \in 1..N
                           /\ (p - (r + c)) % N = IF i <= c THEN N + i - 1 - c ELSE i - 1 - c
    <3>1. i \in 1..N
      BY <1>3
    <3>2. /\ (r + i - 1) % N \in 0..(N - 1)
          /\ (((r + i - 1) % N) - (r + c)) % N = IF i <= c THEN N + i - 1 - c ELSE i - 1 - c
      BY <3>1, OffsetFacts
    <3> QED BY <1>1, <3>1, <3>2
  <2>2. CASE i <= c
    <3>1. (p - (r + c)) % N \notin 0..(m - 1)
      BY <1>3, <2>1, <2>2
    <3> QED BY <1>5, <2>1, <2>2, <3>1
  <2>3. CASE ~ (i <= c)
    <3>1. (p - (r + c)) % N \in 0..(m - 1) /\ ((p - (r + c)) % N) + 1 = i - c
      BY <1>3, <2>1, <2>3
    <3> QED BY <1>5, <2>1, <2>3, <3>1
  <2> QED BY <2>2, <2>3
<1>9. Ring(w, T)
  <2>1. ASSUME NEW i \in 1..(c + m) PROVE g[(r + i - 1) % N] \in T
    <3>1. CASE i <= c
      <4>1. i \in 1..c
        BY <3>1
      <4>2. f[(r + i - 1) % N] \in T
        BY <1>1, <1>2, <4>1 DEF Ring
      <4> QED BY <1>8, <3>1, <4>2
    <3>2. CASE ~ (i <= c)
      <4>1. i - c \in 1..m
        BY <1>3, <3>2
      <4> QED BY <1>3, <1>8, <3>2, <4>1
    <3> QED BY <3>1, <3>2
  <2> QED BY <1>1, <1>3, <1>6, <1>7, <2>1 DEF Ring
<1>10. /\ Held(w) \in Seq(T) /\ Len(Held(w)) = c + m
       /\ \A i \in 1..(c + m) : Held(w)[i] = g[(r + i - 1) % N]
  <2>1. w.count = c + m /\ w.rpos = r /\ w.buff = g
    BY <1>6
  <2>2. /\ Held(w) \in Seq(T) /\ Len(Held(w)) = w.count
        /\ \A i \in 1..w.count : Held(w)[i] = w.buff[(w.rpos + i - 1) % BIP_BUFFER_SIZE]
    BY <1>9, RingFacts
  <2> QED BY <1>1, <2>1, <2>2
<1>11. /\ Held(cb) \in Seq(T) /\ Len(Held(cb)) = c
       /\ \A i \in 1..c : Held(cb)[i] = f[(r + i - 1) % N]
  <2>1. cb.count = c /\ cb.rpos = r /\ cb.buff = f
    BY <1>2
  <2>2. /\ Held(cb) \in Seq(T) /\ Len(Held(cb)) = cb.count
        /\ \A i \in 1..cb.count : Held(cb)[i] = cb.buff[(cb.rpos + i - 1) % BIP_BUFFER_SIZE]
    BY RingFacts
  <2> QED BY <1>1, <2>1, <2>2
<1>12. PICK u : u = Held(cb) \o bytes
  OBVIOUS
<1>13. /\ u \in Seq(T) /\ Len(u) = c + m
       /\ \A i \in 1..(c + m) : u[i] = IF i <= c THEN Held(cb)[i] ELSE bytes[i - c]
  BY <1>3, <1>11, <1>12, ConcatProperties
<1>15. ASSUME NEW i \in 1..(c + m) PROVE Held(w)[i] = u[i]
  <2>1. CASE i <= c
    <3>1. i \in 1..c
      BY <2>1
    <3> QED BY <1>8, <1>10, <1>11, <1>13, <2>1, <3>1
  <2>2. CASE ~ (i <= c)
    BY <1>8, <1>10, <1>13, <2>2
  <2> QED BY <2>1, <2>2
<1>16. Held(w) = u
  BY <1>10, <1>13, <1>15, SeqEqual
<1>17. cb.count = c /\ w.count = c + m
  BY <1>2, <1>6
<1> QED BY <1>3, <1>4, <1>9, <1>12, <1>16, <1>17

(* cbuffer_read_peek shows the first of them, and cbuffer_read_step drops  *)
(* some of these.                                                          *)
LEMMA PeekFacts ==
  ASSUME NEW T, NEW cb, Ring(cb, T)
  PROVE  /\ Len(cbuffer_read_peek(cb)) \in 0..cb.count
         /\ cb.count > 0 => Len(cbuffer_read_peek(cb)) > 0
         /\ cbuffer_read_peek(cb) = Upto(Held(cb), Len(cbuffer_read_peek(cb)))
         /\ cb.rpos + Len(cbuffer_read_peek(cb)) <= BIP_BUFFER_SIZE
<1>1. PICK N \in Nat \ {0} : N = BIP_BUFFER_SIZE /\ Place = 0..(N - 1)
  BY CharPipeAssumption DEF Place
<1>2. PICK r \in 0..(N - 1), c \in 0..N, f \in [Place -> T \cup {blank}] :
        cb = [rpos |-> r, count |-> c, buff |-> f]
  BY <1>1 DEF Ring
<1>3. PICK n \in 0..c : n = Least(c, N - r) /\ r + n <= N /\ (c > 0 => n > 0)
  <2>1. /\ Least(c, N - r) \in 0..c /\ r + Least(c, N - r) <= N
        /\ c > 0 => Least(c, N - r) > 0
    BY DEF Least
  <2> QED BY <2>1
<1>4. PICK peek : peek = cbuffer_read_peek(cb)
  OBVIOUS
<1>5. peek = [i \in 1..n |-> f[r + i - 1]]
  BY <1>1, <1>2, <1>3, <1>4 DEF cbuffer_read_peek
<1>6. /\ Held(cb) \in Seq(T) /\ Len(Held(cb)) = c
      /\ \A i \in 1..c : Held(cb)[i] = f[(r + i - 1) % N]
  <2>1. cb.count = c /\ cb.rpos = r /\ cb.buff = f
    BY <1>2
  <2>2. /\ Held(cb) \in Seq(T) /\ Len(Held(cb)) = cb.count
        /\ \A i \in 1..cb.count : Held(cb)[i] = cb.buff[(cb.rpos + i - 1) % BIP_BUFFER_SIZE]
    BY RingFacts
  <2> QED BY <1>1, <2>1, <2>2
<1>7. /\ Upto(Held(cb), n) \in Seq(T) /\ Len(Upto(Held(cb), n)) = n
      /\ \A i \in 1..n : Upto(Held(cb), n)[i] = Held(cb)[i]
  BY <1>3, <1>6, UptoFacts
<1>8. ASSUME NEW i \in 1..n PROVE peek[i] = Held(cb)[i] /\ peek[i] \in T
  <2>1. r + i - 1 \in 0..(N - 1) /\ i \in 1..c
    BY <1>3
  <2>2. (r + i - 1) % N = r + i - 1
    BY <2>1, ModFacts
  <2>3. Held(cb)[i] \in T
    BY <1>6, <2>1
  <2> QED BY <1>5, <1>6, <2>1, <2>2, <2>3
<1>9. peek \in Seq(T) /\ Len(peek) = n
  <2>1. peek \in [1..n -> T] /\ n \in Nat
    BY <1>3, <1>5, <1>8
  <2> QED BY <2>1
<1>10. peek = Upto(Held(cb), n)
  BY <1>7, <1>8, <1>9, SeqEqual
<1> QED BY <1>1, <1>2, <1>3, <1>4, <1>9, <1>10

(* What is read is what was written first.                                 *)
LEMMA StepFacts ==
  ASSUME NEW T, NEW cb, Ring(cb, T), NEW n \in 0..cb.count, cb.rpos + n <= BIP_BUFFER_SIZE
  PROVE  /\ Ring(cbuffer_read_step(cb, n), T)
         /\ Held(cbuffer_read_step(cb, n)) = After(Held(cb), n)
         /\ cbuffer_read_step(cb, n).count = cb.count - n
<1>1. PICK N \in Nat \ {0} : N = BIP_BUFFER_SIZE /\ Place = 0..(N - 1)
  BY CharPipeAssumption DEF Place
<1>2. PICK r \in 0..(N - 1), c \in 0..N, f \in [Place -> T \cup {blank}] :
        cb = [rpos |-> r, count |-> c, buff |-> f] /\ n \in 0..c /\ r + n <= N
  BY <1>1 DEF Ring
<1>3. PICK q : q = (r + n) % N
  OBVIOUS
<1>4. q = (IF r + n < N THEN r + n ELSE 0) /\ q \in 0..(N - 1)
  <2>1. CASE r + n < N
    <3>1. r + n \in 0..(N - 1)
      BY <1>2, <2>1
    <3> QED BY <1>3, <2>1, <3>1, ModFacts
  <2>2. CASE ~ (r + n < N)
    <3>1. r + n \in N..(N + N - 1) /\ r + n - N = 0
      BY <1>2, <2>2
    <3> QED BY <1>3, <2>2, <3>1, ModFacts
  <2> QED BY <2>1, <2>2
<1>5. PICK g : g = [p \in Place |-> IF p \in r..(r + n - 1) THEN blank ELSE f[p]]
  OBVIOUS
<1>6. PICK w : w = cbuffer_read_step(cb, n)
  OBVIOUS
<1>7. w = [rpos |-> q, count |-> c - n, buff |-> g]
  BY <1>1, <1>2, <1>3, <1>5, <1>6 DEF cbuffer_read_step
<1>8. g \in [Place -> T \cup {blank}]
  BY <1>5
<1>9. ASSUME NEW i \in 1..(c - n)
      PROVE  g[(q + i - 1) % N] = f[(r + (n + i) - 1) % N] /\ n + i \in 1..c
  <2>1. i \in 1..N /\ n + i \in 1..N /\ n + i \in 1..c
    BY <1>2
  <2>2. PICK p \in Place : p = (q + i - 1) % N
                           /\ p = IF q + i - 1 < N THEN q + i - 1 ELSE q + i - 1 - N
    <3>1. /\ (q + i - 1) % N \in 0..(N - 1)
          /\ (q + i - 1) % N = IF q + i - 1 < N THEN q + i - 1 ELSE q + i - 1 - N
      BY <1>4, <2>1, OffsetFacts
    <3> QED BY <1>1, <3>1
  <2>3. (r + (n + i) - 1) % N = IF r + (n + i) - 1 < N THEN r + (n + i) - 1 ELSE r + (n + i) - 1 - N
    BY <2>1, OffsetFacts
  <2>4. p = (r + (n + i) - 1) % N
    BY <1>2, <1>4, <2>1, <2>2, <2>3
  <2>5. p \notin r..(r + n - 1)
    BY <1>2, <1>4, <2>1, <2>2
  <2> QED BY <1>5, <2>1, <2>2, <2>4, <2>5
<1>10. Ring(w, T)
  <2>1. ASSUME NEW i \in 1..(c - n) PROVE g[(q + i - 1) % N] \in T
    BY <1>1, <1>2, <1>9 DEF Ring
  <2>2. c - n \in 0..N
    BY <1>2
  <2> QED BY <1>1, <1>4, <1>7, <1>8, <2>1, <2>2 DEF Ring
<1>11. /\ Held(w) \in Seq(T) /\ Len(Held(w)) = c - n
       /\ \A i \in 1..(c - n) : Held(w)[i] = g[(q + i - 1) % N]
  <2>1. w.count = c - n /\ w.rpos = q /\ w.buff = g
    BY <1>7
  <2>2. /\ Held(w) \in Seq(T) /\ Len(Held(w)) = w.count
        /\ \A i \in 1..w.count : Held(w)[i] = w.buff[(w.rpos + i - 1) % BIP_BUFFER_SIZE]
    BY <1>10, RingFacts
  <2> QED BY <1>1, <2>1, <2>2
<1>12. /\ Held(cb) \in Seq(T) /\ Len(Held(cb)) = c
       /\ \A i \in 1..c : Held(cb)[i] = f[(r + i - 1) % N]
  <2>1. cb.count = c /\ cb.rpos = r /\ cb.buff = f
    BY <1>2
  <2>2. /\ Held(cb) \in Seq(T) /\ Len(Held(cb)) = cb.count
        /\ \A i \in 1..cb.count : Held(cb)[i] = cb.buff[(cb.rpos + i - 1) % BIP_BUFFER_SIZE]
    BY RingFacts
  <2> QED BY <1>1, <2>1, <2>2
<1>13. /\ After(Held(cb), n) \in Seq(T) /\ Len(After(Held(cb), n)) = c - n
       /\ \A i \in 1..(c - n) : After(Held(cb), n)[i] = Held(cb)[n + i]
  <2>1. n \in Nat /\ n <= Len(Held(cb)) /\ Held(cb) \in Seq(T)
    BY <1>2, <1>12
  <2>2. /\ After(Held(cb), n) \in Seq(T)
        /\ Len(After(Held(cb), n)) = IF n <= Len(Held(cb)) THEN Len(Held(cb)) - n ELSE 0
        /\ \A i \in 1..(Len(Held(cb)) - n) : After(Held(cb), n)[i] = Held(cb)[n + i]
    BY <2>1, AfterFacts
  <2> QED BY <1>12, <2>1, <2>2
<1>14. \A i \in 1..(c - n) : Held(w)[i] = After(Held(cb), n)[i]
  BY <1>9, <1>11, <1>12, <1>13
<1>15. Held(w) = After(Held(cb), n)
  BY <1>11, <1>13, <1>14, SeqEqual
<1> QED BY <1>2, <1>6, <1>7, <1>10, <1>15

-----------------------------------------------------------------------------
(* Lists of ring buffers.                                                  *)
Rings(T) ==
  {cb \in [rpos: Place, count: 0..BIP_BUFFER_SIZE, buff: [Place -> T \cup {blank}]] :
     \A i \in 1..cb.count : cb.buff[(cb.rpos + i - 1) % BIP_BUFFER_SIZE] \in T}
Helds(bips) == [i \in DOMAIN bips |-> Held(bips[i])]

(* The set of rings.                                                       *)
LEMMA RingsAreRings ==
  ASSUME NEW T, NEW cb
  PROVE  cb \in Rings(T) <=> Ring(cb, T)
BY DEF Rings, Ring

(* What each of the buffers holds.                                         *)
LEMMA HeldsFacts ==
  ASSUME NEW T, NEW bips \in Seq(Rings(T))
  PROVE  /\ Helds(bips) \in Seq(Seq(T)) /\ Len(Helds(bips)) = Len(bips)
         /\ \A i \in 1..Len(bips) : Helds(bips)[i] = Held(bips[i])
         /\ Waiting(bips) = FlattenSeq(Helds(bips)) /\ Waiting(bips) \in Seq(T)
<1>1. PICK n \in Nat : n = Len(bips) /\ DOMAIN bips = 1..n /\ \A i \in 1..n : bips[i] \in Rings(T)
  BY LenProperties, ElementOfSeq
<1>2. PICK hs : hs = Helds(bips)
  OBVIOUS
<1>3. hs = [i \in 1..n |-> Held(bips[i])]
  BY <1>1, <1>2 DEF Helds
<1>4. ASSUME NEW i \in 1..n PROVE hs[i] \in Seq(T)
  <2>1. Ring(bips[i], T)
    BY <1>1, RingsAreRings
  <2> QED BY <1>3, <2>1, RingFacts
<1>5. hs \in Seq(Seq(T))
  <2>1. hs \in [1..n -> Seq(T)]
    BY <1>3, <1>4
  <2> QED BY <2>1, SeqDef
<1>6. Len(hs) = n
  <2>1. DOMAIN hs = 1..n
    BY <1>3
  <2> QED BY <1>5, <2>1, LenProperties
<1>7. Waiting(bips) = FlattenSeq(hs)
  BY <1>2 DEF Waiting, Helds
<1>8. FlattenSeq(hs) \in Seq(T)
  BY <1>5, FlattenType
<1> QED BY <1>1, <1>2, <1>3, <1>5, <1>6, <1>7, <1>8

(* No buffer, nothing waits.                                               *)
LEMMA WaitingEmpty == Waiting(<<>>) = <<>>
<1>1. Helds(<<>>) = <<>>
  BY DEF Helds
<1>2. Waiting(<<>>) = FlattenSeq(Helds(<<>>))
  BY DEF Waiting, Helds
<1> QED BY <1>1, <1>2, FlattenEmpty

(* What waits in two lists of buffers waits in both, in a row.             *)
LEMMA WaitingConcat ==
  ASSUME NEW T, NEW a \in Seq(Rings(T)), NEW b \in Seq(Rings(T))
  PROVE  a \o b \in Seq(Rings(T)) /\ Waiting(a \o b) = Waiting(a) \o Waiting(b)
<1>1. PICK c : c = a \o b
  OBVIOUS
<1>2. PICK m \in Nat, n \in Nat : m = Len(a) /\ n = Len(b)
  BY LenProperties
<1>3. /\ c \in Seq(Rings(T)) /\ Len(c) = m + n
      /\ \A i \in 1..(m + n) : c[i] = IF i <= m THEN a[i] ELSE b[i - m]
  BY <1>1, <1>2, ConcatProperties
<1>4. PICK hc, ha, hb : hc = Helds(c) /\ ha = Helds(a) /\ hb = Helds(b)
  OBVIOUS
<1>5. /\ hc \in Seq(Seq(T)) /\ Len(hc) = m + n /\ \A i \in 1..(m + n) : hc[i] = Held(c[i])
      /\ ha \in Seq(Seq(T)) /\ Len(ha) = m /\ \A i \in 1..m : ha[i] = Held(a[i])
      /\ hb \in Seq(Seq(T)) /\ Len(hb) = n /\ \A i \in 1..n : hb[i] = Held(b[i])
      /\ Waiting(c) = FlattenSeq(hc) /\ Waiting(a) = FlattenSeq(ha) /\ Waiting(b) = FlattenSeq(hb)
  BY <1>2, <1>3, <1>4, HeldsFacts
<1>6. PICK h : h = ha \o hb
  OBVIOUS
<1>7. /\ h \in Seq(Seq(T)) /\ Len(h) = m + n
      /\ \A i \in 1..(m + n) : h[i] = IF i <= m THEN ha[i] ELSE hb[i - m]
  BY <1>5, <1>6, ConcatProperties
<1>8. ASSUME NEW i \in 1..(m + n) PROVE hc[i] = h[i]
  <2>1. CASE i <= m
    <3>1. i \in 1..m
      BY <2>1
    <3>2. hc[i] = Held(c[i]) /\ c[i] = a[i] /\ h[i] = ha[i]
      BY <1>3, <1>5, <1>7, <2>1
    <3>3. ha[i] = Held(a[i])
      BY <1>5, <3>1
    <3> QED BY <3>2, <3>3
  <2>2. CASE ~ (i <= m)
    <3>1. i - m \in 1..n
      BY <2>2
    <3> QED BY <1>3, <1>5, <1>7, <2>2, <3>1
  <2> QED BY <2>1, <2>2
<1>9. hc = h
  BY <1>5, <1>7, <1>8, SeqEqual
<1>10. FlattenSeq(h) = FlattenSeq(ha) \o FlattenSeq(hb)
  BY <1>5, <1>6, FlattenConcat
<1> QED BY <1>1, <1>3, <1>5, <1>9, <1>10

(* One buffer.                                                             *)
LEMMA WaitingOne ==
  ASSUME NEW T, NEW cb \in Rings(T)
  PROVE  <<cb>> \in Seq(Rings(T)) /\ Waiting(<<cb>>) = Held(cb)
<1>1. PICK bips : bips = <<cb>>
  OBVIOUS
<1>2. bips \in Seq(Rings(T)) /\ Len(bips) = 1 /\ bips[1] = cb
  BY <1>1
<1>3. PICK hs : hs = Helds(bips)
  OBVIOUS
<1>4. hs \in Seq(Seq(T)) /\ Len(hs) = 1 /\ hs[1] = Held(cb) /\ Waiting(bips) = FlattenSeq(hs)
  BY <1>2, <1>3, HeldsFacts
<1>5. Held(cb) \in Seq(T)
  BY RingsAreRings, RingFacts
<1>6. hs = <<Held(cb)>>
  <2>1. <<Held(cb)>> \in Seq(Seq(T)) /\ Len(<<Held(cb)>>) = 1 /\ <<Held(cb)>>[1] = Held(cb)
    BY <1>5
  <2>2. \A i \in 1..1 : hs[i] = <<Held(cb)>>[i]
    BY <1>4, <2>1
  <2> QED BY <1>4, <2>1, <2>2, SeqEqual
<1> QED BY <1>1, <1>2, <1>4, <1>5, <1>6, FlattenSingle

(* A list of buffers and its first, or its last.                           *)
LEMMA WaitingHead ==
  ASSUME NEW T, NEW bips \in Seq(Rings(T)), bips # <<>>
  PROVE  /\ Head(bips) \in Rings(T) /\ Tail(bips) \in Seq(Rings(T))
         /\ Waiting(bips) = Held(Head(bips)) \o Waiting(Tail(bips))
<1>1. Head(bips) \in Rings(T) /\ Tail(bips) \in Seq(Rings(T)) /\ bips = <<Head(bips)>> \o Tail(bips)
  OBVIOUS
<1>2. <<Head(bips)>> \in Seq(Rings(T)) /\ Waiting(<<Head(bips)>>) = Held(Head(bips))
  BY <1>1, WaitingOne
<1>3. Waiting(<<Head(bips)>> \o Tail(bips)) = Waiting(<<Head(bips)>>) \o Waiting(Tail(bips))
  BY <1>1, <1>2, WaitingConcat
<1> QED BY <1>1, <1>2, <1>3

(* A buffer more.                                                          *)
LEMMA WaitingAppend ==
  ASSUME NEW T, NEW bips \in Seq(Rings(T)), NEW cb \in Rings(T)
  PROVE  /\ Append(bips, cb) \in Seq(Rings(T))
         /\ Waiting(Append(bips, cb)) = Waiting(bips) \o Held(cb)
<1>1. <<cb>> \in Seq(Rings(T)) /\ Waiting(<<cb>>) = Held(cb)
  BY WaitingOne
<1>2. Append(bips, cb) = bips \o <<cb>> /\ Append(bips, cb) \in Seq(Rings(T))
  BY AppendIsConcat, AppendProperties
<1> QED BY <1>1, <1>2, WaitingConcat

(* The last buffer's bytes come last.                                      *)
LEMMA WaitingLast ==
  ASSUME NEW T, NEW bips \in Seq(Rings(T)), bips # <<>>
  PROVE  /\ Last(bips) \in Rings(T) /\ Front(bips) \in Seq(Rings(T))
         /\ Waiting(bips) = Waiting(Front(bips)) \o Held(Last(bips))
<1>1. /\ Last(bips) \in Rings(T) /\ Front(bips) \in Seq(Rings(T)) /\ Len(bips) \in Nat \ {0}
      /\ Len(Front(bips)) = Len(bips) - 1 /\ Last(bips) = bips[Len(bips)]
      /\ \A i \in 1..(Len(bips) - 1) : Front(bips)[i] = bips[i]
  BY FrontFacts
<1>2. PICK n \in Nat \ {0} : n = Len(bips)
  BY <1>1
<1>0. PICK t : t = Append(Front(bips), Last(bips))
  OBVIOUS
<1>3. /\ t \in Seq(Rings(T)) /\ Len(t) = n /\ t[n] = Last(bips)
      /\ \A i \in 1..(n - 1) : t[i] = Front(bips)[i]
  BY <1>0, <1>1, <1>2, AppendProperties
<1>4. ASSUME NEW i \in 1..n PROVE t[i] = bips[i]
  <2>1. i = n \/ i \in 1..(n - 1)
    BY <1>2
  <2> QED BY <1>1, <1>2, <1>3, <2>1
<1>5. t = bips
  BY <1>2, <1>3, <1>4, SeqEqual
<1>6. Waiting(t) = Waiting(Front(bips)) \o Held(Last(bips))
  BY <1>0, <1>1, WaitingAppend
<1> QED BY <1>1, <1>5, <1>6

(* The buffers that are made for bytes hold these, in order.               *)
LEMMA BuffersFacts ==
  ASSUME NEW T, NEW bytes \in Seq(T)
  PROVE  Buffers(bytes) \in Seq(Rings(T)) /\ Waiting(Buffers(bytes)) = bytes
<1>1. PICK N \in Nat \ {0} : N = BIP_BUFFER_SIZE
  BY CharPipeAssumption
<1>2. PICK n \in Nat : n = Len(bytes)
  BY LenProperties
<1>3. PICK q : q = (n + N - 1) \div N
  OBVIOUS
<1>4. /\ q \in Nat /\ n <= q * N
      /\ \A k \in 1..q : (k - 1) * N \in Nat /\ (k - 1) * N < n
  BY <1>3, DivFacts
<1> DEFINE Piece(k) == Upto(After(bytes, (k - 1) * N), Least(N, n - (k - 1) * N))
<1>5. PICK bs : bs = Buffers(bytes)
  OBVIOUS
<1>6. bs = [k \in 1..q |-> cbuffer_write(cbuffer_reset, Piece(k))]
  BY <1>1, <1>2, <1>3, <1>5 DEF Buffers, First, From, Upto, After
<1>7. ASSUME NEW k \in 1..q
      PROVE  /\ bs[k] \in Rings(T) /\ Held(bs[k]) = Piece(k) /\ Piece(k) \in Seq(T)
             /\ Least(N, n - (k - 1) * N) \in 0..N
  <2>1. PICK a \in Nat : a = (k - 1) * N /\ a < n
    BY <1>4
  <2>2. PICK m \in Nat : m = Least(N, n - a) /\ m \in 0..N /\ m \in 0..(n - a)
    <3>1. Least(N, n - a) \in Nat /\ Least(N, n - a) \in 0..N /\ Least(N, n - a) \in 0..(n - a)
      BY <2>1 DEF Least
    <3> QED BY <3>1
  <2>3. PICK s : s = After(bytes, a)
    OBVIOUS
  <2>4. s \in Seq(T) /\ Len(s) = n - a
    <3>1. a \in 0..Len(bytes)
      BY <1>2, <2>1
    <3> QED BY <1>2, <2>3, <3>1, AfterLen
  <2>5. PICK p : p = Upto(s, m)
    OBVIOUS
  <2>6. p \in Seq(T) /\ Len(p) = m
    BY <2>2, <2>4, <2>5, UptoFacts
  <2>7. Piece(k) = p
    BY <2>1, <2>2, <2>3, <2>5
  <2>8. /\ Ring(cbuffer_reset, T) /\ Held(cbuffer_reset) = <<>>
        /\ cbuffer_reset.count + Len(p) <= BIP_BUFFER_SIZE
    BY <1>1, <2>2, <2>6, EmptyRing
  <2>9. /\ Ring(cbuffer_write(cbuffer_reset, p), T)
        /\ Held(cbuffer_write(cbuffer_reset, p)) = Held(cbuffer_reset) \o p
    BY <2>6, <2>8, WriteFacts
  <2>10. <<>> \o p = p
    BY <2>6, ConcatEmptySeq
  <2>11. bs[k] = cbuffer_write(cbuffer_reset, p)
    BY <1>6, <2>7
  <2> QED BY <2>1, <2>2, <2>6, <2>7, <2>8, <2>9, <2>10, <2>11, RingsAreRings
<1> HIDE DEF Piece
<1>8. bs \in Seq(Rings(T)) /\ Len(bs) = q
  <2>1. bs \in [1..q -> Rings(T)]
    BY <1>6, <1>7
  <2>2. bs \in Seq(Rings(T))
    BY <1>4, <2>1, SeqDef
  <2>3. DOMAIN bs = 1..q
    BY <2>1
  <2> QED BY <1>4, <2>2, <2>3, LenProperties
<1> DEFINE Done == {m \in Nat : m <= q => Waiting(Upto(bs, m)) = Upto(bytes, Least(m * N, n))}
<1>9. 0 \in Done
  <2>1. Upto(bs, 0) = <<>> /\ Upto(bytes, 0) = <<>>
    BY <1>8, WholeFacts
  <2>2. Least(0 * N, n) = 0
    BY DEF Least
  <2> QED BY <2>1, <2>2, WaitingEmpty
<1>10. ASSUME NEW m \in Nat, m \in Done PROVE m + 1 \in Done
  <2> SUFFICES ASSUME m + 1 <= q
               PROVE  Waiting(Upto(bs, m + 1)) = Upto(bytes, Least((m + 1) * N, n))
    OBVIOUS
  <2>1. PICK a \in Nat : a = m * N /\ (m + 1) * N = a + N /\ a < n /\ ((m + 1) - 1) * N = a
    <3>1. m + 1 \in 1..q /\ (m + 1) - 1 = m
      BY <1>4
    <3>2. m * N \in Nat /\ m * N < n
      BY <1>4, <3>1
    <3> QED BY <3>1, <3>2
  <2>2. PICK b \in Nat : b = Least(N, n - a)
    <3>1. Least(N, n - a) \in Nat
      BY <2>1 DEF Least
    <3> QED BY <3>1
  <2>3. Least(m * N, n) = a /\ Least((m + 1) * N, n) = a + b /\ a + b <= n
    BY <2>1, <2>2 DEF Least
  <2>4. Waiting(Upto(bs, m)) = Upto(bytes, a)
    <3>1. m <= q
      BY <1>4
    <3> QED BY <1>10, <2>3, <3>1
  <2>5. /\ Upto(bs, m + 1) = Upto(bs, m) \o Upto(After(bs, m), 1)
        /\ Upto(bs, m) \in Seq(Rings(T))
    <3>1. m + 1 <= Len(bs) /\ m \in 0..Len(bs)
      BY <1>8
    <3>2. Upto(bs, m + 1) = Upto(bs, m) \o Upto(After(bs, m), 1)
      BY <1>8, <3>1, UptoSum
    <3>3. Upto(bs, m) \in Seq(Rings(T))
      BY <1>8, <3>1, UptoFacts
    <3> QED BY <3>2, <3>3
  <2>6. Upto(After(bs, m), 1) = <<bs[m + 1]>>
    <3>1. PICK r : r = After(bs, m)
      OBVIOUS
    <3>2. r \in Seq(Rings(T)) /\ Len(r) = q - m /\ 1 \in 1..(q - m) /\ r[1] = bs[m + 1]
      <4>1. m \in 0..Len(bs) /\ Len(bs) = q /\ 1 \in 1..(q - m)
        BY <1>4, <1>8
      <4>2. /\ r \in Seq(Rings(T)) /\ Len(r) = Len(bs) - m
            /\ \A i \in 1..(Len(bs) - m) : r[i] = bs[m + i]
        BY <1>8, <3>1, <4>1, AfterLen
      <4> QED BY <4>1, <4>2
    <3>3. /\ Upto(r, 1) \in Seq(Rings(T)) /\ Len(Upto(r, 1)) = 1
          /\ \A i \in 1..1 : Upto(r, 1)[i] = r[i]
      <4>1. 1 \in 0..Len(r)
        BY <3>2
      <4> QED BY <3>2, <4>1, UptoFacts
    <3>4. <<bs[m + 1]>> \in Seq(Rings(T)) /\ Len(<<bs[m + 1]>>) = 1
      <4>1. m + 1 \in 1..q
        BY <1>4
      <4>2. bs[m + 1] \in Rings(T)
        BY <1>7, <4>1
      <4> QED BY <4>2
    <3>5. \A i \in 1..1 : Upto(r, 1)[i] = <<bs[m + 1]>>[i]
      BY <3>2, <3>3
    <3> QED BY <3>1, <3>3, <3>4, <3>5, SeqEqual
  <2>7. bs[m + 1] \in Rings(T) /\ Held(bs[m + 1]) = Upto(After(bytes, a), b)
    <3>1. m + 1 \in 1..q
      BY <1>4
    <3>2. Piece(m + 1) = Upto(After(bytes, a), b)
      BY <2>1, <2>2 DEF Piece
    <3> QED BY <1>7, <3>1, <3>2
  <2>8. Waiting(Upto(bs, m) \o <<bs[m + 1]>>) = Waiting(Upto(bs, m)) \o Held(bs[m + 1])
    <3>1. <<bs[m + 1]>> \in Seq(Rings(T)) /\ Waiting(<<bs[m + 1]>>) = Held(bs[m + 1])
      BY <2>7, WaitingOne
    <3> QED BY <2>5, <3>1, WaitingConcat
  <2>9. Upto(bytes, a + b) = Upto(bytes, a) \o Upto(After(bytes, a), b)
    BY <1>2, <2>3, UptoSum
  <2> QED BY <2>3, <2>4, <2>5, <2>6, <2>7, <2>8, <2>9
<1>11. q \in Done
  BY <1>4, <1>9, <1>10, SetInduction
<1>12. Least(q * N, n) = n
  BY <1>4 DEF Least
<1>13. Upto(bs, q) = bs /\ Upto(bytes, n) = bytes
  BY <1>2, <1>8, WholeFacts
<1> QED BY <1>4, <1>5, <1>8, <1>11, <1>12, <1>13

-----------------------------------------------------------------------------
(* A half of the character pipe (charpipe.c).                              *)
HalfOf(h, T) ==
  h \in [bips: Seq(Rings(T)), reader: Seq(T)] /\ Len(h.reader) <= reader_size
InPipe(h) == h.reader \o Waiting(h.bips)

(* A new half holds nothing.                                               *)
LEMMA EmptyHalfFacts ==
  ASSUME NEW T
  PROVE  HalfOf(EmptyHalf, T) /\ InPipe(EmptyHalf) = <<>>
<1>1. <<>> \in Seq(T) /\ <<>> \in Seq(Rings(T)) /\ Len(<<>>) = 0 /\ reader_size \in Nat
  BY CharPipeAssumption
<1>2. HalfOf(EmptyHalf, T)
  BY <1>1 DEF EmptyHalf, HalfOf
<1>3. InPipe(EmptyHalf) = <<>> \o Waiting(<<>>)
  BY DEF EmptyHalf, InPipe
<1>4. <<>> \o <<>> = <<>>
  BY <1>1, ConcatEmptySeq
<1> QED BY <1>2, <1>3, <1>4, WaitingEmpty

(* charpipehalf_write: the reader and the buffers get the bytes, in order. *)
LEMMA PipeWriteFacts ==
  ASSUME NEW T, NEW h, HalfOf(h, T), NEW bytes \in Seq(T)
  PROVE  /\ HalfOf(charpipehalf_write(h, bytes), T)
         /\ InPipe(charpipehalf_write(h, bytes)) = InPipe(h) \o bytes
<1>1. PICK bips \in Seq(Rings(T)), reader \in Seq(T) :
        h = [bips |-> bips, reader |-> reader] /\ Len(reader) <= reader_size
  BY DEF HalfOf
<1>2. PICK n \in Nat, m \in Nat : n = Len(bytes) /\ m = Len(reader)
  BY LenProperties
<1>3. PICK w : w = charpipehalf_write(h, bytes)
  OBVIOUS
<1>4. InPipe(h) = reader \o Waiting(bips) /\ Waiting(bips) \in Seq(T)
  BY <1>1, HeldsFacts DEF InPipe
<1>5. reader_size \in Nat /\ BIP_BUFFER_SIZE \in Nat
  BY CharPipeAssumption
<1>6. CASE bips = <<>>
  <2>1. PICK d \in Nat : d = Least(reader_size - m, n) /\ d \in 0..n /\ m + d <= reader_size
    <3>1. Least(reader_size - m, n) \in 0..n /\ m + Least(reader_size - m, n) <= reader_size
      BY <1>1, <1>2, <1>5 DEF Least
    <3> QED BY <3>1
  <2>2. PICK a, b : a = Upto(bytes, d) /\ b = After(bytes, d)
    OBVIOUS
  <2>3. a \in Seq(T) /\ b \in Seq(T) /\ Len(a) = d /\ bytes = a \o b
    <3>1. d \in 0..Len(bytes)
      BY <1>2, <2>1
    <3>2. /\ Upto(bytes, d) \in Seq(T) /\ After(bytes, d) \in Seq(T) /\ Len(Upto(bytes, d)) = d
          /\ bytes = Upto(bytes, d) \o After(bytes, d)
      BY <3>1, SplitFacts
    <3> QED BY <2>2, <3>2
  <2>4. w = [bips |-> Buffers(b), reader |-> reader \o a]
    <3>1. can_read(h) = reader_size - m
      BY <1>1, <1>2 DEF can_read
    <3>2. Direct(h, Len(bytes)) = d
      BY <1>1, <1>2, <1>6, <2>1, <3>1 DEF Direct
    <3>3. First(bytes, d) = a /\ From(bytes, d) = b /\ From(b, 0) = b
      BY <2>2, <2>3, WholeFacts DEF First, From, Upto, After
    <3>4. h.bips = <<>> /\ h.reader = reader
      BY <1>1, <1>6
    <3>5. w = [bips |-> <<>> \o Buffers(From(b, 0)), reader |-> reader \o a]
      BY <1>3, <3>2, <3>3, <3>4 DEF charpipehalf_write
    <3>6. <<>> \o Buffers(b) = Buffers(b)
      BY <2>3, BuffersFacts, ConcatEmptySeq
    <3> QED BY <3>3, <3>5, <3>6
  <2>5. Buffers(b) \in Seq(Rings(T)) /\ Waiting(Buffers(b)) = b
    BY <2>3, BuffersFacts
  <2>6. reader \o a \in Seq(T) /\ Len(reader \o a) = m + d
    BY <1>2, <2>3, ConcatProperties
  <2>7. HalfOf(w, T)
    BY <2>1, <2>4, <2>5, <2>6 DEF HalfOf
  <2>8. InPipe(w) = (reader \o a) \o b
    BY <2>4, <2>5 DEF InPipe
  <2>9. InPipe(h) = reader
    BY <1>4, <1>6, WaitingEmpty, ConcatEmptySeq
  <2>10. (reader \o a) \o b = reader \o (a \o b)
    BY <2>3, Associative
  <2> QED BY <1>3, <2>3, <2>7, <2>8, <2>9, <2>10
<1>7. CASE bips # <<>>
  <2>1. PICK last, front : last = Last(bips) /\ front = Front(bips)
    OBVIOUS
  <2>2. /\ last \in Rings(T) /\ front \in Seq(Rings(T)) /\ Ring(last, T)
        /\ Waiting(bips) = Waiting(front) \o Held(last)
    BY <1>7, <2>1, WaitingLast, RingsAreRings
  <2>3. last.count \in 0..BIP_BUFFER_SIZE /\ Held(last) \in Seq(T) /\ Waiting(front) \in Seq(T)
    BY <2>2, RingFacts, HeldsFacts
  <2>4. PICK o \in Nat : /\ o = Least(BIP_BUFFER_SIZE - last.count, n)
                         /\ o \in 0..n /\ last.count + o <= BIP_BUFFER_SIZE
    <3>1. /\ Least(BIP_BUFFER_SIZE - last.count, n) \in 0..n
          /\ last.count + Least(BIP_BUFFER_SIZE - last.count, n) <= BIP_BUFFER_SIZE
      BY <1>5, <2>3 DEF Least
    <3> QED BY <3>1
  <2>5. PICK a, b : a = Upto(bytes, o) /\ b = After(bytes, o)
    OBVIOUS
  <2>6. a \in Seq(T) /\ b \in Seq(T) /\ Len(a) = o /\ bytes = a \o b
    <3>1. o \in 0..Len(bytes)
      BY <1>2, <2>4
    <3>2. /\ Upto(bytes, o) \in Seq(T) /\ After(bytes, o) \in Seq(T) /\ Len(Upto(bytes, o)) = o
          /\ bytes = Upto(bytes, o) \o After(bytes, o)
      BY <3>1, SplitFacts
    <3> QED BY <2>5, <3>2
  <2>7. PICK full : full = cbuffer_write(last, a)
    OBVIOUS
  <2>8. full \in Rings(T) /\ Held(full) = Held(last) \o a
    BY <2>2, <2>4, <2>6, <2>7, WriteFacts, RingsAreRings
  <2>9. w = [bips |-> Append(front, full) \o Buffers(b), reader |-> reader]
    <3>1. Direct(h, Len(bytes)) = 0
      BY <1>1, <1>7 DEF Direct
    <3>2. First(bytes, 0) = <<>> /\ From(bytes, 0) = bytes
      BY WholeFacts DEF First, From, Upto, After
    <3>3. First(bytes, o) = a /\ From(bytes, o) = b
      BY <2>5 DEF First, From, Upto, After
    <3>4. h.bips = bips /\ h.reader = reader
      BY <1>1
    <3>5. w = [bips |-> Append(front, full) \o Buffers(b), reader |-> reader \o <<>>]
      BY <1>2, <1>3, <1>7, <2>1, <2>4, <2>7, <3>1, <3>2, <3>3, <3>4 DEF charpipehalf_write
    <3> QED BY <3>5, ConcatEmptySeq
  <2>10. PICK x, y : x = Append(front, full) /\ y = Buffers(b)
    OBVIOUS
  <2>11. /\ x \in Seq(Rings(T)) /\ Waiting(x) = Waiting(front) \o Held(full)
         /\ y \in Seq(Rings(T)) /\ Waiting(y) = b
    BY <2>2, <2>6, <2>8, <2>10, WaitingAppend, BuffersFacts
  <2>12. x \o y \in Seq(Rings(T)) /\ Waiting(x \o y) = Waiting(x) \o Waiting(y)
    BY <2>11, WaitingConcat
  <2>13. HalfOf(w, T)
    BY <1>1, <2>9, <2>10, <2>12 DEF HalfOf
  <2>14. Waiting(x \o y) = Waiting(bips) \o bytes
    <3>1. Waiting(x \o y) = (Waiting(front) \o (Held(last) \o a)) \o b
      BY <2>8, <2>11, <2>12
    <3>2. PICK f, g : f = Waiting(front) /\ g = Held(last) /\ f \in Seq(T) /\ g \in Seq(T)
      BY <2>3
    <3>3. Bracketed(f, g, a, b)
      BY <2>6, <3>2, Associative4
    <3>4. (f \o (g \o a)) \o b = (f \o g) \o (a \o b)
      BY <3>3 DEF Bracketed
    <3> QED BY <2>2, <2>6, <3>1, <3>2, <3>4
  <2>15. InPipe(w) = reader \o (Waiting(bips) \o bytes)
    BY <2>9, <2>10, <2>14 DEF InPipe
  <2>16. reader \o (Waiting(bips) \o bytes) = (reader \o Waiting(bips)) \o bytes
    BY <1>4, Associative
  <2> QED BY <1>3, <1>4, <2>13, <2>15, <2>16
<1> QED BY <1>6, <1>7

(* A turn of charpipehalf_poll's loop moves bytes, and loses none.         *)
LEMMA PipePollFacts ==
  ASSUME NEW T, NEW h, HalfOf(h, T), HasWork(h)
  PROVE  /\ HalfOf(charpipehalf_poll(h), T)
         /\ InPipe(charpipehalf_poll(h)) = InPipe(h)
<1>1. PICK bips \in Seq(Rings(T)), reader \in Seq(T) :
        h = [bips |-> bips, reader |-> reader] /\ Len(reader) <= reader_size
  BY DEF HalfOf
<1>2. PICK m \in Nat : m = Len(reader)
  BY LenProperties
<1>3. PICK w : w = charpipehalf_poll(h)
  OBVIOUS
<1>4. bips # <<>> /\ h.bips = bips /\ h.reader = reader
  BY <1>1 DEF HasWork
<1>5. PICK cb, tail : cb = Head(bips) /\ tail = Tail(bips)
  OBVIOUS
<1>6. /\ cb \in Rings(T) /\ Ring(cb, T) /\ tail \in Seq(Rings(T))
      /\ Waiting(bips) = Held(cb) \o Waiting(tail)
      /\ Waiting(tail) \in Seq(T) /\ Held(cb) \in Seq(T) /\ Len(Held(cb)) = cb.count
      /\ cb.count \in Nat
  <2>1. cb \in Rings(T) /\ tail \in Seq(Rings(T)) /\ Waiting(bips) = Held(cb) \o Waiting(tail)
    BY <1>4, <1>5, WaitingHead
  <2>2. Ring(cb, T) /\ Waiting(tail) \in Seq(T)
    BY <2>1, RingsAreRings, HeldsFacts
  <2>3. Held(cb) \in Seq(T) /\ Len(Held(cb)) = cb.count /\ cb.count \in 0..BIP_BUFFER_SIZE
    BY <2>2, RingFacts
  <2> QED BY <2>1, <2>2, <2>3
<1>7. InPipe(h) = reader \o (Held(cb) \o Waiting(tail))
  BY <1>4, <1>6 DEF InPipe
<1>8. CASE cb.count = 0
  <2>1. w = [bips |-> tail, reader |-> reader]
    BY <1>1, <1>3, <1>4, <1>5, <1>8 DEF charpipehalf_poll
  <2>2. HalfOf(w, T) /\ InPipe(w) = reader \o Waiting(tail)
    BY <1>1, <1>6, <2>1 DEF HalfOf, InPipe
  <2>3. Held(cb) = <<>>
    BY <1>6, <1>8, EmptySeq
  <2>4. <<>> \o Waiting(tail) = Waiting(tail)
    BY <1>6, ConcatEmptySeq
  <2> QED BY <1>3, <1>7, <2>2, <2>3, <2>4
<1>9. CASE cb.count # 0
  <2>1. PICK peek : peek = cbuffer_read_peek(cb)
    OBVIOUS
  <2>2. /\ Len(peek) \in 0..cb.count /\ peek = Upto(Held(cb), Len(peek))
        /\ cb.rpos + Len(peek) <= BIP_BUFFER_SIZE /\ cb.rpos \in Nat
    BY <1>6, <2>1, PeekFacts, RingFacts DEF Place
  <2>3. reader_size \in Nat /\ BIP_BUFFER_SIZE \in Nat
    BY CharPipeAssumption
  <2>4. PICK n \in Nat : /\ n = Least(Len(peek), reader_size - m) /\ n \in 0..Len(peek)
                         /\ n \in 0..cb.count /\ m + n <= reader_size
                         /\ cb.rpos + n <= BIP_BUFFER_SIZE
    <3>1. /\ Least(Len(peek), reader_size - m) \in 0..Len(peek)
          /\ m + Least(Len(peek), reader_size - m) <= reader_size
      BY <1>1, <1>2, <2>2, <2>3 DEF Least
    <3>2. \A x \in 0..Len(peek) : x \in 0..cb.count /\ cb.rpos + x <= BIP_BUFFER_SIZE
      BY <1>6, <2>2, <2>3
    <3> QED BY <3>1, <3>2
  <2>5. PICK shorter : shorter = cbuffer_read_step(cb, n)
    OBVIOUS
  <2>6. Ring(shorter, T) /\ shorter \in Rings(T) /\ Held(shorter) = After(Held(cb), n)
    BY <1>6, <2>4, <2>5, StepFacts, RingsAreRings
  <2>7. PICK a, b : a = Upto(Held(cb), n) /\ b = After(Held(cb), n)
    OBVIOUS
  <2>8. a \in Seq(T) /\ b \in Seq(T) /\ Len(a) = n /\ Held(cb) = a \o b
    <3>2. PICK held \in Seq(T) : held = Held(cb)
      BY <1>6
    <3>1. n \in 0..Len(held)
      BY <1>6, <2>4, <3>2
    <3>3. /\ Upto(held, n) \in Seq(T) /\ After(held, n) \in Seq(T) /\ Len(Upto(held, n)) = n
          /\ held = Upto(held, n) \o After(held, n)
      BY <3>1, SplitFacts
    <3> QED BY <2>7, <3>2, <3>3
  <2>9. First(peek, n) = a
    <3>1. Len(peek) \in 0..Len(Held(cb))
      BY <1>6, <2>2
    <3>2. Upto(Upto(Held(cb), Len(peek)), n) = Upto(Held(cb), n)
      BY <1>6, <2>4, <3>1, UptoUpto
    <3> QED BY <2>2, <2>7, <3>2 DEF First, Upto
  <2>10. w = [bips |-> <<shorter>> \o tail, reader |-> reader \o a]
    <3>1. can_read(h) = reader_size - m
      BY <1>2, <1>4 DEF can_read
    <3> QED BY <1>3, <1>4, <1>5, <1>9, <2>1, <2>4, <2>5, <2>9, <3>1 DEF charpipehalf_poll
  <2>11. <<shorter>> \in Seq(Rings(T)) /\ Waiting(<<shorter>>) = b
    BY <2>6, <2>7, WaitingOne
  <2>12. <<shorter>> \o tail \in Seq(Rings(T)) /\ Waiting(<<shorter>> \o tail) = b \o Waiting(tail)
    BY <1>6, <2>11, WaitingConcat
  <2>13. reader \o a \in Seq(T) /\ Len(reader \o a) = m + n
    BY <1>2, <2>8, ConcatProperties
  <2>14. HalfOf(w, T) /\ InPipe(w) = (reader \o a) \o (b \o Waiting(tail))
    BY <2>4, <2>10, <2>12, <2>13 DEF HalfOf, InPipe
  <2>15. PICK t \in Seq(T) : t = Waiting(tail)
    BY <1>6
  <2>16. (reader \o a) \o (b \o t) = reader \o ((a \o b) \o t)
    <3>1. Bracketed(reader, a, b, t)
      BY <2>8, <2>15, Associative4
    <3> QED BY <3>1 DEF Bracketed
  <2> QED BY <1>3, <1>7, <2>8, <2>14, <2>15, <2>16
<1> QED BY <1>8, <1>9

(* The reader takes its first byte.                                        *)
LEMMA PipeReadFacts ==
  ASSUME NEW T, NEW h, HalfOf(h, T), h.reader # <<>>
  PROVE  /\ HalfOf([h EXCEPT !.reader = Tail(@)], T)
         /\ InPipe(h) # <<>> /\ Head(h.reader) = Head(InPipe(h)) /\ Head(h.reader) \in T
         /\ InPipe([h EXCEPT !.reader = Tail(@)]) = Tail(InPipe(h))
         /\ InPipe(h) \in Seq(T)
<1>1. PICK bips \in Seq(Rings(T)), reader \in Seq(T) :
        /\ h = [bips |-> bips, reader |-> reader] /\ Len(reader) <= reader_size
        /\ reader # <<>>
  BY DEF HalfOf
<1>0. h.reader = reader
  BY <1>1
<1>2. PICK w \in Seq(T) : w = Waiting(bips)
  BY HeldsFacts
<1>3. PICK e, t : e = Head(reader) /\ t = Tail(reader)
  OBVIOUS
<1>4. e \in T /\ t \in Seq(T) /\ reader = <<e>> \o t /\ Len(t) <= reader_size
  BY <1>1, <1>3, CharPipeAssumption
<1>5. InPipe(h) = reader \o w /\ h.reader = reader
  BY <1>1, <1>2 DEF InPipe
<1>6. [h EXCEPT !.reader = Tail(@)] = [bips |-> bips, reader |-> t]
  <2>1. [h EXCEPT !.reader = Tail(@)] = [h EXCEPT !.reader = t]
    BY <1>0, <1>3
  <2>2. [[bips |-> bips, reader |-> reader] EXCEPT !.reader = t] = [bips |-> bips, reader |-> t]
    OBVIOUS
  <2> QED BY <1>1, <2>1, <2>2
<1>7. InPipe([h EXCEPT !.reader = Tail(@)]) = t \o w
  BY <1>2, <1>6 DEF InPipe
<1>8. reader \o w = <<e>> \o (t \o w) /\ t \o w \in Seq(T) /\ reader \o w \in Seq(T)
  <2>1. <<e>> \in Seq(T)
    BY <1>4
  <2> QED BY <1>4, <2>1, Associative
<1>9. PICK u \in Seq(T) : u = t \o w
  BY <1>8
<1>10. Head(<<e>> \o u) = e /\ Tail(<<e>> \o u) = u /\ <<e>> \o u # <<>>
  BY <1>4
<1>11. HalfOf([h EXCEPT !.reader = Tail(@)], T)
  BY <1>4, <1>6 DEF HalfOf
<1> QED BY <1>3, <1>4, <1>5, <1>7, <1>8, <1>9, <1>10, <1>11

-----------------------------------------------------------------------------
(* The packets whose payload a service has yet to see: of the first, what  *)
(* is left.                                                                *)
Byte == Nat

PacketSet ==
  {p \in [channel: 0..MaxChannel, payload: Seq(Byte)] : Len(p.payload) \in 1..MAX_SERIAL_PAYLOAD}

Wires(ps) == [i \in DOMAIN ps |-> Packet(ps[i].channel, ps[i].payload)]
Wire(ps) == FlattenSeq(Wires(ps))
Part(p, c) == IF p.channel = c THEN p.payload ELSE <<>>
Parts(ps, c) == [i \in DOMAIN ps |-> Part(ps[i], c)]
Data(ps, c) == FlattenSeq(Parts(ps, c))

(* A packet and its bytes.                                                 *)
LEMMA OnePacket ==
  ASSUME NEW p \in PacketSet
  PROVE  /\ p.channel \in Nat /\ p.channel \in 0..MaxChannel
         /\ p.payload \in Seq(Byte) /\ p.payload # <<>>
         /\ Len(p.payload) \in 1..MAX_SERIAL_PAYLOAD /\ Len(p.payload) \in Nat \ {0}
         /\ <<p.channel, Len(p.payload)>> \in Seq(Byte)
         /\ Packet(p.channel, p.payload) \in Seq(Byte)
         /\ Packet(p.channel, p.payload) = <<p.channel, Len(p.payload)>> \o p.payload
         /\ Len(Packet(p.channel, p.payload)) = 2 + Len(p.payload)
         /\ \A c : Part(p, c) \in Seq(Byte)
<1>1. /\ p.channel \in 0..MaxChannel /\ p.payload \in Seq(Byte)
      /\ Len(p.payload) \in 1..MAX_SERIAL_PAYLOAD
  BY DEF PacketSet
<1>2. MaxChannel \in Nat /\ MAX_SERIAL_PAYLOAD \in Nat
  BY SerialBoundAssumption, PayloadAssumption
<1>3. p.channel \in Nat /\ Len(p.payload) \in Nat \ {0}
  BY <1>1, <1>2
<1>4. p.payload # <<>>
  BY <1>3, EmptySeq
<1>5. PICK h, d : h = <<p.channel, Len(p.payload)>> /\ d = p.payload
  OBVIOUS
<1>6. h \in Seq(Byte) /\ Len(h) = 2 /\ d \in Seq(Byte)
  <2>1. p.channel \in Byte /\ Len(p.payload) \in Byte
    BY <1>3 DEF Byte
  <2> QED BY <1>1, <1>5, <2>1
<1>7. h \o d \in Seq(Byte) /\ Len(h \o d) = 2 + Len(d)
  <2>1. h \o d \in Seq(Byte) /\ Len(h \o d) = Len(h) + Len(d)
    BY <1>6, ConcatProperties, Zenon
  <2> QED BY <1>6, <2>1, Zenon
<1>8. Packet(p.channel, p.payload) = h \o d
  BY <1>5 DEF Packet
<1>9. \A c : Part(p, c) \in Seq(Byte)
  BY <1>1 DEF Part
<1>10. /\ Packet(p.channel, p.payload) \in Seq(Byte)
       /\ Len(Packet(p.channel, p.payload)) = 2 + Len(p.payload)
  BY <1>5, <1>7, <1>8
<1>11. <<p.channel, Len(p.payload)>> \in Seq(Byte)
  BY <1>5, <1>6
<1>12. Packet(p.channel, p.payload) = <<p.channel, Len(p.payload)>> \o p.payload
  BY DEF Packet
<1> QED BY <1>1, <1>3, <1>4, <1>9, <1>10, <1>11, <1>12

(* Packets and their bytes.                                                *)
LEMMA PacketFacts ==
  ASSUME NEW ps \in Seq(PacketSet), NEW c
  PROVE  /\ Wires(ps) \in Seq(Seq(Byte)) /\ Len(Wires(ps)) = Len(ps)
         /\ \A i \in 1..Len(ps) : Wires(ps)[i] = Packet(ps[i].channel, ps[i].payload)
         /\ Parts(ps, c) \in Seq(Seq(Byte)) /\ Len(Parts(ps, c)) = Len(ps)
         /\ \A i \in 1..Len(ps) : Parts(ps, c)[i] = Part(ps[i], c)
         /\ Wire(ps) \in Seq(Byte) /\ Data(ps, c) \in Seq(Byte)
<1>1. PICK n \in Nat : n = Len(ps) /\ DOMAIN ps = 1..n /\ \A i \in 1..n : ps[i] \in PacketSet
  BY LenProperties, ElementOfSeq
<1>2. PICK w, d : w = Wires(ps) /\ d = Parts(ps, c)
  OBVIOUS
<1>3. /\ w = [i \in 1..n |-> Packet(ps[i].channel, ps[i].payload)]
      /\ d = [i \in 1..n |-> Part(ps[i], c)]
  BY <1>1, <1>2 DEF Wires, Parts
<1>4. w \in Seq(Seq(Byte)) /\ Len(w) = n
  <2>1. ASSUME NEW i \in 1..n PROVE w[i] \in Seq(Byte)
    BY <1>1, <1>3, OnePacket
  <2>2. w \in [1..n -> Seq(Byte)]
    BY <1>3, <2>1
  <2>3. w \in Seq(Seq(Byte)) /\ DOMAIN w = 1..n
    BY <1>3, <2>2, SeqDef
  <2> QED BY <2>3, LenProperties
<1>5. d \in Seq(Seq(Byte)) /\ Len(d) = n
  <2>1. ASSUME NEW i \in 1..n PROVE d[i] \in Seq(Byte)
    BY <1>1, <1>3, OnePacket
  <2>2. d \in [1..n -> Seq(Byte)]
    BY <1>3, <2>1
  <2>3. d \in Seq(Seq(Byte)) /\ DOMAIN d = 1..n
    BY <1>3, <2>2, SeqDef
  <2> QED BY <2>3, LenProperties
<1>6. Wire(ps) \in Seq(Byte) /\ Data(ps, c) \in Seq(Byte)
  BY <1>2, <1>4, <1>5, FlattenType DEF Wire, Data
<1> QED BY <1>1, <1>2, <1>3, <1>4, <1>5, <1>6

(* No packets, no bytes.                                                   *)
LEMMA NoPackets == ASSUME NEW c PROVE Wire(<<>>) = <<>> /\ Data(<<>>, c) = <<>>
<1>1. Wires(<<>>) = <<>> /\ Parts(<<>>, c) = <<>>
  BY DEF Wires, Parts
<1> QED BY <1>1, FlattenEmpty DEF Wire, Data

(* One packet before the others, and one behind.                           *)
LEMMA PacketsCons ==
  ASSUME NEW p \in PacketSet, NEW ps \in Seq(PacketSet), NEW c
  PROVE  /\ <<p>> \o ps \in Seq(PacketSet) /\ Len(<<p>> \o ps) = 1 + Len(ps)
         /\ (<<p>> \o ps)[1] = p /\ \A i \in 1..Len(ps) : (<<p>> \o ps)[i + 1] = ps[i]
         /\ Wire(<<p>> \o ps) = Packet(p.channel, p.payload) \o Wire(ps)
         /\ Data(<<p>> \o ps, c) = Part(p, c) \o Data(ps, c)
<1>1. PICK n \in Nat : n = Len(ps)
  BY LenProperties
<1>2. PICK qs : qs = <<p>> \o ps
  OBVIOUS
<1>3. /\ qs \in Seq(PacketSet) /\ Len(qs) = 1 + n
      /\ qs[1] = p /\ \A i \in 1..n : qs[i + 1] = ps[i]
  <2>1. <<p>> \in Seq(PacketSet) /\ Len(<<p>>) = 1 /\ <<p>>[1] = p
    OBVIOUS
  <2>2. /\ qs \in Seq(PacketSet) /\ Len(qs) = 1 + n
        /\ \A i \in 1..(1 + n) : qs[i] = IF i <= 1 THEN <<p>>[i] ELSE ps[i - 1]
    BY <1>1, <1>2, <2>1, ConcatProperties
  <2>3. ASSUME NEW i \in 1..n PROVE qs[i + 1] = ps[i]
    <3>1. i + 1 \in 1..(1 + n) /\ ~ (i + 1 <= 1) /\ (i + 1) - 1 = i
      OBVIOUS
    <3> QED BY <2>2, <3>1
  <2> QED BY <2>1, <2>2, <2>3
<1>4. PICK a, b, x, y : a = Wires(qs) /\ b = Parts(qs, c) /\ x = Wires(ps) /\ y = Parts(ps, c)
  OBVIOUS
<1>5. /\ a \in Seq(Seq(Byte)) /\ Len(a) = 1 + n
      /\ \A i \in 1..(1 + n) : a[i] = Packet(qs[i].channel, qs[i].payload)
      /\ b \in Seq(Seq(Byte)) /\ Len(b) = 1 + n /\ \A i \in 1..(1 + n) : b[i] = Part(qs[i], c)
  BY <1>3, <1>4, PacketFacts
<1>6. /\ x \in Seq(Seq(Byte)) /\ Len(x) = n
      /\ \A i \in 1..n : x[i] = Packet(ps[i].channel, ps[i].payload)
      /\ y \in Seq(Seq(Byte)) /\ Len(y) = n /\ \A i \in 1..n : y[i] = Part(ps[i], c)
  BY <1>1, <1>4, PacketFacts
<1>7. ASSUME NEW s \in Seq(Seq(Byte)), NEW t \in Seq(Seq(Byte)), Len(s) = 1 + n, Len(t) = n,
             \A i \in 1..n : s[i + 1] = t[i]
      PROVE  FlattenSeq(s) = s[1] \o FlattenSeq(t)
  <2>1. s # <<>>
    BY <1>7, EmptySeq
  <2>2. Head(s) = s[1] /\ Tail(s) \in Seq(Seq(Byte)) /\ Len(Tail(s)) = n
        /\ \A i \in 1..n : Tail(s)[i] = s[i + 1]
    BY <1>7, <2>1, HeadTailProperties
  <2>3. Tail(s) = t
    BY <1>7, <2>2, SeqEqual
  <2> QED BY <2>1, <2>2, <2>3, FlattenCons
<1>8. 1 \in 1..(1 + n) /\ \A i \in 1..n : i + 1 \in 1..(1 + n)
  OBVIOUS
<1>9. FlattenSeq(a) = a[1] \o FlattenSeq(x) /\ a[1] = Packet(p.channel, p.payload)
  <2>1. \A i \in 1..n : a[i + 1] = x[i]
    BY <1>3, <1>5, <1>6, <1>8
  <2> QED BY <1>3, <1>5, <1>6, <1>7, <1>8, <2>1
<1>10. FlattenSeq(b) = b[1] \o FlattenSeq(y) /\ b[1] = Part(p, c)
  <2>1. \A i \in 1..n : b[i + 1] = y[i]
    BY <1>3, <1>5, <1>6, <1>8
  <2> QED BY <1>3, <1>5, <1>6, <1>7, <1>8, <2>1
<1> QED BY <1>1, <1>2, <1>3, <1>4, <1>9, <1>10 DEF Wire, Data

(* The first packet, and the others.                                       *)
LEMMA PacketsSplit ==
  ASSUME NEW ps \in Seq(PacketSet), ps # <<>>, NEW c
  PROVE  /\ Head(ps) \in PacketSet /\ Tail(ps) \in Seq(PacketSet) /\ Head(ps) = ps[1]
         /\ ps = <<Head(ps)>> \o Tail(ps)
         /\ Len(ps) = 1 + Len(Tail(ps)) /\ \A i \in 1..Len(Tail(ps)) : Tail(ps)[i] = ps[i + 1]
         /\ Wire(ps) = Packet(Head(ps).channel, Head(ps).payload) \o Wire(Tail(ps))
         /\ Data(ps, c) = Part(Head(ps), c) \o Data(Tail(ps), c)
<1>1. PICK p, qs : p = Head(ps) /\ qs = Tail(ps)
  OBVIOUS
<1>2. p \in PacketSet /\ qs \in Seq(PacketSet) /\ ps = <<p>> \o qs /\ p = ps[1]
  BY <1>1
<1>3. /\ Len(ps) = 1 + Len(qs) /\ \A i \in 1..Len(qs) : ps[i + 1] = qs[i]
      /\ Wire(ps) = Packet(p.channel, p.payload) \o Wire(qs)
      /\ Data(ps, c) = Part(p, c) \o Data(qs, c)
  <2>1. /\ Len(<<p>> \o qs) = 1 + Len(qs) /\ \A i \in 1..Len(qs) : (<<p>> \o qs)[i + 1] = qs[i]
        /\ Wire(<<p>> \o qs) = Packet(p.channel, p.payload) \o Wire(qs)
        /\ Data(<<p>> \o qs, c) = Part(p, c) \o Data(qs, c)
    BY <1>2, PacketsCons
  <2> QED BY <1>2, <2>1
<1> QED BY <1>1, <1>2, <1>3

(* A packet more.                                                          *)
LEMMA PacketsAppend ==
  ASSUME NEW ps \in Seq(PacketSet), NEW p \in PacketSet, NEW c
  PROVE  /\ Append(ps, p) \in Seq(PacketSet) /\ Len(Append(ps, p)) = Len(ps) + 1
         /\ \A i \in 1..Len(ps) : Append(ps, p)[i] = ps[i]
         /\ Append(ps, p)[Len(ps) + 1] = p
         /\ Wire(Append(ps, p)) = Wire(ps) \o Packet(p.channel, p.payload)
         /\ Data(Append(ps, p), c) = Data(ps, c) \o Part(p, c)
<1>1. PICK n \in Nat : n = Len(ps)
  BY LenProperties
<1>2. PICK qs : qs = Append(ps, p)
  OBVIOUS
<1>3. /\ qs \in Seq(PacketSet) /\ Len(qs) = n + 1 /\ qs[n + 1] = p
      /\ \A i \in 1..n : qs[i] = ps[i]
  BY <1>1, <1>2, AppendProperties
<1>4. PICK a, b, x, y : a = Wires(qs) /\ b = Parts(qs, c) /\ x = Wires(ps) /\ y = Parts(ps, c)
  OBVIOUS
<1>5. /\ a \in Seq(Seq(Byte)) /\ Len(a) = n + 1
      /\ \A i \in 1..(n + 1) : a[i] = Packet(qs[i].channel, qs[i].payload)
      /\ b \in Seq(Seq(Byte)) /\ Len(b) = n + 1 /\ \A i \in 1..(n + 1) : b[i] = Part(qs[i], c)
  BY <1>3, <1>4, PacketFacts
<1>6. /\ x \in Seq(Seq(Byte)) /\ Len(x) = n
      /\ \A i \in 1..n : x[i] = Packet(ps[i].channel, ps[i].payload)
      /\ y \in Seq(Seq(Byte)) /\ Len(y) = n /\ \A i \in 1..n : y[i] = Part(ps[i], c)
  BY <1>1, <1>4, PacketFacts
<1>7. ASSUME NEW s \in Seq(Seq(Byte)), NEW t \in Seq(Seq(Byte)), NEW e \in Seq(Byte),
             Len(s) = n + 1, Len(t) = n, s[n + 1] = e, \A i \in 1..n : s[i] = t[i]
      PROVE  FlattenSeq(s) = FlattenSeq(t) \o e
  <2>1. /\ Append(t, e) \in Seq(Seq(Byte)) /\ Len(Append(t, e)) = n + 1
        /\ \A i \in 1..n : Append(t, e)[i] = t[i]
        /\ Append(t, e)[n + 1] = e
    BY <1>7, AppendProperties
  <2>2. ASSUME NEW i \in 1..(n + 1) PROVE s[i] = Append(t, e)[i]
    <3>1. i \in 1..n \/ i = n + 1
      OBVIOUS
    <3> QED BY <1>7, <2>1, <3>1
  <2>3. s = Append(t, e)
    BY <1>7, <2>1, <2>2, SeqEqual
  <2> QED BY <2>3, FlattenAppend
<1>8. n + 1 \in 1..(n + 1) /\ \A i \in 1..n : i \in 1..(n + 1)
  OBVIOUS
<1>9. Packet(p.channel, p.payload) \in Seq(Byte) /\ Part(p, c) \in Seq(Byte)
  BY OnePacket
<1>10. FlattenSeq(a) = FlattenSeq(x) \o Packet(p.channel, p.payload)
  <2>1. a[n + 1] = Packet(p.channel, p.payload) /\ \A i \in 1..n : a[i] = x[i]
    BY <1>3, <1>5, <1>6, <1>8
  <2> QED BY <1>5, <1>6, <1>7, <1>9, <2>1
<1>11. FlattenSeq(b) = FlattenSeq(y) \o Part(p, c)
  <2>1. b[n + 1] = Part(p, c) /\ \A i \in 1..n : b[i] = y[i]
    BY <1>3, <1>5, <1>6, <1>8
  <2> QED BY <1>5, <1>6, <1>7, <1>9, <2>1
<1> QED BY <1>1, <1>2, <1>3, <1>4, <1>10, <1>11 DEF Wire, Data

-----------------------------------------------------------------------------
(* What two bytes in front of a packet say.                                *)
LEMMA WireStarts ==
  ASSUME NEW ps \in Seq(PacketSet), NEW h \in Seq(Byte), NEW d \in Seq(Byte),
         Len(h) = 2, h \o d = Wire(ps)
  PROVE  /\ ps # <<>> /\ Head(ps) \in PacketSet /\ Tail(ps) \in Seq(PacketSet)
         /\ h = <<Head(ps).channel, Len(Head(ps).payload)>>
         /\ d = Head(ps).payload \o Wire(Tail(ps))
<1>1. ps # <<>>
  <2>1. Len(h \o d) = 2 + Len(d) /\ Len(d) \in Nat
    <3>1. Len(h \o d) = Len(h) + Len(d) /\ Len(d) \in Nat
      BY ConcatProperties, LenProperties, Zenon
    <3> QED BY <3>1, Zenon
  <2>2. ASSUME ps = <<>> PROVE FALSE
    <3>1. Wire(ps) = <<>>
      BY <2>2, NoPackets
    <3>2. Len(<<>>) = 0
      OBVIOUS
    <3>3. Len(h \o d) = 0
      BY <3>1, <3>2
    <3> QED BY <2>1, <3>3
  <2> QED BY <2>2
<1>2. PICK p, qs : p = Head(ps) /\ qs = Tail(ps)
  OBVIOUS
<1>3. /\ p \in PacketSet /\ qs \in Seq(PacketSet)
      /\ Wire(ps) = Packet(p.channel, p.payload) \o Wire(qs)
  BY <1>1, <1>2, PacketsSplit
<1>4. PICK g, e, w : g = <<p.channel, Len(p.payload)>> /\ e = p.payload /\ w = Wire(qs)
  OBVIOUS
<1>5. /\ g \in Seq(Byte) /\ Len(g) = 2 /\ e \in Seq(Byte) /\ w \in Seq(Byte)
      /\ Packet(p.channel, p.payload) = g \o e
  BY <1>3, <1>4, OnePacket, PacketFacts
<1>6. e \o w \in Seq(Byte)
  BY <1>5, ConcatProperties
<1>7. (g \o e) \o w = g \o (e \o w)
  <2>1. Three(g, e, w)
    BY <1>5, Threes
  <2> QED BY <2>1, Zenon DEF Three
<1>8. h \o d = g \o (e \o w)
  BY <1>3, <1>4, <1>5, <1>7, Zenon
<1>9. h = g /\ d = e \o w
  BY <1>5, <1>6, <1>8, Cut
<1> QED BY <1>1, <1>2, <1>3, <1>4, <1>9

(* A header with a whole payload, and with less.                           *)
OnWire(ps, c, size, p, d) == (<<c, size>> \o p) \o d = Wire(ps) /\ Len(p) = size

(* ... and a whole payload is that of the first packet.                    *)
LEMMA WireEnds ==
  ASSUME NEW ps \in Seq(PacketSet), NEW c \in Byte, NEW size \in Nat,
         NEW p \in Seq(Byte), NEW d \in Seq(Byte), OnWire(ps, c, size, p, d)
  PROVE  /\ ps # <<>> /\ Head(ps) \in PacketSet /\ Tail(ps) \in Seq(PacketSet)
         /\ c = Head(ps).channel /\ p = Head(ps).payload /\ d = Wire(Tail(ps))
<1>0. (<<c, size>> \o p) \o d = Wire(ps) /\ Len(p) = size
  BY DEF OnWire
<1>1. PICK h : h = <<c, size>>
  OBVIOUS
<1>2. h \in Seq(Byte) /\ Len(h) = 2
  <2>1. size \in Byte
    BY DEF Byte
  <2> QED BY <1>1, <2>1
<1>3. p \o d \in Seq(Byte)
  BY ConcatProperties
<1>4. (h \o p) \o d = h \o (p \o d)
  <2>1. Three(h, p, d)
    BY <1>2, Threes
  <2> QED BY <2>1, Zenon DEF Three
<1>5. h \o (p \o d) = Wire(ps)
  BY <1>0, <1>1, <1>4, Zenon
<1>6. /\ ps # <<>> /\ Head(ps) \in PacketSet /\ Tail(ps) \in Seq(PacketSet)
      /\ h = <<Head(ps).channel, Len(Head(ps).payload)>>
      /\ p \o d = Head(ps).payload \o Wire(Tail(ps))
  BY <1>2, <1>3, <1>5, WireStarts
<1>7. c = Head(ps).channel /\ size = Len(Head(ps).payload)
  BY <1>1, <1>6
<1>8. PICK e, w : e = Head(ps).payload /\ w = Wire(Tail(ps))
  OBVIOUS
<1>9. e \in Seq(Byte) /\ w \in Seq(Byte) /\ Len(e) = Len(p) /\ p \o d = e \o w
  BY <1>0, <1>6, <1>7, <1>8, OnePacket, PacketFacts
<1>10. p = e /\ d = w
  BY <1>9, Cut
<1> QED BY <1>6, <1>7, <1>8, <1>10

(* Packets do not end within one.                                          *)
LEMMA WireGoesOn ==
  ASSUME NEW ps \in Seq(PacketSet), NEW c \in Byte, NEW size \in Nat,
         NEW p \in Seq(Byte), Len(p) < size
  PROVE  <<c, size>> \o p # Wire(ps)
<1>0. SUFFICES ASSUME <<c, size>> \o p = Wire(ps) PROVE FALSE
  OBVIOUS
<1>1. PICK h : h = <<c, size>>
  OBVIOUS
<1>2. h \in Seq(Byte) /\ Len(h) = 2
  <2>1. size \in Byte
    BY DEF Byte
  <2> QED BY <1>1, <2>1
<1>3. h \o p = Wire(ps)
  BY <1>0, <1>1
<1>4. /\ ps # <<>> /\ Head(ps) \in PacketSet /\ Tail(ps) \in Seq(PacketSet)
      /\ h = <<Head(ps).channel, Len(Head(ps).payload)>>
      /\ p = Head(ps).payload \o Wire(Tail(ps))
  BY <1>2, <1>3, WireStarts
<1>5. size = Len(Head(ps).payload)
  BY <1>1, <1>4
<1>6. PICK e, w : e = Head(ps).payload /\ w = Wire(Tail(ps))
  OBVIOUS
<1>7. e \in Seq(Byte) /\ w \in Seq(Byte) /\ p = e \o w
  BY <1>4, <1>6, OnePacket, PacketFacts
<1>8. Len(e \o w) = Len(e) + Len(w) /\ Len(e) \in Nat /\ Len(w) \in Nat
  BY <1>7, ConcatProperties, LenProperties
<1> QED BY <1>5, <1>6, <1>7, <1>8

(* Nor within a header.                                                    *)
LEMMA WireShort ==
  ASSUME NEW ps \in Seq(PacketSet), Len(Wire(ps)) < 2
  PROVE  ps = <<>>
<1>0. SUFFICES ASSUME ps # <<>> PROVE FALSE
  OBVIOUS
<1>1. PICK p, w : p = Packet(Head(ps).channel, Head(ps).payload) /\ w = Wire(Tail(ps))
  OBVIOUS
<1>2. Head(ps) \in PacketSet /\ Tail(ps) \in Seq(PacketSet) /\ Wire(ps) = p \o w
  BY <1>0, <1>1, PacketsSplit
<1>3. p \in Seq(Byte) /\ w \in Seq(Byte) /\ Len(p) = 2 + Len(Head(ps).payload)
      /\ Len(Head(ps).payload) \in Nat
  BY <1>1, <1>2, OnePacket, PacketFacts
<1>4. Len(p \o w) = Len(p) + Len(w) /\ Len(w) \in Nat
  BY <1>3, ConcatProperties, LenProperties
<1> QED BY <1>2, <1>3, <1>4

-----------------------------------------------------------------------------
(* qemud_serial_read puts packets together.                                *)
SerialSet ==
  {s \in [need_header: BOOLEAN, overflow: {0}, in_size: Nat, in_channel: Byte,
          header: Seq(Byte), payload: Seq(Byte)] :
     /\ Len(s.header) < 2
     /\ s.need_header => s.payload = <<>>
     /\ ~ s.need_header => /\ s.header = <<>> /\ s.in_size \in 1..MAX_SERIAL_PAYLOAD
                           /\ Len(s.payload) < s.in_size}

Taken(s) == IF s.need_header THEN s.header ELSE <<s.in_channel, s.in_size>> \o s.payload
Done(s) == [s EXCEPT !.need_header = TRUE, !.in_size = 0, !.payload = <<>>]

TakenAsHeader(s) ==
  \E size \in Nat, c \in Byte, h \in Seq(Byte) :
    /\ s = [need_header |-> TRUE, overflow |-> 0, in_size |-> size, in_channel |-> c,
            header |-> h, payload |-> <<>>]
    /\ Len(h) < 2
TakenAsPayload(s) ==
  \E size \in 1..MAX_SERIAL_PAYLOAD, c \in Byte, p \in Seq(Byte) :
    /\ s = [need_header |-> FALSE, overflow |-> 0, in_size |-> size, in_channel |-> c,
            header |-> <<>>, payload |-> p]
    /\ Len(p) < size

(* It has a part of a header, or of a payload.                             *)
LEMMA SerialCases ==
  ASSUME NEW s
  PROVE  s \in SerialSet <=> TakenAsHeader(s) \/ TakenAsPayload(s)
<1>0. <<>> \in Seq(Byte) /\ Len(<<>>) = 0 /\ MAX_SERIAL_PAYLOAD \in Nat
  BY PayloadAssumption
<1>1. ASSUME s \in SerialSet, s.need_header PROVE TakenAsHeader(s)
  BY <1>1 DEF SerialSet, TakenAsHeader
<1>2. ASSUME s \in SerialSet, ~ s.need_header PROVE TakenAsPayload(s)
  BY <1>2 DEF SerialSet, TakenAsPayload
<1>3. ASSUME TakenAsHeader(s) PROVE s \in SerialSet
  BY <1>0, <1>3 DEF SerialSet, TakenAsHeader
<1>4. ASSUME TakenAsPayload(s) PROVE s \in SerialSet
  BY <1>0, <1>4 DEF SerialSet, TakenAsPayload
<1> QED BY <1>1, <1>2, <1>3, <1>4

Whole(s) == ~ s.need_header /\ Len(s.payload) = s.in_size

SerialRead(ps, n, s) ==
  /\ n \in 1..Len(rest)
  /\ ~ Whole(s) => s \in SerialSet /\ Taken(s) \o (From(rest, n) \o line) = Wire(ps)
  /\ Whole(s) => /\ ps # <<>> /\ s.in_channel = Head(ps).channel /\ s.payload = Head(ps).payload
                 /\ Done(s) \in SerialSet
                 /\ Taken(Done(s)) \o (From(rest, n) \o line) = Wire(Tail(ps))

(* A call of it: what was taken, and what is left, are still the packets'  *)
(* bytes; or a payload is whole, and is that of the first packet.          *)
LEMMA SerialReads ==
  ASSUME serial \in SerialSet, NEW ps \in Seq(PacketSet), rest \in Seq(Byte), rest # <<>>,
         line \in Seq(Byte), Taken(serial) \o (rest \o line) = Wire(ps), NEW n,
         n = Least(qemud_serial_can_read, Len(rest))
  PROVE  SerialRead(ps, n, Filled(serial, First(rest, n)))
<1>0. Len(rest) \in Nat \ {0} /\ MAX_SERIAL_PAYLOAD \in Nat
  BY EmptySeq, PayloadAssumption
<1>1. PICK x, r, s : x = Upto(rest, n) /\ r = After(rest, n) /\ s = Filled(serial, First(rest, n))
  OBVIOUS
<1>2. ASSUME n \in 1..Len(rest)
      PROVE  /\ x \in Seq(Byte) /\ r \in Seq(Byte) /\ Len(x) = n /\ rest = x \o r
             /\ r \o line \in Seq(Byte)
  <2>1. n \in 0..Len(rest)
    BY <1>0, <1>2
  <2>2. Divided(Byte, rest, n)
    BY <2>1, Divides
  <2>3. x \in Seq(Byte) /\ r \in Seq(Byte) /\ Len(x) = n /\ rest = x \o r
    BY <1>1, <2>2, Zenon DEF Divided
  <2> QED BY <2>3, ConcatProperties
<1>3. First(rest, n) = x /\ From(rest, n) = r
  BY <1>1 DEF First, From, Upto, After
<1>4. CASE TakenAsHeader(serial)
  <2>1. PICK size \in Nat, c \in Byte, h \in Seq(Byte) :
          /\ serial = [need_header |-> TRUE, overflow |-> 0, in_size |-> size, in_channel |-> c,
                       header |-> h, payload |-> <<>>]
          /\ Len(h) < 2
    BY <1>4 DEF TakenAsHeader
  <2>2. Len(h) \in Nat
    BY LenProperties
  <2>3. qemud_serial_can_read = 2 - Len(h) /\ Taken(serial) = h
    BY <2>1 DEF qemud_serial_can_read, HEADER_SIZE, Taken
  <2>4. n \in 1..Len(rest) /\ Len(h) + n <= 2
    BY <1>0, <2>1, <2>2, <2>3 DEF Least
  <2>5. PICK g : g = h \o x
    OBVIOUS
  <2>6. g \in Seq(Byte) /\ Len(g) = Len(h) + n
    <3>1. Joined(Byte, h, x)
      BY <1>2, <2>4, Joins
    <3> QED BY <1>2, <2>4, <2>5, <3>1, Zenon DEF Joined
  <2>7. g \o (r \o line) = Wire(ps)
    <3>1. Bracketed(h, x, r, line)
      BY <1>2, <2>4, Associative4
    <3>2. (h \o x) \o (r \o line) = h \o ((x \o r) \o line)
      BY <3>1 DEF Bracketed
    <3>3. h \o (rest \o line) = Wire(ps)
      BY <2>3
    <3> QED BY <1>2, <2>4, <2>5, <3>2, <3>3, Zenon
  <2>8. CASE Len(g) < 2
    <3>0. /\ serial.overflow = 0 /\ serial.need_header /\ serial.header = h
          /\ ~ (serial.overflow > 0)
      BY <2>1
    <3>a. s = [serial EXCEPT !.header = g]
      BY <1>1, <1>3, <2>5, <2>8, <3>0 DEF Filled, HEADER_SIZE
    <3>1. s = [need_header |-> TRUE, overflow |-> 0, in_size |-> size, in_channel |-> c,
               header |-> g, payload |-> <<>>]
      BY <2>1, <3>a
    <3>2. TakenAsHeader(s) /\ Taken(s) = g /\ ~ Whole(s)
      BY <2>6, <2>8, <3>1 DEF TakenAsHeader, Taken, Whole
    <3>3. s \in SerialSet
      BY <3>2, SerialCases
    <3> QED BY <1>1, <1>3, <2>4, <2>7, <3>2, <3>3 DEF SerialRead
  <2>9. CASE ~ (Len(g) < 2)
    <3>1. Len(g) = 2
      BY <2>2, <2>4, <2>6, <2>9
    <3>2. /\ ps # <<>> /\ Head(ps) \in PacketSet
          /\ g = <<Head(ps).channel, Len(Head(ps).payload)>>
      BY <1>2, <2>4, <2>6, <2>7, <3>1, WireStarts
    <3>3. PICK a, b : a = Head(ps).channel /\ b = Len(Head(ps).payload)
      OBVIOUS
    <3>4. a \in Byte /\ b \in 1..MAX_SERIAL_PAYLOAD /\ g = <<a, b>> /\ b # 0
          /\ ~ (b > MAX_SERIAL_PAYLOAD)
      BY <1>0, <3>2, <3>3, OnePacket DEF Byte
    <3>5. g[1] = a /\ g[2] = b
      BY <3>4
    <3>6. s = WithHeader(serial, g)
      BY <1>1, <1>3, <2>1, <2>5, <2>9 DEF Filled, HEADER_SIZE
    <3>7. s = [need_header |-> FALSE, overflow |-> 0, in_size |-> b, in_channel |-> a,
               header |-> <<>>, payload |-> <<>>]
      BY <2>1, <3>4, <3>5, <3>6 DEF WithHeader, HeaderReset
    <3>8. Len(<<>>) = 0 /\ <<>> \in Seq(Byte) /\ 0 < b
      BY <1>0, <3>4
    <3>9. TakenAsPayload(s) /\ ~ Whole(s)
      BY <3>4, <3>7, <3>8 DEF TakenAsPayload, Whole
    <3>10. s \in SerialSet
      BY <3>9, SerialCases
    <3>11. Taken(s) = g
      <4>1. Taken(s) = <<a, b>> \o <<>>
        BY <3>7 DEF Taken
      <4>2. g \o <<>> = g
        BY <2>6, ConcatEmptySeq
      <4> QED BY <3>4, <4>1, <4>2
    <3> QED BY <1>1, <1>3, <2>4, <2>7, <3>9, <3>10, <3>11 DEF SerialRead
  <2> QED BY <2>8, <2>9
<1>5. CASE TakenAsPayload(serial)
  <2>1. PICK size \in 1..MAX_SERIAL_PAYLOAD, c \in Byte, p \in Seq(Byte) :
          /\ serial = [need_header |-> FALSE, overflow |-> 0, in_size |-> size, in_channel |-> c,
                       header |-> <<>>, payload |-> p]
          /\ Len(p) < size
    BY <1>5 DEF TakenAsPayload
  <2>2. Len(p) \in Nat /\ size \in Nat \ {0}
    BY <1>0, LenProperties
  <2>3. qemud_serial_can_read = size - Len(p) /\ Taken(serial) = <<c, size>> \o p
    BY <2>1 DEF qemud_serial_can_read, Taken
  <2>4. n \in 1..Len(rest) /\ Len(p) + n <= size
    BY <1>0, <2>1, <2>2, <2>3 DEF Least
  <2>5. PICK q, h : q = p \o x /\ h = <<c, size>>
    OBVIOUS
  <2>6. q \in Seq(Byte) /\ Len(q) = Len(p) + n
    <3>1. Joined(Byte, p, x)
      BY <1>2, <2>4, Joins
    <3> QED BY <1>2, <2>4, <2>5, <3>1, Zenon DEF Joined
  <2>7. h \in Seq(Byte)
    <3>1. size \in Byte
      BY <2>2 DEF Byte
    <3> QED BY <2>5, <3>1
  <2>8. (h \o q) \o (r \o line) = Wire(ps)
    <3>1. (h \o p) \o (rest \o line) = Wire(ps)
      BY <2>3, <2>5
    <3>2. PICK u \in Seq(Byte) : u = h \o p
      BY <2>7, ConcatProperties
    <3>3. Bracketed(u, x, r, line)
      BY <1>2, <2>4, <3>2, Associative4
    <3>4. (u \o x) \o (r \o line) = u \o ((x \o r) \o line)
      BY <3>3 DEF Bracketed
    <3>5. u \o x = h \o q
      <4>1. Three(h, p, x)
        BY <1>2, <2>4, <2>7, Threes
      <4>2. (h \o p) \o x = h \o (p \o x)
        BY <4>1, Zenon DEF Three
      <4> QED BY <2>5, <3>2, <4>2, Zenon
    <3>6. u \o (rest \o line) = Wire(ps)
      BY <3>1, <3>2, Zenon
    <3> QED BY <1>2, <2>4, <3>4, <3>5, <3>6, Zenon
  <2>9. s = [need_header |-> FALSE, overflow |-> 0, in_size |-> size, in_channel |-> c,
             header |-> <<>>, payload |-> q]
    <3>1. /\ serial.overflow = 0 /\ ~ serial.need_header /\ serial.payload = p
          /\ ~ (serial.overflow > 0)
      BY <2>1
    <3>2. s = [serial EXCEPT !.payload = q]
      BY <1>1, <1>3, <2>5, <3>1 DEF Filled
    <3> QED BY <2>1, <3>2
  <2>12. ~ s.need_header /\ s.payload = q /\ s.in_size = size /\ s.in_channel = c
    BY <2>9
  <2>10. CASE Len(q) < size
    <3>a. Len(q) # size /\ Len(q) \in Nat
      BY <2>2, <2>6, <2>10, LenProperties
    <3>b. TakenAsPayload(s)
      BY <2>6, <2>9, <2>10 DEF TakenAsPayload
    <3>c. ~ Whole(s) /\ Taken(s) = h \o q
      BY <2>5, <2>12, <3>a DEF Whole, Taken
    <3>1. TakenAsPayload(s) /\ ~ Whole(s) /\ Taken(s) = h \o q
      BY <3>b, <3>c
    <3>2. s \in SerialSet
      BY <3>1, SerialCases
    <3> QED BY <1>1, <1>3, <2>4, <2>8, <3>1, <3>2 DEF SerialRead
  <2>11. CASE ~ (Len(q) < size)
    <3>1. Len(q) = size
      BY <2>2, <2>4, <2>6, <2>11
    <3>2. /\ ps # <<>> /\ c = Head(ps).channel /\ q = Head(ps).payload
          /\ r \o line = Wire(Tail(ps))
      <4>1. (<<c, size>> \o q) \o (r \o line) = Wire(ps)
        BY <2>5, <2>8, Zenon
      <4>2. r \o line \in Seq(Byte) /\ size \in Nat
        BY <1>2, <2>2, <2>4
      <4>3. OnWire(ps, c, size, q, r \o line)
        BY <3>1, <4>1, Zenon DEF OnWire
      <4> QED BY <2>6, <4>2, <4>3, WireEnds
    <3>a. PICK t : t = Done(s)
      OBVIOUS
    <3>3. t = [need_header |-> TRUE, overflow |-> 0, in_size |-> 0, in_channel |-> c,
               header |-> <<>>, payload |-> <<>>]
      BY <2>9, <3>a DEF Done
    <3>4. Len(<<>>) < 2 /\ <<>> \in Seq(Byte) /\ 0 \in Nat
      OBVIOUS
    <3>b. TakenAsHeader(t)
      BY <3>3, <3>4 DEF TakenAsHeader
    <3>c. Taken(t) = <<>>
      BY <3>3 DEF Taken
    <3>5. TakenAsHeader(Done(s)) /\ Taken(Done(s)) = <<>>
      BY <3>a, <3>b, <3>c
    <3>6. Done(s) \in SerialSet
      BY <3>5, SerialCases
    <3>7. <<>> \o (r \o line) = r \o line
      BY <1>2, <2>4, ConcatEmptySeq
    <3>8. Whole(s) /\ s.in_channel = c /\ s.payload = q
      BY <2>9, <3>1 DEF Whole
    <3> QED BY <1>1, <1>3, <2>4, <3>2, <3>5, <3>6, <3>7, <3>8 DEF SerialRead
  <2> QED BY <2>10, <2>11
<1> QED BY <1>4, <1>5, SerialCases

-----------------------------------------------------------------------------
(* The frames of a client.                                                 *)
FrameSet == {f \in Seq(Byte) : Len(f) \in 1..MaxWritten}
Framing(fs) == [i \in DOMAIN fs |-> Frame(fs[i])]
Encoded(fs) == FlattenSeq(Framing(fs))

(* The two digits of a size are read as that size.                         *)
LEMMA DigitsFacts ==
  ASSUME NEW n \in Nat
  PROVE  Digits(n) \in Seq(Byte) /\ Len(Digits(n)) = 2 /\ Value(Digits(n)) = n
<1>1. PICK q, m : q = n \div Base /\ m = n % Base
  OBVIOUS
<1>2. q \in Nat /\ m \in Nat /\ q * Base + m = n
  BY <1>1 DEF Base
<1>3. Digits(n) = <<q, m>> /\ q \in Byte /\ m \in Byte
  BY <1>1, <1>2 DEF Digits, Byte
<1>4. <<q, m>>[1] = q /\ <<q, m>>[2] = m
  OBVIOUS
<1>5. Value(<<q, m>>) = n
  BY <1>2, <1>4 DEF Value
<1> QED BY <1>3, <1>5

(* A frame and its bytes.                                                  *)
LEMMA OneFrame ==
  ASSUME NEW f \in FrameSet
  PROVE  /\ f \in Seq(Byte) /\ Len(f) \in 1..MaxWritten /\ Len(f) \in Nat \ {0} /\ f # <<>>
         /\ Digits(Len(f)) \in Seq(Byte) /\ Len(Digits(Len(f))) = 2
         /\ Frame(f) \in Seq(Byte) /\ Frame(f) = Digits(Len(f)) \o f
         /\ Len(Frame(f)) = 2 + Len(f)
<1>1. f \in Seq(Byte) /\ Len(f) \in 1..MaxWritten /\ MaxWritten \in Nat
  BY SerialBoundAssumption DEF FrameSet
<1>2. Len(f) \in Nat \ {0} /\ f # <<>>
  BY <1>1, EmptySeq
<1>3. PICK h : h = Digits(Len(f)) /\ h \in Seq(Byte) /\ Len(h) = 2
  BY <1>2, DigitsFacts
<1>4. Joined(Byte, h, f)
  BY <1>1, <1>3, Joins
<1>5. h \o f \in Seq(Byte) /\ Len(h \o f) = 2 + Len(f)
  BY <1>3, <1>4, Zenon DEF Joined
<1> QED BY <1>1, <1>2, <1>3, <1>5 DEF Frame

(* Frames and their bytes.                                                 *)
LEMMA FramingFacts ==
  ASSUME NEW fs \in Seq(FrameSet)
  PROVE  /\ Framing(fs) \in Seq(Seq(Byte)) /\ Len(Framing(fs)) = Len(fs)
         /\ \A i \in 1..Len(fs) : Framing(fs)[i] = Frame(fs[i])
         /\ Encoded(fs) \in Seq(Byte)
         /\ fs \in Seq(Seq(Byte)) /\ FlattenSeq(fs) \in Seq(Byte)
<1>1. PICK n \in Nat : n = Len(fs) /\ DOMAIN fs = 1..n /\ \A i \in 1..n : fs[i] \in FrameSet
  BY LenProperties, ElementOfSeq
<1>2. PICK w : w = Framing(fs)
  OBVIOUS
<1>3. w = [i \in 1..n |-> Frame(fs[i])]
  BY <1>1, <1>2 DEF Framing
<1>4. w \in Seq(Seq(Byte)) /\ Len(w) = n
  <2>1. ASSUME NEW i \in 1..n PROVE w[i] \in Seq(Byte)
    BY <1>1, <1>3, OneFrame
  <2>2. w \in [1..n -> Seq(Byte)]
    BY <1>3, <2>1
  <2>3. w \in Seq(Seq(Byte)) /\ DOMAIN w = 1..n
    BY <1>3, <2>2, SeqDef
  <2> QED BY <2>3, LenProperties
<1>5. Encoded(fs) \in Seq(Byte)
  BY <1>2, <1>4, FlattenType DEF Encoded
<1>6. fs \in Seq(Seq(Byte))
  <2>1. FrameSet \subseteq Seq(Byte)
    BY DEF FrameSet
  <2> QED BY <2>1, SeqMonotonic
<1>7. FlattenSeq(fs) \in Seq(Byte)
  BY <1>6, FlattenType
<1> QED BY <1>1, <1>2, <1>3, <1>4, <1>5, <1>6, <1>7

(* No frames, no bytes.                                                    *)
LEMMA NoFrames == Encoded(<<>>) = <<>> /\ <<>> \in Seq(FrameSet)
<1>1. Framing(<<>>) = <<>>
  BY DEF Framing
<1> QED BY <1>1, FlattenEmpty DEF Encoded

(* The first frame, and the others.                                        *)
LEMMA EncodedSplit ==
  ASSUME NEW fs \in Seq(FrameSet), fs # <<>>
  PROVE  /\ Head(fs) \in FrameSet /\ Tail(fs) \in Seq(FrameSet)
         /\ fs = <<Head(fs)>> \o Tail(fs)
         /\ Encoded(fs) = Frame(Head(fs)) \o Encoded(Tail(fs))
<1>1. PICK f, gs : f = Head(fs) /\ gs = Tail(fs)
  OBVIOUS
<1>2. PICK n \in Nat : n = Len(fs) /\ n # 0
  BY EmptySeq, LenProperties
<1>3. /\ f \in FrameSet /\ gs \in Seq(FrameSet) /\ Len(gs) = n - 1 /\ fs = <<f>> \o gs
      /\ f = fs[1] /\ \A i \in 1..(n - 1) : gs[i] = fs[i + 1]
  BY <1>1, <1>2
<1>4. PICK a, x : a = Framing(fs) /\ x = Framing(gs)
  OBVIOUS
<1>5. a \in Seq(Seq(Byte)) /\ Len(a) = n /\ \A i \in 1..n : a[i] = Frame(fs[i])
  BY <1>2, <1>4, FramingFacts
<1>6. x \in Seq(Seq(Byte)) /\ Len(x) = n - 1 /\ \A i \in 1..(n - 1) : x[i] = Frame(gs[i])
  BY <1>3, <1>4, FramingFacts
<1>7. a # <<>>
  BY <1>2, <1>5, EmptySeq
<1>8. /\ Head(a) = a[1] /\ Tail(a) \in Seq(Seq(Byte)) /\ Len(Tail(a)) = n - 1
      /\ \A i \in 1..(n - 1) : Tail(a)[i] = a[i + 1]
  BY <1>2, <1>5, <1>7, HeadTailProperties
<1>9. ASSUME NEW i \in 1..(n - 1) PROVE Tail(a)[i] = x[i]
  <2>1. i + 1 \in 1..n
    BY <1>2
  <2> QED BY <1>3, <1>5, <1>6, <1>8, <2>1
<1>10. Tail(a) = x
  BY <1>6, <1>8, <1>9, SeqEqual
<1>11. a[1] = Frame(f)
  <2>1. 1 \in 1..n
    BY <1>2
  <2> QED BY <1>3, <1>5, <2>1
<1>12. FlattenSeq(a) = Frame(f) \o FlattenSeq(x)
  BY <1>5, <1>7, <1>8, <1>10, <1>11, FlattenCons
<1> QED BY <1>1, <1>3, <1>4, <1>12 DEF Encoded

(* A frame more.                                                           *)
LEMMA EncodedAppend ==
  ASSUME NEW fs \in Seq(FrameSet), NEW f \in FrameSet
  PROVE  /\ Append(fs, f) \in Seq(FrameSet)
         /\ Encoded(Append(fs, f)) = Encoded(fs) \o Frame(f)
<1>1. PICK n \in Nat : n = Len(fs)
  BY LenProperties
<1>2. PICK gs : gs = Append(fs, f)
  OBVIOUS
<1>3. /\ gs \in Seq(FrameSet) /\ Len(gs) = n + 1 /\ gs[n + 1] = f
      /\ \A i \in 1..n : gs[i] = fs[i]
  BY <1>1, <1>2, AppendProperties
<1>4. PICK a, x : a = Framing(gs) /\ x = Framing(fs)
  OBVIOUS
<1>5. a \in Seq(Seq(Byte)) /\ Len(a) = n + 1 /\ \A i \in 1..(n + 1) : a[i] = Frame(gs[i])
  BY <1>3, <1>4, FramingFacts
<1>6. x \in Seq(Seq(Byte)) /\ Len(x) = n /\ \A i \in 1..n : x[i] = Frame(fs[i])
  BY <1>1, <1>4, FramingFacts
<1>7. PICK e \in Seq(Byte) : e = Frame(f)
  BY OneFrame
<1>8. /\ Append(x, e) \in Seq(Seq(Byte)) /\ Len(Append(x, e)) = n + 1
      /\ \A i \in 1..n : Append(x, e)[i] = x[i]
      /\ Append(x, e)[n + 1] = e
  BY <1>6, <1>7, AppendProperties
<1>9. ASSUME NEW i \in 1..(n + 1) PROVE a[i] = Append(x, e)[i]
  <2>1. i \in 1..n \/ i = n + 1
    OBVIOUS
  <2> QED BY <1>3, <1>5, <1>6, <1>7, <1>8, <2>1
<1>10. a = Append(x, e)
  BY <1>5, <1>8, <1>9, SeqEqual
<1>11. FlattenSeq(a) = FlattenSeq(x) \o e
  BY <1>6, <1>7, <1>10, FlattenAppend
<1> QED BY <1>2, <1>3, <1>4, <1>7, <1>11 DEF Encoded

(* What a header in front of frames says, with a whole frame and with less.*)
InFrames(fs, h, d) == Len(h) = 2 /\ h \o d = Encoded(fs)

(* Two bytes in front of a frame are its header...                         *)
LEMMA FrameStarts ==
  ASSUME NEW fs \in Seq(FrameSet), NEW h \in Seq(Byte), NEW d \in Seq(Byte), InFrames(fs, h, d)
  PROVE  /\ fs # <<>> /\ Head(fs) \in FrameSet /\ Tail(fs) \in Seq(FrameSet)
         /\ h = Digits(Len(Head(fs))) /\ Value(h) = Len(Head(fs))
         /\ d = Head(fs) \o Encoded(Tail(fs))
<1>0. Len(h) = 2 /\ h \o d = Encoded(fs)
  BY DEF InFrames
<1>1. fs # <<>>
  <2>1. Joined(Byte, h, d)
    BY Joins
  <2>2. Len(h \o d) = 2 + Len(d) /\ Len(d) \in Nat
    BY <1>0, <2>1, Zenon DEF Joined
  <2>3. ASSUME fs = <<>> PROVE FALSE
    <3>1. Encoded(fs) = <<>> /\ Len(<<>>) = 0
      BY <2>3, NoFrames
    <3>2. Len(h \o d) = 0
      BY <1>0, <3>1, Zenon
    <3> QED BY <2>2, <3>2
  <2> QED BY <2>3
<1>2. PICK f, gs : f = Head(fs) /\ gs = Tail(fs)
  OBVIOUS
<1>3. /\ f \in FrameSet /\ gs \in Seq(FrameSet)
      /\ Encoded(fs) = Frame(f) \o Encoded(gs)
  BY <1>1, <1>2, EncodedSplit
<1>4. PICK g, w : g = Digits(Len(f)) /\ w = Encoded(gs)
  OBVIOUS
<1>5. /\ g \in Seq(Byte) /\ Len(g) = 2 /\ f \in Seq(Byte) /\ w \in Seq(Byte)
      /\ Frame(f) = g \o f /\ Value(g) = Len(f)
  <2>1. Len(f) \in Nat
    BY <1>3, OneFrame
  <2> QED BY <1>3, <1>4, <2>1, OneFrame, FramingFacts, DigitsFacts
<1>6. f \o w \in Seq(Byte)
  <2>1. Joined(Byte, f, w)
    BY <1>5, Joins
  <2> QED BY <2>1 DEF Joined
<1>7. Three(g, f, w)
  BY <1>5, Threes
<1>8. h \o d = g \o (f \o w)
  BY <1>0, <1>3, <1>4, <1>5, <1>7, Zenon DEF Three
<1>9. h = g /\ d = f \o w
  BY <1>0, <1>5, <1>6, <1>8, Cut
<1> QED BY <1>1, <1>2, <1>3, <1>4, <1>5, <1>9

InFrame(fs, size, p, d) == (Digits(size) \o p) \o d = Encoded(fs) /\ Len(p) = size

(* ... and a whole payload is that of the first frame.                     *)
LEMMA FrameEnds ==
  ASSUME NEW fs \in Seq(FrameSet), NEW size \in Nat, NEW p \in Seq(Byte), NEW d \in Seq(Byte),
         InFrame(fs, size, p, d)
  PROVE  /\ fs # <<>> /\ Head(fs) \in FrameSet /\ Tail(fs) \in Seq(FrameSet)
         /\ p = Head(fs) /\ d = Encoded(Tail(fs))
<1>0. (Digits(size) \o p) \o d = Encoded(fs) /\ Len(p) = size
  BY DEF InFrame
<1>1. PICK h : h = Digits(size) /\ h \in Seq(Byte) /\ Len(h) = 2 /\ Value(h) = size
  BY DigitsFacts
<1>2. Three(h, p, d)
  BY <1>1, Threes
<1>3. p \o d \in Seq(Byte)
  <2>1. Joined(Byte, p, d)
    BY Joins
  <2> QED BY <2>1 DEF Joined
<1>4. h \o (p \o d) = Encoded(fs)
  BY <1>0, <1>1, <1>2, Zenon DEF Three
<1>5. InFrames(fs, h, p \o d)
  BY <1>1, <1>4, Zenon DEF InFrames
<1>6. PICK f, w : f = Head(fs) /\ w = Encoded(Tail(fs))
  OBVIOUS
<1>7. /\ fs # <<>> /\ f \in FrameSet /\ Tail(fs) \in Seq(FrameSet)
      /\ Value(h) = Len(f) /\ p \o d = f \o w
  BY <1>1, <1>3, <1>5, <1>6, FrameStarts
<1>8. f \in Seq(Byte) /\ w \in Seq(Byte) /\ Len(p) = Len(f)
  BY <1>0, <1>1, <1>6, <1>7, OneFrame, FramingFacts
<1>9. p = f /\ d = w
  BY <1>7, <1>8, Cut
<1> QED BY <1>6, <1>7, <1>9

(* Frames do not end within one.                                           *)
LEMMA FrameGoesOn ==
  ASSUME NEW fs \in Seq(FrameSet), NEW size \in Nat, NEW p \in Seq(Byte), Len(p) < size
  PROVE  Digits(size) \o p # Encoded(fs)
<1>0. SUFFICES ASSUME Digits(size) \o p = Encoded(fs) PROVE FALSE
  OBVIOUS
<1>1. PICK h : h = Digits(size) /\ h \in Seq(Byte) /\ Len(h) = 2 /\ Value(h) = size
  BY DigitsFacts
<1>2. InFrames(fs, h, p)
  BY <1>0, <1>1, Zenon DEF InFrames
<1>3. PICK f, w : f = Head(fs) /\ w = Encoded(Tail(fs))
  OBVIOUS
<1>4. /\ fs # <<>> /\ f \in FrameSet /\ Tail(fs) \in Seq(FrameSet)
      /\ Value(h) = Len(f) /\ p = f \o w
  BY <1>1, <1>2, <1>3, FrameStarts
<1>5. f \in Seq(Byte) /\ w \in Seq(Byte)
  BY <1>3, <1>4, OneFrame, FramingFacts
<1>6. Joined(Byte, f, w)
  BY <1>5, Joins
<1>7. Len(p) = Len(f) + Len(w) /\ Len(f) \in Nat /\ Len(w) \in Nat
  BY <1>4, <1>6, Zenon DEF Joined
<1> QED BY <1>1, <1>4, <1>7

(* Nor within a header.                                                    *)
LEMMA FramesShort ==
  ASSUME NEW fs \in Seq(FrameSet), Len(Encoded(fs)) < 2
  PROVE  fs = <<>>
<1>0. SUFFICES ASSUME fs # <<>> PROVE FALSE
  OBVIOUS
<1>1. PICK f, w : f = Frame(Head(fs)) /\ w = Encoded(Tail(fs))
  OBVIOUS
<1>2. Head(fs) \in FrameSet /\ Tail(fs) \in Seq(FrameSet) /\ Encoded(fs) = f \o w
  BY <1>0, <1>1, EncodedSplit
<1>3. f \in Seq(Byte) /\ w \in Seq(Byte) /\ Len(f) = 2 + Len(Head(fs)) /\ Len(Head(fs)) \in Nat
  BY <1>1, <1>2, OneFrame, FramingFacts
<1>4. Joined(Byte, f, w)
  BY <1>3, Joins
<1>5. Len(Encoded(fs)) = Len(f) + Len(w) /\ Len(w) \in Nat
  BY <1>2, <1>4, Zenon DEF Joined
<1> QED BY <1>3, <1>5

-----------------------------------------------------------------------------
(* What the emulator sends.                                                *)
ControlTokens == [kind: {"ok", "ko", "disconnect"}, channel: Channel]
HeaderTokens == [kind: {"header", "frame"}, channel: 0..MaxChannel]
ByteTokens == [kind: {"byte"}, channel: 0..MaxChannel, number: Nat]
DataTokens == HeaderTokens \cup ByteTokens
Tokens == ControlTokens \cup DataTokens

(* No control message is data, and they differ.                            *)
LEMMA TokenFacts ==
  /\ \A k \in {"ok", "ko", "disconnect"} : \A c \in Channel : Token(k, c) \in Tokens
  /\ \A c \in 0..MaxChannel : Token("header", c) \in DataTokens /\ Token("frame", c) \in DataTokens
  /\ \A k \in {"ok", "ko", "disconnect"} : \A c : Token(k, c) \notin DataTokens
  /\ \A k, l, c, d : Token(k, c) = Token(l, d) <=> k = l /\ c = d
  /\ \A k, c : Token(k, c).kind = k /\ Token(k, c).channel = c
  /\ DataTokens \subseteq Tokens
<1>1. \A k \in {"ok", "ko", "disconnect"} : \A c \in Channel : Token(k, c) \in Tokens
  BY DEF Token, Tokens, ControlTokens
<1>2. \A c \in 0..MaxChannel : Token("header", c) \in DataTokens /\ Token("frame", c) \in DataTokens
  BY DEF Token, DataTokens, HeaderTokens
<1>3. \A k, c : Token(k, c).kind = k /\ Token(k, c).channel = c
  BY DEF Token
<1>4. \A k, l, c, d : Token(k, c) = Token(l, d) <=> k = l /\ c = d
  BY <1>3
<1>5. \A t \in DataTokens : t.kind \in {"header", "frame", "byte"}
  BY DEF DataTokens, HeaderTokens, ByteTokens
<1>6. \A k \in {"ok", "ko", "disconnect"} : \A c : Token(k, c) \notin DataTokens
  BY <1>3, <1>5
<1>7. DataTokens \subseteq Tokens
  BY DEF Tokens
<1> QED BY <1>1, <1>2, <1>3, <1>4, <1>6, <1>7

(* qemud_serial_send puts headers between what it sends.                   *)
Chunk(c, body, k) ==
  <<Token("header", c)>> \o
    First(From(body, (k - 1) * MAX_SERIAL_PAYLOAD),
          Least(MAX_SERIAL_PAYLOAD, Len(body) - (k - 1) * MAX_SERIAL_PAYLOAD))
NumberOfChunks(body) == (Len(body) + MAX_SERIAL_PAYLOAD - 1) \div MAX_SERIAL_PAYLOAD
Chunks(c, body) == [k \in 1..NumberOfChunks(body) |-> Chunk(c, body, k)]

(* The packets of a message are its pieces.                                *)
LEMMA PacketsAre == ASSUME NEW c, NEW body PROVE Packets(c, body) = FlattenSeq(Chunks(c, body))
BY DEF Packets, Chunks, Chunk, NumberOfChunks

(* A message in packets is made of what it was made of, and headers.       *)
LEMMA PacketsType ==
  ASSUME NEW T, NEW c, NEW body \in Seq(T), Token("header", c) \in T
  PROVE  Packets(c, body) \in Seq(T)
<1>1. PICK N \in Nat \ {0} : N = MAX_SERIAL_PAYLOAD
  BY PayloadAssumption
<1>2. PICK n \in Nat : n = Len(body)
  BY LenProperties
<1>3. PICK q : q = (n + N - 1) \div N
  OBVIOUS
<1>4. q \in Nat /\ \A k \in 1..q : (k - 1) * N \in Nat /\ (k - 1) * N < n
  BY <1>3, DivFacts
<1>5. ASSUME NEW k \in 1..q PROVE Chunk(c, body, k) \in Seq(T)
  <2>1. PICK a \in Nat : a = (k - 1) * N /\ a < n
    BY <1>4
  <2>2. PICK r : r = After(body, a)
    OBVIOUS
  <2>3. r \in Seq(T) /\ Len(r) = n - a
    BY <1>2, <2>1, <2>2, AfterFacts
  <2>4. PICK m : m = Least(N, n - a)
    OBVIOUS
  <2>5. m \in 0..Len(r)
    BY <2>1, <2>3, <2>4 DEF Least
  <2>6. PICK e, h : e = Upto(r, m) /\ h = <<Token("header", c)>>
    OBVIOUS
  <2>7. e \in Seq(T) /\ h \in Seq(T)
    BY <2>3, <2>5, <2>6, UptoFacts
  <2>8. Chunk(c, body, k) = h \o e
    BY <1>1, <1>2, <2>1, <2>2, <2>4, <2>6 DEF Chunk, First, From, Upto, After
  <2>9. Joined(T, h, e)
    BY <2>7, Joins
  <2> QED BY <2>8, <2>9 DEF Joined
<1>6. PICK cs : cs = Chunks(c, body)
  OBVIOUS
<1>7. cs = [k \in 1..q |-> Chunk(c, body, k)]
  BY <1>1, <1>2, <1>3, <1>6 DEF Chunks, NumberOfChunks
<1>8. cs \in [1..q -> Seq(T)]
  BY <1>5, <1>7
<1>9. cs \in Seq(Seq(T))
  BY <1>4, <1>8, SeqDef
<1> QED BY <1>6, <1>9, FlattenType, PacketsAre

(* A message of one element is one packet.                                 *)
LEMMA PacketsOne ==
  ASSUME NEW c, NEW t
  PROVE  Packets(c, <<t>>) = <<Token("header", c), t>>
<1>1. PICK N \in Nat \ {0} : N = MAX_SERIAL_PAYLOAD
  BY PayloadAssumption
<1>2. PICK body : body = <<t>>
  OBVIOUS
<1>3. PICK T : T = {t, Token("header", c)}
  OBVIOUS
<1>4. body \in Seq(T) /\ Len(body) = 1 /\ <<Token("header", c)>> \in Seq(T)
  BY <1>2, <1>3
<1>5. (1 + N - 1) \div N = 1
  OBVIOUS
<1>6. Chunk(c, body, 1) = <<Token("header", c)>> \o body
  <2>1. (1 - 1) * N = 0 /\ 1 - 0 = 1 /\ Least(N, 1) = 1
    BY DEF Least
  <2>2. After(body, 0) = body /\ Upto(body, 1) = body
    BY <1>4, WholeFacts
  <2>3. Least(MAX_SERIAL_PAYLOAD, Len(body) - (1 - 1) * MAX_SERIAL_PAYLOAD) = 1
    BY <1>1, <1>4, <2>1
  <2>4. First(From(body, (1 - 1) * MAX_SERIAL_PAYLOAD), 1) = body
    BY <1>1, <2>1, <2>2 DEF First, From, Upto, After
  <2> QED BY <2>3, <2>4 DEF Chunk
<1>7. Chunks(c, body) = <<Chunk(c, body, 1)>>
  <2>1. NumberOfChunks(body) = 1
    BY <1>1, <1>4, <1>5 DEF NumberOfChunks
  <2> QED BY <2>1 DEF Chunks
<1>8. PICK w : w = <<Token("header", c)>> \o body
  OBVIOUS
<1>9. w \in Seq(T) /\ w = <<Token("header", c), t>>
  <2>1. PICK g : g = Token("header", c)
    OBVIOUS
  <2>3. g \in T /\ t \in T
    BY <1>3, <2>1
  <2>4. <<g, t>> \in Seq(T) /\ <<g>> \in Seq(T) /\ <<t>> \in Seq(T)
    BY <2>3
  <2>5. PICK v : v = <<g>> \o <<t>>
    OBVIOUS
  <2>6. /\ v \in Seq(T) /\ Len(v) = 1 + 1
        /\ \A i \in 1..(1 + 1) : v[i] = IF i <= 1 THEN <<g>>[i] ELSE <<t>>[i - 1]
    <3>1. Len(<<g>>) = 1 /\ Len(<<t>>) = 1
      OBVIOUS
    <3> QED BY <2>4, <2>5, <3>1, ConcatProperties
  <2>7. v[1] = g /\ v[2] = t
    BY <2>6
  <2>2. <<g>> \o <<t>> = <<g, t>>
    <3>1. ASSUME NEW i \in 1..2 PROVE v[i] = <<g, t>>[i]
      BY <2>7
    <3>2. Len(<<g, t>>) = 2 /\ Len(v) = 2
      BY <2>6
    <3>3. v = <<g, t>>
      BY <2>4, <2>6, <3>1, <3>2, SeqEqual
    <3> QED BY <2>5, <3>3
  <2> QED BY <1>2, <1>8, <2>1, <2>2, <2>4
<1>10. FlattenSeq(<<w>>) = w
  BY <1>9, FlattenSingle
<1> QED BY <1>2, <1>6, <1>7, <1>8, <1>9, <1>10, PacketsAre

-----------------------------------------------------------------------------
(* The multiplexer's clients.                                              *)
ClientShape(k) ==
  /\ Len(k.header) < 2
  /\ k.need_header => k.payload = <<>>
  /\ ~ k.need_header => k.framing /\ k.header = <<>> /\ Len(k.payload) < k.size
  /\ ~ k.framing => k.header = <<>>

InSet(K, c) == \E k \in K : k.channel = c
TheClient(K, c) == CHOOSE k \in K : k.channel = c

Belongs(k, ch) ==
  /\ k \in Client /\ ClientShape(k)
  /\ k.channel \in Channel => k.service = ch[k.channel].service
  /\ k.framing = (k.service \in Framed)

ClientsOK(K, ch) ==
  /\ IsFiniteSet(K)
  /\ \A k \in K : Belongs(k, ch)
  /\ \A j, k \in K : j.channel = k.channel => j = k

OfService(K, s) == {k \in K : k.service = s}
OnPort(K, s) == {k \in OfService(K, s) : k.channel \notin Pipes}
Counted(K, num) ==
  \A s \in Service :
    /\ num[s] = Cardinality(OfService(K, s))
    /\ MaxClients[s] > 0 => Cardinality(OnPort(K, s)) <= MaxClients[s]

(* Channels are numbers; those of pipes are not among them.                *)
LEMMA ChannelFacts ==
  /\ MaxChannel \in Nat /\ MaxPipes \in Nat
  /\ \A c \in Channel : c \in Nat /\ c # 0 /\ c \notin Pipes /\ c \in 0..MaxChannel /\ c \in Byte
  /\ \A c \in 0..MaxChannel : c # 0 => c \in Channel
  /\ \A s \in Service : s \in Nat
BY SerialBoundAssumption, ServiceAssumption DEF Channel, Pipes, Byte

(* The client of a channel is found by it...                               *)
LEMMA TheClientIs ==
  ASSUME NEW K, NEW ch, ClientsOK(K, ch), NEW k \in K
  PROVE  TheClient(K, k.channel) = k /\ InSet(K, k.channel)
<1>1. \E j \in K : j.channel = k.channel
  OBVIOUS
<1>2. TheClient(K, k.channel) \in K /\ TheClient(K, k.channel).channel = k.channel
  BY <1>1 DEF TheClient
<1> QED BY <1>1, <1>2 DEF ClientsOK, InSet

(* ... and what is found is a client of the channel.                       *)
LEMMA TheClientIn ==
  ASSUME NEW K, NEW c, InSet(K, c)
  PROVE  TheClient(K, c) \in K /\ TheClient(K, c).channel = c
BY DEF InSet, TheClient

(* A new client.                                                           *)
LEMMA NewClientFacts ==
  ASSUME NEW c \in Channel \cup Pipes, NEW s \in Service
  PROVE  /\ NewClient(c, s) \in Client /\ ClientShape(NewClient(c, s))
         /\ NewClient(c, s).channel = c /\ NewClient(c, s).service = s
         /\ NewClient(c, s).framing = (s \in Framed) /\ NewClient(c, s).need_header
         /\ NewClient(c, s).header = <<>>
<1>1. PICK k : k = NewClient(c, s)
  OBVIOUS
<1>2. k = [channel |-> c, service |-> s, framing |-> s \in Framed, need_header |-> TRUE,
           header |-> <<>>, payload |-> <<>>, size |-> 0]
  BY <1>1 DEF NewClient
<1>3. <<>> \in Seq(Nat) /\ Len(<<>>) < 2 /\ 0 \in Sizes
  BY DEF Sizes, Base
<1>4. (s \in Framed) \in BOOLEAN
  OBVIOUS
<1>5. k \in Client
  BY <1>2, <1>3, <1>4 DEF Client
<1>6. ClientShape(k)
  BY <1>2, <1>3 DEF ClientShape
<1> QED BY <1>1, <1>2, <1>5, <1>6

(* The clients of a service are finitely many.                             *)
LEMMA FiniteParts ==
  ASSUME NEW K, IsFiniteSet(K), NEW s
  PROVE  /\ IsFiniteSet(OfService(K, s)) /\ IsFiniteSet(OnPort(K, s))
         /\ Cardinality(OfService(K, s)) \in Nat /\ Cardinality(OnPort(K, s)) \in Nat
         /\ Cardinality(OnPort(K, s)) <= Cardinality(OfService(K, s))
<1>1. OfService(K, s) \subseteq K /\ OnPort(K, s) \subseteq OfService(K, s)
  BY DEF OfService, OnPort
<1>2. IsFiniteSet(OfService(K, s))
  BY <1>1, FS_Subset
<1>3. IsFiniteSet(OnPort(K, s)) /\ Cardinality(OnPort(K, s)) <= Cardinality(OfService(K, s))
  BY <1>1, <1>2, FS_Subset
<1> QED BY <1>2, <1>3, FS_CardinalityType

(* A client is added... *)
Added(K, num, c, s) ==
  /\ ~ InSet(K, c)
  /\ c \in Pipes \/ ~ (MaxClients[s] > 0 /\ num[s] >= MaxClients[s])

(* A client more; if it is on the port the service was not full.           *)
LEMMA AddFacts ==
  ASSUME NEW K, NEW ch, ClientsOK(K, ch), NEW num \in [Service -> Nat], Counted(K, num),
         NEW c \in Channel \cup Pipes, NEW s \in Service, c \in Channel => ch[c].service = s,
         Added(K, num, c, s)
  PROVE  /\ ClientsOK(K \cup {NewClient(c, s)}, ch)
         /\ [num EXCEPT ![s] = @ + 1] \in [Service -> Nat]
         /\ Counted(K \cup {NewClient(c, s)}, [num EXCEPT ![s] = @ + 1])
<1>1. PICK k : k = NewClient(c, s)
  OBVIOUS
<1>2. k \in Client /\ ClientShape(k) /\ k.channel = c /\ k.service = s /\ k.framing = (s \in Framed)
  BY <1>1, NewClientFacts
<1>3. PICK L : L = K \cup {k}
  OBVIOUS
<1>4. k \notin K /\ \A j \in K : j.channel # c
  BY <1>2 DEF Added, InSet
<1>5. IsFiniteSet(K) /\ IsFiniteSet(L)
  BY <1>3, FS_AddElement DEF ClientsOK
<1>6. ClientsOK(L, ch)
  <2>1. Belongs(k, ch)
    BY <1>2 DEF Belongs
  <2>2. \A j \in L : Belongs(j, ch)
    BY <1>3, <2>1 DEF ClientsOK
  <2>3. \A i, j \in L : i.channel = j.channel => i = j
    BY <1>2, <1>3, <1>4 DEF ClientsOK
  <2> QED BY <1>5, <2>2, <2>3 DEF ClientsOK
<1>7. [num EXCEPT ![s] = @ + 1] \in [Service -> Nat]
  OBVIOUS
<1>8. PICK m \in [Service -> Nat] : m = [num EXCEPT ![s] = @ + 1]
  BY <1>7
<1>9. ASSUME NEW t \in Service
      PROVE  /\ m[t] = Cardinality(OfService(L, t))
             /\ MaxClients[t] > 0 => Cardinality(OnPort(L, t)) <= MaxClients[t]
  <2>1. PICK S, R : S = OfService(K, t) /\ R = OnPort(K, t)
    OBVIOUS
  <2>2. /\ IsFiniteSet(S) /\ IsFiniteSet(R) /\ Cardinality(S) \in Nat /\ Cardinality(R) \in Nat
        /\ Cardinality(R) <= Cardinality(S) /\ MaxClients[t] \in Nat
    BY <1>5, <2>1, FiniteParts, ServiceAssumption
  <2>3. num[t] = Cardinality(S) /\ (MaxClients[t] > 0 => Cardinality(R) <= MaxClients[t])
    BY <2>1 DEF Counted
  <2>4. CASE t # s
    <3>1. OfService(L, t) = S /\ OnPort(L, t) = R
      BY <1>2, <1>3, <2>1, <2>4 DEF OfService, OnPort
    <3>2. m[t] = num[t]
      BY <1>8, <2>4
    <3> QED BY <2>3, <3>1, <3>2
  <2>5. CASE t = s
    <3>1. OfService(L, t) = S \cup {k} /\ k \notin S
      BY <1>2, <1>3, <1>4, <2>1, <2>5 DEF OfService
    <3>2. Cardinality(S \cup {k}) = Cardinality(S) + 1
      BY <2>2, <3>1, FS_AddElement
    <3>3. m[t] = num[t] + 1
      BY <1>8, <2>5
    <3>4. CASE c \in Pipes
      <4>1. OnPort(L, t) = R
        BY <1>2, <2>1, <3>1, <3>4 DEF OnPort
      <4> QED BY <2>3, <3>1, <3>2, <3>3, <4>1
    <3>5. CASE c \notin Pipes
      <4>1. OnPort(L, t) = R \cup {k} /\ k \notin R
        BY <1>2, <2>1, <3>1, <3>5 DEF OnPort
      <4>2. Cardinality(R \cup {k}) = Cardinality(R) + 1
        BY <2>2, <4>1, FS_AddElement
      <4>3. ~ (MaxClients[t] > 0 /\ num[t] >= MaxClients[t])
        BY <2>5, <3>5 DEF Added
      <4>4. MaxClients[t] > 0 => Cardinality(R) + 1 <= MaxClients[t]
        BY <2>2, <2>3, <4>3
      <4> QED BY <2>3, <3>1, <3>2, <3>3, <4>1, <4>2, <4>4
    <3> QED BY <3>4, <3>5
  <2> QED BY <2>4, <2>5
<1>10. Counted(L, m)
  BY <1>9 DEF Counted
<1> QED BY <1>1, <1>3, <1>6, <1>7, <1>8, <1>10

(* ... and removed. *)
LEMMA RemoveFacts ==
  ASSUME NEW K, NEW ch, ClientsOK(K, ch), NEW num \in [Service -> Nat], Counted(K, num), NEW k \in K
  PROVE  /\ ClientsOK(K \ {k}, ch) /\ ~ InSet(K \ {k}, k.channel)
         /\ [num EXCEPT ![k.service] = @ - 1] \in [Service -> Nat]
         /\ Counted(K \ {k}, [num EXCEPT ![k.service] = @ - 1])
<1>1. PICK L : L = K \ {k}
  OBVIOUS
<1>2. k.service \in Service
  BY DEF ClientsOK, Belongs, Client
<1>3. PICK s \in Service : s = k.service
  BY <1>2
<1>4. IsFiniteSet(K) /\ IsFiniteSet(L)
  BY <1>1, FS_RemoveElement DEF ClientsOK
<1>5. ClientsOK(L, ch) /\ ~ InSet(L, k.channel)
  BY <1>1, <1>4 DEF ClientsOK, InSet
<1>6. num[s] \in Nat \ {0}
  <2>1. num[s] = Cardinality(OfService(K, s)) /\ k \in OfService(K, s)
    BY <1>3 DEF Counted, OfService
  <2>2. IsFiniteSet(OfService(K, s))
    BY <1>4, FiniteParts
  <2>3. Cardinality(OfService(K, s)) # 0
    BY <2>1, <2>2, FS_EmptySet
  <2> QED BY <2>1, <2>3
<1>7. [num EXCEPT ![s] = @ - 1] \in [Service -> Nat]
  BY <1>6
<1>8. PICK m \in [Service -> Nat] : m = [num EXCEPT ![s] = @ - 1]
  BY <1>7
<1>9. ASSUME NEW t \in Service
      PROVE  /\ m[t] = Cardinality(OfService(L, t))
             /\ MaxClients[t] > 0 => Cardinality(OnPort(L, t)) <= MaxClients[t]
  <2>1. PICK S, R : S = OfService(K, t) /\ R = OnPort(K, t)
    OBVIOUS
  <2>2. /\ IsFiniteSet(S) /\ IsFiniteSet(R) /\ Cardinality(S) \in Nat /\ Cardinality(R) \in Nat
        /\ MaxClients[t] \in Nat
    BY <1>4, <2>1, FiniteParts, ServiceAssumption
  <2>3. num[t] = Cardinality(S) /\ (MaxClients[t] > 0 => Cardinality(R) <= MaxClients[t])
    BY <2>1 DEF Counted
  <2>4. OnPort(L, t) \subseteq R
    BY <1>1, <2>1 DEF OnPort, OfService
  <2>5. Cardinality(OnPort(L, t)) <= Cardinality(R) /\ Cardinality(OnPort(L, t)) \in Nat
    <3>1. Cardinality(OnPort(L, t)) <= Cardinality(R)
      BY <2>2, <2>4, FS_Subset
    <3>2. Cardinality(OnPort(L, t)) \in Nat
      BY <1>4, FiniteParts
    <3> QED BY <3>1, <3>2
  <2>6. MaxClients[t] > 0 => Cardinality(OnPort(L, t)) <= MaxClients[t]
    BY <2>2, <2>3, <2>5
  <2>7. CASE t # s
    <3>1. OfService(L, t) = S
      BY <1>1, <1>3, <2>1, <2>7 DEF OfService
    <3>2. m[t] = num[t]
      BY <1>8, <2>7
    <3> QED BY <2>3, <2>6, <3>1, <3>2
  <2>8. CASE t = s
    <3>1. OfService(L, t) = S \ {k} /\ k \in S
      BY <1>1, <1>3, <2>1, <2>8 DEF OfService
    <3>2. Cardinality(S \ {k}) = Cardinality(S) - 1
      BY <2>2, <3>1, FS_RemoveElement
    <3>3. m[t] = num[t] - 1
      BY <1>8, <2>8
    <3> QED BY <2>3, <2>6, <3>1, <3>2, <3>3
  <2> QED BY <2>7, <2>8
<1>10. Counted(L, m)
  BY <1>9 DEF Counted
<1> QED BY <1>1, <1>3, <1>5, <1>7, <1>8, <1>10

(* A client goes on. *)
Same(j, k) == j.channel = k.channel /\ j.service = k.service /\ j.framing = k.framing

(* A client changes, but for what it is counted by.                        *)
LEMMA BecomesFacts ==
  ASSUME NEW K, NEW ch, ClientsOK(K, ch), NEW num, Counted(K, num), NEW k \in K,
         NEW j \in Client, ClientShape(j), Same(j, k)
  PROVE  /\ ClientsOK((K \ {k}) \cup {j}, ch)
         /\ Counted((K \ {k}) \cup {j}, num)
         /\ \A c : InSet((K \ {k}) \cup {j}, c) <=> InSet(K, c)
         /\ j \in (K \ {k}) \cup {j}
         /\ \A i \in K : i.channel # k.channel => i \in (K \ {k}) \cup {j}
<1>1. PICK M, L : M = K \ {k} /\ L = M \cup {j}
  OBVIOUS
<1>2. j.channel = k.channel /\ j.service = k.service /\ j.framing = k.framing
  BY DEF Same
<1>3. IsFiniteSet(K) /\ IsFiniteSet(M) /\ IsFiniteSet(L)
  <2>1. IsFiniteSet(K) /\ IsFiniteSet(M)
    BY <1>1, FS_RemoveElement DEF ClientsOK
  <2> QED BY <1>1, <2>1, FS_AddElement
<1>4. ClientsOK(L, ch)
  <2>1. Belongs(j, ch)
    BY <1>2 DEF Belongs, ClientsOK
  <2>2. \A i \in L : Belongs(i, ch)
    BY <1>1, <2>1 DEF ClientsOK
  <2>3. \A g, i \in L : g.channel = i.channel => g = i
    BY <1>1, <1>2 DEF ClientsOK
  <2> QED BY <1>3, <2>2, <2>3 DEF ClientsOK
<1>5. j \notin M
  BY <1>1, <1>2 DEF ClientsOK
<1>6. ASSUME NEW S, S \subseteq K, k \in S
      PROVE  Cardinality((S \ {k}) \cup {j}) = Cardinality(S)
  <2>1. IsFiniteSet(S) /\ IsFiniteSet(S \ {k}) /\ Cardinality(S \ {k}) = Cardinality(S) - 1
        /\ Cardinality(S) \in Nat
    BY <1>3, <1>6, FS_Subset, FS_RemoveElement, FS_CardinalityType
  <2>2. j \notin S \ {k}
    BY <1>1, <1>5, <1>6
  <2>3. Cardinality((S \ {k}) \cup {j}) = Cardinality(S \ {k}) + 1
    BY <2>1, <2>2, FS_AddElement
  <2> QED BY <2>1, <2>3
<1>7. ASSUME NEW t \in Service
      PROVE  /\ Cardinality(OfService(L, t)) = Cardinality(OfService(K, t))
             /\ Cardinality(OnPort(L, t)) = Cardinality(OnPort(K, t))
  <2>1. PICK S, R : S = OfService(K, t) /\ R = OnPort(K, t)
    OBVIOUS
  <2>2. S \subseteq K /\ R \subseteq K
    BY <2>1 DEF OfService, OnPort
  <2>3. OfService(L, t) = IF k \in S THEN (S \ {k}) \cup {j} ELSE S
    BY <1>1, <1>2, <2>1 DEF OfService
  <2>4. OnPort(L, t) = IF k \in R THEN (R \ {k}) \cup {j} ELSE R
    BY <1>1, <1>2, <2>1, <2>3 DEF OfService, OnPort
  <2> QED BY <1>6, <2>1, <2>2, <2>3, <2>4
<1>8. Counted(L, num)
  BY <1>7 DEF Counted
<1>9. \A c : InSet(L, c) <=> InSet(K, c)
  BY <1>1, <1>2 DEF InSet
<1>10. \A i \in K : i.channel # k.channel => i \in L
  BY <1>1
<1> QED BY <1>1, <1>4, <1>8, <1>9, <1>10

-----------------------------------------------------------------------------
(* The daemon's messages.                                                  *)
ConnectTo(s, c) == [channel |-> 0, payload |-> <<connect, s, c>>]
DisconnectOf(c) == [channel |-> 0, payload |-> <<disconnect, c>>]
Asks(p, c) == \E s \in Service \cup {0} : p = ConnectTo(s, c)

(* A message of the daemon is a packet.                                    *)
LEMMA MessageFacts ==
  ASSUME NEW c \in Channel, NEW s \in Service \cup {0}
  PROVE  /\ ConnectTo(s, c) \in PacketSet /\ DisconnectOf(c) \in PacketSet
         /\ ConnectTo(s, c).channel = 0 /\ DisconnectOf(c).channel = 0
         /\ ConnectTo(s, c).payload = <<connect, s, c>>
         /\ DisconnectOf(c).payload = <<disconnect, c>>
         /\ Asks(ConnectTo(s, c), c)
         /\ <<connect, s, c>>[1] = connect /\ <<connect, s, c>>[2] = s /\ <<connect, s, c>>[3] = c
         /\ <<disconnect, c>>[1] = disconnect /\ <<disconnect, c>>[2] = c
         /\ <<connect, s, c>> # <<>> /\ <<disconnect, c>> # <<>>
         /\ connect # disconnect
<1>1. connect \in Nat /\ disconnect \in Nat /\ connect # disconnect
  BY DEF connect, disconnect
<1>2. s \in Nat /\ c \in Nat
  BY ChannelFacts, ServiceAssumption
<1>3. PICK k \in Nat, d \in Nat : k = connect /\ d = disconnect
  BY <1>1
<1>4. /\ <<k, s, c>> \in Seq(Nat) /\ Len(<<k, s, c>>) = 3
      /\ <<d, c>> \in Seq(Nat) /\ Len(<<d, c>>) = 2
  BY <1>2
<1>5. MAX_SERIAL_PAYLOAD \in Nat /\ 3 \in 1..MAX_SERIAL_PAYLOAD /\ 2 \in 1..MAX_SERIAL_PAYLOAD
      /\ 0 \in 0..MaxChannel
  BY PayloadAssumption, SerialBoundAssumption
<1>6. ConnectTo(s, c) \in PacketSet /\ DisconnectOf(c) \in PacketSet
  BY <1>3, <1>4, <1>5 DEF ConnectTo, DisconnectOf, PacketSet, Byte
<1>7. <<connect, s, c>> # <<>> /\ <<disconnect, c>> # <<>>
  BY <1>3, <1>4, EmptySeq
<1>8. /\ ConnectTo(s, c).channel = 0 /\ DisconnectOf(c).channel = 0
      /\ ConnectTo(s, c).payload = <<connect, s, c>>
      /\ DisconnectOf(c).payload = <<disconnect, c>>
  BY DEF ConnectTo, DisconnectOf
<1>9. Asks(ConnectTo(s, c), c)
  BY DEF Asks
<1>10. /\ <<connect, s, c>>[1] = connect /\ <<connect, s, c>>[2] = s /\ <<connect, s, c>>[3] = c
       /\ <<disconnect, c>>[1] = disconnect /\ <<disconnect, c>>[2] = c
  OBVIOUS
<1> QED BY <1>1, <1>6, <1>7, <1>8, <1>9, <1>10

(* What a packet says tells which message it is. *)
LEMMA MessagesDiffer ==
  ASSUME NEW c \in Channel, NEW d \in Channel, NEW s \in Service \cup {0}, NEW t \in Service \cup {0}
  PROVE  /\ ConnectTo(s, c) = ConnectTo(t, d) => s = t /\ c = d
         /\ ConnectTo(s, c) # DisconnectOf(d)
         /\ DisconnectOf(c) = DisconnectOf(d) => c = d
<1>1. ASSUME ConnectTo(s, c) = ConnectTo(t, d) PROVE s = t /\ c = d
  <2>1. <<connect, s, c>> = <<connect, t, d>>
    BY <1>1, MessageFacts
  <2> QED BY <2>1
<1>2. ASSUME ConnectTo(s, c) = DisconnectOf(d) PROVE FALSE
  <2>1. <<connect, s, c>> = <<disconnect, d>>
    BY <1>2, MessageFacts
  <2>2. connect = disconnect
    BY <2>1, MessageFacts
  <2> QED BY <2>2, MessageFacts
<1>3. ASSUME DisconnectOf(c) = DisconnectOf(d) PROVE c = d
  <2>1. <<disconnect, c>> = <<disconnect, d>>
    BY <1>3, MessageFacts
  <2> QED BY <2>1
<1> QED BY <1>1, <1>2, <1>3

(* A message asks for one channel and leaves none.                         *)
LEMMA AsksFacts ==
  ASSUME NEW p, NEW c \in Channel, Asks(p, c)
  PROVE  /\ p.channel = 0 /\ \A d \in Channel : p # DisconnectOf(d)
         /\ \A d \in Channel : Asks(p, d) => d = c
<1>1. PICK s \in Service \cup {0} : p = ConnectTo(s, c)
  BY DEF Asks
<1>2. p.channel = 0 /\ \A d \in Channel : p # DisconnectOf(d)
  BY <1>1, MessageFacts, MessagesDiffer
<1>3. \A d \in Channel : Asks(p, d) => d = c
  BY <1>1, MessagesDiffer DEF Asks
<1> QED BY <1>2, <1>3

(* The messages among the packets: each service is asked for once.         *)
Asking(ps, c) == \E i \in DOMAIN ps : Asks(ps[i], c)
Leaving(ps, c) == Holds(ps, DisconnectOf(c))

Message(p, ch) ==
  p.channel = 0 =>
    \E c \in Channel : \/ p = ConnectTo(ch[c].service, c) /\ ch[c].service \in Service \cup {0}
                       \/ p = DisconnectOf(c)
ControlInv(ps, ch) ==
  /\ \A i \in DOMAIN ps : Message(ps[i], ch)
  /\ \A i, j \in DOMAIN ps : \A c \in Channel : Asks(ps[i], c) /\ Asks(ps[j], c) => i = j

(* A packet more.                                                          *)
LEMMA ControlAppend ==
  ASSUME NEW ps \in Seq(PacketSet), NEW p \in PacketSet, NEW ch, ControlInv(ps, ch), Message(p, ch),
         \A c \in Channel : Asks(p, c) => ~ Asking(ps, c)
  PROVE  /\ ControlInv(Append(ps, p), ch)
         /\ \A c \in Channel : /\ Asking(Append(ps, p), c) <=> Asking(ps, c) \/ Asks(p, c)
                               /\ Leaving(Append(ps, p), c) <=> Leaving(ps, c) \/ p = DisconnectOf(c)
<1>1. PICK n \in Nat : n = Len(ps) /\ DOMAIN ps = 1..n
  BY LenProperties
<1>2. PICK qs : qs = Append(ps, p)
  OBVIOUS
<1>3. /\ qs \in Seq(PacketSet) /\ Len(qs) = n + 1 /\ qs[n + 1] = p
      /\ \A i \in 1..n : qs[i] = ps[i]
  BY <1>1, <1>2, AppendProperties
<1>4. DOMAIN qs = 1..(n + 1) /\ \A i \in 1..(n + 1) : i \in 1..n \/ i = n + 1
  BY <1>3, LenProperties
<1>5. \A i \in DOMAIN qs : Message(qs[i], ch)
  BY <1>1, <1>3, <1>4 DEF ControlInv
<1>6. ASSUME NEW c \in Channel
      PROVE  /\ Asking(qs, c) <=> Asking(ps, c) \/ Asks(p, c)
             /\ Leaving(qs, c) <=> Leaving(ps, c) \/ p = DisconnectOf(c)
  <2>1. Asking(qs, c) <=> Asking(ps, c) \/ Asks(p, c)
    <3>1. ASSUME Asking(qs, c) PROVE Asking(ps, c) \/ Asks(p, c)
      BY <1>1, <1>3, <1>4, <3>1 DEF Asking
    <3>2. ASSUME Asking(ps, c) PROVE Asking(qs, c)
      <4>1. PICK i \in 1..n : Asks(ps[i], c)
        BY <1>1, <3>2 DEF Asking
      <4>2. i \in 1..(n + 1) /\ qs[i] = ps[i]
        BY <1>3
      <4> QED BY <1>4, <4>1, <4>2 DEF Asking
    <3>3. ASSUME Asks(p, c) PROVE Asking(qs, c)
      <4>1. n + 1 \in 1..(n + 1)
        OBVIOUS
      <4> QED BY <1>3, <1>4, <3>3, <4>1 DEF Asking
    <3> QED BY <3>1, <3>2, <3>3
  <2>2. Leaving(qs, c) <=> Leaving(ps, c) \/ p = DisconnectOf(c)
    BY <1>2, HoldsAppend DEF Leaving
  <2> QED BY <2>1, <2>2
<1>7. ASSUME NEW i \in DOMAIN qs, NEW j \in DOMAIN qs, NEW c \in Channel,
             Asks(qs[i], c), Asks(qs[j], c)
      PROVE  i = j
  <2>1. CASE i \in 1..n /\ j \in 1..n
    BY <1>1, <1>3, <1>7, <2>1 DEF ControlInv
  <2>2. CASE i = n + 1 /\ j \in 1..n
    BY <1>1, <1>3, <1>7, <2>2 DEF Asking
  <2>3. CASE i \in 1..n /\ j = n + 1
    BY <1>1, <1>3, <1>7, <2>3 DEF Asking
  <2>4. CASE i = n + 1 /\ j = n + 1
    BY <2>4
  <2> QED BY <1>4, <2>1, <2>2, <2>3, <2>4
<1> QED BY <1>2, <1>5, <1>6, <1>7 DEF ControlInv

(* The first packet, and the others.                                       *)
LEMMA ControlTail ==
  ASSUME NEW ps \in Seq(PacketSet), ps # <<>>, NEW ch, ControlInv(ps, ch)
  PROVE  /\ ControlInv(Tail(ps), ch) /\ Message(Head(ps), ch)
         /\ \A c \in Channel :
              /\ Asking(ps, c) <=> Asks(Head(ps), c) \/ Asking(Tail(ps), c)
              /\ ~ (Asks(Head(ps), c) /\ Asking(Tail(ps), c))
              /\ Leaving(ps, c) <=> Head(ps) = DisconnectOf(c) \/ Leaving(Tail(ps), c)
<1>1. PICK p, qs : p = Head(ps) /\ qs = Tail(ps)
  OBVIOUS
<1>2. PICK n \in Nat : n = Len(qs)
  <2>1. qs \in Seq(PacketSet)
    BY <1>1
  <2> QED BY <2>1, LenProperties
<1>3. /\ p = ps[1] /\ qs \in Seq(PacketSet) /\ Len(ps) = 1 + n
      /\ \A i \in 1..n : qs[i] = ps[i + 1]
  BY <1>1, <1>2, PacketsSplit
<1>4. DOMAIN qs = 1..n /\ DOMAIN ps = 1..(1 + n)
  BY <1>2, <1>3, LenProperties
<1>5. /\ 1 \in DOMAIN ps /\ \A i \in 1..n : i + 1 \in DOMAIN ps /\ i + 1 # 1
      /\ \A i \in DOMAIN ps : i = 1 \/ (i - 1 \in 1..n /\ (i - 1) + 1 = i)
  BY <1>4
<1>6. Message(p, ch) /\ \A i \in DOMAIN qs : Message(qs[i], ch)
  BY <1>3, <1>4, <1>5 DEF ControlInv
<1>7. ASSUME NEW i \in 1..n, NEW j \in 1..n, NEW c \in Channel, Asks(qs[i], c), Asks(qs[j], c)
      PROVE  i = j
  <2>1. Asks(ps[i + 1], c) /\ Asks(ps[j + 1], c)
    BY <1>3, <1>7
  <2>2. i + 1 = j + 1
    BY <1>5, <2>1 DEF ControlInv
  <2> QED BY <2>2
<1>8. ASSUME NEW c \in Channel
      PROVE  /\ Asking(ps, c) <=> Asks(p, c) \/ Asking(qs, c)
             /\ ~ (Asks(p, c) /\ Asking(qs, c))
             /\ Leaving(ps, c) <=> p = DisconnectOf(c) \/ Leaving(qs, c)
  <2>1. Asking(ps, c) => Asks(p, c) \/ Asking(qs, c)
    <3>1. SUFFICES ASSUME NEW i \in DOMAIN ps, Asks(ps[i], c) PROVE Asks(p, c) \/ Asking(qs, c)
      BY DEF Asking
    <3>2. CASE i = 1
      BY <1>3, <3>1, <3>2
    <3>3. CASE i # 1
      <4>1. i - 1 \in 1..n /\ qs[i - 1] = ps[i]
        BY <1>3, <1>5, <3>3
      <4> QED BY <1>4, <3>1, <4>1 DEF Asking
    <3> QED BY <3>2, <3>3
  <2>2. Asks(p, c) => Asking(ps, c)
    BY <1>3, <1>5 DEF Asking
  <2>3. Asking(qs, c) => Asking(ps, c) /\ ~ Asks(p, c)
    <3>1. SUFFICES ASSUME NEW i \in 1..n, Asks(qs[i], c) PROVE Asking(ps, c) /\ ~ Asks(p, c)
      BY <1>4 DEF Asking
    <3>2. i + 1 \in DOMAIN ps /\ Asks(ps[i + 1], c) /\ i + 1 # 1
      BY <1>3, <1>5, <3>1
    <3>3. ~ Asks(ps[1], c)
      BY <1>5, <3>2 DEF ControlInv
    <3> QED BY <1>3, <3>2, <3>3 DEF Asking
  <2>4. Leaving(ps, c) <=> p = DisconnectOf(c) \/ Leaving(qs, c)
    BY <1>1, HoldsHead DEF Leaving
  <2> QED BY <2>1, <2>2, <2>3, <2>4
<1>9. ControlInv(qs, ch)
  BY <1>4, <1>6, <1>7 DEF ControlInv
<1> QED BY <1>1, <1>6, <1>8, <1>9

(* Before the others, a packet that is no message. *)
LEMMA ControlCons ==
  ASSUME NEW ps \in Seq(PacketSet), NEW p \in PacketSet, p.channel # 0, NEW ch, ControlInv(ps, ch)
  PROVE  /\ ControlInv(<<p>> \o ps, ch)
         /\ \A c \in Channel : /\ Asking(<<p>> \o ps, c) <=> Asking(ps, c)
                               /\ Leaving(<<p>> \o ps, c) <=> Leaving(ps, c)
<1>1. PICK n \in Nat : n = Len(ps) /\ DOMAIN ps = 1..n
  BY LenProperties
<1>2. PICK qs : qs = <<p>> \o ps
  OBVIOUS
<1>3. /\ qs \in Seq(PacketSet) /\ Len(qs) = 1 + n /\ qs[1] = p
      /\ \A i \in 1..n : qs[i + 1] = ps[i]
  BY <1>1, <1>2, PacketsCons
<1>4. DOMAIN qs = 1..(1 + n)
  BY <1>3, LenProperties
<1>5. /\ \A i \in 1..n : i + 1 \in DOMAIN qs
      /\ \A i \in DOMAIN qs : i = 1 \/ (i - 1 \in 1..n /\ (i - 1) + 1 = i)
  BY <1>4
<1>6. ASSUME NEW c \in Channel PROVE ~ Asks(p, c) /\ p # DisconnectOf(c)
  <2>1. 0 \in Service \cup {0}
    OBVIOUS
  <2>2. DisconnectOf(c).channel = 0
    BY <2>1, MessageFacts
  <2>3. Asks(p, c) => p.channel = 0
    BY AsksFacts
  <2> QED BY <2>2, <2>3
<1>7. ASSUME NEW i \in DOMAIN qs PROVE Message(qs[i], ch)
  <2>1. CASE i = 1
    BY <1>3, <2>1 DEF Message
  <2>2. CASE i # 1
    <3>1. i - 1 \in DOMAIN ps /\ qs[i] = ps[i - 1]
      BY <1>1, <1>3, <1>5, <2>2
    <3> QED BY <3>1 DEF ControlInv
  <2> QED BY <2>1, <2>2
<1>8. ASSUME NEW i \in DOMAIN qs, NEW c \in Channel, Asks(qs[i], c)
      PROVE  i - 1 \in DOMAIN ps /\ Asks(ps[i - 1], c)
  <2>1. i # 1
    BY <1>3, <1>6, <1>8
  <2>2. i - 1 \in DOMAIN ps /\ qs[i] = ps[i - 1]
    BY <1>1, <1>3, <1>5, <2>1
  <2> QED BY <1>8, <2>2
<1>9. ASSUME NEW i \in DOMAIN qs, NEW j \in DOMAIN qs, NEW c \in Channel,
             Asks(qs[i], c), Asks(qs[j], c)
      PROVE  i = j
  <2>1. i - 1 = j - 1
    BY <1>8, <1>9 DEF ControlInv
  <2> QED BY <1>4, <2>1
<1>10. ASSUME NEW c \in Channel
       PROVE  (Asking(qs, c) <=> Asking(ps, c)) /\ (Leaving(qs, c) <=> Leaving(ps, c))
  <2>1. Asking(qs, c) => Asking(ps, c)
    BY <1>8 DEF Asking
  <2>2. Asking(ps, c) => Asking(qs, c)
    <3>1. SUFFICES ASSUME NEW i \in 1..n, Asks(ps[i], c) PROVE Asking(qs, c)
      BY <1>1 DEF Asking
    <3>2. i + 1 \in DOMAIN qs /\ qs[i + 1] = ps[i]
      BY <1>3, <1>5
    <3> QED BY <3>1, <3>2 DEF Asking
  <2>3. Holds(<<p>> \o ps, DisconnectOf(c)) <=> Holds(<<p>>, DisconnectOf(c)) \/ Holds(ps, DisconnectOf(c))
    <3>1. <<p>> \in Seq(PacketSet)
      OBVIOUS
    <3> QED BY <3>1, HoldsConcat
  <2> QED BY <1>2, <1>6, <2>1, <2>2, <2>3, HoldsOne DEF Leaving
<1> QED BY <1>2, <1>7, <1>9, <1>10 DEF ControlInv

-----------------------------------------------------------------------------
(* The invariant, for what is on its way to the services: packets, of      *)
(* which the first is what msg is left of.                                 *)
Waits(m, ps) == IF m = <<>> THEN ps ELSE Tail(ps)

StreamOK(sr, r, l, m, ps, K) ==
  /\ sr \in SerialSet
  /\ Taken(sr) \o (r \o l) = Wire(Waits(m, ps))
  /\ m # <<>> => /\ ps # <<>> /\ Head(ps).channel = sr.in_channel /\ Head(ps).payload = m
                 /\ sr.in_channel # 0 => InSet(K, sr.in_channel)

(* What the daemon and the emulator think of a channel: whether there is a *)
(* client, and what is on its way: a message that asks for it, or one that *)
(* leaves, and one of the three answers.                                   *)
ChannelOK(st, K, asking, leaving, ok, ko, gone) ==
  /\ st = "new" => ~ K /\ ~ asking /\ ~ ok /\ ~ ko /\ ~ gone
  /\ asking => st = "asked" /\ ~ K /\ ~ ok /\ ~ ko /\ ~ gone
  /\ leaving => st = "closed"
  /\ K => ~ ko /\ ~ gone
  /\ ~ (ok /\ ko)
  /\ st = "asked" /\ K => ok
  /\ st = "asked" /\ ~ K => asking \/ ko \/ gone
  /\ st = "open" => K \/ gone
  /\ st = "closed" => ~ K \/ leaving

ChannelInv(ch, K, sd, ps, c) ==
  ChannelOK(ch[c].state, InSet(K, c), Asking(ps, c), Leaving(ps, c),
            Holds(sd, Token("ok", c)), Holds(sd, Token("ko", c)), Holds(sd, Token("disconnect", c)))

(* What a service was given, and what it has yet to see: a part that its   *)
(* client holds and what is behind it.                                     *)
FramedOK(fr, de, K, part, pend) ==
  /\ de \in Seq(FrameSet)
  /\ \E todo \in Seq(FrameSet) : fr = de \o todo /\ (K => part \o pend = Encoded(todo))
RawOK(fr, de, K, pend) ==
  /\ de \in Seq(Byte)
  /\ \E todo \in Seq(Byte) : FlattenSeq(fr) = de \o todo /\ (K => pend = todo)
FramesOK(framed, fr, de, K, part, pend) ==
  IF framed THEN FramedOK(fr, de, K, part, pend) ELSE RawOK(fr, de, K, pend)

Partial(k) == IF k.need_header THEN k.header ELSE Digits(k.size) \o k.payload
EarlyOK(st, fr, de, u, data) ==
  /\ st \in {"new", "asked"} => fr = <<>> /\ de = <<>> /\ u = <<>> /\ data = <<>>
  /\ st = "closed" => u = <<>>
FramesInv(ch, K, ps, u, fr, de, c) ==
  /\ EarlyOK(ch[c].state, fr[c], de[c], u[c], Data(ps, c))
  /\ FramesOK(ch[c].service \in Framed, fr[c], de[c], InSet(K, c),
              Partial(TheClient(K, c)), Data(ps, c) \o u[c])

OutInv(h, sd) == HalfOf(h, Tokens) /\ sd \in Seq(Tokens) /\ InPipe(h) = sd

ChanSet == [state: {"new", "asked", "open", "closed"}, service: Service \cup {0}]
Typed ==
  /\ chan \in [Channel -> ChanSet] /\ up \in [Channel -> Seq(Byte)]
  /\ line \in Seq(Byte) /\ rest \in Seq(Byte) /\ msg \in Seq(Byte)
  /\ num_clients \in [Service -> Nat]
  /\ frames \in [Channel -> Seq(FrameSet)] /\ DOMAIN delivered = Channel

SerialInv(ps) ==
  /\ Typed
  /\ StreamOK(serial, rest, line, msg, ps, clients)
  /\ ControlInv(ps, chan) /\ \A c \in Channel : ChannelInv(chan, clients, said, ps, c)
  /\ ClientsOK(clients, chan) /\ Counted(clients, num_clients)
  /\ \A c \in Channel : FramesInv(chan, clients, ps, up, frames, delivered, c)
  /\ OutInv(half, said)

-----------------------------------------------------------------------------
(* What qemud_serial_read has of a packet.                                 *)
LEMMA SerialTaken ==
  ASSUME NEW s \in SerialSet
  PROVE  /\ Taken(s) \in Seq(Byte) /\ s.in_channel \in Byte
         /\ \/ Len(Taken(s)) < 2
            \/ \E size \in Nat, c \in Byte, p \in Seq(Byte) : Taken(s) = <<c, size>> \o p /\ Len(p) < size
<1>1. CASE TakenAsHeader(s)
  <2>1. PICK size \in Nat, c \in Byte, h \in Seq(Byte) :
          /\ s = [need_header |-> TRUE, overflow |-> 0, in_size |-> size, in_channel |-> c,
                  header |-> h, payload |-> <<>>]
          /\ Len(h) < 2
    BY <1>1 DEF TakenAsHeader
  <2>2. s.need_header /\ s.header = h /\ s.in_channel = c
    BY <2>1
  <2>3. Taken(s) = h
    BY <2>2 DEF Taken
  <2> QED BY <2>1, <2>2, <2>3
<1>2. CASE TakenAsPayload(s)
  <2>1. PICK size \in 1..MAX_SERIAL_PAYLOAD, c \in Byte, p \in Seq(Byte) :
          /\ s = [need_header |-> FALSE, overflow |-> 0, in_size |-> size, in_channel |-> c,
                  header |-> <<>>, payload |-> p]
          /\ Len(p) < size
    BY <1>2 DEF TakenAsPayload
  <2>2. ~ s.need_header /\ s.in_channel = c /\ s.in_size = size /\ s.payload = p
    BY <2>1
  <2>3. Taken(s) = <<c, size>> \o p
    BY <2>2 DEF Taken
  <2>4. size \in Nat /\ size \in Byte
    BY PayloadAssumption DEF Byte
  <2>5. <<c, size>> \in Seq(Byte)
    BY <2>4
  <2>6. Joined(Byte, <<c, size>>, p)
    BY <2>5, Joins
  <2>7. <<c, size>> \o p \in Seq(Byte)
    BY <2>6, Zenon DEF Joined
  <2> QED BY <2>1, <2>2, <2>3, <2>4, <2>7
<1> QED BY <1>1, <1>2, SerialCases

(* A packet goes behind the others.                                        *)
LEMMA StreamAppend ==
  ASSUME NEW sr, NEW l \in Seq(Byte), NEW ps \in Seq(PacketSet), NEW p \in PacketSet, NEW K, NEW J,
         StreamOK(sr, <<>>, l, <<>>, ps, K)
  PROVE  /\ StreamOK(sr, <<>>, l \o Packet(p.channel, p.payload), <<>>, Append(ps, p), J)
         /\ l \o Packet(p.channel, p.payload) \in Seq(Byte)
<1>1. PICK w, x, t : w = Wire(ps) /\ x = Packet(p.channel, p.payload) /\ t = Taken(sr)
  OBVIOUS
<1>2. w \in Seq(Byte) /\ x \in Seq(Byte)
  BY <1>1, PacketFacts, OnePacket
<1>3. Wire(Append(ps, p)) = w \o x
  BY <1>1, PacketsAppend
<1>4. t \in Seq(Byte)
  BY <1>1, SerialTaken DEF StreamOK
<1>5. t \o (<<>> \o l) = w
  BY <1>1 DEF StreamOK, Waits
<1>6. <<>> \o l = l /\ <<>> \o (l \o x) = l \o x /\ l \o x \in Seq(Byte)
  <2>1. Joined(Byte, l, x)
    BY <1>2, Joins
  <2>2. l \o x \in Seq(Byte)
    BY <2>1, Zenon DEF Joined
  <2> QED BY <2>2, ConcatEmptySeq
<1>7. Three(t, l, x)
  BY <1>2, <1>4, Threes
<1>8. t \o (<<>> \o (l \o x)) = w \o x
  BY <1>5, <1>6, <1>7, Zenon DEF Three
<1> QED BY <1>1, <1>3, <1>6, <1>8 DEF StreamOK, Waits

(* The rest of the first packet, when a client has taken m of its bytes.   *)
Remaining(ps, m) ==
  IF m = Len(Head(ps).payload) THEN Tail(ps)
  ELSE <<[channel |-> Head(ps).channel, payload |-> After(Head(ps).payload, m)]>> \o Tail(ps)

(* A packet in front of the others.                                        *)
LEMMA PacketInFront ==
  ASSUME NEW p \in PacketSet, NEW ps \in Seq(PacketSet), NEW qs, qs = <<p>> \o ps
  PROVE  qs \in Seq(PacketSet) /\ \A c \in Channel : Data(qs, c) = Part(p, c) \o Data(ps, c)
<1>1. <<p>> \o ps \in Seq(PacketSet)
  BY PacketsCons
<1>2. ASSUME NEW c \in Channel PROVE Data(<<p>> \o ps, c) = Part(p, c) \o Data(ps, c)
  BY PacketsCons
<1> QED BY <1>1, <1>2

(* What it takes goes from its channel's bytes; no message does.           *)
LEMMA RemainingFacts ==
  ASSUME NEW ps \in Seq(PacketSet), ps # <<>>, NEW m \in 1..Len(Head(ps).payload),
         Head(ps).channel # 0, NEW ch, ControlInv(ps, ch)
  PROVE  /\ Remaining(ps, m) \in Seq(PacketSet) /\ ControlInv(Remaining(ps, m), ch)
         /\ \A c \in Channel :
              /\ Asking(Remaining(ps, m), c) <=> Asking(ps, c)
              /\ Leaving(Remaining(ps, m), c) <=> Leaving(ps, c)
              /\ Data(Remaining(ps, m), c) \in Seq(Byte)
              /\ c = Head(ps).channel =>
                   Data(ps, c) = Upto(Head(ps).payload, m) \o Data(Remaining(ps, m), c)
              /\ c # Head(ps).channel => Data(Remaining(ps, m), c) = Data(ps, c)
<1>1. PICK h, q, a, b : h = Head(ps) /\ q = Tail(ps) /\ a = Upto(h.payload, m) /\ b = After(h.payload, m)
  OBVIOUS
<1>2. PICK p : p = [channel |-> h.channel, payload |-> b]
  OBVIOUS
<1>3. h \in PacketSet /\ q \in Seq(PacketSet)
  BY <1>1, PacketsSplit
<1>4. h.payload \in Seq(Byte) /\ Len(h.payload) \in 1..MAX_SERIAL_PAYLOAD /\ h.channel \in 0..MaxChannel
  BY <1>3, OnePacket
<1>5. MAX_SERIAL_PAYLOAD \in Nat /\ m \in 0..Len(h.payload) /\ m \in 1..Len(h.payload)
  BY <1>1, <1>4, PayloadAssumption
<1>6. Divided(Byte, h.payload, m)
  BY <1>4, <1>5, Divides
<1>7. h.payload = a \o b /\ a \in Seq(Byte) /\ b \in Seq(Byte) /\ Len(b) = Len(h.payload) - m
  BY <1>1, <1>6, Zenon DEF Divided
<1>8. /\ ControlInv(q, ch)
      /\ \A c \in Channel : /\ Asking(ps, c) <=> Asks(h, c) \/ Asking(q, c)
                            /\ Leaving(ps, c) <=> h = DisconnectOf(c) \/ Leaving(q, c)
  BY <1>1, ControlTail
<1>9. ASSUME NEW c \in Channel PROVE ~ Asks(h, c) /\ h # DisconnectOf(c)
  <2>1. 0 \in Service \cup {0}
    OBVIOUS
  <2>2. DisconnectOf(c).channel = 0
    BY <2>1, MessageFacts
  <2>3. Asks(h, c) => h.channel = 0
    BY AsksFacts
  <2> QED BY <1>1, <2>2, <2>3
<1>10. ASSUME NEW c \in Channel
       PROVE  /\ Data(q, c) \in Seq(Byte)
              /\ Data(ps, c) = Part(h, c) \o Data(q, c)
  BY <1>1, <1>3, PacketsSplit, PacketFacts
<1>11. CASE m = Len(h.payload)
  <2>1. Remaining(ps, m) = q
    BY <1>1, <1>11 DEF Remaining
  <2>2. h.payload = a
    BY <1>1, <1>4, <1>11, WholeFacts
  <2>3. ASSUME NEW c \in Channel
        PROVE  /\ c = h.channel => Data(ps, c) = a \o Data(q, c)
               /\ c # h.channel => Data(q, c) = Data(ps, c)
    <3>1. CASE c = h.channel
      BY <1>10, <2>2, <3>1, Zenon DEF Part
    <3>2. CASE c # h.channel
      <4>1. Part(h, c) = <<>>
        BY <3>2 DEF Part
      <4>2. <<>> \o Data(q, c) = Data(q, c)
        BY <1>10, ConcatEmptySeq
      <4> QED BY <1>10, <3>2, <4>1, <4>2
    <3> QED BY <3>1, <3>2
  <2> QED BY <1>1, <1>3, <1>8, <1>9, <1>10, <2>1, <2>3
<1>12. CASE m # Len(h.payload)
  <2>1. Remaining(ps, m) = <<p>> \o q
    BY <1>1, <1>2, <1>12 DEF Remaining
  <2>2. Len(b) \in 1..MAX_SERIAL_PAYLOAD
    BY <1>4, <1>5, <1>7, <1>12
  <2>3. p \in PacketSet /\ p.channel = h.channel /\ p.payload = b
    BY <1>2, <1>4, <1>7, <2>2 DEF PacketSet
  <2>4. PICK r : r = <<p>> \o q
    OBVIOUS
  <2>5. /\ ControlInv(r, ch)
        /\ \A c \in Channel : (Asking(r, c) <=> Asking(q, c)) /\ (Leaving(r, c) <=> Leaving(q, c))
    BY <1>1, <1>3, <1>8, <2>3, <2>4, ControlCons
  <2>6. r \in Seq(PacketSet) /\ \A c \in Channel : Data(r, c) = Part(p, c) \o Data(q, c)
    BY <1>3, <2>3, <2>4, PacketInFront
  <2>7. r \in Seq(PacketSet)
    BY <2>6
  <2>8. ASSUME NEW c \in Channel
        PROVE  /\ Data(r, c) \in Seq(Byte)
               /\ c = h.channel => Data(ps, c) = a \o Data(r, c)
               /\ c # h.channel => Data(r, c) = Data(ps, c)
    <3>0. Data(r, c) \in Seq(Byte)
      BY <2>7, PacketFacts
    <3>1. CASE c = h.channel
      <4>1. Data(ps, c) = (a \o b) \o Data(q, c)
        BY <1>7, <1>10, <3>1, Zenon DEF Part
      <4>2. Data(r, c) = b \o Data(q, c)
        BY <2>3, <2>6, <3>1 DEF Part
      <4>3. Three(a, b, Data(q, c))
        BY <1>7, <1>10, Threes
      <4> QED BY <3>0, <3>1, <4>1, <4>2, <4>3, Zenon DEF Three
    <3>2. CASE c # h.channel
      <4>1. Part(h, c) = <<>> /\ Part(p, c) = <<>>
        BY <2>3, <3>2 DEF Part
      <4> QED BY <1>10, <2>6, <3>0, <3>2, <4>1
    <3> QED BY <3>1, <3>2
  <2> QED BY <1>1, <1>8, <1>9, <2>1, <2>4, <2>5, <2>7, <2>8
<1> QED BY <1>11, <1>12

(* And the bytes that are on their way are still the packets'.             *)
LEMMA StreamRemaining ==
  ASSUME NEW sr, NEW r, NEW l, NEW ps \in Seq(PacketSet), NEW m \in 1..Len(Head(ps).payload),
         NEW K, NEW J, StreamOK(sr, r, l, Head(ps).payload, ps, K), Head(ps).payload # <<>>,
         sr.in_channel # 0, InSet(J, sr.in_channel)
  PROVE  StreamOK(sr, r, l, After(Head(ps).payload, m), Remaining(ps, m), J)
<1>1. PICK g, h, b : g = Head(ps).payload /\ h = Head(ps) /\ b = After(g, m)
  OBVIOUS
<1>2. /\ sr \in SerialSet /\ Taken(sr) \o (r \o l) = Wire(Tail(ps)) /\ ps # <<>>
      /\ h.channel = sr.in_channel
  BY <1>1 DEF StreamOK, Waits
<1>3. h \in PacketSet /\ Tail(ps) \in Seq(PacketSet)
  BY <1>1, <1>2, PacketsSplit
<1>4. g \in Seq(Byte) /\ Len(g) \in Nat
  BY <1>1, <1>3, OnePacket
<1>5. CASE m = Len(g)
  <2>1. b = <<>> /\ Remaining(ps, m) = Tail(ps)
    BY <1>1, <1>4, <1>5, WholeFacts DEF Remaining
  <2> QED BY <1>1, <1>2, <2>1 DEF StreamOK, Waits
<1>6. CASE m # Len(g)
  <2>1. PICK p : p = [channel |-> h.channel, payload |-> b]
    OBVIOUS
  <2>2. m \in 0..Len(g) /\ Len(g) - m # 0
    BY <1>1, <1>4, <1>6
  <2>3. b \in Seq(Byte) /\ Len(b) = Len(g) - m
    BY <1>1, <1>4, <2>2, AfterLen
  <2>4. b # <<>>
    BY <2>2, <2>3
  <2>5. Remaining(ps, m) = <<p>> \o Tail(ps)
    BY <1>1, <1>6, <2>1 DEF Remaining
  <2>6. PICK q, rs : q = Tail(ps) /\ rs = <<p>> \o q
    OBVIOUS
  <2>7. rs # <<>> /\ Head(rs) = p /\ Tail(rs) = q
    <3>1. MAX_SERIAL_PAYLOAD \in Nat /\ Len(g) \in 1..MAX_SERIAL_PAYLOAD /\ h.channel \in 0..MaxChannel
      BY <1>1, <1>3, OnePacket, PayloadAssumption
    <3>2. Len(b) \in 1..MAX_SERIAL_PAYLOAD
      BY <2>2, <2>3, <3>1
    <3>3. p \in PacketSet
      BY <2>1, <2>3, <3>1, <3>2 DEF PacketSet
    <3> QED BY <1>3, <2>6, <3>3, ConsParts
  <2>8. p.channel = sr.in_channel /\ p.payload = b
    BY <1>2, <2>1
  <2> QED BY <1>1, <1>2, <2>4, <2>5, <2>6, <2>7, <2>8 DEF StreamOK, Waits
<1> QED BY <1>5, <1>6

-----------------------------------------------------------------------------
(* What a service has yet to see.  Nothing at first...                     *)
LEMMA FramesNone ==
  ASSUME NEW framed, NEW K, NEW part, NEW pend, K => part = <<>> /\ pend = <<>>
  PROVE  FramesOK(framed, <<>>, <<>>, K, part, pend)
<1>1. /\ <<>> \in Seq(FrameSet) /\ <<>> \in Seq(Byte) /\ <<>> \o <<>> = <<>>
      /\ Encoded(<<>>) = <<>> /\ FlattenSeq(<<>>) = <<>>
  BY NoFrames, FlattenEmpty
<1>2. FramedOK(<<>>, <<>>, K, part, pend) /\ RawOK(<<>>, <<>>, K, pend)
  BY <1>1, Zenon DEF FramedOK, RawOK
<1> QED BY <1>2 DEF FramesOK

(* ... nor does it matter where it is...                                   *)
LEMMA FramesKept ==
  ASSUME NEW framed, NEW fr, NEW de, NEW K, NEW J, NEW part, NEW pend, NEW part2, NEW pend2,
         FramesOK(framed, fr, de, K, part, pend),
         J => K /\ part2 \o pend2 = part \o pend /\ (~ framed => pend2 = pend)
  PROVE  FramesOK(framed, fr, de, J, part2, pend2)
<1>1. CASE framed
  <2>1. FramedOK(fr, de, K, part, pend)
    BY <1>1 DEF FramesOK
  <2>2. PICK todo \in Seq(FrameSet) : fr = de \o todo /\ (K => part \o pend = Encoded(todo))
    BY <2>1 DEF FramedOK
  <2>3. J => part2 \o pend2 = Encoded(todo)
    BY <2>2, Zenon
  <2>4. FramedOK(fr, de, J, part2, pend2)
    BY <2>1, <2>2, <2>3, Zenon DEF FramedOK
  <2> QED BY <1>1, <2>4 DEF FramesOK
<1>2. CASE ~ framed
  <2>1. RawOK(fr, de, K, pend)
    BY <1>2 DEF FramesOK
  <2>2. PICK todo \in Seq(Byte) : FlattenSeq(fr) = de \o todo /\ (K => pend = todo)
    BY <2>1 DEF RawOK
  <2>3. J => pend2 = todo
    BY <1>2, <2>2, Zenon
  <2>4. RawOK(fr, de, J, pend2)
    BY <2>1, <2>2, <2>3, Zenon DEF RawOK
  <2> QED BY <1>2, <2>4 DEF FramesOK
<1> QED BY <1>1, <1>2

(* ... nor whether the client is there...                                  *)
LEMMA FramesStill ==
  ASSUME NEW framed, NEW fr, NEW de, NEW part, NEW pend, FramesOK(framed, fr, de, TRUE, part, pend),
         NEW K
  PROVE  FramesOK(framed, fr, de, K, part, pend)
<1>1. K => TRUE /\ part \o pend = part \o pend /\ (~ framed => pend = pend)
  OBVIOUS
<1> QED BY <1>1, FramesKept

(* ... until the client writes...                                          *)
Writing(framed, f) == IF framed THEN Frame(f) ELSE f

(* ... and what its client writes goes behind it.                          *)
LEMMA FramesWritten ==
  ASSUME NEW framed, NEW fr \in Seq(FrameSet), NEW de, NEW K, NEW part, K => part \in Seq(Byte),
         NEW pend \in Seq(Byte), NEW f \in FrameSet, FramesOK(framed, fr, de, K, part, pend)
  PROVE  FramesOK(framed, Append(fr, f), de, K, part, pend \o Writing(framed, f))
<1>1. f \in Seq(Byte) /\ Frame(f) \in Seq(Byte) /\ fr \in Seq(Seq(Byte))
  BY OneFrame, FramingFacts
<1>2. PICK fr2 : fr2 = Append(fr, f)
  OBVIOUS
<1>3. CASE framed
  <2>1. FramedOK(fr, de, K, part, pend)
    BY <1>3 DEF FramesOK
  <2>2. PICK todo \in Seq(FrameSet) : fr = de \o todo /\ (K => part \o pend = Encoded(todo))
    BY <2>1 DEF FramedOK
  <2>3. PICK todo2 : todo2 = Append(todo, f)
    OBVIOUS
  <2>4. todo2 \in Seq(FrameSet) /\ Encoded(todo2) = Encoded(todo) \o Frame(f)
    BY <2>2, <2>3, EncodedAppend
  <2>5. de \in Seq(FrameSet)
    BY <2>1 DEF FramedOK
  <2>6. fr2 = de \o todo2
    <3>1. AppendsTo(de, todo, f)
      BY <2>2, <2>5, AppendOfConcat
    <3> QED BY <1>2, <2>2, <2>3, <3>1, Zenon DEF AppendsTo
  <2>7. K => Three(part, pend, Frame(f))
    BY <1>1, Threes
  <2>8. K => part \o (pend \o Frame(f)) = Encoded(todo2)
    BY <2>2, <2>4, <2>7, Zenon DEF Three
  <2>9. FramedOK(fr2, de, K, part, pend \o Frame(f))
    BY <2>4, <2>5, <2>6, <2>8, Zenon DEF FramedOK
  <2> QED BY <1>2, <1>3, <2>9, Zenon DEF FramesOK, Writing
<1>4. CASE ~ framed
  <2>1. RawOK(fr, de, K, pend)
    BY <1>4 DEF FramesOK
  <2>2. PICK todo \in Seq(Byte) : FlattenSeq(fr) = de \o todo /\ (K => pend = todo)
    BY <2>1 DEF RawOK
  <2>3. de \in Seq(Byte)
    BY <2>1 DEF RawOK
  <2>4. FlattenSeq(fr2) = FlattenSeq(fr) \o f
    BY <1>1, <1>2, FlattenAppend
  <2>5. Three(de, todo, f) /\ Joined(Byte, todo, f)
    BY <1>1, <2>2, <2>3, Threes, Joins
  <2>6. FlattenSeq(fr2) = de \o (todo \o f)
    BY <2>2, <2>4, <2>5, Zenon DEF Three
  <2>7. todo \o f \in Seq(Byte)
    BY <2>5, Zenon DEF Joined
  <2>8. K => pend \o f = todo \o f
    BY <2>2, Zenon
  <2>9. RawOK(fr2, de, K, pend \o f)
    BY <2>3, <2>6, <2>7, <2>8, Zenon DEF RawOK
  <2> QED BY <1>2, <1>4, <2>9, Zenon DEF FramesOK, Writing
<1> QED BY <1>3, <1>4

(* ... and its service gets bytes...                                       *)
LEMMA FramesRaw ==
  ASSUME NEW fr, NEW de, NEW part, NEW m \in Seq(Byte), NEW d \in Seq(Byte),
         FramesOK(FALSE, fr, de, TRUE, part, m \o d)
  PROVE  FramesOK(FALSE, fr, de \o m, TRUE, part, d)
<1>1. RawOK(fr, de, TRUE, m \o d)
  BY DEF FramesOK
<1>2. de \in Seq(Byte) /\ FlattenSeq(fr) = de \o (m \o d)
  BY <1>1, Zenon DEF RawOK
<1>3. Three(de, m, d) /\ Joined(Byte, de, m)
  BY <1>2, Threes, Joins
<1>4. FlattenSeq(fr) = (de \o m) \o d /\ de \o m \in Seq(Byte)
  BY <1>2, <1>3, Zenon DEF Three, Joined
<1>5. RawOK(fr, de \o m, TRUE, d)
  BY <1>4, Zenon DEF RawOK
<1> QED BY <1>5 DEF FramesOK

(* ... or a frame, which the digits in front of it announce.               *)
LEMMA FramesHeader ==
  ASSUME NEW fr, NEW de, NEW h \in Seq(Byte), NEW x \in Seq(Byte), NEW d \in Seq(Byte),
         FramesOK(TRUE, fr, de, TRUE, h, x \o d), Len(h \o x) = 2
  PROVE  /\ Value(h \o x) \in 1..MaxWritten
         /\ FramesOK(TRUE, fr, de, TRUE, Digits(Value(h \o x)) \o <<>>, d)
<1>1. FramedOK(fr, de, TRUE, h, x \o d)
  BY DEF FramesOK
<1>2. PICK todo \in Seq(FrameSet) : fr = de \o todo /\ h \o (x \o d) = Encoded(todo)
  BY <1>1, Zenon DEF FramedOK
<1>3. PICK g : g = h \o x
  OBVIOUS
<1>4. Three(h, x, d) /\ Joined(Byte, h, x)
  BY Threes, Joins
<1>5. g \in Seq(Byte) /\ Len(g) = 2
  BY <1>3, <1>4, Zenon DEF Joined
<1>6. g \o d = Encoded(todo)
  BY <1>2, <1>3, <1>4, Zenon DEF Three
<1>7. InFrames(todo, g, d)
  BY <1>5, <1>6 DEF InFrames
<1>8. g = Digits(Len(Head(todo))) /\ Value(g) = Len(Head(todo)) /\ Head(todo) \in FrameSet
  BY <1>5, <1>7, FrameStarts
<1>9. Value(g) \in 1..MaxWritten /\ Digits(Value(g)) = g
  BY <1>8, OneFrame
<1>10. g \o <<>> = g
  BY <1>5, ConcatEmptySeq
<1>11. FramedOK(fr, de, TRUE, Digits(Value(g)) \o <<>>, d)
  BY <1>1, <1>2, <1>6, <1>9, <1>10, Zenon DEF FramedOK
<1> QED BY <1>3, <1>9, <1>11, Zenon DEF FramesOK

(* When a frame is whole it is the next that the service should get.       *)
LEMMA FramesFrame ==
  ASSUME NEW fr, NEW de, NEW size \in Nat, NEW p \in Seq(Byte), NEW x \in Seq(Byte),
         NEW d \in Seq(Byte), FramesOK(TRUE, fr, de, TRUE, Digits(size) \o p, x \o d),
         Len(p \o x) = size
  PROVE  FramesOK(TRUE, fr, de \o <<p \o x>>, TRUE, <<>>, d)
<1>1. FramedOK(fr, de, TRUE, Digits(size) \o p, x \o d)
  BY Zenon DEF FramesOK
<1>2. PICK todo \in Seq(FrameSet) :
        fr = de \o todo /\ (Digits(size) \o p) \o (x \o d) = Encoded(todo)
  BY <1>1, Zenon DEF FramedOK
<1>3. PICK q, t : q = p \o x /\ t = Digits(size)
  OBVIOUS
<1>4. t \in Seq(Byte)
  BY <1>3, DigitsFacts
<1>5. Three(t, p, x) /\ Joined(Byte, p, x) /\ Joined(Byte, t, p)
  BY <1>4, Threes, Joins
<1>6. q \in Seq(Byte) /\ t \o p \in Seq(Byte) /\ (t \o p) \o x = t \o q /\ Len(q) = size
  BY <1>3, <1>5, Zenon DEF Joined, Three
<1>7. Three(t \o p, x, d)
  BY <1>6, Threes
<1>8. (t \o q) \o d = Encoded(todo)
  BY <1>2, <1>3, <1>6, <1>7, Zenon DEF Three
<1>9. InFrame(todo, size, q, d)
  BY <1>3, <1>6, <1>8, Zenon DEF InFrame
<1>10. PICK r : r = Tail(todo)
  OBVIOUS
<1>11. todo # <<>> /\ q \in FrameSet /\ r \in Seq(FrameSet) /\ q = Head(todo) /\ d = Encoded(r)
  BY <1>6, <1>9, <1>10, FrameEnds
<1>12. todo = <<q>> \o r
  BY <1>10, <1>11, EncodedSplit
<1>13. de \in Seq(FrameSet)
  BY <1>1, Zenon DEF FramedOK
<1>14. <<q>> \in Seq(FrameSet)
  BY <1>11
<1>15. Three(de, <<q>>, r) /\ Joined(FrameSet, de, <<q>>)
  BY <1>11, <1>13, <1>14, Threes, Joins
<1>16. fr = (de \o <<q>>) \o r /\ de \o <<q>> \in Seq(FrameSet)
  BY <1>2, <1>12, <1>15, Zenon DEF Three, Joined
<1>17. <<>> \o d = Encoded(r)
  <2>1. <<>> \o d = d
    BY ConcatEmptySeq
  <2> QED BY <1>11, <2>1, Zenon
<1>18. FramedOK(fr, de \o <<q>>, TRUE, <<>>, d)
  BY <1>11, <1>16, <1>17, Zenon DEF FramedOK
<1> QED BY <1>3, <1>18, Zenon DEF FramesOK

-----------------------------------------------------------------------------
(* What a step leaves alone.                                               *)
LEMMA FramesStay ==
  ASSUME NEW ch, NEW ch2, NEW K, NEW K2, NEW ps, NEW qs, NEW u, NEW u2, NEW fr, NEW fr2,
         NEW de, NEW de2, NEW c, FramesInv(ch, K, ps, u, fr, de, c),
         ch2[c].service = ch[c].service, fr2[c] = fr[c], de2[c] = de[c],
         EarlyOK(ch2[c].state, fr[c], de[c], u2[c], Data(qs, c)),
         InSet(K2, c) => /\ InSet(K, c) /\ TheClient(K2, c) = TheClient(K, c)
                         /\ Data(qs, c) \o u2[c] = Data(ps, c) \o u[c]
  PROVE  FramesInv(ch2, K2, qs, u2, fr2, de2, c)
<1>1. PICK framed, pend, pend2, part, part2 :
        /\ framed = (ch[c].service \in Framed)
        /\ pend = Data(ps, c) \o u[c] /\ pend2 = Data(qs, c) \o u2[c]
        /\ part = Partial(TheClient(K, c)) /\ part2 = Partial(TheClient(K2, c))
  OBVIOUS
<1>2. FramesOK(framed, fr[c], de[c], InSet(K, c), part, pend)
  BY <1>1 DEF FramesInv
<1>3. InSet(K2, c) => InSet(K, c) /\ part2 = part /\ pend2 = pend
  BY <1>1
<1>4. FramesOK(framed, fr[c], de[c], InSet(K2, c), part2, pend2)
  <2>1. InSet(K2, c) => InSet(K, c) /\ part2 \o pend2 = part \o pend /\ (~ framed => pend2 = pend)
    BY <1>3, Zenon
  <2> QED BY <1>2, <2>1, FramesKept
<1> QED BY <1>1, <1>4 DEF FramesInv

(* The clients do not heed what does not concern them.                     *)
LEMMA ClientsStay ==
  ASSUME NEW K, NEW ch, NEW ch2, ClientsOK(K, ch),
         \A c \in Channel : InSet(K, c) => ch2[c].service = ch[c].service
  PROVE  ClientsOK(K, ch2)
BY DEF ClientsOK, Belongs, InSet

(* Nor do the messages.                                                    *)
LEMMA ControlStay ==
  ASSUME NEW ps, NEW ch, NEW ch2, ControlInv(ps, ch),
         \A c \in Channel : Asking(ps, c) => ch2[c].service = ch[c].service
  PROVE  ControlInv(ps, ch2)
<1>1. ASSUME NEW i \in DOMAIN ps PROVE Message(ps[i], ch2)
  <2>1. SUFFICES ASSUME ps[i].channel = 0
                 PROVE  \E c \in Channel :
                          \/ ps[i] = ConnectTo(ch2[c].service, c) /\ ch2[c].service \in Service \cup {0}
                          \/ ps[i] = DisconnectOf(c)
    BY DEF Message
  <2>2. PICK c \in Channel : \/ ps[i] = ConnectTo(ch[c].service, c) /\ ch[c].service \in Service \cup {0}
                             \/ ps[i] = DisconnectOf(c)
    BY <2>1 DEF ControlInv, Message
  <2>3. CASE ps[i] = ConnectTo(ch[c].service, c) /\ ch[c].service \in Service \cup {0}
    <3>1. Asking(ps, c)
      BY <2>3 DEF Asking, Asks
    <3> QED BY <2>3, <3>1
  <2> QED BY <2>2, <2>3
<1> QED BY <1>1 DEF ControlInv

(* A client that was there is the same.                                    *)
LEMMA SameClient ==
  ASSUME NEW K, NEW J, NEW ch, NEW ch2, ClientsOK(K, ch), ClientsOK(J, ch2), NEW c,
         \A k \in J : k.channel = c => k \in K, InSet(J, c)
  PROVE  InSet(K, c) /\ TheClient(J, c) = TheClient(K, c)
<1>1. PICK k \in J : k.channel = c
  BY DEF InSet
<1>2. k \in K
  BY <1>1
<1>3. TheClient(J, c) = k /\ TheClient(K, c) = k /\ InSet(K, c)
  BY <1>1, <1>2, TheClientIs
<1> QED BY <1>3

-----------------------------------------------------------------------------
(* What is sent to the guest.                                              *)
LEMMA HoldsTwo == ASSUME NEW x, NEW a, NEW b PROVE Holds(<<a, b>>, x) <=> x = a \/ x = b
BY DEF Holds

(* What is sent goes behind what is to be read.                            *)
LEMMA Sends ==
  ASSUME NEW h, NEW sd, OutInv(h, sd), NEW c \in 0..MaxChannel, NEW body \in Seq(Tokens)
  PROVE  OutInv(charpipehalf_write(h, Packets(c, body)), sd \o Packets(c, body))
<1>1. PICK tokens : tokens = Packets(c, body)
  OBVIOUS
<1>2. tokens \in Seq(Tokens)
  <2>1. Token("header", c) \in Tokens
    BY TokenFacts
  <2> QED BY <1>1, <2>1, PacketsType
<1>3. HalfOf(h, Tokens) /\ sd \in Seq(Tokens) /\ InPipe(h) = sd
  BY DEF OutInv
<1>4. PICK g : g = charpipehalf_write(h, tokens)
  OBVIOUS
<1>5. HalfOf(g, Tokens)
  BY <1>2, <1>3, <1>4, PipeWriteFacts
<1>6. InPipe(charpipehalf_write(h, tokens)) = InPipe(h) \o tokens
  BY <1>2, <1>3, PipeWriteFacts, Zenon
<1>7. InPipe(g) = sd \o tokens
  BY <1>3, <1>4, <1>6, Zenon
<1>8. Joined(Tokens, sd, tokens)
  BY <1>2, <1>3, Joins
<1>9. sd \o tokens \in Seq(Tokens)
  BY <1>8, Zenon DEF Joined
<1>10. OutInv(g, sd \o tokens)
  BY <1>5, <1>7, <1>9, Zenon DEF OutInv
<1> QED BY <1>1, <1>4, <1>10, Zenon

Answered(sd, k, c, l, d) ==
  Holds(sd \o Packets(0, <<Token(k, c)>>), Token(l, d)) <=> Holds(sd, Token(l, d)) \/ (l = k /\ d = c)

(* An answer is one more of them, and only of its kind.                    *)
LEMMA Answers ==
  ASSUME NEW sd \in Seq(Tokens), NEW k \in {"ok", "ko", "disconnect"}, NEW c \in Channel,
         NEW l \in {"ok", "ko", "disconnect"}, NEW d \in Channel
  PROVE  Answered(sd, k, c, l, d)
<1>1. PICK t, h, x : t = Token(k, c) /\ h = Token("header", 0) /\ x = Token(l, d)
  OBVIOUS
<1>2. t \in Tokens /\ h \in DataTokens /\ h \in Tokens
  <2>1. 0 \in 0..MaxChannel
    BY ChannelFacts
  <2> QED BY <1>1, <2>1, TokenFacts
<1>3. x # h
  BY <1>1, <1>2, TokenFacts
<1>4. x = t <=> l = k /\ d = c
  BY <1>1, TokenFacts
<1>5. Packets(0, <<t>>) = <<h, t>>
  BY <1>1, PacketsOne
<1>6. <<h, t>> \in Seq(Tokens)
  BY <1>2
<1>7. Holds(sd \o <<h, t>>, x) <=> Holds(sd, x) \/ Holds(<<h, t>>, x)
  BY <1>6, HoldsConcat
<1>8. Holds(<<h, t>>, x) <=> x = t
  BY <1>3, HoldsTwo
<1>9. Holds(sd \o Packets(0, <<t>>), x) <=> Holds(sd, x) \/ (l = k /\ d = c)
  BY <1>4, <1>5, <1>7, <1>8, Zenon
<1> QED BY <1>1, <1>9, Zenon DEF Answered

(* Data are no answers.                                                    *)
LEMMA SaysNoMore ==
  ASSUME NEW sd \in Seq(Tokens), NEW c \in 0..MaxChannel, NEW body \in Seq(DataTokens),
         NEW l \in {"ok", "ko", "disconnect"}, NEW d \in Channel
  PROVE  Holds(sd \o Packets(c, body), Token(l, d)) <=> Holds(sd, Token(l, d))
<1>1. PICK x, s : x = Token(l, d) /\ s = Packets(c, body)
  OBVIOUS
<1>2. x \notin DataTokens /\ Token("header", c) \in DataTokens
  BY <1>1, TokenFacts
<1>3. s \in Seq(DataTokens)
  BY <1>1, <1>2, PacketsType
<1>4. ~ Holds(s, x)
  BY <1>2, <1>3, HoldsType
<1>5. s \in Seq(Tokens)
  <2>1. Token("header", c) \in Tokens
    BY TokenFacts
  <2>2. body \in Seq(Tokens)
    BY TokenFacts
  <2> QED BY <1>1, <2>1, <2>2, PacketsType
<1>6. Holds(sd \o s, x) <=> Holds(sd, x) \/ Holds(s, x)
  BY <1>5, HoldsConcat
<1> QED BY <1>1, <1>4, <1>6, Zenon

-----------------------------------------------------------------------------
(* The steps of the guest.                                                 *)
LEMMA DataAppend ==
  ASSUME NEW ps \in Seq(PacketSet), NEW p \in PacketSet, NEW c \in Channel
  PROVE  /\ Data(ps, c) \in Seq(Byte)
         /\ p.channel # c => Data(Append(ps, p), c) = Data(ps, c)
         /\ p.channel = c => Data(Append(ps, p), c) = Data(ps, c) \o p.payload
<1>1. Data(ps, c) \in Seq(Byte)
  BY PacketFacts
<1>2. Data(Append(ps, p), c) = Data(ps, c) \o Part(p, c)
  BY PacketsAppend
<1>3. CASE p.channel = c
  <2>1. Part(p, c) = p.payload
    BY <1>3 DEF Part
  <2> QED BY <1>1, <1>2, <1>3, <2>1, Zenon
<1>4. CASE p.channel # c
  <2>1. Part(p, c) = <<>>
    BY <1>4 DEF Part
  <2>2. Data(ps, c) \o <<>> = Data(ps, c)
    BY <1>1, ConcatEmptySeq
  <2> QED BY <1>1, <1>2, <1>4, <2>1, <2>2, Zenon
<1> QED BY <1>3, <1>4

(* A client asks for a channel: a packet more.                             *)
LEMMA AskFacts ==
  ASSUME NEW ps \in Seq(PacketSet), SerialInv(ps), NEW c \in Channel, NEW s \in Service \cup {0}, Ask(c, s)
  PROVE  Append(ps, ConnectTo(s, c)) \in Seq(PacketSet) /\ SerialInv(Append(ps, ConnectTo(s, c)))'
<1>1. PICK p, qs : p = ConnectTo(s, c) /\ qs = Append(ps, p)
  OBVIOUS
<1>2. /\ p \in PacketSet /\ p.channel = 0 /\ p.payload = <<connect, s, c>> /\ Asks(p, c)
      /\ \A d \in Channel : p # DisconnectOf(d)
  BY <1>1, MessageFacts, MessagesDiffer
<1>3. \A d \in Channel : Asks(p, d) => d = c
  BY <1>2, AsksFacts
<1>4. /\ rest = <<>> /\ msg = <<>> /\ chan[c].state = "new"
      /\ chan' = [chan EXCEPT ![c] = [state |-> "asked", service |-> s]]
      /\ line' = line \o Packet(p.channel, p.payload)
      /\ UNCHANGED <<up, recv, out, frames, delivered>>
  BY <1>2 DEF Ask, Quiet
<1>5. UNCHANGED <<up, rest, serial, msg, clients, num_clients, half, said, frames, delivered>>
  BY <1>4 DEF recv, out
<1>6. Typed
  BY DEF SerialInv
<1>7. chan \in [Channel -> ChanSet] /\ line \in Seq(Byte)
  BY <1>6 DEF Typed
<1>8. /\ chan'[c].state = "asked" /\ chan'[c].service = s
      /\ \A d \in Channel : d # c => chan'[d] = chan[d]
      /\ chan' \in [Channel -> ChanSet]
  BY <1>4, <1>7 DEF ChanSet
<1>9. StreamOK(serial, <<>>, line, <<>>, ps, clients)
  BY <1>4 DEF SerialInv
<1>10. StreamOK(serial, <<>>, line', <<>>, qs, clients) /\ line' \in Seq(Byte)
  BY <1>1, <1>2, <1>4, <1>7, <1>9, StreamAppend
<1>11. StreamOK(serial, rest, line, msg, qs, clients)'
  BY <1>4, <1>5, <1>10
<1>12. Typed'
  BY <1>5, <1>6, <1>8, <1>10 DEF Typed
<1>13. /\ ~ InSet(clients, c) /\ ~ Asking(ps, c) /\ ~ Leaving(ps, c)
       /\ ~ Holds(said, Token("ok", c)) /\ ~ Holds(said, Token("ko", c))
       /\ ~ Holds(said, Token("disconnect", c))
  BY <1>4 DEF SerialInv, ChannelInv, ChannelOK
<1>14. ControlInv(ps, chan')
  <2>1. \A d \in Channel : Asking(ps, d) => chan'[d].service = chan[d].service
    BY <1>8, <1>13
  <2> QED BY <2>1, ControlStay DEF SerialInv
<1>15. Message(p, chan')
  BY <1>1, <1>8 DEF Message
<1>16. /\ ControlInv(qs, chan')
       /\ \A d \in Channel : /\ Asking(qs, d) <=> Asking(ps, d) \/ Asks(p, d)
                             /\ Leaving(qs, d) <=> Leaving(ps, d) \/ p = DisconnectOf(d)
  <2>1. \A d \in Channel : Asks(p, d) => ~ Asking(ps, d)
    BY <1>3, <1>13
  <2> QED BY <1>1, <1>2, <1>14, <1>15, <2>1, ControlAppend
<1>17. ASSUME NEW d \in Channel PROVE ChannelInv(chan', clients, said, qs, d)
  <2>1. ChannelInv(chan, clients, said, ps, d)
    BY DEF SerialInv
  <2>2. CASE d = c
    BY <1>2, <1>8, <1>13, <1>16, <2>2 DEF ChannelInv, ChannelOK
  <2>3. CASE d # c
    BY <1>2, <1>3, <1>8, <1>16, <2>1, <2>3 DEF ChannelInv, ChannelOK
  <2> QED BY <2>2, <2>3
<1>18. ClientsOK(clients, chan')
  <2>1. \A d \in Channel : InSet(clients, d) => chan'[d].service = chan[d].service
    BY <1>8, <1>13
  <2> QED BY <2>1, ClientsStay DEF SerialInv
<1>19. ASSUME NEW d \in Channel PROVE FramesInv(chan', clients, qs, up, frames, delivered, d)
  <2>1. FramesInv(chan, clients, ps, up, frames, delivered, d)
    BY DEF SerialInv
  <2>2. Data(qs, d) = Data(ps, d)
    <3>1. p.channel # d
      BY <1>2, ChannelFacts
    <3> QED BY <1>1, <1>2, <3>1, DataAppend
  <2>3. CASE d = c
    <3>1. frames[c] = <<>> /\ delivered[c] = <<>> /\ up[c] = <<>> /\ Data(qs, c) = <<>>
      BY <1>4, <2>1, <2>2, <2>3 DEF FramesInv, EarlyOK
    <3>3. FramesOK(chan'[c].service \in Framed, <<>>, <<>>, InSet(clients, c),
                   Partial(TheClient(clients, c)), Data(qs, c) \o up[c])
      BY <1>13, FramesNone
    <3> QED BY <2>3, <3>1, <3>3 DEF FramesInv, EarlyOK
  <2>4. CASE d # c
    <3>1. chan'[d] = chan[d]
      BY <1>8, <2>4
    <3>2. EarlyOK(chan'[d].state, frames[d], delivered[d], up[d], Data(qs, d))
      BY <2>1, <2>2, <3>1 DEF FramesInv
    <3> QED BY <2>1, <2>2, <3>1, <3>2, FramesStay
  <2> QED BY <2>3, <2>4
<1>20. Counted(clients, num_clients) /\ OutInv(half, said)
  BY DEF SerialInv
<1>21. SerialInv(qs)'
  BY <1>5, <1>11, <1>12, <1>16, <1>17, <1>18, <1>19, <1>20 DEF SerialInv
<1>22. qs \in Seq(PacketSet)
  BY <1>1, <1>2, PacketsAppend
<1> QED BY <1>1, <1>21, <1>22

(* The fields of a client.                                                 *)
LEMMA ClientFields ==
  ASSUME NEW k \in Client
  PROVE  /\ k.header \in Seq(Byte) /\ k.payload \in Seq(Byte) /\ k.size \in Nat /\ k.size \in Sizes
         /\ k.channel \in Channel \cup Pipes /\ k.service \in Service
         /\ k.framing \in BOOLEAN /\ k.need_header \in BOOLEAN
         /\ Partial(k) \in Seq(Byte)
<1>1. /\ k.header \in Seq(Byte) /\ k.payload \in Seq(Byte) /\ k.size \in Sizes
      /\ k.channel \in Channel \cup Pipes /\ k.service \in Service
      /\ k.framing \in BOOLEAN /\ k.need_header \in BOOLEAN
  <2>1. PICK S : S = Seq(Nat) /\ S = Seq(Byte)
    BY Zenon DEF Byte
  <2>2. k \in [channel: Channel \cup Pipes, service: Service, framing: BOOLEAN,
               need_header: BOOLEAN, header: S, payload: S, size: Sizes]
    BY <2>1, Zenon DEF Client
  <2>3. k.header \in S /\ k.payload \in S
    BY <2>2
  <2> QED BY <2>1, <2>2, <2>3
<1>2. k.size \in Nat
  BY <1>1 DEF Sizes, Base
<1>3. Digits(k.size) \in Seq(Byte)
  BY <1>2, DigitsFacts
<1>4. Joined(Byte, Digits(k.size), k.payload)
  BY <1>1, <1>3, Joins
<1>5. Partial(k) \in Seq(Byte)
  BY <1>1, <1>4, Zenon DEF Partial, Joined
<1> QED BY <1>1, <1>2, <1>5

(* A client writes: frames to come, and their bytes behind the others.     *)
LEMMA ClientWritesFacts ==
  ASSUME NEW ps \in Seq(PacketSet), SerialInv(ps), NEW c \in Channel, NEW n \in 1..MaxWritten,
         ClientWrites(c, n)
  PROVE  SerialInv(ps)'
<1>1. PICK f : f = [i \in 1..n |-> Base + Len(FlattenSeq(frames))]
  OBVIOUS
<1>2. /\ rest = <<>> /\ msg = <<>> /\ chan[c].state = "open"
      /\ frames' = [frames EXCEPT ![c] = Append(@, f)]
      /\ up' = [up EXCEPT ![c] = @ \o Writing(chan[c].service \in Framed, f)]
      /\ UNCHANGED <<chan, line, recv, out, delivered>>
  BY <1>1, Zenon DEF ClientWrites, Quiet, Writing
<1>3. UNCHANGED <<chan, line, rest, serial, msg, clients, num_clients, half, said, delivered>>
  BY <1>2 DEF recv, out
<1>4. Typed
  BY DEF SerialInv
<1>5. frames \in [Channel -> Seq(FrameSet)] /\ up \in [Channel -> Seq(Byte)]
  BY <1>4 DEF Typed
<1>6. f \in FrameSet
  <2>1. frames \in Seq(Seq(FrameSet))
    BY <1>5, ChannelFacts DEF Channel
  <2>2. FlattenSeq(frames) \in Seq(FrameSet)
    BY <2>1, FlattenType
  <2>3. PICK l \in Nat : l = Len(FlattenSeq(frames))
    BY <2>2, LenProperties
  <2>4. MaxWritten \in Nat /\ Base + l \in Byte
    BY <2>3, SerialBoundAssumption DEF Base, Byte
  <2>5. f \in Seq(Byte) /\ Len(f) = n
    BY <1>1, <2>3, <2>4
  <2> QED BY <2>4, <2>5 DEF FrameSet
<1>7. PICK w : w = Writing(chan[c].service \in Framed, f)
  OBVIOUS
<1>8. w \in Seq(Byte)
  BY <1>6, <1>7, OneFrame DEF Writing
<1>9. PICK u : u = up[c] \o w
  OBVIOUS
<1>10. up[c] \in Seq(Byte)
  BY <1>5
<1>11. Joined(Byte, up[c], w)
  BY <1>8, <1>10, Joins
<1>12. u \in Seq(Byte)
  BY <1>9, <1>11, Zenon DEF Joined
<1>13. up' = [up EXCEPT ![c] = u]
  BY <1>2, <1>7, <1>9, Zenon
<1>14. up'[c] = u /\ up' \in [Channel -> Seq(Byte)] /\ \A d \in Channel : d # c => up'[d] = up[d]
  BY <1>5, <1>12, <1>13
<1>15. PICK g : g = Append(frames[c], f)
  OBVIOUS
<1>16. g \in Seq(FrameSet)
  BY <1>5, <1>6, <1>15
<1>17. frames' = [frames EXCEPT ![c] = g]
  BY <1>2, <1>15, Zenon
<1>18. /\ frames'[c] = g /\ frames' \in [Channel -> Seq(FrameSet)]
       /\ \A d \in Channel : d # c => frames'[d] = frames[d]
  BY <1>5, <1>16, <1>17
<1>19. Typed'
  BY <1>3, <1>4, <1>14, <1>18 DEF Typed
<1>20. ASSUME NEW d \in Channel PROVE FramesInv(chan, clients, ps, up', frames', delivered, d)
  <2>1. FramesInv(chan, clients, ps, up, frames, delivered, d)
    BY DEF SerialInv
  <2>2. CASE d = c
    <3>1. PICK framed, K, part, pend, a :
            /\ framed = (chan[c].service \in Framed) /\ K = InSet(clients, c)
            /\ part = Partial(TheClient(clients, c)) /\ pend = a \o up[c] /\ a = Data(ps, c)
      OBVIOUS
    <3>2. FramesOK(framed, frames[c], delivered[c], K, part, pend)
      BY <2>1, <2>2, <3>1 DEF FramesInv
    <3>3. K => part \in Seq(Byte)
      <4>1. SUFFICES ASSUME K PROVE part \in Seq(Byte)
        OBVIOUS
      <4>2. TheClient(clients, c) \in clients
        BY <3>1, <4>1, TheClientIn
      <4>3. TheClient(clients, c) \in Client
        BY <4>2 DEF SerialInv, ClientsOK, Belongs
      <4> QED BY <3>1, <4>3, ClientFields
    <3>4. a \in Seq(Byte)
      BY <3>1, PacketFacts
    <3>5. Joined(Byte, a, up[c]) /\ Three(a, up[c], w)
      BY <1>8, <1>10, <3>4, Joins, Threes
    <3>6. pend \in Seq(Byte) /\ a \o u = pend \o w
      BY <1>9, <3>1, <3>5, Zenon DEF Joined, Three
    <3>7. frames[c] \in Seq(FrameSet)
      BY <1>5
    <3>8. FramesOK(framed, Append(frames[c], f), delivered[c], K, part, pend \o Writing(framed, f))
      BY <1>6, <3>2, <3>3, <3>6, <3>7, FramesWritten
    <3>9. FramesOK(framed, g, delivered[c], K, part, a \o u)
      BY <1>7, <1>15, <3>1, <3>6, <3>8, Zenon
    <3>10. EarlyOK(chan[c].state, g, delivered[c], u, a)
      BY <1>2 DEF EarlyOK
    <3> QED BY <1>14, <1>18, <2>2, <3>1, <3>9, <3>10 DEF FramesInv
  <2>3. CASE d # c
    <3>1. up'[d] = up[d] /\ frames'[d] = frames[d]
      BY <1>14, <1>18, <2>3
    <3> QED BY <2>1, <3>1 DEF FramesInv
  <2> QED BY <2>2, <2>3
<1> QED BY <1>3, <1>19, <1>20 DEF SerialInv

(* The daemon packs: bytes go from up into a packet.                       *)
LEMMA PackFacts ==
  ASSUME NEW ps \in Seq(PacketSet), SerialInv(ps), NEW c \in Channel,
         NEW n \in 1..MAX_SERIAL_PAYLOAD, Pack(c, n)
  PROVE  \E qs \in Seq(PacketSet) : SerialInv(qs)'
<1>1. PICK a, b : a = Upto(up[c], n) /\ b = After(up[c], n)
  OBVIOUS
<1>2. PICK p, qs : p = [channel |-> c, payload |-> a] /\ qs = Append(ps, p)
  OBVIOUS
<1>3. /\ rest = <<>> /\ msg = <<>> /\ n <= Len(up[c])
      /\ line' = line \o Packet(p.channel, p.payload) /\ up' = [up EXCEPT ![c] = b]
      /\ UNCHANGED <<chan, recv, out, frames, delivered>>
  BY <1>1, <1>2 DEF Pack, Quiet, Upto, After
<1>4. UNCHANGED <<chan, rest, serial, msg, clients, num_clients, half, said, frames, delivered>>
  BY <1>3 DEF recv, out
<1>5. Typed
  BY DEF SerialInv
<1>6. up \in [Channel -> Seq(Byte)] /\ line \in Seq(Byte)
  BY <1>5 DEF Typed
<1>7. up[c] \in Seq(Byte) /\ Len(up[c]) \in Nat /\ n \in Nat /\ n >= 1
  BY <1>6, PayloadAssumption
<1>8. Divided(Byte, up[c], n)
  <2>1. n \in 0..Len(up[c])
    BY <1>3, <1>7
  <2> QED BY <1>7, <2>1, Divides
<1>9. up[c] = a \o b /\ a \in Seq(Byte) /\ b \in Seq(Byte) /\ Len(a) = n
  BY <1>1, <1>8, Zenon DEF Divided
<1>10. p \in PacketSet /\ p.channel = c /\ p.payload = a
  BY <1>2, <1>9, ChannelFacts DEF PacketSet
<1>11. /\ up'[c] = b /\ up' \in [Channel -> Seq(Byte)]
       /\ \A d \in Channel : d # c => up'[d] = up[d]
  BY <1>3, <1>6, <1>9
<1>12. StreamOK(serial, <<>>, line', <<>>, qs, clients) /\ line' \in Seq(Byte)
  <2>1. StreamOK(serial, <<>>, line, <<>>, ps, clients)
    BY <1>3 DEF SerialInv
  <2> QED BY <1>2, <1>3, <1>6, <1>10, <2>1, StreamAppend
<1>13. StreamOK(serial, rest, line, msg, qs, clients)'
  BY <1>3, <1>4, <1>12
<1>14. Typed'
  BY <1>4, <1>5, <1>11, <1>12 DEF Typed
<1>15. ASSUME NEW d \in Channel PROVE ~ Asks(p, d) /\ p # DisconnectOf(d)
  <2>1. 0 \in Service \cup {0} /\ c # 0
    BY ChannelFacts
  <2>2. DisconnectOf(d).channel = 0
    BY <2>1, MessageFacts
  <2>3. Asks(p, d) => p.channel = 0
    BY AsksFacts
  <2> QED BY <1>10, <2>1, <2>2, <2>3
<1>16. /\ ControlInv(qs, chan)
       /\ \A d \in Channel : (Asking(qs, d) <=> Asking(ps, d)) /\ (Leaving(qs, d) <=> Leaving(ps, d))
  <2>1. Message(p, chan)
    BY <1>10, ChannelFacts DEF Message
  <2>2. ControlInv(ps, chan)
    BY DEF SerialInv
  <2>3. /\ ControlInv(qs, chan)
        /\ \A d \in Channel : /\ Asking(qs, d) <=> Asking(ps, d) \/ Asks(p, d)
                              /\ Leaving(qs, d) <=> Leaving(ps, d) \/ p = DisconnectOf(d)
    BY <1>2, <1>10, <1>15, <2>1, <2>2, ControlAppend
  <2> QED BY <1>15, <2>3
<1>17. ASSUME NEW d \in Channel PROVE ChannelInv(chan, clients, said, qs, d)
  BY <1>16 DEF SerialInv, ChannelInv, ChannelOK
<1>18. ASSUME NEW d \in Channel PROVE FramesInv(chan, clients, qs, up', frames, delivered, d)
  <2>1. FramesInv(chan, clients, ps, up, frames, delivered, d)
    BY DEF SerialInv
  <2>2. EarlyOK(chan[d].state, frames[d], delivered[d], up[d], Data(ps, d))
    BY <2>1 DEF FramesInv
  <2>3. CASE d = c
    <3>1. PICK x : x = Data(ps, c) /\ x \in Seq(Byte)
      BY PacketFacts
    <3>2. Data(qs, c) = x \o a
      BY <1>2, <1>10, <3>1, DataAppend
    <3>3. Three(x, a, b)
      BY <1>9, <3>1, Threes
    <3>4. Data(qs, c) \o up'[c] = Data(ps, c) \o up[c]
      BY <1>9, <1>11, <3>1, <3>2, <3>3, Zenon DEF Three
    <3>5. up[c] # <<>>
      BY <1>3, <1>7
    <3>6. EarlyOK(chan[c].state, frames[c], delivered[c], up'[c], Data(qs, c))
      BY <2>2, <2>3, <3>5 DEF EarlyOK
    <3> QED BY <2>1, <2>3, <3>4, <3>6, FramesStay
  <2>4. CASE d # c
    <3>1. up'[d] = up[d] /\ Data(qs, d) = Data(ps, d)
      BY <1>2, <1>10, <1>11, <2>4, DataAppend
    <3> QED BY <2>1, <3>1 DEF FramesInv
  <2> QED BY <2>3, <2>4
<1>19. SerialInv(qs)'
  BY <1>4, <1>13, <1>14, <1>16, <1>17, <1>18 DEF SerialInv
<1>20. qs \in Seq(PacketSet)
  BY <1>2, <1>10
<1> QED BY <1>19, <1>20

(* A client closes: a packet more, that leaves its channel.                *)
LEMMA ClientClosesFacts ==
  ASSUME NEW ps \in Seq(PacketSet), SerialInv(ps), NEW c \in Channel, ClientCloses(c)
  PROVE  \E qs \in Seq(PacketSet) : SerialInv(qs)'
<1>1. PICK p, qs : p = DisconnectOf(c) /\ qs = Append(ps, p)
  OBVIOUS
<1>2. /\ p \in PacketSet /\ p.channel = 0 /\ p.payload = <<disconnect, c>>
      /\ \A d \in Channel : ~ Asks(p, d) /\ (p = DisconnectOf(d) => d = c)
  <2>1. 0 \in Service \cup {0}
    OBVIOUS
  <2>2. p \in PacketSet /\ p.channel = 0 /\ p.payload = <<disconnect, c>>
    BY <1>1, <2>1, MessageFacts
  <2>3. ASSUME NEW d \in Channel PROVE ~ Asks(p, d) /\ (p = DisconnectOf(d) => d = c)
    <3>1. p = DisconnectOf(d) => d = c
      BY <1>1, <2>1, MessagesDiffer
    <3>2. ~ Asks(p, d)
      BY <1>1, AsksFacts
    <3> QED BY <3>1, <3>2
  <2> QED BY <2>2, <2>3
<1>3. /\ rest = <<>> /\ msg = <<>> /\ chan[c].state = "open" /\ up[c] = <<>>
      /\ chan' = [chan EXCEPT ![c].state = "closed"]
      /\ line' = line \o Packet(p.channel, p.payload)
      /\ UNCHANGED <<up, recv, out, frames, delivered>>
  BY <1>2 DEF ClientCloses, Quiet
<1>4. UNCHANGED <<up, rest, serial, msg, clients, num_clients, half, said, frames, delivered>>
  BY <1>3 DEF recv, out
<1>5. Typed
  BY DEF SerialInv
<1>6. chan \in [Channel -> ChanSet] /\ line \in Seq(Byte)
  BY <1>5 DEF Typed
<1>7. /\ chan'[c].state = "closed" /\ chan'[c].service = chan[c].service
      /\ \A d \in Channel : d # c => chan'[d] = chan[d]
      /\ chan' \in [Channel -> ChanSet]
  BY <1>3, <1>6 DEF ChanSet
<1>8. StreamOK(serial, <<>>, line', <<>>, qs, clients) /\ line' \in Seq(Byte)
  <2>1. StreamOK(serial, <<>>, line, <<>>, ps, clients)
    BY <1>3 DEF SerialInv
  <2> QED BY <1>1, <1>2, <1>3, <1>6, <2>1, StreamAppend
<1>9. StreamOK(serial, rest, line, msg, qs, clients)'
  BY <1>3, <1>4, <1>8
<1>10. Typed'
  BY <1>4, <1>5, <1>7, <1>8 DEF Typed
<1>11. \A d \in Channel : chan'[d].service = chan[d].service
  BY <1>7
<1>12. /\ ControlInv(qs, chan')
       /\ \A d \in Channel : /\ Asking(qs, d) <=> Asking(ps, d)
                             /\ Leaving(qs, d) <=> Leaving(ps, d) \/ d = c
  <2>1. Message(p, chan')
    BY <1>1 DEF Message
  <2>2. ControlInv(ps, chan')
    BY <1>11, ControlStay DEF SerialInv
  <2>3. /\ ControlInv(qs, chan')
        /\ \A d \in Channel : /\ Asking(qs, d) <=> Asking(ps, d) \/ Asks(p, d)
                              /\ Leaving(qs, d) <=> Leaving(ps, d) \/ p = DisconnectOf(d)
    BY <1>1, <1>2, <2>1, <2>2, ControlAppend
  <2> QED BY <1>1, <1>2, <2>3
<1>13. ASSUME NEW d \in Channel PROVE ChannelInv(chan', clients, said, qs, d)
  <2>1. ChannelInv(chan, clients, said, ps, d)
    BY DEF SerialInv
  <2>2. CASE d = c
    BY <1>3, <1>7, <1>12, <2>1, <2>2 DEF ChannelInv, ChannelOK
  <2>3. CASE d # c
    BY <1>7, <1>12, <2>1, <2>3 DEF ChannelInv, ChannelOK
  <2> QED BY <2>2, <2>3
<1>14. ClientsOK(clients, chan')
  BY <1>11, ClientsStay DEF SerialInv
<1>15. ASSUME NEW d \in Channel PROVE FramesInv(chan', clients, qs, up, frames, delivered, d)
  <2>1. FramesInv(chan, clients, ps, up, frames, delivered, d)
    BY DEF SerialInv
  <2>2. Data(qs, d) = Data(ps, d)
    <3>1. p.channel # d
      BY <1>2, ChannelFacts
    <3> QED BY <1>1, <1>2, <3>1, DataAppend
  <2>3. EarlyOK(chan[d].state, frames[d], delivered[d], up[d], Data(ps, d))
    BY <2>1 DEF FramesInv
  <2>4. EarlyOK(chan'[d].state, frames[d], delivered[d], up[d], Data(qs, d))
    BY <1>3, <1>7, <2>2, <2>3 DEF EarlyOK
  <2> QED BY <1>11, <2>1, <2>2, <2>4, FramesStay
<1>16. SerialInv(qs)'
  BY <1>4, <1>9, <1>10, <1>12, <1>13, <1>14, <1>15 DEF SerialInv
<1>17. qs \in Seq(PacketSet)
  BY <1>1, <1>2
<1> QED BY <1>16, <1>17

(* The port takes a piece of the line.                                     *)
LEMMA TtyWritesFacts ==
  ASSUME NEW ps \in Seq(PacketSet), SerialInv(ps), TtyWrites
  PROVE  SerialInv(ps)'
<1>1. PICK n : n = Least(MaxPiece, Len(line))
  OBVIOUS
<1>2. /\ rest = <<>> /\ msg = <<>> /\ rest' = Upto(line, n) /\ line' = After(line, n)
      /\ UNCHANGED <<chan, up, serial, msg, clients, num_clients, out, frames, delivered>>
  BY <1>1 DEF TtyWrites, Quiet, First, From, Upto, After
<1>3. UNCHANGED <<chan, up, serial, msg, clients, num_clients, half, said, frames, delivered>>
  BY <1>2 DEF out
<1>4. Typed
  BY DEF SerialInv
<1>5. line \in Seq(Byte) /\ Len(line) \in Nat /\ MaxPiece \in Nat
  BY <1>4, SerialBoundAssumption DEF Typed
<1>6. n \in 0..Len(line)
  BY <1>1, <1>5 DEF Least
<1>7. Divided(Byte, line, n)
  BY <1>5, <1>6, Divides
<1>8. line = rest' \o line' /\ rest' \in Seq(Byte) /\ line' \in Seq(Byte)
  BY <1>2, <1>7, Zenon DEF Divided
<1>9. <<>> \o line = line
  BY <1>5, ConcatEmptySeq
<1>10. StreamOK(serial, <<>>, line, <<>>, ps, clients)
  BY <1>2 DEF SerialInv
<1>11. StreamOK(serial, rest', line', <<>>, ps, clients)
  <2>1. <<>> \o line = rest' \o line'
    BY <1>8, <1>9, Zenon
  <2>2. Taken(serial) \o (rest' \o line') = Wire(Waits(<<>>, ps))
    BY <1>10, <2>1, Zenon DEF StreamOK
  <2> QED BY <1>10, <2>2 DEF StreamOK
<1>12. StreamOK(serial, rest, line, msg, ps, clients)'
  BY <1>2, <1>3, <1>11
<1>13. Typed'
  BY <1>3, <1>4, <1>8 DEF Typed
<1> QED BY <1>3, <1>12, <1>13 DEF SerialInv

(* The guest reads the first of what was sent, and heeds it.               *)
LEMMA TtyReadsFacts ==
  ASSUME NEW ps \in Seq(PacketSet), SerialInv(ps), TtyReads
  PROVE  SerialInv(ps)'
<1>1. /\ rest = <<>> /\ msg = <<>> /\ half.reader # <<>>
      /\ half' = [half EXCEPT !.reader = Tail(@)] /\ said' = Tail(said)
      /\ chan' = Heeded(Head(half.reader))
      /\ up' = [c \in Channel |-> IF chan'[c].state = "closed" THEN <<>> ELSE up[c]]
      /\ UNCHANGED <<line, recv, frames, delivered>>
  BY DEF TtyReads, Quiet
<1>2. UNCHANGED <<line, rest, serial, msg, clients, num_clients, frames, delivered>>
  BY <1>1 DEF recv
<1>3. Typed
  BY DEF SerialInv
<1>4. HalfOf(half, Tokens) /\ said \in Seq(Tokens) /\ InPipe(half) = said
  BY DEF SerialInv, OutInv
<1>5. PICK m : m = Head(half.reader)
  OBVIOUS
<1>6. /\ said # <<>> /\ m = Head(said) /\ m \in Tokens
      /\ HalfOf(half', Tokens) /\ InPipe(half') = said' /\ said' \in Seq(Tokens)
  <2>1. /\ HalfOf(half', Tokens) /\ InPipe(half) # <<>> /\ m = Head(InPipe(half)) /\ m \in Tokens
        /\ InPipe(half') = Tail(InPipe(half))
    BY <1>1, <1>4, <1>5, PipeReadFacts
  <2>2. said # <<>>
    BY <1>4, <2>1
  <2>3. Tail(said) \in Seq(Tokens)
    BY <1>4, <2>2
  <2> QED BY <1>1, <1>4, <2>1, <2>2, <2>3
<1>7. ASSUME NEW x PROVE Holds(said, x) <=> x = m \/ Holds(said', x)
  BY <1>1, <1>4, <1>6, HoldsHead
<1>8. chan \in [Channel -> ChanSet] /\ up \in [Channel -> Seq(Byte)]
  BY <1>3 DEF Typed
<1>9. /\ chan' \in [Channel -> ChanSet]
      /\ \A d \in Channel :
           /\ chan'[d].service = chan[d].service
           /\ \/ chan'[d].state = chan[d].state
                 /\ ((m # Token("ko", d) /\ m # Token("disconnect", d)) \/ chan[d].state = "closed")
                 /\ (m # Token("ok", d) \/ chan[d].state # "asked")
              \/ chan[d].state = "asked" /\ chan'[d].state = "open" /\ m = Token("ok", d)
              \/ chan'[d].state = "closed" /\ (m = Token("ko", d) \/ m = Token("disconnect", d))
  <2>1. CASE m \in ControlTokens
    <3>1. PICK k \in {"ok", "ko", "disconnect"}, c \in Channel : m = [kind |-> k, channel |-> c]
      BY <2>1 DEF ControlTokens
    <3>2. m.kind = k /\ m.channel = c /\ m = Token(k, c)
      BY <3>1 DEF Token
    <3>3. \A l, d : m = Token(l, d) <=> l = k /\ d = c
      BY <3>2, TokenFacts
    <3>4. CASE k = "ok" /\ chan[c].state = "asked"
      <4>1. chan' = [chan EXCEPT ![c].state = "open"]
        BY <1>1, <1>5, <3>2, <3>4 DEF Heeded
      <4>2. /\ chan'[c].state = "open" /\ chan'[c].service = chan[c].service
            /\ \A d \in Channel : d # c => chan'[d] = chan[d]
            /\ chan' \in [Channel -> ChanSet]
        BY <1>8, <4>1 DEF ChanSet
      <4> QED BY <3>3, <3>4, <4>2
    <3>5. CASE k \in {"ko", "disconnect"}
      <4>1. chan' = [chan EXCEPT ![c].state = "closed"]
        BY <1>1, <1>5, <3>2, <3>5 DEF Heeded
      <4>2. /\ chan'[c].state = "closed" /\ chan'[c].service = chan[c].service
            /\ \A d \in Channel : d # c => chan'[d] = chan[d]
            /\ chan' \in [Channel -> ChanSet]
        BY <1>8, <4>1 DEF ChanSet
      <4> QED BY <3>3, <3>5, <4>2
    <3>6. CASE k = "ok" /\ chan[c].state # "asked"
      <4>1. chan' = chan
        BY <1>1, <1>5, <3>2, <3>6 DEF Heeded
      <4> QED BY <1>8, <3>3, <3>6, <4>1
    <3> QED BY <3>4, <3>5, <3>6
  <2>2. CASE m \in DataTokens
    <3>1. m.kind \in {"header", "frame", "byte"}
      BY <2>2 DEF DataTokens, HeaderTokens, ByteTokens
    <3>2. \A k, c : Token(k, c).kind = k
      BY TokenFacts
    <3>3. chan' = chan
      BY <1>1, <1>5, <3>1 DEF Heeded
    <3> QED BY <1>8, <3>1, <3>2, <3>3
  <2> QED BY <1>6, <2>1, <2>2 DEF Tokens
<1>10. ASSUME NEW d \in Channel PROVE ChannelInv(chan', clients, said', ps, d)
  <2>1. ChannelInv(chan, clients, said, ps, d)
    BY DEF SerialInv
  <2>2. PICK K, A, L, o, k, g, x, y, z, mo, mk, mg :
          /\ K = InSet(clients, d) /\ A = Asking(ps, d) /\ L = Leaving(ps, d)
          /\ o = Holds(said, Token("ok", d)) /\ k = Holds(said, Token("ko", d))
          /\ g = Holds(said, Token("disconnect", d))
          /\ x = Holds(said', Token("ok", d)) /\ y = Holds(said', Token("ko", d))
          /\ z = Holds(said', Token("disconnect", d))
          /\ mo = (m = Token("ok", d)) /\ mk = (m = Token("ko", d)) /\ mg = (m = Token("disconnect", d))
    OBVIOUS
  <2>3. (o <=> mo \/ x) /\ (k <=> mk \/ y) /\ (g <=> mg \/ z)
    BY <1>7, <2>2
  <2>4. ~ (mo /\ mk) /\ ~ (mo /\ mg) /\ ~ (mk /\ mg)
    <3>1. /\ Token("ok", d).kind = "ok" /\ Token("ko", d).kind = "ko"
          /\ Token("disconnect", d).kind = "disconnect"
      BY DEF Token
    <3> QED BY <2>2, <3>1
  <2>5. ChannelOK(chan[d].state, K, A, L, o, k, g)
    BY <2>1, <2>2 DEF ChannelInv
  <2>6. \/ chan'[d].state = chan[d].state /\ ((~ mk /\ ~ mg) \/ chan[d].state = "closed")
           /\ (~ mo \/ chan[d].state # "asked")
        \/ chan[d].state = "asked" /\ chan'[d].state = "open" /\ mo
        \/ chan'[d].state = "closed" /\ (mk \/ mg)
    BY <1>9, <2>2
  <2>7. ChannelOK(chan'[d].state, K, A, L, x, y, z)
    BY <2>3, <2>4, <2>5, <2>6 DEF ChannelOK
  <2> QED BY <2>2, <2>7 DEF ChannelInv
<1>11. ControlInv(ps, chan') /\ ClientsOK(clients, chan')
  BY <1>9, ControlStay, ClientsStay DEF SerialInv
<1>12. /\ up' \in [Channel -> Seq(Byte)]
       /\ \A d \in Channel : up'[d] = IF chan'[d].state = "closed" THEN <<>> ELSE up[d]
  BY <1>1, <1>8
<1>13. ASSUME NEW d \in Channel PROVE FramesInv(chan', clients, ps, up', frames, delivered, d)
  <2>1. FramesInv(chan, clients, ps, up, frames, delivered, d)
    BY DEF SerialInv
  <2>2. EarlyOK(chan[d].state, frames[d], delivered[d], up[d], Data(ps, d))
    BY <2>1 DEF FramesInv
  <2>3. EarlyOK(chan'[d].state, frames[d], delivered[d], up'[d], Data(ps, d))
    BY <1>9, <1>12, <2>2 DEF EarlyOK
  <2>4. ASSUME InSet(clients, d) PROVE up'[d] = up[d]
    <3>1. ChannelInv(chan, clients, said, ps, d)
      BY DEF SerialInv
    <3>2. ~ Holds(said, Token("ko", d)) /\ ~ Holds(said, Token("disconnect", d))
      BY <2>4, <3>1 DEF ChannelInv, ChannelOK
    <3>3. m # Token("ko", d) /\ m # Token("disconnect", d)
      BY <1>7, <3>2
    <3>4. chan'[d].state = "closed" => chan[d].state = "closed"
      BY <1>9, <3>3
    <3> QED BY <1>12, <2>2, <3>4 DEF EarlyOK
  <2> QED BY <1>9, <2>1, <2>3, <2>4, FramesStay
<1>14. Typed'
  BY <1>2, <1>3, <1>9, <1>12 DEF Typed
<1>15. OutInv(half, said)'
  BY <1>6 DEF OutInv
<1> QED BY <1>2, <1>10, <1>11, <1>13, <1>14, <1>15 DEF SerialInv

-----------------------------------------------------------------------------
(* The steps of the emulator on its own account.                           *)
LEMMA PollFacts ==
  ASSUME NEW ps \in Seq(PacketSet), SerialInv(ps), charpipe_poll
  PROVE  SerialInv(ps)'
<1>1. /\ HasWork(half) /\ half' = charpipehalf_poll(half)
      /\ UNCHANGED <<chan, up, line, rest, serial, msg, clients, num_clients, said, frames, delivered>>
  BY DEF charpipe_poll, daemon, recv
<1>2. OutInv(half, said)
  BY DEF SerialInv
<1>3. OutInv(half', said)
  <2>1. HalfOf(half, Tokens) /\ InPipe(half) = said
    BY <1>2 DEF OutInv
  <2>2. HalfOf(half', Tokens) /\ InPipe(half') = InPipe(half)
    BY <1>1, <2>1, PipePollFacts
  <2> QED BY <1>2, <2>1, <2>2 DEF OutInv
<1> QED BY <1>1, <1>3 DEF SerialInv, Typed

(* Something is sent that is no answer. *)
LEMMA SendFacts ==
  ASSUME NEW ps \in Seq(PacketSet), SerialInv(ps), NEW c \in clients, NEW n \in 1..MaxMessage,
         qemud_client_send(c, n)
  PROVE  SerialInv(ps)'
<1>1. PICK a, b, body :
        /\ a = (IF c.framing THEN <<Token("frame", c.channel)>> ELSE <<>>)
        /\ b = [j \in 1..n |-> [kind |-> "byte", channel |-> c.channel, number |-> j]]
        /\ body = a \o b
  OBVIOUS
<1>2. /\ c.channel \notin Pipes
      /\ said' = said \o Packets(c.channel, body)
      /\ half' = charpipehalf_write(half, Packets(c.channel, body))
      /\ UNCHANGED <<chan, up, line, rest, serial, msg, clients, num_clients, frames, delivered>>
  BY <1>1, Zenon DEF qemud_client_send, qemud_serial_send, daemon, recv
<1>3. c.channel \in Channel /\ c.channel \in 0..MaxChannel
  <2>1. c \in Client
    BY DEF SerialInv, ClientsOK, Belongs
  <2> QED BY <1>2, <2>1, ClientFields, ChannelFacts
<1>4. body \in Seq(DataTokens)
  <2>1. Token("frame", c.channel) \in DataTokens
    BY <1>3, TokenFacts
  <2>2. a \in Seq(DataTokens)
    BY <1>1, <2>1
  <2>3. \A j \in 1..n : [kind |-> "byte", channel |-> c.channel, number |-> j] \in DataTokens
    BY <1>3, SerialBoundAssumption DEF DataTokens, ByteTokens
  <2>4. n \in Nat
    BY SerialBoundAssumption
  <2>5. b \in Seq(DataTokens)
    BY <1>1, <2>3, <2>4
  <2>6. Joined(DataTokens, a, b)
    BY <2>2, <2>5, Joins
  <2> QED BY <1>1, <2>6, Zenon DEF Joined
<1>5. OutInv(half, said) /\ said \in Seq(Tokens)
  BY DEF SerialInv, OutInv
<1>6. OutInv(half', said')
  <2>1. body \in Seq(Tokens)
    BY <1>4, TokenFacts
  <2> QED BY <1>2, <1>3, <1>5, <2>1, Sends
<1>7. ASSUME NEW d \in Channel PROVE ChannelInv(chan, clients, said', ps, d)
  <2>1. ChannelInv(chan, clients, said, ps, d)
    BY DEF SerialInv
  <2>2. \A l \in {"ok", "ko", "disconnect"} : Holds(said', Token(l, d)) <=> Holds(said, Token(l, d))
    BY <1>2, <1>3, <1>4, <1>5, SaysNoMore
  <2> QED BY <2>1, <2>2 DEF ChannelInv, ChannelOK
<1> QED BY <1>2, <1>6, <1>7 DEF SerialInv, Typed

(* A client more or less, without a message on its way. *)
LEMMA StreamStays ==
  ASSUME NEW sr, NEW r, NEW l, NEW ps, NEW K, NEW J, StreamOK(sr, r, l, <<>>, ps, K)
  PROVE  StreamOK(sr, r, l, <<>>, ps, J)
BY DEF StreamOK

(* A service closes a client: an answer more, that it is gone.             *)
LEMMA CloseFacts ==
  ASSUME NEW ps \in Seq(PacketSet), SerialInv(ps), NEW k \in clients, qemud_client_close(k)
  PROVE  SerialInv(ps)'
<1>1. PICK c : c = k.channel
  OBVIOUS
<1>2. PICK body : body = <<Token("disconnect", c)>>
  OBVIOUS
<1>3. /\ c \notin Pipes /\ rest = <<>> /\ msg = <<>>
      /\ clients' = clients \ {k} /\ num_clients' = [num_clients EXCEPT ![k.service] = @ - 1]
      /\ said' = said \o Packets(0, body) /\ half' = charpipehalf_write(half, Packets(0, body))
      /\ UNCHANGED <<chan, up, line, rest, serial, msg, frames, delivered>>
  BY <1>1, <1>2, Zenon DEF qemud_client_close, RemoveClient, qemud_service_remove_client,
       TellsOfClose, qemud_serial_send, daemon, Quiet
<1>4. Typed
  BY DEF SerialInv
<1>5. num_clients \in [Service -> Nat]
  BY <1>4 DEF Typed
<1>6. ClientsOK(clients, chan) /\ Counted(clients, num_clients)
  BY DEF SerialInv
<1>7. c \in Channel
  <2>1. k \in Client
    BY <1>6 DEF ClientsOK, Belongs
  <2> QED BY <1>1, <1>3, <2>1, ClientFields
<1>8. /\ ClientsOK(clients', chan) /\ ~ InSet(clients', c)
      /\ num_clients' \in [Service -> Nat] /\ Counted(clients', num_clients')
  BY <1>1, <1>3, <1>5, <1>6, RemoveFacts
<1>9. Typed'
  BY <1>3, <1>4, <1>8 DEF Typed
<1>10. StreamOK(serial, rest, line, <<>>, ps, clients')
  BY <1>3, StreamStays DEF SerialInv
<1>11. OutInv(half', said') /\ said \in Seq(Tokens)
  <2>1. Token("disconnect", c) \in Tokens
    BY <1>7, TokenFacts
  <2>2. body \in Seq(Tokens) /\ 0 \in 0..MaxChannel
    BY <1>2, <2>1, ChannelFacts
  <2>3. OutInv(half, said)
    BY DEF SerialInv
  <2>4. said \in Seq(Tokens)
    BY <2>3 DEF OutInv
  <2>5. OutInv(half', said')
    BY <1>3, <2>2, <2>3, Sends
  <2> QED BY <2>4, <2>5
<1>12. ASSUME NEW l \in {"ok", "ko", "disconnect"}, NEW d \in Channel
       PROVE  Holds(said', Token(l, d)) <=> Holds(said, Token(l, d)) \/ (l = "disconnect" /\ d = c)
  <2>1. Answered(said, "disconnect", c, l, d)
    BY <1>7, <1>11, Answers
  <2> QED BY <1>2, <1>3, <2>1, Zenon DEF Answered
<1>13. ASSUME NEW d \in Channel PROVE ChannelInv(chan, clients', said', ps, d)
  <2>1. ChannelInv(chan, clients, said, ps, d)
    BY DEF SerialInv
  <2>2. CASE d = c
    <3>1. InSet(clients, c)
      BY <1>1 DEF InSet
    <3>2. Holds(said', Token("disconnect", c))
      BY <1>7, <1>12
    <3>3. Holds(said', Token("ok", c)) <=> Holds(said, Token("ok", c))
      BY <1>7, <1>12
    <3>4. Holds(said', Token("ko", c)) <=> Holds(said, Token("ko", c))
      BY <1>7, <1>12
    <3> QED BY <1>8, <2>1, <2>2, <3>1, <3>2, <3>3, <3>4 DEF ChannelInv, ChannelOK
  <2>3. CASE d # c
    <3>1. InSet(clients', d) <=> InSet(clients, d)
      BY <1>1, <1>3, <2>3 DEF InSet
    <3>2. \A l \in {"ok", "ko", "disconnect"} : Holds(said', Token(l, d)) <=> Holds(said, Token(l, d))
      BY <1>12, <2>3
    <3> QED BY <2>1, <3>1, <3>2 DEF ChannelInv, ChannelOK
  <2> QED BY <2>2, <2>3
<1>14. ASSUME NEW d \in Channel PROVE FramesInv(chan, clients', ps, up, frames, delivered, d)
  <2>1. FramesInv(chan, clients, ps, up, frames, delivered, d)
    BY DEF SerialInv
  <2>2. InSet(clients', d) => InSet(clients, d) /\ TheClient(clients', d) = TheClient(clients, d)
    BY <1>3, <1>6, <1>8, SameClient
  <2>3. EarlyOK(chan[d].state, frames[d], delivered[d], up[d], Data(ps, d))
    BY <2>1 DEF FramesInv
  <2> QED BY <2>1, <2>2, <2>3, FramesStay
<1> QED BY <1>3, <1>8, <1>9, <1>10, <1>11, <1>13, <1>14 DEF SerialInv

(* Clients that are connected through pipes have no channel. *)
LEMMA PipeClients ==
  ASSUME NEW ps \in Seq(PacketSet), SerialInv(ps), msg = <<>>,
         UNCHANGED <<chan, up, line, rest, serial, msg, half, said, frames, delivered>>,
         ClientsOK(clients', chan), num_clients' \in [Service -> Nat], Counted(clients', num_clients'),
         \A k : k.channel \notin Pipes => (k \in clients' <=> k \in clients)
  PROVE  SerialInv(ps)'
<1>1. Typed'
  BY DEF SerialInv, Typed
<1>2. StreamOK(serial, rest, line, <<>>, ps, clients')
  BY StreamStays DEF SerialInv
<1>3. ASSUME NEW d \in Channel
      PROVE  (InSet(clients', d) <=> InSet(clients, d)) /\ \A k \in clients' : k.channel = d => k \in clients
  BY ChannelFacts DEF InSet
<1>4. ASSUME NEW d \in Channel PROVE ChannelInv(chan, clients', said, ps, d)
  BY <1>3 DEF SerialInv, ChannelInv, ChannelOK
<1>5. ASSUME NEW d \in Channel PROVE FramesInv(chan, clients', ps, up, frames, delivered, d)
  <2>1. FramesInv(chan, clients, ps, up, frames, delivered, d) /\ ClientsOK(clients, chan)
    BY DEF SerialInv
  <2>2. InSet(clients', d) => InSet(clients, d) /\ TheClient(clients', d) = TheClient(clients, d)
    BY <1>3, <2>1, SameClient
  <2>3. EarlyOK(chan[d].state, frames[d], delivered[d], up[d], Data(ps, d))
    BY <2>1 DEF FramesInv
  <2> QED BY <2>1, <2>2, <2>3, FramesStay
<1> QED BY <1>1, <1>2, <1>4, <1>5 DEF SerialInv

(* A client comes through a pipe.                                          *)
LEMMA PipeConnectsFacts ==
  ASSUME NEW ps \in Seq(PacketSet), SerialInv(ps), NEW s \in PipeService, PipeConnects(s)
  PROVE  SerialInv(ps)'
<1>1. PICK p \in Pipes : ~ Connected(p) /\ AddClient(p, s)
  BY DEF PipeConnects
<1>2. /\ msg = <<>> /\ clients' = clients \cup {NewClient(p, s)}
      /\ num_clients' = [num_clients EXCEPT ![s] = @ + 1]
      /\ UNCHANGED <<chan, up, line, rest, serial, msg, half, said, frames, delivered>>
  BY <1>1 DEF PipeConnects, AddClient, Quiet, daemon, out
<1>3. s \in Service /\ p \notin Channel
  BY ServiceAssumption, ChannelFacts
<1>4. Added(clients, num_clients, p, s)
  BY <1>1 DEF Added, Connected, InSet
<1>5. num_clients \in [Service -> Nat]
  BY DEF SerialInv, Typed
<1>6. ClientsOK(clients, chan) /\ Counted(clients, num_clients)
  BY DEF SerialInv
<1>7. ClientsOK(clients', chan) /\ num_clients' \in [Service -> Nat] /\ Counted(clients', num_clients')
  BY <1>2, <1>3, <1>4, <1>5, <1>6, AddFacts
<1>8. \A k : k.channel \notin Pipes => (k \in clients' <=> k \in clients)
  <2>1. NewClient(p, s).channel \in Pipes
    BY DEF NewClient
  <2> QED BY <1>2, <2>1
<1> QED BY <1>2, <1>7, <1>8, PipeClients

(* One goes that came through a pipe.                                      *)
LEMMA PipeClosesFacts ==
  ASSUME NEW ps \in Seq(PacketSet), SerialInv(ps), NEW k \in clients, PipeCloses(k)
  PROVE  SerialInv(ps)'
<1>1. /\ k.channel \in Pipes /\ msg = <<>> /\ clients' = clients \ {k}
      /\ num_clients' = [num_clients EXCEPT ![k.service] = @ - 1]
      /\ UNCHANGED <<chan, up, line, rest, serial, msg, half, said, frames, delivered>>
  BY DEF PipeCloses, RemoveClient, qemud_service_remove_client, Quiet, daemon, out
<1>2. num_clients \in [Service -> Nat]
  BY DEF SerialInv, Typed
<1>3. ClientsOK(clients, chan) /\ Counted(clients, num_clients)
  BY DEF SerialInv
<1>4. ClientsOK(clients', chan) /\ num_clients' \in [Service -> Nat] /\ Counted(clients', num_clients')
  BY <1>1, <1>2, <1>3, RemoveFacts
<1>5. \A i : i.channel \notin Pipes => (i \in clients' <=> i \in clients)
  BY <1>1
<1> QED BY <1>1, <1>4, <1>5, PipeClients

-----------------------------------------------------------------------------
(* The steps that take in what the guest has written.                      *)
LEMMA StreamTail ==
  ASSUME NEW sr, NEW r, NEW l, NEW m, m # <<>>, NEW ps, NEW K, NEW J, StreamOK(sr, r, l, m, ps, K)
  PROVE  StreamOK(sr, r, l, <<>>, Tail(ps), J)
BY DEF StreamOK, Waits

(* A packet is of no other channel than its own.                           *)
LEMMA DataTail ==
  ASSUME NEW ps \in Seq(PacketSet), ps # <<>>, NEW c \in Channel
  PROVE  /\ Head(ps).channel # c => Data(Tail(ps), c) = Data(ps, c)
         /\ Data(ps, c) = <<>> => Data(Tail(ps), c) = <<>>
<1>1. PICK h, q : h = Head(ps) /\ q = Tail(ps)
  OBVIOUS
<1>2. h \in PacketSet /\ q \in Seq(PacketSet)
  BY <1>1, PacketsSplit
<1>3. PICK a, b : a = Part(h, c) /\ b = Data(q, c)
  OBVIOUS
<1>4. Data(ps, c) = a \o b
  BY <1>1, <1>3, PacketsSplit
<1>5. a \in Seq(Byte) /\ b \in Seq(Byte)
  BY <1>2, <1>3, OnePacket, PacketFacts
<1>6. a \o b = <<>> => b = <<>>
  <2>1. PICK s : s = a \o b
    OBVIOUS
  <2>2. Joined(Byte, a, b)
    BY <1>5, Joins
  <2>3. Len(s) = Len(a) + Len(b) /\ Len(a) \in Nat /\ Len(b) \in Nat
    BY <2>1, <2>2, Zenon DEF Joined
  <2>4. s = <<>> => Len(b) = 0
    BY <2>3
  <2>5. s = <<>> => b = <<>>
    BY <1>5, <2>4
  <2> QED BY <2>1, <2>5
<1>7. ASSUME h.channel # c PROVE Data(ps, c) = b
  <2>1. a = <<>>
    BY <1>3, <1>7 DEF Part
  <2>2. <<>> \o b = b
    BY <1>5, ConcatEmptySeq
  <2> QED BY <1>4, <2>1, <2>2, Zenon
<1>8. Data(ps, c) = <<>> => b = <<>>
  BY <1>4, <1>6, Zenon
<1> QED BY <1>1, <1>3, <1>7, <1>8

(* A call of qemud_serial_read: a packet that no client takes is dropped.  *)
LEMMA SerialReadFacts ==
  ASSUME NEW ps \in Seq(PacketSet), SerialInv(ps), qemud_serial_read
  PROVE  \E qs \in Seq(PacketSet) : SerialInv(qs)'
<1>1. PICK n, s : n = Least(qemud_serial_can_read, Len(rest)) /\ s = Filled(serial, First(rest, n))
  OBVIOUS
<1>2. /\ rest # <<>> /\ msg = <<>> /\ rest' = From(rest, n)
      /\ serial' = (IF Whole(s) THEN Done(s) ELSE s)
      /\ msg' = (IF Whole(s) /\ (s.in_channel = 0 \/ Connected(s.in_channel)) THEN s.payload ELSE <<>>)
      /\ UNCHANGED <<chan, up, line, clients, num_clients, half, said, frames, delivered>>
  BY <1>1 DEF qemud_serial_read, Whole, Done, daemon, out
<1>3. Typed
  BY DEF SerialInv
<1>4. rest \in Seq(Byte) /\ line \in Seq(Byte)
  BY <1>3 DEF Typed
<1>5. serial \in SerialSet /\ Taken(serial) \o (rest \o line) = Wire(ps)
  BY <1>2 DEF SerialInv, StreamOK, Waits
<1>6. SerialRead(ps, n, s)
  BY <1>1, <1>2, <1>4, <1>5, SerialReads
<1>7. rest' \in Seq(Byte)
  <2>1. n \in 1..Len(rest)
    BY <1>6 DEF SerialRead
  <2>2. n \in 0..Len(rest) /\ n \in Nat
    BY <1>4, <2>1
  <2>3. rest' = After(rest, n)
    BY <1>2 DEF From, After
  <2> QED BY <1>4, <2>2, <2>3, AfterLen
<1>8. CASE ~ Whole(s)
  <2>1. serial' = s /\ msg' = <<>>
    BY <1>2, <1>8
  <2>2. s \in SerialSet /\ Taken(s) \o (rest' \o line) = Wire(ps)
    BY <1>2, <1>6, <1>8, Zenon DEF SerialRead
  <2>3. StreamOK(s, rest', line, <<>>, ps, clients)
    BY <2>2 DEF StreamOK, Waits
  <2>4. StreamOK(serial, rest, line, msg, ps, clients)'
    BY <1>2, <2>1, <2>3
  <2>5. Typed'
    BY <1>2, <1>3, <1>7, <2>1 DEF Typed
  <2>6. SerialInv(ps)'
    BY <1>2, <2>4, <2>5 DEF SerialInv
  <2> QED BY <2>6
<1>9. CASE Whole(s)
  <2>1. PICK c, p, t : c = s.in_channel /\ p = s.payload /\ t = Done(s)
    OBVIOUS
  <2>2. /\ ps # <<>> /\ c = Head(ps).channel /\ p = Head(ps).payload
        /\ t \in SerialSet /\ Taken(t) \o (rest' \o line) = Wire(Tail(ps))
    BY <1>2, <1>6, <1>9, <2>1, Zenon DEF SerialRead
  <2>3. Head(ps) \in PacketSet /\ Tail(ps) \in Seq(PacketSet)
    BY <2>2, PacketsSplit
  <2>4. p # <<>> /\ p \in Seq(Byte) /\ c \in 0..MaxChannel
    BY <2>2, <2>3, OnePacket
  <2>5. serial' = t /\ t.in_channel = c
    <3>2. t.in_channel = s.in_channel
      BY <2>1 DEF Done
    <3> QED BY <1>2, <1>9, <2>1, <3>2
  <2>6. StreamOK(t, rest', line, <<>>, Tail(ps), clients)
    BY <2>2 DEF StreamOK, Waits
  <2>7. CASE c = 0 \/ Connected(c)
    <3>1. msg' = p
      BY <1>2, <1>9, <2>1, <2>7
    <3>2. StreamOK(t, rest', line, p, ps, clients)
      BY <2>2, <2>4, <2>5, <2>7 DEF StreamOK, Waits, Connected, InSet
    <3>3. StreamOK(serial, rest, line, msg, ps, clients)'
      BY <1>2, <2>5, <3>1, <3>2
    <3>4. Typed'
      BY <1>2, <1>3, <1>7, <2>4, <3>1 DEF Typed
    <3>5. SerialInv(ps)'
      BY <1>2, <3>3, <3>4 DEF SerialInv
    <3> QED BY <3>5
  <2>8. CASE c # 0 /\ ~ Connected(c)
    <3>1. msg' = <<>>
      BY <1>2, <1>9, <2>1, <2>8
    <3>2. PICK qs : qs = Tail(ps)
      OBVIOUS
    <3>3. StreamOK(serial, rest, line, msg, qs, clients)'
      BY <1>2, <2>5, <2>6, <3>1, <3>2
    <3>4. Typed'
      BY <1>2, <1>3, <1>7, <3>1 DEF Typed
    <3>5. ~ InSet(clients, c) /\ c \in Channel
      BY <2>4, <2>8, ChannelFacts DEF Connected, InSet
    <3>6. ASSUME NEW d \in Channel PROVE ~ Asks(Head(ps), d) /\ Head(ps) # DisconnectOf(d)
      <4>1. 0 \in Service \cup {0}
        OBVIOUS
      <4>2. DisconnectOf(d).channel = 0
        BY <4>1, MessageFacts
      <4>3. Asks(Head(ps), d) => Head(ps).channel = 0
        BY AsksFacts
      <4> QED BY <2>2, <2>8, <4>2, <4>3
    <3>7. /\ ControlInv(qs, chan)
          /\ \A d \in Channel : (Asking(qs, d) <=> Asking(ps, d)) /\ (Leaving(qs, d) <=> Leaving(ps, d))
      <4>1. ControlInv(ps, chan)
        BY DEF SerialInv
      <4>2. /\ ControlInv(qs, chan)
            /\ \A d \in Channel :
                 /\ Asking(ps, d) <=> Asks(Head(ps), d) \/ Asking(qs, d)
                 /\ Leaving(ps, d) <=> Head(ps) = DisconnectOf(d) \/ Leaving(qs, d)
        BY <2>2, <3>2, <4>1, ControlTail
      <4> QED BY <3>6, <4>2
    <3>8. ASSUME NEW d \in Channel PROVE ChannelInv(chan, clients, said, qs, d)
      BY <3>7 DEF SerialInv, ChannelInv, ChannelOK
    <3>9. ASSUME NEW d \in Channel PROVE FramesInv(chan, clients, qs, up, frames, delivered, d)
      <4>1. FramesInv(chan, clients, ps, up, frames, delivered, d)
        BY DEF SerialInv
      <4>2. /\ c # d => Data(qs, d) = Data(ps, d)
            /\ Data(ps, d) = <<>> => Data(qs, d) = <<>>
        BY <2>2, <3>2, DataTail
      <4>3. EarlyOK(chan[d].state, frames[d], delivered[d], up[d], Data(qs, d))
        BY <4>1, <4>2 DEF FramesInv, EarlyOK
      <4>4. InSet(clients, d) => Data(qs, d) \o up[d] = Data(ps, d) \o up[d]
        BY <3>5, <4>2, Zenon
      <4> QED BY <4>1, <4>3, <4>4, FramesStay
    <3>10. SerialInv(qs)'
      BY <1>2, <3>3, <3>4, <3>7, <3>8, <3>9 DEF SerialInv
    <3> QED BY <2>3, <3>2, <3>10
  <2> QED BY <2>7, <2>8
<1> QED BY <1>8, <1>9

(* A message is for the multiplexer. *)
LEMMA ControlFacts ==
  ASSUME NEW ps \in Seq(PacketSet), SerialInv(ps), msg # <<>>, serial.in_channel = 0
  PROVE  /\ ps # <<>> /\ Tail(ps) \in Seq(PacketSet) /\ ControlInv(Tail(ps), chan)
         /\ \A J : StreamOK(serial, rest, line, <<>>, Tail(ps), J)
         /\ \A d \in Channel :
              /\ Asking(ps, d) <=> Asks(Head(ps), d) \/ Asking(Tail(ps), d)
              /\ ~ (Asks(Head(ps), d) /\ Asking(Tail(ps), d))
              /\ Leaving(ps, d) <=> Head(ps) = DisconnectOf(d) \/ Leaving(Tail(ps), d)
              /\ Data(Tail(ps), d) = Data(ps, d)
         /\ msg[1] = connect =>
              \E c \in Channel : /\ Head(ps) = ConnectTo(chan[c].service, c)
                                 /\ chan[c].service \in Service \cup {0}
                                 /\ msg[2] = chan[c].service /\ msg[3] = c
         /\ msg[1] = disconnect =>
              \E c \in Channel : Head(ps) = DisconnectOf(c) /\ msg[2] = c
<1>1. PICK h, q : h = Head(ps) /\ q = Tail(ps)
  OBVIOUS
<1>2. StreamOK(serial, rest, line, msg, ps, clients) /\ ControlInv(ps, chan)
  BY DEF SerialInv
<1>3. ps # <<>> /\ h.channel = 0 /\ h.payload = msg
  BY <1>1, <1>2 DEF StreamOK
<1>4. q \in Seq(PacketSet)
  BY <1>1, <1>3
<1>5. /\ ControlInv(q, chan) /\ Message(h, chan)
      /\ \A d \in Channel :
           /\ Asking(ps, d) <=> Asks(h, d) \/ Asking(q, d)
           /\ ~ (Asks(h, d) /\ Asking(q, d))
           /\ Leaving(ps, d) <=> h = DisconnectOf(d) \/ Leaving(q, d)
  BY <1>1, <1>2, <1>3, ControlTail
<1>6. ASSUME NEW d \in Channel PROVE Data(q, d) = Data(ps, d)
  BY <1>1, <1>3, DataTail, ChannelFacts
<1>7. ASSUME NEW J PROVE StreamOK(serial, rest, line, <<>>, q, J)
  BY <1>1, <1>2, StreamTail
<1>8. PICK c \in Channel : \/ h = ConnectTo(chan[c].service, c) /\ chan[c].service \in Service \cup {0}
                           \/ h = DisconnectOf(c)
  BY <1>3, <1>5 DEF Message
<1>9. CASE h = ConnectTo(chan[c].service, c) /\ chan[c].service \in Service \cup {0}
  <2>1. PICK s \in Service \cup {0} : s = chan[c].service
    BY <1>9
  <2>2. msg = <<connect, s, c>>
    BY <1>3, <1>9, <2>1, MessageFacts
  <2>3. msg[1] = connect /\ msg[2] = s /\ msg[3] = c /\ connect # disconnect
    BY <2>2, MessageFacts
  <2> QED BY <1>1, <1>3, <1>4, <1>5, <1>6, <1>7, <1>9, <2>1, <2>3
<1>10. CASE h = DisconnectOf(c)
  <2>1. 0 \in Service \cup {0}
    OBVIOUS
  <2>2. msg = <<disconnect, c>>
    BY <1>3, <1>10, <2>1, MessageFacts
  <2>3. msg[1] = disconnect /\ msg[2] = c /\ connect # disconnect
    BY <2>1, <2>2, MessageFacts
  <2> QED BY <1>1, <1>3, <1>4, <1>5, <1>6, <1>7, <1>10, <2>3
<1> QED BY <1>8, <1>9, <1>10

(* A channel that is asked for is connected, or refused; it is answered.   *)
LEMMA ConnectFacts ==
  ASSUME NEW ps \in Seq(PacketSet), SerialInv(ps), Connect
  PROVE  \E qs \in Seq(PacketSet) : SerialInv(qs)'
<1>1. PICK s, c : s = msg[2] /\ c = msg[3]
  OBVIOUS
<1>2. msg # <<>> /\ serial.in_channel = 0 /\ msg[1] = connect /\ msg' = <<>>
  BY DEF Connect, Control
<1>3. PICK qs, h : qs = Tail(ps) /\ h = Head(ps)
  OBVIOUS
<1>4. /\ qs \in Seq(PacketSet) /\ ControlInv(qs, chan)
      /\ \A J : StreamOK(serial, rest, line, <<>>, qs, J)
      /\ \A d \in Channel : /\ Asking(ps, d) <=> Asks(h, d) \/ Asking(qs, d)
                            /\ ~ (Asks(h, d) /\ Asking(qs, d))
                            /\ Leaving(ps, d) <=> h = DisconnectOf(d) \/ Leaving(qs, d)
                            /\ Data(qs, d) = Data(ps, d)
  BY <1>2, <1>3, ControlFacts
<1>5. c \in Channel /\ s \in Service \cup {0} /\ chan[c].service = s /\ h = ConnectTo(s, c)
  <2>1. \E e \in Channel : /\ Head(ps) = ConnectTo(chan[e].service, e)
                           /\ chan[e].service \in Service \cup {0}
                           /\ msg[2] = chan[e].service /\ msg[3] = e
    BY <1>2, ControlFacts
  <2> QED BY <1>1, <1>3, <2>1
<1>6. /\ Asks(h, c) /\ \A d \in Channel : (Asks(h, d) => d = c) /\ h # DisconnectOf(d)
  <2>1. Asks(h, c)
    BY <1>5, MessageFacts
  <2> QED BY <1>5, <2>1, AsksFacts
<1>7. /\ Asking(ps, c) /\ ~ Asking(qs, c)
      /\ \A d \in Channel : /\ Leaving(qs, d) <=> Leaving(ps, d)
                            /\ d # c => (Asking(qs, d) <=> Asking(ps, d))
  BY <1>4, <1>5, <1>6
<1>8. /\ chan[c].state = "asked" /\ ~ InSet(clients, c) /\ ~ Leaving(ps, c)
      /\ ~ Holds(said, Token("ok", c)) /\ ~ Holds(said, Token("ko", c))
      /\ ~ Holds(said, Token("disconnect", c))
  <2>1. ChannelInv(chan, clients, said, ps, c)
    BY <1>5 DEF SerialInv
  <2> QED BY <1>7, <2>1 DEF ChannelInv, ChannelOK
<1>9. Typed
  BY DEF SerialInv
<1>10. num_clients \in [Service -> Nat]
  BY <1>9 DEF Typed
<1>11. ClientsOK(clients, chan) /\ Counted(clients, num_clients) /\ OutInv(half, said)
  BY DEF SerialInv
<1>12. said \in Seq(Tokens)
  BY <1>11 DEF OutInv
<1>13. UNCHANGED <<chan, up, line, rest, serial, frames, delivered>>
  BY DEF Connect, daemon
<1>14. ASSUME NEW k \in {"ok", "ko"}, qemud_serial_send(0, <<Token(k, c)>>)
       PROVE  /\ OutInv(half', said')
              /\ \A l \in {"ok", "ko", "disconnect"}, d \in Channel :
                   Holds(said', Token(l, d)) <=> Holds(said, Token(l, d)) \/ (l = k /\ d = c)
  <2>1. PICK body : body = <<Token(k, c)>>
    OBVIOUS
  <2>2. said' = said \o Packets(0, body) /\ half' = charpipehalf_write(half, Packets(0, body))
    BY <1>14, <2>1, Zenon DEF qemud_serial_send
  <2>3. Token(k, c) \in Tokens
    BY <1>5, TokenFacts
  <2>4. body \in Seq(Tokens) /\ 0 \in 0..MaxChannel
    BY <2>1, <2>3, ChannelFacts
  <2>5. OutInv(half', said')
    BY <1>11, <2>2, <2>4, Sends
  <2>6. ASSUME NEW l \in {"ok", "ko", "disconnect"}, NEW d \in Channel
        PROVE  Holds(said', Token(l, d)) <=> Holds(said, Token(l, d)) \/ (l = k /\ d = c)
    <3>1. Answered(said, k, c, l, d)
      BY <1>5, <1>12, Answers
    <3> QED BY <2>1, <2>2, <3>1, Zenon DEF Answered
  <2> QED BY <2>5, <2>6
<1>15. CASE s \notin Service \/ Full(s)
  <2>1. qemud_serial_send(0, <<Token("ko", c)>>) /\ UNCHANGED <<clients, num_clients>>
    BY <1>1, <1>15 DEF Connect
  <2>2. /\ OutInv(half', said')
        /\ \A l \in {"ok", "ko", "disconnect"}, d \in Channel :
             Holds(said', Token(l, d)) <=> Holds(said, Token(l, d)) \/ (l = "ko" /\ d = c)
    BY <1>14, <2>1
  <2>3. ASSUME NEW d \in Channel PROVE ChannelInv(chan, clients, said', qs, d)
    <3>1. ChannelInv(chan, clients, said, ps, d)
      BY DEF SerialInv
    <3>2. Holds(said', Token("ok", d)) <=> Holds(said, Token("ok", d))
      BY <2>2
    <3>3. Holds(said', Token("ko", d)) <=> Holds(said, Token("ko", d)) \/ d = c
      BY <2>2
    <3>4. Holds(said', Token("disconnect", d)) <=> Holds(said, Token("disconnect", d))
      BY <2>2
    <3>5. CASE d = c
      BY <1>7, <1>8, <3>2, <3>3, <3>4, <3>5 DEF ChannelInv, ChannelOK
    <3>6. CASE d # c
      BY <1>7, <3>1, <3>2, <3>3, <3>4, <3>6 DEF ChannelInv, ChannelOK
    <3> QED BY <3>5, <3>6
  <2>4. ASSUME NEW d \in Channel PROVE FramesInv(chan, clients, qs, up, frames, delivered, d)
    <3>1. FramesInv(chan, clients, ps, up, frames, delivered, d) /\ Data(qs, d) = Data(ps, d)
      BY <1>4 DEF SerialInv
    <3> QED BY <3>1 DEF FramesInv
  <2>5. Typed'
    BY <1>2, <1>9, <1>13, <2>1 DEF Typed
  <2>6. SerialInv(qs)'
    BY <1>2, <1>4, <1>11, <1>13, <2>1, <2>2, <2>3, <2>4, <2>5 DEF SerialInv
  <2> QED BY <1>4, <2>6
<1>16. CASE s \in Service /\ ~ Full(s)
  <2>1. /\ qemud_serial_send(0, <<Token("ok", c)>>)
        /\ clients' = clients \cup {NewClient(c, s)}
        /\ num_clients' = [num_clients EXCEPT ![s] = @ + 1]
    BY <1>1, <1>16 DEF Connect, AddClient
  <2>2. /\ OutInv(half', said')
        /\ \A l \in {"ok", "ko", "disconnect"}, d \in Channel :
             Holds(said', Token(l, d)) <=> Holds(said, Token(l, d)) \/ (l = "ok" /\ d = c)
    BY <1>14, <2>1
  <2>3. Added(clients, num_clients, c, s)
    BY <1>8, <1>16 DEF Added, Full
  <2>4. ClientsOK(clients', chan) /\ num_clients' \in [Service -> Nat] /\ Counted(clients', num_clients')
    BY <1>5, <1>10, <1>11, <1>16, <2>1, <2>3, AddFacts
  <2>5. PICK k : k = NewClient(c, s)
    OBVIOUS
  <2>6. k.channel = c /\ k.need_header /\ k.header = <<>>
    BY <2>5 DEF NewClient
  <2>7. InSet(clients', c) /\ TheClient(clients', c) = k
    <3>1. k \in clients'
      BY <2>1, <2>5
    <3> QED BY <2>4, <2>6, <3>1, TheClientIs
  <2>8. ASSUME NEW d \in Channel PROVE ChannelInv(chan, clients', said', qs, d)
    <3>1. ChannelInv(chan, clients, said, ps, d)
      BY DEF SerialInv
    <3>2. Holds(said', Token("ok", d)) <=> Holds(said, Token("ok", d)) \/ d = c
      BY <2>2
    <3>3. Holds(said', Token("ko", d)) <=> Holds(said, Token("ko", d))
      BY <2>2
    <3>4. Holds(said', Token("disconnect", d)) <=> Holds(said, Token("disconnect", d))
      BY <2>2
    <3>5. CASE d = c
      BY <1>7, <1>8, <2>7, <3>2, <3>3, <3>4, <3>5 DEF ChannelInv, ChannelOK
    <3>6. CASE d # c
      <4>1. InSet(clients', d) <=> InSet(clients, d)
        BY <2>1, <2>5, <2>6, <3>6 DEF InSet
      <4> QED BY <1>7, <3>1, <3>2, <3>3, <3>4, <3>6, <4>1 DEF ChannelInv, ChannelOK
    <3> QED BY <3>5, <3>6
  <2>9. ASSUME NEW d \in Channel PROVE FramesInv(chan, clients', qs, up, frames, delivered, d)
    <3>1. FramesInv(chan, clients, ps, up, frames, delivered, d) /\ Data(qs, d) = Data(ps, d)
      BY <1>4 DEF SerialInv
    <3>2. CASE d = c
      <4>1. frames[c] = <<>> /\ delivered[c] = <<>> /\ up[c] = <<>> /\ Data(qs, c) = <<>>
        BY <1>8, <3>1, <3>2 DEF FramesInv, EarlyOK
      <4>2. Partial(TheClient(clients', c)) = <<>>
        BY <2>6, <2>7 DEF Partial
      <4>3. <<>> \o <<>> = <<>>
        OBVIOUS
      <4>4. FramesOK(chan[c].service \in Framed, <<>>, <<>>, InSet(clients', c),
                     Partial(TheClient(clients', c)), Data(qs, c) \o up[c])
        BY <4>1, <4>2, <4>3, FramesNone
      <4> QED BY <3>2, <4>1, <4>4 DEF FramesInv, EarlyOK
    <3>3. CASE d # c
      <4>1. \A j \in clients' : j.channel = d => j \in clients
        BY <2>1, <2>5, <2>6, <3>3
      <4>2. InSet(clients', d) => InSet(clients, d) /\ TheClient(clients', d) = TheClient(clients, d)
        BY <1>11, <2>4, <4>1, SameClient
      <4>3. EarlyOK(chan[d].state, frames[d], delivered[d], up[d], Data(qs, d))
        BY <3>1 DEF FramesInv
      <4>4. InSet(clients', d) => Data(qs, d) \o up[d] = Data(ps, d) \o up[d]
        BY <3>1, Zenon
      <4> QED BY <3>1, <4>2, <4>3, <4>4, FramesStay
    <3> QED BY <3>2, <3>3
  <2>10. Typed'
    BY <1>2, <1>9, <1>13, <2>4 DEF Typed
  <2>11. SerialInv(qs)'
    BY <1>2, <1>4, <1>13, <2>2, <2>4, <2>8, <2>9, <2>10 DEF SerialInv
  <2> QED BY <1>4, <2>11
<1> QED BY <1>5, <1>15, <1>16

(* A client leaves; the service may have closed it before.                 *)
LEMMA DisconnectFacts ==
  ASSUME NEW ps \in Seq(PacketSet), SerialInv(ps), Disconnect
  PROVE  \E qs \in Seq(PacketSet) : SerialInv(qs)'
<1>1. PICK c : c = msg[2]
  OBVIOUS
<1>2. msg # <<>> /\ serial.in_channel = 0 /\ msg[1] = disconnect /\ msg' = <<>>
  BY DEF Disconnect, Control
<1>3. PICK qs, h : qs = Tail(ps) /\ h = Head(ps)
  OBVIOUS
<1>4. /\ qs \in Seq(PacketSet) /\ ControlInv(qs, chan)
      /\ \A J : StreamOK(serial, rest, line, <<>>, qs, J)
      /\ \A d \in Channel : /\ Asking(ps, d) <=> Asks(h, d) \/ Asking(qs, d)
                            /\ Leaving(ps, d) <=> h = DisconnectOf(d) \/ Leaving(qs, d)
                            /\ Data(qs, d) = Data(ps, d)
  BY <1>2, <1>3, ControlFacts
<1>5. c \in Channel /\ h = DisconnectOf(c)
  <2>1. \E e \in Channel : Head(ps) = DisconnectOf(e) /\ msg[2] = e
    BY <1>2, ControlFacts
  <2> QED BY <1>1, <1>3, <2>1
<1>6. \A d \in Channel : ~ Asks(h, d) /\ (h = DisconnectOf(d) => d = c)
  <2>1. 0 \in Service \cup {0}
    OBVIOUS
  <2>2. \A d \in Channel : h = DisconnectOf(d) => d = c
    BY <1>5, <2>1, MessagesDiffer
  <2>3. \A d \in Channel : ~ Asks(h, d)
    BY <1>5, AsksFacts
  <2> QED BY <2>2, <2>3
<1>7. \A d \in Channel : /\ Asking(qs, d) <=> Asking(ps, d)
                         /\ d # c => (Leaving(qs, d) <=> Leaving(ps, d))
                         /\ Leaving(qs, d) => Leaving(ps, d)
  BY <1>4, <1>6
<1>8. Leaving(ps, c)
  BY <1>4, <1>5
<1>9. Typed
  BY DEF SerialInv
<1>10. num_clients \in [Service -> Nat]
  BY <1>9 DEF Typed
<1>11. ClientsOK(clients, chan) /\ Counted(clients, num_clients) /\ OutInv(half, said)
  BY DEF SerialInv
<1>12. UNCHANGED <<chan, up, line, rest, serial, half, said, frames, delivered>>
  BY DEF Disconnect, daemon, out
<1>13. /\ ClientsOK(clients', chan) /\ ~ InSet(clients', c) /\ num_clients' \in [Service -> Nat]
       /\ Counted(clients', num_clients') /\ clients' \subseteq clients
       /\ \A k \in clients : k.channel # c => k \in clients'
  <2>1. CASE Connected(c)
    <3>1. PICK k : k = TheClient(clients, c)
      OBVIOUS
    <3>2. k \in clients /\ k.channel = c
      BY <2>1, <3>1, TheClientIn DEF Connected, InSet
    <3>3. clients' = clients \ {k} /\ num_clients' = [num_clients EXCEPT ![k.service] = @ - 1]
      BY <1>1, <2>1, <3>1 DEF Disconnect, RemoveClient, qemud_service_remove_client, ClientOf, TheClient
    <3> QED BY <1>10, <1>11, <3>2, <3>3, RemoveFacts
  <2>2. CASE ~ Connected(c)
    <3>1. UNCHANGED <<clients, num_clients>>
      BY <1>1, <2>2 DEF Disconnect
    <3> QED BY <1>10, <1>11, <2>2, <3>1 DEF Connected, InSet
  <2> QED BY <2>1, <2>2
<1>14. ASSUME NEW d \in Channel PROVE ChannelInv(chan, clients', said, qs, d)
  <2>1. ChannelInv(chan, clients, said, ps, d)
    BY DEF SerialInv
  <2>2. CASE d = c
    BY <1>7, <1>8, <1>13, <2>1, <2>2 DEF ChannelInv, ChannelOK
  <2>3. CASE d # c
    <3>1. InSet(clients', d) <=> InSet(clients, d)
      BY <1>13, <2>3 DEF InSet
    <3> QED BY <1>7, <2>1, <2>3, <3>1 DEF ChannelInv, ChannelOK
  <2> QED BY <2>2, <2>3
<1>15. ASSUME NEW d \in Channel PROVE FramesInv(chan, clients', qs, up, frames, delivered, d)
  <2>1. FramesInv(chan, clients, ps, up, frames, delivered, d) /\ Data(qs, d) = Data(ps, d)
    BY <1>4 DEF SerialInv
  <2>2. InSet(clients', d) => InSet(clients, d) /\ TheClient(clients', d) = TheClient(clients, d)
    BY <1>11, <1>13, SameClient
  <2>3. EarlyOK(chan[d].state, frames[d], delivered[d], up[d], Data(qs, d))
    BY <2>1 DEF FramesInv
  <2>4. InSet(clients', d) => Data(qs, d) \o up[d] = Data(ps, d) \o up[d]
    BY <2>1, Zenon
  <2> QED BY <2>1, <2>2, <2>3, <2>4, FramesStay
<1>16. Typed'
  BY <1>2, <1>9, <1>12, <1>13 DEF Typed
<1>17. SerialInv(qs)'
  BY <1>2, <1>4, <1>11, <1>12, <1>13, <1>14, <1>15, <1>16 DEF SerialInv
<1> QED BY <1>4, <1>17

-----------------------------------------------------------------------------
(* A message is for a client, which takes m of its bytes.                  *)
Receiving(ps, k, m, d) ==
  /\ ps # <<>> /\ Head(ps).channel = k.channel /\ Head(ps).payload = msg
  /\ k.channel \in Channel /\ k.channel = serial.in_channel
  /\ k \in clients /\ k \in Client /\ ClientShape(k)
  /\ k.framing = (chan[k.channel].service \in Framed)
  /\ Upto(msg, m) \in Seq(Byte) /\ Len(Upto(msg, m)) = m /\ After(msg, m) \in Seq(Byte)
  /\ d = Data(Remaining(ps, m), k.channel) \o up[k.channel] /\ d \in Seq(Byte)
  /\ FramesOK(k.framing, frames[k.channel], delivered[k.channel], TRUE, Partial(k), Upto(msg, m) \o d)

(* It is the first packet, and these are the bytes of its frames.          *)
LEMMA ReceivingFacts ==
  ASSUME NEW ps \in Seq(PacketSet), SerialInv(ps), msg # <<>>, serial.in_channel # 0,
         NEW k, k = ClientOf(serial.in_channel), NEW m \in 1..Len(msg)
  PROVE  \E d : Receiving(ps, k, m, d)
<1>1. PICK c, h : c = serial.in_channel /\ h = Head(ps)
  OBVIOUS
<1>2. ps # <<>> /\ h.channel = c /\ h.payload = msg /\ InSet(clients, c)
  BY <1>1 DEF SerialInv, StreamOK
<1>3. h \in PacketSet
  BY <1>1, <1>2, PacketsSplit
<1>4. c \in 0..MaxChannel /\ msg \in Seq(Byte) /\ Len(msg) \in Nat
  BY <1>2, <1>3, OnePacket
<1>5. c \in Channel /\ c # 0
  BY <1>1, <1>4, ChannelFacts
<1>6. k \in clients /\ k.channel = c
  BY <1>1, <1>2, TheClientIn DEF ClientOf, TheClient
<1>7. ClientsOK(clients, chan)
  BY DEF SerialInv
<1>8. k \in Client /\ ClientShape(k) /\ k.framing = (chan[c].service \in Framed)
  BY <1>5, <1>6, <1>7 DEF ClientsOK, Belongs
<1>9. TheClient(clients, c) = k
  BY <1>6, <1>7, TheClientIs
<1>10. m \in 0..Len(msg)
  BY <1>4
<1>11. PICK a, b : a = Upto(msg, m) /\ b = After(msg, m)
  OBVIOUS
<1>12. a \in Seq(Byte) /\ Len(a) = m /\ b \in Seq(Byte)
  <2>1. Divided(Byte, msg, m)
    BY <1>4, <1>10, Divides
  <2> QED BY <1>11, <2>1, Zenon DEF Divided
<1>13. PICK x, u : x = Data(Remaining(ps, m), c) /\ u = up[c]
  OBVIOUS
<1>14. Data(ps, c) = a \o x /\ x \in Seq(Byte)
  <2>1. ControlInv(ps, chan) /\ h.channel # 0 /\ m \in 1..Len(h.payload)
    BY <1>2, <1>5 DEF SerialInv
  <2>2. /\ Data(Remaining(ps, m), c) \in Seq(Byte)
        /\ c = Head(ps).channel =>
             Data(ps, c) = Upto(Head(ps).payload, m) \o Data(Remaining(ps, m), c)
    BY <1>1, <1>2, <1>5, <2>1, RemainingFacts
  <2> QED BY <1>1, <1>2, <1>11, <1>13, <2>2, Zenon
<1>15. u \in Seq(Byte)
  BY <1>5, <1>13 DEF SerialInv, Typed
<1>16. Three(a, x, u) /\ Joined(Byte, x, u)
  BY <1>12, <1>14, <1>15, Threes, Joins
<1>17. PICK d : d = x \o u
  OBVIOUS
<1>18. d \in Seq(Byte) /\ Data(ps, c) \o up[c] = a \o d
  BY <1>13, <1>14, <1>16, <1>17, Zenon DEF Three, Joined
<1>19. FramesOK(k.framing, frames[c], delivered[c], TRUE, Partial(k), a \o d)
  <2>1. FramesInv(chan, clients, ps, up, frames, delivered, c)
    BY <1>5 DEF SerialInv
  <2>2. FramesOK(chan[c].service \in Framed, frames[c], delivered[c], InSet(clients, c),
                 Partial(TheClient(clients, c)), Data(ps, c) \o up[c])
    BY <2>1 DEF FramesInv
  <2>3. PICK framed, K : framed = (chan[c].service \in Framed) /\ K = InSet(clients, c)
    OBVIOUS
  <2>4. FramesOK(framed, frames[c], delivered[c], K, Partial(k), a \o d)
    BY <1>9, <1>18, <2>2, <2>3, Zenon
  <2>5. FramesOK(k.framing, frames[c], delivered[c], TRUE, Partial(k), a \o d)
    <3>1. TRUE => K /\ Partial(k) \o (a \o d) = Partial(k) \o (a \o d) /\ (~ framed => a \o d = a \o d)
      BY <1>2, <2>3
    <3>2. FramesOK(framed, frames[c], delivered[c], TRUE, Partial(k), a \o d)
      BY <2>4, <3>1, FramesKept
    <3> QED BY <1>8, <2>3, <3>2, Zenon
  <2> QED BY <2>5
<1>20. d = Data(Remaining(ps, m), k.channel) \o up[k.channel]
  BY <1>6, <1>13, <1>17, Zenon
<1>21. FramesOK(k.framing, frames[k.channel], delivered[k.channel], TRUE, Partial(k), Upto(msg, m) \o d)
  BY <1>6, <1>11, <1>19, Zenon
<1>22. /\ ps # <<>> /\ Head(ps).channel = k.channel /\ Head(ps).payload = msg
       /\ k.channel \in Channel /\ k.channel = serial.in_channel
       /\ k.framing = (chan[k.channel].service \in Framed)
  BY <1>1, <1>2, <1>5, <1>6, <1>8
<1>23. Receiving(ps, k, m, d)
  BY <1>6, <1>8, <1>11, <1>12, <1>18, <1>20, <1>21, <1>22, Zenon DEF Receiving
<1> QED BY <1>23

(* Then the rest of the message waits. *)
LEMMA ReceivedFacts ==
  ASSUME NEW ps \in Seq(PacketSet), SerialInv(ps), NEW k, NEW m \in 1..Len(msg), NEW d,
         msg # <<>>, serial.in_channel # 0, Receiving(ps, k, m, d),
         msg' = After(msg, m), DOMAIN delivered' = Channel,
         \A c \in Channel : c # k.channel => delivered'[c] = delivered[c],
         UNCHANGED <<chan, up, line, rest, serial, num_clients, half, said, frames>>,
         ClientsOK(clients', chan), Counted(clients', num_clients),
         \A c : InSet(clients', c) <=> InSet(clients, c),
         \A j \in clients' : j.channel # k.channel => j \in clients,
         NEW part, part = Partial(TheClient(clients', k.channel)),
         FramesOK(k.framing, frames[k.channel], delivered'[k.channel], TRUE, part, d)
  PROVE  \E qs \in Seq(PacketSet) : SerialInv(qs)'
<1>1. PICK c, h, qs : c = k.channel /\ h = Head(ps) /\ qs = Remaining(ps, m)
  OBVIOUS
<1>2. /\ ps # <<>> /\ h.channel = c /\ h.payload = msg /\ c \in Channel /\ c = serial.in_channel
      /\ k \in clients /\ k.framing = (chan[c].service \in Framed)
      /\ Upto(msg, m) \in Seq(Byte) /\ Len(Upto(msg, m)) = m /\ msg' \in Seq(Byte)
      /\ d = Data(qs, c) \o up[c]
  BY <1>1, Zenon DEF Receiving
<1>3. Typed
  BY DEF SerialInv
<1>4. Typed'
  BY <1>2, <1>3 DEF Typed
<1>5. InSet(clients, c) /\ InSet(clients', c)
  BY <1>1, <1>2 DEF InSet
<1>6. m \in 1..Len(Head(ps).payload) /\ Head(ps).channel # 0
  BY <1>1, <1>2
<1>7. StreamOK(serial, rest, line, msg', qs, clients')
  <2>1. StreamOK(serial, rest, line, Head(ps).payload, ps, clients)
    BY <1>1, <1>2, Zenon DEF SerialInv
  <2>2. Head(ps).payload # <<>> /\ msg' = After(Head(ps).payload, m)
    BY <1>1, <1>2
  <2>3. InSet(clients', serial.in_channel)
    BY <1>2, <1>5
  <2> QED BY <1>1, <1>6, <2>1, <2>2, <2>3, StreamRemaining
<1>8. StreamOK(serial, rest, line, msg, qs, clients)'
  BY <1>7
<1>9. /\ qs \in Seq(PacketSet) /\ ControlInv(qs, chan)
      /\ \A e \in Channel : /\ Asking(qs, e) <=> Asking(ps, e)
                            /\ Leaving(qs, e) <=> Leaving(ps, e)
                            /\ e # c => Data(qs, e) = Data(ps, e)
  <2>1. ControlInv(ps, chan)
    BY DEF SerialInv
  <2> QED BY <1>1, <1>2, <1>6, <2>1, RemainingFacts
<1>10. ASSUME NEW e \in Channel PROVE ChannelInv(chan, clients', said, qs, e)
  BY <1>9 DEF SerialInv, ChannelInv, ChannelOK
<1>11. chan[c].state \notin {"new", "asked"}
  <2>1. PICK a, x : a = Upto(msg, m) /\ x = Data(qs, c)
    OBVIOUS
  <2>2. Data(ps, c) = a \o x /\ x \in Seq(Byte)
    <3>1. ControlInv(ps, chan)
      BY DEF SerialInv
    <3>2. /\ Data(Remaining(ps, m), c) \in Seq(Byte)
          /\ c = Head(ps).channel =>
               Data(ps, c) = Upto(Head(ps).payload, m) \o Data(Remaining(ps, m), c)
      BY <1>2, <1>6, <3>1, RemainingFacts
    <3> QED BY <1>1, <1>2, <2>1, <3>2, Zenon
  <2>3. Joined(Byte, a, x)
    BY <1>2, <2>1, <2>2, Joins
  <2>4. PICK s : s = Data(ps, c)
    OBVIOUS
  <2>5. Len(s) = Len(a) + Len(x) /\ Len(a) \in Nat /\ Len(x) \in Nat /\ Len(a) = m
    BY <1>2, <2>1, <2>2, <2>3, <2>4, Zenon DEF Joined
  <2>6. m >= 1
    OBVIOUS
  <2>7. s # <<>>
    BY <2>5, <2>6
  <2>8. FramesInv(chan, clients, ps, up, frames, delivered, c)
    BY <1>2 DEF SerialInv
  <2> QED BY <2>4, <2>7, <2>8 DEF FramesInv, EarlyOK
<1>12. ASSUME NEW e \in Channel PROVE FramesInv(chan, clients', qs, up, frames, delivered', e)
  <2>1. FramesInv(chan, clients, ps, up, frames, delivered, e) /\ ClientsOK(clients, chan)
    BY DEF SerialInv
  <2>2. CASE e = c
    <3>1. EarlyOK(chan[c].state, frames[c], delivered'[c], up[c], Data(qs, c))
      BY <1>11, <2>1, <2>2 DEF FramesInv, EarlyOK
    <3>2. PICK framed, K : framed = (chan[c].service \in Framed) /\ K = InSet(clients', c)
      OBVIOUS
    <3>3. FramesOK(framed, frames[c], delivered'[c], TRUE, part, d)
      BY <1>1, <1>2, <3>2, Zenon
    <3>4. FramesOK(framed, frames[c], delivered'[c], K, part, d)
      <4>1. PICK fr, de : fr = frames[c] /\ de = delivered'[c]
        OBVIOUS
      <4>2. FramesOK(framed, fr, de, TRUE, part, d)
        BY <3>3, <4>1, Zenon
      <4>3. FramesOK(framed, fr, de, K, part, d)
        BY <4>2, FramesStill
      <4> QED BY <4>1, <4>3, Zenon
    <3>5. part = Partial(TheClient(clients', c))
      BY <1>1
    <3> QED BY <1>2, <2>2, <3>1, <3>2, <3>4, <3>5, Zenon DEF FramesInv
  <2>3. CASE e # c
    <3>1. delivered'[e] = delivered[e] /\ Data(qs, e) = Data(ps, e)
      BY <1>1, <1>9, <2>3
    <3>2. InSet(clients', e) => InSet(clients, e) /\ TheClient(clients', e) = TheClient(clients, e)
      BY <1>1, <2>1, <2>3, SameClient
    <3>3. EarlyOK(chan[e].state, frames[e], delivered[e], up[e], Data(qs, e))
      BY <2>1, <3>1 DEF FramesInv
    <3>4. Data(qs, e) \o up[e] = Data(ps, e) \o up[e]
      BY <3>1, Zenon
    <3> QED BY <2>1, <3>1, <3>2, <3>3, <3>4, FramesStay
  <2> QED BY <2>2, <2>3
<1>13. SerialInv(qs)'
  BY <1>4, <1>8, <1>9, <1>10, <1>12 DEF SerialInv
<1> QED BY <1>9, <1>13

(* A client without frames.                                                *)
LEMMA ClientRecvFacts ==
  ASSUME NEW ps \in Seq(PacketSet), SerialInv(ps), ClientRecv
  PROVE  \E qs \in Seq(PacketSet) : SerialInv(qs)'
<1>1. PICK k, m : k = ClientOf(serial.in_channel) /\ m = Len(msg)
  OBVIOUS
<1>2. /\ msg # <<>> /\ serial.in_channel # 0 /\ k.framing = FALSE
      /\ delivered' = [delivered EXCEPT ![serial.in_channel] = @ \o msg] /\ msg' = <<>>
      /\ UNCHANGED <<chan, up, line, rest, serial, clients, num_clients, half, said, frames>>
  BY <1>1 DEF ClientRecv, ToClient, Receives, daemon, out
<1>3. msg \in Seq(Byte) /\ DOMAIN delivered = Channel
  BY DEF SerialInv, Typed
<1>4. m \in 1..Len(msg)
  BY <1>1, <1>2, <1>3
<1>5. PICK d : Receiving(ps, k, m, d)
  BY <1>1, <1>2, <1>4, ReceivingFacts
<1>6. Upto(msg, m) = msg /\ After(msg, m) = <<>>
  BY <1>1, <1>3, WholeFacts
<1>7. /\ k.channel = serial.in_channel /\ k.channel \in Channel /\ k \in clients /\ d \in Seq(Byte)
      /\ FramesOK(FALSE, frames[k.channel], delivered[k.channel], TRUE, Partial(k), msg \o d)
  BY <1>2, <1>5, <1>6, Zenon DEF Receiving
<1>8. PICK g : g = delivered[k.channel] \o msg
  OBVIOUS
<1>9. delivered' = [delivered EXCEPT ![k.channel] = g]
  BY <1>2, <1>7, <1>8, Zenon
<1>10. /\ DOMAIN delivered' = Channel /\ delivered'[k.channel] = g
       /\ \A c \in Channel : c # k.channel => delivered'[c] = delivered[c]
  BY <1>3, <1>7, <1>9
<1>11. FramesOK(FALSE, frames[k.channel], g, TRUE, Partial(k), d)
  <2>1. PICK fr, de : fr = frames[k.channel] /\ de = delivered[k.channel]
    OBVIOUS
  <2>2. FramesOK(FALSE, fr, de, TRUE, Partial(k), msg \o d)
    BY <1>7, <2>1, Zenon
  <2>3. FramesOK(FALSE, fr, de \o msg, TRUE, Partial(k), d)
    BY <1>3, <1>7, <2>2, FramesRaw
  <2> QED BY <1>8, <2>1, <2>3, Zenon
<1>12. ClientsOK(clients, chan) /\ Counted(clients, num_clients)
  BY DEF SerialInv
<1>13. TheClient(clients, k.channel) = k
  BY <1>7, <1>12, TheClientIs
<1>14. FramesOK(k.framing, frames[k.channel], delivered'[k.channel], TRUE, Partial(k), d)
  BY <1>2, <1>10, <1>11, Zenon
<1>15. /\ ClientsOK(clients', chan) /\ Counted(clients', num_clients)
       /\ \A c : InSet(clients', c) <=> InSet(clients, c)
       /\ \A j \in clients' : j.channel # k.channel => j \in clients
       /\ TheClient(clients', k.channel) = k /\ msg' = After(msg, m)
  BY <1>2, <1>6, <1>12, <1>13
<1>16. Partial(k) = Partial(TheClient(clients', k.channel))
  BY <1>15
<1> QED BY <1>2, <1>4, <1>5, <1>10, <1>14, <1>15, <1>16, ReceivedFacts

(* A client goes on with a frame. *)
LEMMA GoesOn ==
  ASSUME NEW ps \in Seq(PacketSet), SerialInv(ps), NEW k, NEW m \in 1..Len(msg), NEW d,
         msg # <<>>, serial.in_channel # 0, Receiving(ps, k, m, d), msg' = After(msg, m),
         NEW j \in Client, ClientShape(j), Same(j, k), clients' = (clients \ {k}) \cup {j},
         UNCHANGED <<chan, up, line, rest, serial, num_clients, half, said, frames>>,
         DOMAIN delivered' = Channel,
         \A c \in Channel : c # k.channel => delivered'[c] = delivered[c],
         FramesOK(k.framing, frames[k.channel], delivered'[k.channel], TRUE, Partial(j), d)
  PROVE  \E qs \in Seq(PacketSet) : SerialInv(qs)'
<1>1. k \in clients /\ k.channel \in Channel
  BY Zenon DEF Receiving
<1>2. ClientsOK(clients, chan) /\ Counted(clients, num_clients)
  BY DEF SerialInv
<1>3. /\ ClientsOK(clients', chan) /\ Counted(clients', num_clients)
      /\ \A c : InSet(clients', c) <=> InSet(clients, c)
      /\ j \in clients'
  BY <1>1, <1>2, BecomesFacts
<1>4. j.channel = k.channel
  BY DEF Same
<1>5. \A i \in clients' : i.channel # k.channel => i \in clients
  BY <1>4
<1>6. TheClient(clients', k.channel) = j
  BY <1>3, <1>4, TheClientIs
<1>7. Partial(j) = Partial(TheClient(clients', k.channel))
  BY <1>6
<1> QED BY <1>3, <1>5, <1>7, ReceivedFacts

(* A client takes a header, or a part of it.                               *)
LEMMA FramedRecvFacts ==
  ASSUME NEW ps \in Seq(PacketSet), SerialInv(ps), FramedRecv
  PROVE  \E qs \in Seq(PacketSet) : SerialInv(qs)'
<1>1. PICK k, m, x, h, j :
        /\ k = ClientOf(serial.in_channel) /\ m = Least(Len(msg), 2 - Len(k.header))
        /\ x = Upto(msg, m) /\ h = k.header \o x
        /\ j = IF Len(h) < 2 THEN [k EXCEPT !.header = h]
               ELSE [k EXCEPT !.header = <<>>, !.need_header = FALSE, !.size = Value(h)]
  OBVIOUS
<1>2. /\ msg # <<>> /\ serial.in_channel # 0 /\ k.framing = TRUE /\ k.need_header
      /\ msg' = From(msg, Len(h) - Len(k.header)) /\ clients' = (clients \ {k}) \cup {j}
      /\ UNCHANGED <<chan, up, line, rest, serial, num_clients, half, said, frames, delivered>>
  BY <1>1 DEF FramedRecv, ToClient, Becomes, daemon, out, FRAME_HEADER_SIZE, First, Upto
<1>3. msg \in Seq(Byte) /\ DOMAIN delivered = Channel
  BY DEF SerialInv, Typed
<1>4. Len(msg) \in Nat /\ Len(msg) >= 1
  BY <1>2, <1>3
<1>5. k \in Client /\ ClientShape(k)
  <2>1. 1 \in 1..Len(msg)
    BY <1>4
  <2>2. PICK d : Receiving(ps, k, 1, d)
    BY <1>1, <1>2, <2>1, ReceivingFacts
  <2> QED BY <2>2, Zenon DEF Receiving
<1>6. /\ k.header \in Seq(Byte) /\ Len(k.header) \in Nat /\ Len(k.header) < 2 /\ k.payload = <<>>
      /\ k.channel \in Channel \cup Pipes /\ k.service \in Service
  <2>1. k.header \in Seq(Byte) /\ k.channel \in Channel \cup Pipes /\ k.service \in Service
    BY <1>5, ClientFields
  <2> QED BY <1>2, <1>5, <2>1 DEF ClientShape
<1>7. m \in 1..Len(msg) /\ Len(k.header) + m <= 2
  <2>1. PICK a, b : a = Len(msg) /\ b = Len(k.header)
    OBVIOUS
  <2>2. a \in Nat /\ a >= 1 /\ b \in Nat /\ b < 2
    BY <1>4, <1>6, <2>1
  <2>3. m = Least(a, 2 - b)
    BY <1>1, <2>1, Zenon
  <2>4. m \in 1..a /\ b + m <= 2
    BY <2>2, <2>3 DEF Least
  <2> QED BY <2>1, <2>4
<1>8. PICK d : Receiving(ps, k, m, d)
  BY <1>1, <1>2, <1>7, ReceivingFacts
<1>9. /\ x \in Seq(Byte) /\ Len(x) = m /\ d \in Seq(Byte)
      /\ FramesOK(TRUE, frames[k.channel], delivered[k.channel], TRUE, Partial(k), x \o d)
  BY <1>1, <1>2, <1>8, Zenon DEF Receiving
<1>10. Partial(k) = k.header
  BY <1>2 DEF Partial
<1>11. Joined(Byte, k.header, x) /\ Three(k.header, x, d)
  BY <1>6, <1>9, Joins, Threes
<1>12. h \in Seq(Byte) /\ Len(h) = Len(k.header) + m
  BY <1>1, <1>9, <1>11, Zenon DEF Joined
<1>13. msg' = After(msg, m)
  <2>1. Len(h) - Len(k.header) = m
    BY <1>6, <1>7, <1>12
  <2> QED BY <1>2, <2>1 DEF From, After
<1>14. PICK fr, de : fr = frames[k.channel] /\ de = delivered[k.channel]
  OBVIOUS
<1>15. FramesOK(TRUE, fr, de, TRUE, k.header, x \o d)
  BY <1>9, <1>10, <1>14, Zenon
<1>16. j \in Client /\ ClientShape(j) /\ Same(j, k) /\ FramesOK(TRUE, fr, de, TRUE, Partial(j), d)
  <2>1. CASE Len(h) < 2
    <3>1. j = [k EXCEPT !.header = h]
      BY <1>1, <2>1
    <3>2. j \in Client
      <4>1. PICK S : S = Seq(Nat) /\ S = Seq(Byte)
        BY Zenon DEF Byte
      <4>2. k \in [channel: Channel \cup Pipes, service: Service, framing: BOOLEAN,
                   need_header: BOOLEAN, header: S, payload: S, size: Sizes]
        BY <1>5, <4>1, Zenon DEF Client
      <4>3. j \in [channel: Channel \cup Pipes, service: Service, framing: BOOLEAN,
                   need_header: BOOLEAN, header: S, payload: S, size: Sizes]
        BY <1>12, <3>1, <4>1, <4>2
      <4> QED BY <4>1, <4>3, Zenon DEF Client
    <3>3. /\ j.header = h /\ j.need_header /\ j.payload = <<>> /\ j.framing = TRUE
          /\ j.channel = k.channel /\ j.service = k.service
      <4>1. k \in [channel: Channel \cup Pipes, service: Service, framing: BOOLEAN,
                   need_header: BOOLEAN, header: Seq(Nat), payload: Seq(Nat), size: Sizes]
        BY <1>5 DEF Client
      <4> QED BY <1>2, <1>6, <3>1, <4>1
    <3>4. ClientShape(j) /\ Same(j, k)
      BY <1>2, <2>1, <3>3 DEF ClientShape, Same
    <3>5. Partial(j) = h
      BY <3>3 DEF Partial
    <3>6. h \o d = k.header \o (x \o d)
      BY <1>1, <1>11, Zenon DEF Three
    <3>7. TRUE => TRUE /\ h \o d = k.header \o (x \o d) /\ (~ TRUE => d = x \o d)
      BY <3>6, Zenon
    <3>8. FramesOK(TRUE, fr, de, TRUE, h, d)
      BY <1>15, <3>7, FramesKept
    <3> QED BY <3>2, <3>4, <3>5, <3>8, Zenon
  <2>2. CASE ~ (Len(h) < 2)
    <3>1. Len(h) = 2
      BY <1>6, <1>7, <1>12, <2>2
    <3>2. Len(k.header \o x) = 2
      BY <1>1, <3>1
    <3>3. Value(h) \in 1..MaxWritten /\ FramesOK(TRUE, fr, de, TRUE, Digits(Value(h)) \o <<>>, d)
      <4>1. /\ Value(k.header \o x) \in 1..MaxWritten
            /\ FramesOK(TRUE, fr, de, TRUE, Digits(Value(k.header \o x)) \o <<>>, d)
        BY <1>6, <1>9, <1>15, <3>2, FramesHeader
      <4> QED BY <1>1, <4>1, Zenon
    <3>4. PICK v : v = Value(h)
      OBVIOUS
    <3>5. j = [k EXCEPT !.header = <<>>, !.need_header = FALSE, !.size = v]
      <4>1. j = [k EXCEPT !.header = <<>>, !.need_header = FALSE, !.size = Value(h)]
        BY <1>1, <2>2, Zenon
      <4> QED BY <3>4, <4>1, SMT
    <3>6. v \in Sizes /\ v \in Nat /\ v > 0
      <4>1. MaxWritten \in Nat /\ MaxWritten < 16
        BY SerialBoundAssumption DEF Base
      <4>2. v \in 1..MaxWritten
        BY <3>3, <3>4, Zenon
      <4> QED BY <4>1, <4>2 DEF Sizes, Base
    <3>7. j \in Client
      <4>1. PICK S : S = Seq(Nat) /\ S = Seq(Byte)
        BY Zenon DEF Byte
      <4>2. k \in [channel: Channel \cup Pipes, service: Service, framing: BOOLEAN,
                   need_header: BOOLEAN, header: S, payload: S, size: Sizes]
        BY <1>5, <4>1, Zenon DEF Client
      <4>3. <<>> \in S
        BY <4>1
      <4>4. j \in [channel: Channel \cup Pipes, service: Service, framing: BOOLEAN,
                   need_header: BOOLEAN, header: S, payload: S, size: Sizes]
        BY <3>5, <3>6, <4>2, <4>3
      <4> QED BY <4>1, <4>4, Zenon DEF Client
    <3>8. /\ j.header = <<>> /\ ~ j.need_header /\ j.payload = <<>> /\ j.framing = TRUE /\ j.size = v
          /\ j.channel = k.channel /\ j.service = k.service
      <4>1. PICK S : S = Seq(Nat) /\ S = Seq(Byte)
        BY Zenon DEF Byte
      <4>2. k \in [channel: Channel \cup Pipes, service: Service, framing: BOOLEAN,
                   need_header: BOOLEAN, header: S, payload: S, size: Sizes]
        BY <1>5, <4>1, Zenon DEF Client
      <4>3. /\ j.header = <<>> /\ j.need_header = FALSE /\ j.size = v /\ j.channel = k.channel
            /\ j.service = k.service /\ j.payload = k.payload /\ j.framing = k.framing
        BY <3>5, <4>2
      <4>4. ~ j.need_header /\ j.framing = TRUE
        BY <1>2, <4>3
      <4>5. j.payload = <<>>
        BY <1>6, <4>3, Zenon
      <4> QED BY <4>3, <4>4, <4>5, Zenon
    <3>9. ClientShape(j) /\ Same(j, k)
      <4>1. Len(j.header) < 2 /\ Len(j.payload) < j.size
        <5>1. Len(j.header) = 0 /\ Len(j.payload) = 0
          BY <3>8
        <5> QED BY <3>6, <3>8, <5>1
      <4>2. j.framing = k.framing
        BY <1>2, <3>8, Zenon
      <4> QED BY <3>8, <4>1, <4>2, Zenon DEF ClientShape, Same
    <3>10. Partial(j) = Digits(v) \o <<>>
      BY <3>8 DEF Partial
    <3> QED BY <3>3, <3>4, <3>7, <3>9, <3>10, Zenon
  <2> QED BY <2>1, <2>2
<1>17. delivered' = delivered
  BY <1>2
<1>18. FramesOK(k.framing, frames[k.channel], delivered'[k.channel], TRUE, Partial(j), d)
  BY <1>2, <1>14, <1>16, <1>17, Zenon
<1>19. DOMAIN delivered' = Channel /\ \A c \in Channel : c # k.channel => delivered'[c] = delivered[c]
  BY <1>3, <1>17
<1> QED BY <1>2, <1>7, <1>8, <1>13, <1>16, <1>18, <1>19, GoesOn

(* A client takes a payload, or a part of it.                              *)
LEMMA PayloadRecvFacts ==
  ASSUME NEW ps \in Seq(PacketSet), SerialInv(ps), PayloadRecv
  PROVE  \E qs \in Seq(PacketSet) : SerialInv(qs)'
<1>1. PICK k, m, x, p :
        /\ k = ClientOf(serial.in_channel) /\ m = Least(Len(msg), k.size - Len(k.payload))
        /\ x = Upto(msg, m) /\ p = k.payload \o x
  OBVIOUS
<1>2. /\ msg # <<>> /\ serial.in_channel # 0 /\ k.framing = TRUE /\ ~ k.need_header
      /\ msg' = From(msg, Len(x))
      /\ UNCHANGED <<chan, up, line, rest, serial, num_clients, half, said, frames>>
  BY <1>1 DEF PayloadRecv, ToClient, daemon, out, First, Upto
<1>3. IF Len(p) = k.size
      THEN /\ delivered' = [delivered EXCEPT ![serial.in_channel] = @ \o <<p>>]
           /\ clients' = (clients \ {k}) \cup {[k EXCEPT !.need_header = TRUE, !.size = 0, !.payload = <<>>]}
      ELSE /\ delivered' = delivered
           /\ clients' = (clients \ {k}) \cup {[k EXCEPT !.payload = p]}
  BY <1>1 DEF PayloadRecv, Becomes, Receives, Complete, First, Upto
<1>4. msg \in Seq(Byte) /\ DOMAIN delivered = Channel
  BY DEF SerialInv, Typed
<1>5. Len(msg) \in Nat /\ Len(msg) >= 1
  BY <1>2, <1>4
<1>6. k \in Client /\ ClientShape(k)
  <2>1. 1 \in 1..Len(msg)
    BY <1>5
  <2>2. PICK d : Receiving(ps, k, 1, d)
    BY <1>1, <1>2, <2>1, ReceivingFacts
  <2> QED BY <2>2, Zenon DEF Receiving
<1>7. /\ k.payload \in Seq(Byte) /\ Len(k.payload) \in Nat /\ k.size \in Nat /\ k.header = <<>>
      /\ Len(k.payload) < k.size
      /\ k.channel \in Channel \cup Pipes /\ k.service \in Service
  <2>1. k.payload \in Seq(Byte) /\ k.size \in Nat /\ k.channel \in Channel \cup Pipes /\ k.service \in Service
    BY <1>6, ClientFields
  <2> QED BY <1>2, <1>6, <2>1 DEF ClientShape
<1>8. m \in 1..Len(msg) /\ Len(k.payload) + m <= k.size
  BY <1>1, <1>5, <1>7 DEF Least
<1>9. PICK d : Receiving(ps, k, m, d)
  BY <1>1, <1>2, <1>8, ReceivingFacts
<1>10. /\ x \in Seq(Byte) /\ Len(x) = m /\ d \in Seq(Byte) /\ k.channel = serial.in_channel
       /\ k.channel \in Channel
       /\ FramesOK(TRUE, frames[k.channel], delivered[k.channel], TRUE, Partial(k), x \o d)
  BY <1>1, <1>2, <1>9, Zenon DEF Receiving
<1>11. Partial(k) = Digits(k.size) \o k.payload
  BY <1>2 DEF Partial
<1>12. Joined(Byte, k.payload, x)
  BY <1>7, <1>10, Joins
<1>13. p \in Seq(Byte) /\ Len(p) = Len(k.payload) + m
  BY <1>1, <1>10, <1>12, Zenon DEF Joined
<1>14. msg' = After(msg, m)
  BY <1>2, <1>10 DEF From, After
<1>15. PICK fr, de, z : fr = frames[k.channel] /\ de = delivered[k.channel] /\ z = k.size
  OBVIOUS
<1>16. FramesOK(TRUE, fr, de, TRUE, Digits(z) \o k.payload, x \o d)
  BY <1>10, <1>11, <1>15, Zenon
<1>17. PICK S : S = Seq(Nat) /\ S = Seq(Byte)
  BY Zenon DEF Byte
<1>18. k \in [channel: Channel \cup Pipes, service: Service, framing: BOOLEAN,
              need_header: BOOLEAN, header: S, payload: S, size: Sizes]
  BY <1>6, <1>17, Zenon DEF Client
<1>19. CASE Len(p) = k.size
  <2>1. PICK j : j = [k EXCEPT !.need_header = TRUE, !.size = 0, !.payload = <<>>]
    OBVIOUS
  <2>2. <<>> \in S /\ 0 \in Sizes
    BY <1>17 DEF Sizes, Base
  <2>3. j \in [channel: Channel \cup Pipes, service: Service, framing: BOOLEAN,
               need_header: BOOLEAN, header: S, payload: S, size: Sizes]
    BY <1>18, <2>1, <2>2
  <2>4. j \in Client
    BY <1>17, <2>3, Zenon DEF Client
  <2>5. /\ j.header = <<>> /\ j.need_header /\ j.payload = <<>> /\ j.framing = TRUE
        /\ j.channel = k.channel /\ j.service = k.service
    <3>1. /\ j.header = k.header /\ j.need_header = TRUE /\ j.payload = <<>>
          /\ j.channel = k.channel /\ j.service = k.service /\ j.framing = k.framing
      BY <1>18, <2>1
    <3>2. j.need_header /\ j.framing = TRUE
      BY <1>2, <3>1
    <3>3. j.header = <<>>
      BY <1>7, <3>1, Zenon
    <3> QED BY <3>1, <3>2, <3>3, Zenon
  <2>6. ClientShape(j) /\ Same(j, k)
    <3>1. Len(j.header) < 2
      <4>1. Len(j.header) = 0
        BY <2>5
      <4> QED BY <4>1
    <3>2. j.framing = k.framing
      BY <1>2, <2>5, Zenon
    <3> QED BY <2>5, <3>1, <3>2, Zenon DEF ClientShape, Same
  <2>7. Partial(j) = <<>>
    BY <2>5 DEF Partial
  <2>8. PICK g : g = de \o <<p>>
    OBVIOUS
  <2>9. FramesOK(TRUE, fr, g, TRUE, Partial(j), d)
    <3>1. Len(k.payload \o x) = z /\ z \in Nat
      BY <1>1, <1>7, <1>15, <1>19
    <3>2. FramesOK(TRUE, fr, de \o <<k.payload \o x>>, TRUE, <<>>, d)
      BY <1>7, <1>10, <1>16, <3>1, FramesFrame
    <3> QED BY <1>1, <2>7, <2>8, <3>2, Zenon
  <2>10. delivered' = [delivered EXCEPT ![k.channel] = g]
    BY <1>3, <1>10, <1>15, <1>19, <2>8, Zenon
  <2>11. /\ DOMAIN delivered' = Channel /\ delivered'[k.channel] = g
         /\ \A c \in Channel : c # k.channel => delivered'[c] = delivered[c]
    BY <1>4, <1>10, <2>10
  <2>12. FramesOK(k.framing, frames[k.channel], delivered'[k.channel], TRUE, Partial(j), d)
    BY <1>2, <1>15, <2>9, <2>11, Zenon
  <2>13. clients' = (clients \ {k}) \cup {j}
    BY <1>3, <1>19, <2>1
  <2> QED BY <1>2, <1>8, <1>9, <1>14, <2>4, <2>6, <2>11, <2>12, <2>13, GoesOn
<1>20. CASE Len(p) # k.size
  <2>1. PICK j : j = [k EXCEPT !.payload = p]
    OBVIOUS
  <2>2. j \in [channel: Channel \cup Pipes, service: Service, framing: BOOLEAN,
               need_header: BOOLEAN, header: S, payload: S, size: Sizes]
    BY <1>13, <1>17, <1>18, <2>1
  <2>3. j \in Client
    BY <1>17, <2>2, Zenon DEF Client
  <2>4. /\ j.header = <<>> /\ ~ j.need_header /\ j.payload = p /\ j.framing = TRUE /\ j.size = z
        /\ j.channel = k.channel /\ j.service = k.service
    <3>1. /\ j.header = k.header /\ j.need_header = k.need_header /\ j.payload = p /\ j.size = k.size
          /\ j.channel = k.channel /\ j.service = k.service /\ j.framing = k.framing
      BY <1>18, <2>1
    <3>2. ~ j.need_header /\ j.framing = TRUE
      BY <1>2, <3>1
    <3>3. j.header = <<>> /\ j.size = z
      BY <1>7, <1>15, <3>1, Zenon
    <3> QED BY <3>1, <3>2, <3>3, Zenon
  <2>5. Len(p) < z
    <3>1. Len(p) <= k.size
      BY <1>8, <1>13, Zenon
    <3>2. PICK l, n : l = Len(p) /\ n = k.size
      OBVIOUS
    <3>3. l \in Nat /\ n \in Nat
      BY <1>7, <1>8, <1>13, <3>2
    <3>4. l < n
      BY <1>20, <3>1, <3>2, <3>3
    <3> QED BY <1>15, <3>2, <3>4, Zenon
  <2>6. ClientShape(j) /\ Same(j, k)
    <3>1. Len(j.header) < 2 /\ Len(j.payload) < j.size
      <4>1. Len(j.header) = 0
        BY <2>4
      <4>2. Len(j.payload) < j.size
        BY <2>4, <2>5, Zenon
      <4> QED BY <4>1, <4>2
    <3>2. j.framing = k.framing
      BY <1>2, <2>4, Zenon
    <3> QED BY <2>4, <3>1, <3>2, Zenon DEF ClientShape, Same
  <2>7. Partial(j) = Digits(z) \o p
    BY <2>4 DEF Partial
  <2>8. PICK t : t = Digits(z) /\ t \in Seq(Byte)
    BY <1>7, <1>15, DigitsFacts
  <2>9. FramesOK(TRUE, fr, de, TRUE, t \o p, d)
    <3>1. Three(t, k.payload, x) /\ Joined(Byte, t, k.payload)
      BY <1>7, <1>10, <2>8, Threes, Joins
    <3>2. PICK u : u = t \o k.payload
      OBVIOUS
    <3>3. u \in Seq(Byte) /\ u \o x = t \o p
      BY <1>1, <3>1, <3>2, Zenon DEF Three, Joined
    <3>4. Three(u, x, d)
      BY <1>10, <3>3, Threes
    <3>5. (t \o p) \o d = u \o (x \o d)
      BY <3>3, <3>4, Zenon DEF Three
    <3>6. TRUE => TRUE /\ (t \o p) \o d = u \o (x \o d) /\ (~ TRUE => d = x \o d)
      BY <3>5, Zenon
    <3>7. FramesOK(TRUE, fr, de, TRUE, u, x \o d)
      BY <1>16, <2>8, <3>2, Zenon
    <3>8. PICK v : v = t \o p
      OBVIOUS
    <3>9. TRUE => TRUE /\ v \o d = u \o (x \o d) /\ (~ TRUE => d = x \o d)
      BY <3>6, <3>8, Zenon
    <3>10. FramesOK(TRUE, fr, de, TRUE, v, d)
      BY <3>7, <3>9, FramesKept
    <3> QED BY <3>8, <3>10, Zenon
  <2>10. delivered' = delivered /\ clients' = (clients \ {k}) \cup {j}
    BY <1>3, <1>20, <2>1
  <2>11. FramesOK(k.framing, frames[k.channel], delivered'[k.channel], TRUE, Partial(j), d)
    BY <1>2, <1>15, <2>7, <2>8, <2>9, <2>10, Zenon
  <2>12. DOMAIN delivered' = Channel /\ \A c \in Channel : c # k.channel => delivered'[c] = delivered[c]
    BY <1>4, <2>10
  <2> QED BY <1>2, <1>8, <1>9, <1>14, <2>3, <2>6, <2>10, <2>11, <2>12, GoesOn
<1> QED BY <1>19, <1>20

-----------------------------------------------------------------------------
(* Nothing is on its way.                                                  *)
LEMMA SerialStarts ==
  ASSUME SerialInit
  PROVE  SerialInv(<<>>)
<1>1. <<>> \in Seq(Byte) /\ <<>> \in Seq(FrameSet) /\ <<>> \in Seq(Tokens) /\ DOMAIN <<>> = {}
  OBVIOUS
<1>2. Typed
  <2>1. PICK S, F : S = Seq(Byte) /\ F = Seq(FrameSet) /\ <<>> \in S /\ <<>> \in F
    BY <1>1
  <2>2. /\ chan \in [Channel -> ChanSet] /\ up \in [Channel -> S] /\ frames \in [Channel -> F]
        /\ num_clients \in [Service -> Nat] /\ DOMAIN delivered = Channel
    BY <2>1 DEF SerialInit, ChanSet
  <2>3. line \in Seq(Byte) /\ rest \in Seq(Byte) /\ msg \in Seq(Byte)
    BY <1>1 DEF SerialInit
  <2> QED BY <2>1, <2>2, <2>3, Zenon DEF Typed
<1>3. StreamOK(serial, rest, line, msg, <<>>, clients)
  <2>1. TakenAsHeader(serial)
    <3>1. /\ serial = [need_header |-> TRUE, overflow |-> 0, in_size |-> 0, in_channel |-> 0,
                       header |-> <<>>, payload |-> <<>>]
          /\ 0 \in Nat /\ 0 \in Byte /\ Len(<<>>) < 2
      BY DEF SerialInit, Byte
    <3> QED BY <1>1, <3>1 DEF TakenAsHeader
  <2>2. serial \in SerialSet
    BY <2>1, SerialCases
  <2>3. serial.need_header /\ serial.header = <<>> /\ rest = <<>> /\ line = <<>> /\ msg = <<>>
    BY DEF SerialInit
  <2>4. Taken(serial) = <<>>
    BY <2>3 DEF Taken
  <2>5. <<>> \o (<<>> \o <<>>) = <<>>
    BY <1>1
  <2>6. Wire(<<>>) = <<>>
    BY NoPackets
  <2>7. Taken(serial) \o (rest \o line) = Wire(Waits(msg, <<>>))
    BY <2>3, <2>4, <2>5, <2>6, Zenon DEF Waits
  <2> QED BY <2>2, <2>3, <2>7, Zenon DEF StreamOK
<1>4. ControlInv(<<>>, chan)
  BY <1>1 DEF ControlInv
<1>5. clients = {} /\ \A c : ~ InSet(clients, c)
  BY DEF SerialInit, InSet
<1>6. ASSUME NEW c \in Channel PROVE ChannelInv(chan, clients, said, <<>>, c)
  <2>1. chan[c].state = "new"
    BY DEF SerialInit
  <2>2. ~ InSet(clients, c) /\ ~ Asking(<<>>, c) /\ ~ Leaving(<<>>, c)
    BY <1>1, <1>5 DEF Asking, Leaving, Holds
  <2>3. ASSUME NEW x PROVE ~ Holds(said, x)
    BY <1>1 DEF SerialInit, Holds
  <2> QED BY <2>1, <2>2, <2>3 DEF ChannelInv, ChannelOK
<1>7. ClientsOK(clients, chan)
  BY <1>5, FS_EmptySet DEF ClientsOK
<1>8. Counted(clients, num_clients)
  <2> SUFFICES ASSUME NEW s \in Service
               PROVE  /\ num_clients[s] = Cardinality(OfService(clients, s))
                      /\ MaxClients[s] > 0 => Cardinality(OnPort(clients, s)) <= MaxClients[s]
    BY DEF Counted
  <2>1. OfService(clients, s) = {} /\ OnPort(clients, s) = {}
    BY <1>5 DEF OfService, OnPort
  <2>2. Cardinality({}) = 0
    BY FS_EmptySet
  <2>3. num_clients[s] = 0 /\ MaxClients[s] \in Nat
    BY ServiceAssumption DEF SerialInit
  <2> QED BY <2>1, <2>2, <2>3
<1>9. ASSUME NEW c \in Channel PROVE FramesInv(chan, clients, <<>>, up, frames, delivered, c)
  <2>1. frames[c] = <<>> /\ delivered[c] = <<>> /\ up[c] = <<>> /\ chan[c].state = "new"
    BY DEF SerialInit
  <2>2. Data(<<>>, c) = <<>>
    BY NoPackets
  <2>3. EarlyOK(chan[c].state, frames[c], delivered[c], up[c], Data(<<>>, c))
    BY <2>1, <2>2 DEF EarlyOK
  <2>4. PICK framed, part, pend :
          /\ framed = (chan[c].service \in Framed) /\ part = Partial(TheClient(clients, c))
          /\ pend = Data(<<>>, c) \o up[c]
    OBVIOUS
  <2>5. FramesOK(framed, <<>>, <<>>, InSet(clients, c), part, pend)
    BY <1>5, FramesNone
  <2> QED BY <2>1, <2>3, <2>4, <2>5, Zenon DEF FramesInv
<1>10. OutInv(half, said)
  <2>1. half = EmptyHalf /\ said = <<>>
    BY DEF SerialInit
  <2> QED BY <1>1, <2>1, EmptyHalfFacts DEF OutInv
<1> QED BY <1>2, <1>3, <1>4, <1>6, <1>7, <1>8, <1>9, <1>10, Zenon DEF SerialInv

(* A step that changes nothing.                                            *)
LEMMA SerialStutters ==
  ASSUME NEW ps \in Seq(PacketSet), SerialInv(ps), UNCHANGED svars
  PROVE  SerialInv(ps)'
<1>1. /\ chan' = chan /\ up' = up /\ line' = line /\ rest' = rest /\ serial' = serial /\ msg' = msg
      /\ clients' = clients /\ num_clients' = num_clients /\ half' = half /\ said' = said
      /\ frames' = frames /\ delivered' = delivered
  BY DEF svars, daemon, recv, out
<1>2. Typed'
  BY <1>1 DEF SerialInv, Typed
<1>3. SerialInv(ps)' <=> SerialInv(ps)
  BY <1>1, <1>2 DEF SerialInv
<1> QED BY <1>3

Invariant == \E ps \in Seq(PacketSet) : SerialInv(ps)

(* Every step has one of these lemmas.                                     *)
LEMMA SerialSteps == Invariant /\ [SerialNext]_svars => Invariant'
<1> SUFFICES ASSUME NEW ps \in Seq(PacketSet), SerialInv(ps), [SerialNext]_svars
             PROVE  \E qs \in Seq(PacketSet) : SerialInv(qs)'
  BY DEF Invariant
<1>1. ASSUME NEW c \in Channel, NEW s \in Service \cup {0}, Ask(c, s)
      PROVE  \E qs \in Seq(PacketSet) : SerialInv(qs)'
  BY <1>1, AskFacts
<1>2. ASSUME NEW c \in Channel, NEW n \in 1..MaxWritten, ClientWrites(c, n)
      PROVE  \E qs \in Seq(PacketSet) : SerialInv(qs)'
  BY <1>2, ClientWritesFacts
<1>3. ASSUME NEW c \in Channel, NEW n \in 1..MAX_SERIAL_PAYLOAD, Pack(c, n)
      PROVE  \E qs \in Seq(PacketSet) : SerialInv(qs)'
  BY <1>3, PackFacts
<1>4. ASSUME NEW c \in Channel, ClientCloses(c)
      PROVE  \E qs \in Seq(PacketSet) : SerialInv(qs)'
  BY <1>4, ClientClosesFacts
<1>5. CASE TtyWrites
  BY <1>5, TtyWritesFacts
<1>6. CASE TtyReads
  BY <1>6, TtyReadsFacts
<1>7. CASE qemud_serial_read
  BY <1>7, SerialReadFacts
<1>8. CASE Connect
  BY <1>8, ConnectFacts
<1>9. CASE Disconnect
  BY <1>9, DisconnectFacts
<1>10. CASE ClientRecv
  BY <1>10, ClientRecvFacts
<1>11. CASE FramedRecv
  BY <1>11, FramedRecvFacts
<1>12. CASE PayloadRecv
  BY <1>12, PayloadRecvFacts
<1>13. CASE charpipe_poll
  BY <1>13, PollFacts
<1>14. ASSUME NEW s \in PipeService, PipeConnects(s)
       PROVE  \E qs \in Seq(PacketSet) : SerialInv(qs)'
  BY <1>14, PipeConnectsFacts
<1>15. ASSUME NEW k \in clients, qemud_client_close(k)
       PROVE  \E qs \in Seq(PacketSet) : SerialInv(qs)'
  BY <1>15, CloseFacts
<1>16. ASSUME NEW k \in clients, PipeCloses(k)
       PROVE  \E qs \in Seq(PacketSet) : SerialInv(qs)'
  BY <1>16, PipeClosesFacts
<1>17. ASSUME NEW k \in clients, NEW n \in 1..MaxMessage, qemud_client_send(k, n)
       PROVE  \E qs \in Seq(PacketSet) : SerialInv(qs)'
  BY <1>17, SendFacts
<1>18. CASE UNCHANGED svars
  BY <1>18, SerialStutters
<1>19. CASE Guest
  BY <1>1, <1>2, <1>3, <1>4, <1>5, <1>6, <1>19, Zenon DEF Guest
<1>20. CASE Emulator
  BY <1>7, <1>8, <1>9, <1>10, <1>11, <1>12, <1>13, <1>14, <1>15, <1>16, <1>17, <1>20, Zenon DEF Emulator
<1> QED BY <1>18, <1>19, <1>20 DEF SerialNext

(* So the invariant holds.                                                 *)
LEMMA SerialInvariant == SerialSpec => []Invariant
<1>1. SerialInit => Invariant
  <2>1. <<>> \in Seq(PacketSet)
    OBVIOUS
  <2> QED BY <2>1, SerialStarts DEF Invariant
<1> QED BY <1>1, SerialSteps, PTL DEF SerialSpec

-----------------------------------------------------------------------------
(* All that was packed has been dealt with.                                *)
LEMMA NothingOnItsWay ==
  ASSUME NEW ps \in Seq(PacketSet), SerialInv(ps), Quiet, line = <<>>
  PROVE  ps = <<>>
<1>1. serial \in SerialSet /\ Taken(serial) \o (<<>> \o <<>>) = Wire(ps)
  BY DEF SerialInv, StreamOK, Waits, Quiet
<1>2. Taken(serial) \in Seq(Byte)
  BY <1>1, SerialTaken
<1>3. Taken(serial) = Wire(ps)
  <2>1. PICK t : t = Taken(serial)
    OBVIOUS
  <2>2. t \o (<<>> \o <<>>) = t
    BY <1>2, <2>1
  <2> QED BY <1>1, <2>1, <2>2, Zenon
<1>4. CASE Len(Taken(serial)) < 2
  BY <1>3, <1>4, WireShort, Zenon
<1>5. CASE \E size \in Nat, c \in Byte, p \in Seq(Byte) :
             Taken(serial) = <<c, size>> \o p /\ Len(p) < size
  <2>1. PICK size \in Nat, c \in Byte, p \in Seq(Byte) :
          Taken(serial) = <<c, size>> \o p /\ Len(p) < size
    BY <1>5
  <2>2. <<c, size>> \o p # Wire(ps)
    BY <2>1, WireGoesOn
  <2> QED BY <1>3, <2>1, <2>2, Zenon
<1> QED BY <1>1, <1>4, <1>5, SerialTaken

(* The variables of the serial side keep to their types.                   *)
THEOREM SerialTypeCorrect == SerialSpec => []SerialTypeOK
<1>1. ASSUME NEW ps \in Seq(PacketSet), SerialInv(ps) PROVE SerialTypeOK
  <2>1. Typed /\ serial \in SerialSet /\ ClientsOK(clients, chan) /\ HalfOf(half, Tokens)
    BY <1>1 DEF SerialInv, StreamOK, OutInv
  <2>2. /\ chan \in [Channel -> ChanSet] /\ up \in [Channel -> Seq(Nat)] /\ line \in Seq(Nat)
        /\ rest \in Seq(Nat) /\ msg \in Seq(Nat) /\ num_clients \in [Service -> Nat]
    BY <2>1, Zenon DEF Typed, Byte
  <2>3. TakenAsHeader(serial) \/ TakenAsPayload(serial)
    BY <2>1, SerialCases
  <2>4. /\ serial.in_channel \in Nat /\ serial.in_size \in Nat
        /\ Len(serial.header) < 2 /\ Len(serial.payload) \in 0..MAX_SERIAL_PAYLOAD
    <3>1. MAX_SERIAL_PAYLOAD \in Nat /\ Len(<<>>) = 0
      BY PayloadAssumption
    <3>2. CASE TakenAsHeader(serial)
      <4>1. PICK size \in Nat, c \in Byte, h \in Seq(Byte) :
              /\ serial = [need_header |-> TRUE, overflow |-> 0, in_size |-> size, in_channel |-> c,
                           header |-> h, payload |-> <<>>]
              /\ Len(h) < 2
        BY <3>2 DEF TakenAsHeader
      <4>2. c \in Nat
        BY DEF Byte
      <4> QED BY <3>1, <4>1, <4>2
    <3>3. CASE TakenAsPayload(serial)
      <4>1. PICK size \in 1..MAX_SERIAL_PAYLOAD, c \in Byte, p \in Seq(Byte) :
              /\ serial = [need_header |-> FALSE, overflow |-> 0, in_size |-> size, in_channel |-> c,
                           header |-> <<>>, payload |-> p]
              /\ Len(p) < size
        BY <3>3 DEF TakenAsPayload
      <4>2. c \in Nat /\ Len(p) \in Nat
        BY DEF Byte
      <4> QED BY <3>1, <4>1, <4>2
    <3> QED BY <2>3, <3>2, <3>3
  <2>5. /\ clients \subseteq Client
        /\ \A k \in clients : k.need_header \/ Len(k.payload) < k.size
    BY <2>1 DEF ClientsOK, Belongs, ClientShape
  <2>6. Len(half.reader) <= reader_size
    BY <2>1 DEF HalfOf
  <2> QED BY <2>2, <2>4, <2>5, <2>6 DEF SerialTypeOK, ChanSet, HEADER_SIZE
<1>2. Invariant => SerialTypeOK
  BY <1>1 DEF Invariant
<1> QED BY <1>2, SerialInvariant, PTL

(* The guest reads what the emulator sends, all of it and in order         *)
(* (charpipehalf_write, charpipehalf_poll).                                *)
THEOREM GuestReadsInOrder == SerialSpec => []GuestStreamInOrder
<1>1. Invariant => GuestStreamInOrder
  BY DEF Invariant, SerialInv, OutInv, InPipe, GuestStreamInOrder
<1> QED BY <1>1, SerialInvariant, PTL

(* The count of a service's clients is theirs (qemud_service_connect_client*)
(* and qemud_service_remove_client).                                       *)
THEOREM CountsAreRight == SerialSpec => []ClientsAreCounted
<1>1. Invariant => ClientsAreCounted
  <2> SUFFICES ASSUME Counted(clients, num_clients) PROVE ClientsAreCounted
    BY DEF Invariant, SerialInv
  <2>1. \A s \in Service : ClientsOf(s) = OfService(clients, s)
    BY DEF ClientsOf, OfService
  <2> QED BY <2>1 DEF Counted, ClientsAreCounted
<1> QED BY <1>1, SerialInvariant, PTL

(* The limit on a service's clients holds as long as none comes through a  *)
(* pipe: qemud_multiplexer_connect keeps to it.                            *)
THEOREM LimitHoldsOnPort ==
  ASSUME MaxPipes = 0 PROVE SerialSpec => []LimitHolds
<1>1. Pipes = {}
  BY DEF Pipes
<1>2. Invariant => LimitHolds
  <2> SUFFICES ASSUME Counted(clients, num_clients) PROVE LimitHolds
    BY DEF Invariant, SerialInv
  <2>1. \A s \in Service : ClientsOf(s) = OnPort(clients, s)
    BY <1>1 DEF ClientsOf, OnPort, OfService
  <2> QED BY <2>1 DEF Counted, LimitHolds
<1> QED BY <1>2, SerialInvariant, PTL

(* When nothing is on its way, the daemon and the emulator have the same   *)
(* clients (qemud_multiplexer_control_recv, qemud_client_disconnect).      *)
THEOREM SidesComeToAgree == SerialSpec => []SidesAgree
<1>1. ASSUME NEW ps \in Seq(PacketSet), SerialInv(ps) PROVE SidesAgree
  <2> SUFFICES ASSUME Quiet, line = <<>>, said = <<>>, NEW c \in Channel
               PROVE  chan[c].state # "asked" /\ (chan[c].state = "open" <=> Connected(c))
    BY DEF SidesAgree
  <2>1. ps = <<>>
    BY <1>1, NothingOnItsWay
  <2>2. ~ Asking(ps, c) /\ ~ Leaving(ps, c)
    BY <2>1 DEF Asking, Leaving, Holds
  <2>3. ASSUME NEW x PROVE ~ Holds(said, x)
    BY DEF Holds
  <2>4. ChannelInv(chan, clients, said, ps, c)
    BY <1>1 DEF SerialInv
  <2>5. chan[c].state \in {"new", "asked", "open", "closed"}
    BY <1>1 DEF SerialInv, Typed, ChanSet
  <2>6. chan[c].state # "asked" /\ (chan[c].state = "open" <=> InSet(clients, c))
    BY <2>2, <2>3, <2>4, <2>5 DEF ChannelInv, ChannelOK
  <2> QED BY <2>6 DEF InSet, Connected
<1>2. Invariant => SidesAgree
  BY <1>1 DEF Invariant
<1> QED BY <1>2, SerialInvariant, PTL

(* However packets and pieces cut a client's frames, its service is given  *)
(* them whole and in order, and all of them once they are through the port *)
(* (qemud_serial_read, qemud_client_recv).                                 *)
THEOREM FramesAreDelivered == SerialSpec => []FramesArrive
<1>1. ASSUME NEW ps \in Seq(PacketSet), SerialInv(ps) PROVE FramesArrive
  <2> SUFFICES ASSUME NEW c \in Channel
               PROVE  /\ IsPrefix(delivered[c], Written(c))
                      /\ Quiet /\ line = <<>> /\ up[c] = <<>> /\ Connected(c) => delivered[c] = Written(c)
    BY DEF FramesArrive
  <2>1. PICK framed, fr, de, part, pend :
          /\ framed = (chan[c].service \in Framed) /\ fr = frames[c] /\ de = delivered[c]
          /\ part = Partial(TheClient(clients, c)) /\ pend = Data(ps, c) \o up[c]
    OBVIOUS
  <2>2. FramesOK(framed, fr, de, InSet(clients, c), part, pend)
    BY <1>1, <2>1, Zenon DEF SerialInv, FramesInv
  <2>3. ASSUME Quiet, line = <<>>, up[c] = <<>> PROVE pend = <<>>
    <3>1. ps = <<>>
      BY <1>1, <2>3, NothingOnItsWay
    <3>2. Data(ps, c) = <<>>
      BY <3>1, NoPackets
    <3> QED BY <2>1, <2>3, <3>2
  <2>4. CASE framed
    <3>1. Written(c) = fr
      BY <2>1, <2>4 DEF Written
    <3>2. de \in Seq(FrameSet)
      BY <2>2, <2>4 DEF FramesOK, FramedOK
    <3>3. PICK todo \in Seq(FrameSet) :
            fr = de \o todo /\ (InSet(clients, c) => part \o pend = Encoded(todo))
      BY <2>2, <2>4 DEF FramesOK, FramedOK
    <3>4. IsPrefix(de, fr)
      BY <3>2, <3>3, PrefixFacts
    <3>5. ASSUME pend = <<>>, InSet(clients, c) PROVE de = fr
      <4>1. PICK k : k = TheClient(clients, c)
        OBVIOUS
      <4>2. k \in Client /\ ClientShape(k)
        BY <1>1, <3>5, <4>1, TheClientIn DEF SerialInv, ClientsOK, Belongs
      <4>3. part = Partial(k) /\ part \in Seq(Byte)
        BY <2>1, <4>1, <4>2, ClientFields
      <4>4. part = Encoded(todo)
        <5>1. part \o <<>> = part
          BY <4>3
        <5> QED BY <3>3, <3>5, <5>1, Zenon
      <4>5. k.need_header
        <5>1. SUFFICES ASSUME ~ k.need_header PROVE FALSE
          OBVIOUS
        <5>2. part = Digits(k.size) \o k.payload
          BY <4>3, <5>1 DEF Partial
        <5>3. Len(k.payload) < k.size /\ k.size \in Nat /\ k.payload \in Seq(Byte)
          BY <4>2, <5>1, ClientFields DEF ClientShape
        <5>4. Digits(k.size) \o k.payload # Encoded(todo)
          BY <5>3, FrameGoesOn
        <5> QED BY <4>4, <5>2, <5>4, Zenon
      <4>6. part = k.header /\ Len(k.header) < 2
        BY <4>2, <4>3, <4>5 DEF Partial, ClientShape
      <4>7. todo = <<>>
        BY <4>4, <4>6, FramesShort, Zenon
      <4> QED BY <3>2, <3>3, <4>7
    <3> QED BY <2>1, <2>3, <3>1, <3>4, <3>5, Zenon DEF Connected, InSet
  <2>5. CASE ~ framed
    <3>1. Written(c) = FlattenSeq(fr)
      BY <2>1, <2>5 DEF Written
    <3>2. de \in Seq(Byte)
      BY <2>2, <2>5 DEF FramesOK, RawOK
    <3>3. PICK todo \in Seq(Byte) :
            FlattenSeq(fr) = de \o todo /\ (InSet(clients, c) => pend = todo)
      BY <2>2, <2>5 DEF FramesOK, RawOK
    <3>4. IsPrefix(de, de \o todo)
      BY <3>2, PrefixFacts
    <3>5. ASSUME pend = <<>>, InSet(clients, c) PROVE de = de \o todo
      BY <3>2, <3>3, <3>5
    <3> QED BY <2>1, <2>3, <3>1, <3>3, <3>4, <3>5, Zenon DEF Connected, InSet
  <2> QED BY <2>4, <2>5
<1>2. Invariant => FramesArrive
  BY <1>1 DEF Invariant
<1> QED BY <1>2, SerialInvariant, PTL
=============================================================================
