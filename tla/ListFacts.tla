------------------------------ MODULE ListFacts ------------------------------
(***************************************************************************)
(* Lemmas about sequences: those that hold nothing twice, which is what    *)
(* the linked lists of the modules are (pipes, signaled pipes, disk        *)
(* requests), and streams of bytes, which the modules put together from    *)
(* messages, buffers and packets with FlattenSeq.  The latter need         *)
(* induction, over sets of numbers and of sequences.                       *)
(***************************************************************************)
EXTENDS Integers, Sequences, SequencesExt, SequenceTheorems, WellFoundedInduction, TLAPS

-----------------------------------------------------------------------------
(* Sequences without repetition.                                           *)

(* Prepending an element that a sequence does not hold keeps it free of    *)
(* repetition.                                                             *)
LEMMA ConsFacts ==
  ASSUME NEW S, NEW s \in Seq(S), NEW e \in S, e \notin ToSet(s), IsInjective(s)
  PROVE  /\ <<e>> \o s \in Seq(S)
         /\ <<e>> \o s # <<>>
         /\ ToSet(<<e>> \o s) = ToSet(s) \cup {e}
         /\ IsInjective(<<e>> \o s)
<1> DEFINE t == <<e>> \o s
<1>1. <<e>> \in Seq(S) /\ Len(<<e>>) = 1 /\ <<e>>[1] = e
  OBVIOUS
<1>2. /\ t \in Seq(S)
      /\ Len(t) = 1 + Len(s)
      /\ \A i \in 1..(1 + Len(s)) : t[i] = IF i <= 1 THEN <<e>>[i] ELSE s[i - 1]
  BY <1>1, ConcatProperties
<1>3. DOMAIN t = 1..(1 + Len(s)) /\ DOMAIN s = 1..Len(s) /\ Len(s) \in Nat
  BY <1>2
<1>4. t[1] = e /\ \A i \in 1..Len(s) : t[i + 1] = s[i]
  BY <1>1, <1>2, <1>3
<1>5. ToSet(t) = ToSet(s) \cup {e}
  <2>1. ASSUME NEW x \in ToSet(t) PROVE x \in ToSet(s) \cup {e}
    BY <1>1, <1>2, <1>3 DEF ToSet
  <2>2. ASSUME NEW x \in ToSet(s) PROVE x \in ToSet(t)
    <3>1. PICK i \in 1..Len(s) : x = s[i]
      BY <1>3 DEF ToSet
    <3>2. i + 1 \in DOMAIN t /\ t[i + 1] = x
      BY <3>1, <1>3, <1>4
    <3> QED BY <3>2 DEF ToSet
  <2>3. e \in ToSet(t)
    BY <1>3, <1>4 DEF ToSet
  <2> QED BY <2>1, <2>2, <2>3
<1>6. IsInjective(t)
  <2> SUFFICES ASSUME NEW i \in DOMAIN t, NEW j \in DOMAIN t, t[i] = t[j]
               PROVE  i = j
    BY DEF IsInjective
  <2>1. \A k \in DOMAIN t : k # 1 => t[k] = s[k - 1] /\ k - 1 \in DOMAIN s
    BY <1>2, <1>3
  <2>2. \A k \in DOMAIN t : k # 1 => t[k] # e
    BY <2>1 DEF ToSet
  <2>3. CASE i = 1 \/ j = 1
    BY <2>2, <2>3, <1>4
  <2>4. CASE i # 1 /\ j # 1
    <3>1. i - 1 = j - 1
      BY <2>1, <2>4 DEF IsInjective
    <3> QED BY <3>1, <1>3
  <2> QED BY <2>3, <2>4
<1>7. t # <<>>
  BY <1>3
<1> QED BY <1>2, <1>5, <1>6, <1>7

(* Dropping the head removes it from such a sequence.                      *)
LEMMA TailFacts ==
  ASSUME NEW S, NEW s \in Seq(S), s # <<>>, IsInjective(s)
  PROVE  /\ Head(s) \in ToSet(s)
         /\ Tail(s) \in Seq(S)
         /\ ToSet(Tail(s)) = ToSet(s) \ {Head(s)}
         /\ IsInjective(Tail(s))
<1> DEFINE t == Tail(s)
<1>1. /\ t \in Seq(S)
      /\ Len(t) = Len(s) - 1
      /\ \A i \in 1..Len(t) : t[i] = s[i + 1]
  BY HeadTailProperties
<1>2. /\ Len(s) \in Nat /\ Len(s) # 0
      /\ DOMAIN s = 1..Len(s) /\ DOMAIN t = 1..(Len(s) - 1)
      /\ Head(s) = s[1]
  BY <1>1
<1>3. Head(s) \in ToSet(s)
  BY <1>2 DEF ToSet
<1>4. ToSet(t) = ToSet(s) \ {Head(s)}
  <2>1. ASSUME NEW x \in ToSet(t) PROVE x \in ToSet(s) /\ x # Head(s)
    <3>1. PICK i \in 1..(Len(s) - 1) : x = s[i + 1]
      BY <1>1, <1>2 DEF ToSet
    <3>2. i + 1 \in DOMAIN s /\ 1 \in DOMAIN s /\ i + 1 # 1
      BY <1>2
    <3> QED BY <3>1, <3>2, <1>2 DEF ToSet, IsInjective
  <2>2. ASSUME NEW x \in ToSet(s), x # Head(s) PROVE x \in ToSet(t)
    <3>1. PICK i \in 1..Len(s) : x = s[i]
      BY <1>2 DEF ToSet
    <3>2. i # 1
      BY <3>1, <2>2, <1>2
    <3>3. i - 1 \in DOMAIN t /\ t[i - 1] = s[i]
      BY <3>2, <1>1, <1>2
    <3> QED BY <3>1, <3>3 DEF ToSet
  <2> QED BY <2>1, <2>2
<1>5. IsInjective(t)
  <2> SUFFICES ASSUME NEW i \in DOMAIN t, NEW j \in DOMAIN t, t[i] = t[j]
               PROVE  i = j
    BY DEF IsInjective
  <2>1. /\ i + 1 \in DOMAIN s /\ j + 1 \in DOMAIN s
        /\ s[i + 1] = t[i] /\ s[j + 1] = t[j]
    BY <1>1, <1>2
  <2>2. i + 1 = j + 1
    BY <2>1 DEF IsInjective
  <2> QED BY <2>2, <1>2
<1> QED BY <1>1, <1>3, <1>4, <1>5

(* RemoveAt unlinks one element of such a sequence and no other.           *)
LEMMA RemoveAtFacts ==
  ASSUME NEW S, NEW s \in Seq(S), NEW k \in 1..Len(s), IsInjective(s)
  PROVE  /\ RemoveAt(s, k) \in Seq(S)
         /\ ToSet(RemoveAt(s, k)) = ToSet(s) \ {s[k]}
         /\ IsInjective(RemoveAt(s, k))
         /\ Len(RemoveAt(s, k)) = Len(s) - 1
<1> DEFINE a == SubSeq(s, 1, k - 1)
           b == SubSeq(s, k + 1, Len(s))
           t == a \o b
           n == Len(s)
<1>1. /\ n \in Nat /\ k \in 1..n
      /\ DOMAIN s = 1..n /\ \A i \in 1..n : s[i] \in S
  OBVIOUS
<1>2. a \in Seq(S) /\ Len(a) = k - 1 /\ \A i \in 1..(k - 1) : a[i] = s[i]
  <2>1. /\ a \in Seq(S)
        /\ Len(a) = IF 1 <= k - 1 THEN (k - 1) - 1 + 1 ELSE 0
        /\ \A i \in 1..((k - 1) - 1 + 1) : a[i] = s[1 + i - 1]
    BY <1>1, SubSeqProperties, 1 \in Int, k - 1 \in Int, \A i \in 1..(k - 1) : s[i] \in S
  <2> QED BY <2>1, <1>1
<1>3. b \in Seq(S) /\ Len(b) = n - k /\ \A i \in 1..(n - k) : b[i] = s[k + i]
  <2>1. /\ b \in Seq(S)
        /\ Len(b) = IF k + 1 <= n THEN n - (k + 1) + 1 ELSE 0
        /\ \A i \in 1..(n - (k + 1) + 1) : b[i] = s[(k + 1) + i - 1]
    BY <1>1, SubSeqProperties, k + 1 \in Int, n \in Int,
       \A i \in (k + 1)..n : s[i] \in S
  <2> QED BY <2>1, <1>1
<1>10. /\ t \in Seq(S)
      /\ Len(t) = Len(a) + Len(b)
      /\ \A i \in 1..(Len(a) + Len(b)) :
           t[i] = IF i <= Len(a) THEN a[i] ELSE b[i - Len(a)]
  BY <1>2, <1>3, ConcatProperties
<1>11. RemoveAt(s, k) = t
  BY DEF RemoveAt
<1> HIDE DEF a, b, t, n
<1>4. /\ t \in Seq(S)
      /\ Len(t) = n - 1
      /\ \A i \in 1..(n - 1) : t[i] = IF i < k THEN s[i] ELSE s[i + 1]
  <2>1. ASSUME NEW i \in 1..(n - 1)
        PROVE  t[i] = IF i < k THEN s[i] ELSE s[i + 1]
    <3>0. i \in 1..(Len(a) + Len(b))
      BY <1>1, <1>2, <1>3
    <3>1. CASE i < k
      <4>1. i <= Len(a) /\ i \in 1..(k - 1)
        BY <3>1, <1>1, <1>2
      <4>2. t[i] = a[i]
        BY <4>1, <3>0, <1>10
      <4> QED BY <4>1, <4>2, <3>1, <1>2
    <3>2. CASE ~ (i < k)
      <4>1. t[i] = b[i - (k - 1)]
        BY <3>2, <1>10, <1>1, <1>2, <1>3
      <4>2. i - (k - 1) \in 1..(n - k) /\ k + (i - (k - 1)) = i + 1
        BY <3>2, <1>1
      <4> QED BY <4>1, <4>2, <3>2, <1>3
    <3> QED BY <3>1, <3>2
  <2> QED BY <1>10, <2>1, <1>1, <1>2, <1>3
<1>5. DOMAIN t = 1..(n - 1)
  BY <1>4, <1>1
<1>6. ToSet(t) = ToSet(s) \ {s[k]}
  <2>1. ASSUME NEW x \in ToSet(t) PROVE x \in ToSet(s) /\ x # s[k]
    <3>1. PICK i \in 1..(n - 1) : x = t[i]
      BY <1>5 DEF ToSet
    <3>2. PICK j \in 1..n : x = s[j] /\ j # k
      BY <3>1, <1>4, <1>1
    <3> QED BY <3>2, <1>1 DEF ToSet, IsInjective
  <2>2. ASSUME NEW x \in ToSet(s), x # s[k] PROVE x \in ToSet(t)
    <3>1. PICK j \in 1..n : x = s[j]
      BY <1>1 DEF ToSet
    <3>2. PICK i \in 1..(n - 1) : t[i] = s[j]
      <4>1. CASE j < k
        BY <4>1, <1>4, <1>1, j \in 1..(n - 1)
      <4>2. CASE j > k
        BY <4>2, <1>4, <1>1, j - 1 \in 1..(n - 1), (j - 1) + 1 = j, ~ (j - 1 < k)
      <4> QED BY <4>1, <4>2, <3>1, <2>2, <1>1
    <3> QED BY <3>1, <3>2, <1>5 DEF ToSet
  <2> QED BY <2>1, <2>2
<1>7. IsInjective(t)
  <2> SUFFICES ASSUME NEW i \in 1..(n - 1), NEW j \in 1..(n - 1), t[i] = t[j]
               PROVE  i = j
    BY <1>5 DEF IsInjective
  <2>1. \A u, v \in 1..n : s[u] = s[v] => u = v
    BY <1>1 DEF IsInjective
  <2> QED BY <2>1, <1>4, <1>1
<1> QED BY <1>4, <1>6, <1>7, <1>11 DEF n

(* RemoveFirst takes an element out of such a sequence, if it is there.    *)
LEMMA RemoveFirstFacts ==
  ASSUME NEW S, NEW s \in Seq(S), NEW e, IsInjective(s)
  PROVE  /\ RemoveFirst(s, e) \in Seq(S)
         /\ ToSet(RemoveFirst(s, e)) = ToSet(s) \ {e}
         /\ IsInjective(RemoveFirst(s, e))
         /\ Len(RemoveFirst(s, e)) <= Len(s)
<1>1. CASE \E i \in 1..Len(s) : s[i] = e
  <2>1. PICK k \in 1..Len(s) : s[k] = e
    BY <1>1
  <2> DEFINE I == {i \in 1..Len(s) : s[i] = e}
  <2>2. I = {k}
    BY <2>1 DEF IsInjective
  <2>3. Min(I) = k
    BY <2>2 DEF Min
  <2>4. SelectInSeq(s, LAMBDA v : v = e) = k
    BY <2>2, <2>3 DEF SelectInSeq
  <2>5. RemoveFirst(s, e) = RemoveAt(s, k)
    BY <1>1, <2>4 DEF RemoveFirst
  <2> QED BY <2>1, <2>5, RemoveAtFacts
<1>2. CASE ~ \E i \in 1..Len(s) : s[i] = e
  <2>1. RemoveFirst(s, e) = s
    BY <1>2 DEF RemoveFirst
  <2>2. e \notin ToSet(s)
    BY <1>2 DEF ToSet
  <2> QED BY <2>1, <2>2
<1> QED BY <1>1, <1>2

(* A sequence is empty exactly when it holds nothing.                      *)
LEMMA EmptyFacts ==
  ASSUME NEW S, NEW s \in Seq(S)
  PROVE  s = <<>> <=> ToSet(s) = {}
<1>1. DOMAIN s = 1..Len(s) /\ Len(s) \in Nat
  OBVIOUS
<1>2. ASSUME s # <<>> PROVE 1 \in DOMAIN s
  BY <1>1, <1>2, Len(s) # 0
<1>3. CASE s = <<>>
  BY <1>3 DEF ToSet
<1>4. CASE s # <<>>
  <2>1. s[1] \in ToSet(s)
    BY <1>2, <1>4 DEF ToSet
  <2> QED BY <1>4, <2>1
<1> QED BY <1>3, <1>4

(* Appending an element that a sequence does not hold.                     *)
LEMMA AppendFacts ==
  ASSUME NEW S, NEW s \in Seq(S), NEW e \in S, e \notin ToSet(s), IsInjective(s)
  PROVE  /\ Append(s, e) \in Seq(S)
         /\ ToSet(Append(s, e)) = ToSet(s) \cup {e}
         /\ IsInjective(Append(s, e))
<1> DEFINE t == Append(s, e)
           n == Len(s)
<1>1. /\ t \in Seq(S) /\ n \in Nat /\ DOMAIN s = 1..n /\ DOMAIN t = 1..(n + 1)
      /\ \A i \in 1..n : t[i] = s[i]
      /\ t[n + 1] = e
  OBVIOUS
<1> HIDE DEF t, n
<1>2. \A i \in 1..n : t[i] # e
  BY <1>1 DEF ToSet
<1>3. \A i \in 1..(n + 1) : i \in 1..n \/ i = n + 1
  BY <1>1
<1>4. ToSet(t) = ToSet(s) \cup {e}
  <2>1. ASSUME NEW x \in ToSet(t) PROVE x \in ToSet(s) \cup {e}
    <3>1. PICK i \in 1..(n + 1) : x = t[i]
      BY <1>1 DEF ToSet
    <3>2. CASE i \in 1..n
      BY <1>1, <3>1, <3>2 DEF ToSet
    <3>3. CASE i = n + 1
      BY <1>1, <3>1, <3>3
    <3> QED BY <1>3, <3>2, <3>3
  <2>2. \A x \in ToSet(s) : x \in ToSet(t)
    BY <1>1 DEF ToSet
  <2>3. n + 1 \in DOMAIN t
    BY <1>1
  <2> QED BY <1>1, <2>1, <2>2, <2>3 DEF ToSet
<1>5. IsInjective(t)
  BY <1>1, <1>2, <1>3 DEF IsInjective
<1> QED BY <1>1, <1>4, <1>5 DEF t

(* A sequence without its last element.                                    *)
LEMMA FrontFacts ==
  ASSUME NEW S, NEW s \in Seq(S), s # <<>>
  PROVE  /\ Front(s) \in Seq(S) /\ Len(s) \in Nat \ {0}
         /\ Len(Front(s)) = Len(s) - 1
         /\ \A i \in 1..(Len(s) - 1) : Front(s)[i] = s[i]
         /\ Last(s) = s[Len(s)] /\ Last(s) \in S
<1> DEFINE n == Len(s)
           t == SubSeq(s, 1, n - 1)
<1>1. n \in Nat /\ n # 0 /\ \A i \in 1..n : s[i] \in S
  OBVIOUS
<1>2. t = Front(s) /\ s[n] = Last(s)
  BY DEF Front, Last
<1> HIDE DEF n
<1>3. /\ t \in Seq(S)
      /\ Len(t) = IF 1 <= n - 1 THEN n - 1 - 1 + 1 ELSE 0
      /\ \A i \in 1..(n - 1 - 1 + 1) : t[i] = s[1 + i - 1]
  <2>1. n - 1 \in Int /\ \A i \in 1..(n - 1) : s[i] \in S
    BY <1>1
  <2> QED BY <2>1, SubSeqProperties, 1 \in Int
<1> HIDE DEF t
<1>4. Len(t) = n - 1
  BY <1>1, <1>3
<1>5. \A i \in 1..(n - 1) : t[i] = s[i]
  BY <1>1, <1>3
<1>6. n \in Nat \ {0} /\ s[n] \in S
  BY <1>1
<1> QED BY <1>2, <1>3, <1>4, <1>5, <1>6 DEF n

-----------------------------------------------------------------------------
(* Induction, over sets: the library's theorems over formulas are not to   *)
(* be had from the provers at hand.                                        *)

(* A set of numbers has a least one.                                       *)
LEMMA LeastElement ==
  ASSUME NEW T, T \subseteq Nat, T # {}
  PROVE  \E x \in T : \A y \in T : x <= y
<1> DEFINE R == OpToRel(<, Nat)
<1>1. IsWellFoundedOn(R, Nat)
  BY NatLessThanWellFounded
<1> HIDE DEF R
<1>2. PICK x \in T : \A y \in T : <<y, x>> \notin R
  BY <1>1, WFMin
<1>3. ASSUME NEW y \in T, y < x PROVE FALSE
  <2>1. <<y, x>> \in R
    BY <1>3 DEF R, OpToRel
  <2> QED BY <2>1, <1>2
<1> QED BY <1>2, <1>3

(* A set with 0 and with the successors of its numbers has them all.       *)
LEMMA SetInduction ==
  ASSUME NEW T, 0 \in T, \A n \in Nat : n \in T => n + 1 \in T
  PROVE  Nat \subseteq T
<1> SUFFICES ASSUME Nat \ T # {} PROVE FALSE
  OBVIOUS
<1>1. PICK x \in Nat \ T : \A y \in Nat \ T : x <= y
  BY LeastElement
<1>2. x # 0 /\ x - 1 \in Nat /\ x - 1 \notin Nat \ T
  BY <1>1
<1> QED BY <1>1, <1>2

(* A set with the empty sequence and with the extensions of its sequences. *)
LEMMA SeqInduction ==
  ASSUME NEW S, NEW T, <<>> \in T,
         \A s \in Seq(S) : \A e \in S : s \in T => Append(s, e) \in T
  PROVE  Seq(S) \subseteq T
<1> DEFINE L == {n \in Nat : \A s \in Seq(S) : Len(s) = n => s \in T}
<1>1. 0 \in L
  <2>1. \A s \in Seq(S) : Len(s) = 0 => s = <<>>
    BY EmptySeq
  <2> QED BY <2>1
<1>2. ASSUME NEW n \in Nat, n \in L PROVE n + 1 \in L
  <2> SUFFICES ASSUME NEW s \in Seq(S), Len(s) = n + 1 PROVE s \in T
    OBVIOUS
  <2>1. s # <<>>
    BY EmptySeq
  <2>2. PICK t \in Seq(S), e \in S : s = Append(t, e)
    BY <2>1, SequenceEmptyOrAppend
  <2>3. Len(t) = n
    BY <2>2, AppendProperties, LenProperties
  <2> QED BY <1>2, <2>2, <2>3
<1> HIDE DEF L
<1>3. Nat \subseteq L
  BY <1>1, <1>2, SetInduction
<1>4. ASSUME NEW s \in Seq(S) PROVE s \in T
  <2>1. Len(s) \in L
    BY <1>3, LenProperties
  <2> QED BY <2>1 DEF L
<1> QED BY <1>4

(* Folds go through a sequence from its last place down.                   *)
LEMMA MaxOfPrefix ==
  ASSUME NEW k \in Nat, NEW s \in SUBSET (1..(k + 1)), k + 1 \in s
  PROVE  Max(s) = k + 1
<1>1. \A x \in s : x <= k + 1 /\ x \in Int
  OBVIOUS
<1>2. \A x \in s : (\A y \in s : x >= y) => x = k + 1
  BY <1>1
<1>3. \A y \in s : k + 1 >= y
  BY <1>1
<1> QED BY <1>2, <1>3 DEF Max

-----------------------------------------------------------------------------
(* FlattenSeq.                                                             *)

(* What FlattenSeq's recursion says of a function.                         *)
Flattens(ss, n, f) ==
  f = [i \in 1..n |-> IF i = 1 THEN ss[i] ELSE f[i - 1] \o ss[i]]

LEMMA FlattensExists ==
  ASSUME NEW ss, NEW n \in Nat
  PROVE  \E f : Flattens(ss, n, f)
<1> DEFINE T == {m \in Nat : \E f : Flattens(ss, m, f)}
<1>1. 0 \in T
  <2>1. Flattens(ss, 0, [i \in 1..0 |-> 0])
    BY DEF Flattens
  <2> QED BY <2>1
<1>2. ASSUME NEW m \in Nat, m \in T PROVE m + 1 \in T
  <2>1. PICK f : Flattens(ss, m, f)
    BY <1>2
  <2> DEFINE x == IF m + 1 = 1 THEN ss[m + 1] ELSE f[m] \o ss[m + 1]
             g == [i \in 1..(m + 1) |-> IF i = m + 1 THEN x ELSE f[i]]
  <2>2. \A i \in 1..m : f[i] = IF i = 1 THEN ss[i] ELSE f[i - 1] \o ss[i]
    BY <2>1 DEF Flattens
  <2>3. \A i \in 1..m : g[i] = f[i]
    OBVIOUS
  <2>4. g[m + 1] = x
    OBVIOUS
  <2>5. ASSUME NEW i \in 1..(m + 1)
        PROVE  g[i] = IF i = 1 THEN ss[i] ELSE g[i - 1] \o ss[i]
    <3> HIDE DEF g
    <3>1. CASE i = m + 1 /\ i = 1
      BY <2>4, <3>1
    <3>2. CASE i = m + 1 /\ i # 1
      <4>1. m \in 1..m /\ i - 1 = m
        BY <3>2
      <4> QED BY <2>3, <2>4, <3>2, <4>1
    <3>3. CASE i \in 1..m /\ i = 1
      BY <2>2, <2>3, <3>3
    <3>4. CASE i \in 1..m /\ i # 1
      <4>1. i - 1 \in 1..m
        BY <3>4
      <4> QED BY <2>2, <2>3, <3>4, <4>1
    <3> QED BY <3>1, <3>2, <3>3, <3>4
  <2>6. Flattens(ss, m + 1, g)
    <3>1. g = [i \in 1..(m + 1) |-> g[i]]
      OBVIOUS
    <3> HIDE DEF g
    <3> QED BY <2>5, <3>1 DEF Flattens
  <2> HIDE DEF g
  <2> QED BY <2>6
<1> HIDE DEF T
<1>3. Nat \subseteq T
  BY <1>1, <1>2, SetInduction
<1> QED BY <1>3 DEF T

(* Two functions are the same as far as n.                                 *)
Agree(f, g, n) == \A i \in 1..n : g[i] = f[i]

LEMMA FlattensUnique ==
  ASSUME NEW ss, NEW tt, NEW n \in Nat, NEW m \in Nat, n <= m,
         Agree(ss, tt, n),
         NEW f, Flattens(ss, n, f), NEW g, Flattens(tt, m, g)
  PROVE  Agree(f, g, n)
<1> USE DEF Agree
<1> DEFINE T == {j \in Nat : j + 1 \in 1..n => g[j + 1] = f[j + 1]}
<1>1. /\ \A i \in 1..n : f[i] = IF i = 1 THEN ss[i] ELSE f[i - 1] \o ss[i]
      /\ \A i \in 1..m : g[i] = IF i = 1 THEN tt[i] ELSE g[i - 1] \o tt[i]
  BY DEF Flattens
<1>2. 0 \in T
  BY <1>1
<1>3. ASSUME NEW j \in Nat, j \in T PROVE j + 1 \in T
  <2> SUFFICES ASSUME (j + 1) + 1 \in 1..n PROVE g[(j + 1) + 1] = f[(j + 1) + 1]
    OBVIOUS
  <2>1. j + 1 \in 1..n /\ (j + 1) + 1 # 1 /\ (j + 1) + 1 - 1 = j + 1 /\ (j + 1) + 1 \in 1..m
    OBVIOUS
  <2> QED BY <1>1, <1>3, <2>1
<1> HIDE DEF T
<1>4. Nat \subseteq T
  BY <1>2, <1>3, SetInduction
<1>5. ASSUME NEW i \in 1..n PROVE g[i] = f[i]
  <2>1. i - 1 \in T /\ (i - 1) + 1 = i
    BY <1>4
  <2> QED BY <2>1 DEF T
<1> QED BY <1>5

LEMMA FlattenIs ==
  ASSUME NEW ss, NEW n \in Nat \ {0}, Len(ss) = n
  PROVE  \E f : Flattens(ss, n, f) /\ FlattenSeq(ss) = f[n]
<1> DEFINE f == CHOOSE f : Flattens(ss, n, f)
<1>1. Flattens(ss, n, f)
  BY FlattensExists
<1>2. FlattenSeq(ss) = f[n]
  BY DEF FlattenSeq, Flattens
<1> QED BY <1>1, <1>2

(* What FlattenSeq does of a sequence that grows.                          *)
LEMMA FlattenEmpty == FlattenSeq(<<>>) = <<>>
BY Len(<<>>) = 0 DEF FlattenSeq

LEMMA FlattenGrows ==
  ASSUME NEW S, NEW ss \in Seq(Seq(S)), NEW s \in Seq(S), FlattenSeq(ss) \in Seq(S)
  PROVE  FlattenSeq(Append(ss, s)) = FlattenSeq(ss) \o s
<1> DEFINE n == Len(ss)
           tt == Append(ss, s)
<1>1. /\ n \in Nat /\ Len(tt) = n + 1 /\ tt[n + 1] = s
      /\ \A i \in 1..n : tt[i] = ss[i]
  BY AppendProperties, LenProperties
<1> HIDE DEF n, tt
<1>2. PICK g : Flattens(tt, n + 1, g) /\ FlattenSeq(tt) = g[n + 1]
  BY <1>1, FlattenIs
<1>3. g[n + 1] = IF n + 1 = 1 THEN tt[n + 1] ELSE g[n + 1 - 1] \o tt[n + 1]
  <2>1. \A i \in 1..(n + 1) : g[i] = IF i = 1 THEN tt[i] ELSE g[i - 1] \o tt[i]
    BY <1>2 DEF Flattens
  <2> QED BY <1>1, <2>1
<1>4. CASE n = 0
  <2>1. ss = <<>>
    BY <1>4, EmptySeq DEF n
  <2>2. FlattenSeq(ss) \o s = s
    BY <2>1, FlattenEmpty, ConcatEmptySeq
  <2> QED BY <1>1, <1>2, <1>3, <1>4, <2>2 DEF tt
<1>5. CASE n # 0
  <2>1. PICK f : Flattens(ss, n, f) /\ FlattenSeq(ss) = f[n]
    BY <1>1, <1>5, FlattenIs DEF n
  <2>2. n \in 1..n /\ n <= n + 1 /\ n + 1 \in Nat /\ n + 1 # 1 /\ n + 1 - 1 = n
    BY <1>1, <1>5
  <2>3. Agree(f, g, n)
    <3>1. PICK m \in Nat : m = n + 1
      BY <2>2
    <3>2. n <= m /\ Flattens(tt, m, g)
      BY <1>2, <2>2, <3>1
    <3>3. n \in Nat /\ Agree(ss, tt, n)
      BY <1>1 DEF Agree
    <3>4. Flattens(ss, n, f)
      BY <2>1
    <3> QED BY <3>1, <3>2, <3>3, <3>4, FlattensUnique
  <2> QED BY <1>1, <1>2, <1>3, <2>1, <2>2, <2>3 DEF tt, Agree
<1> QED BY <1>4, <1>5

LEMMA FlattenType ==
  ASSUME NEW S, NEW ss \in Seq(Seq(S))
  PROVE  FlattenSeq(ss) \in Seq(S)
<1> DEFINE T == {tt \in Seq(Seq(S)) : FlattenSeq(tt) \in Seq(S)}
<1>1. <<>> \in T
  BY FlattenEmpty, EmptySeq
<1>2. ASSUME NEW tt \in Seq(Seq(S)), NEW s \in Seq(S), tt \in T PROVE Append(tt, s) \in T
  <2>1. FlattenSeq(Append(tt, s)) = FlattenSeq(tt) \o s /\ FlattenSeq(tt) \in Seq(S)
    BY <1>2, FlattenGrows
  <2> QED BY <2>1, ConcatProperties, AppendProperties
<1> HIDE DEF T
<1>3. Seq(Seq(S)) \subseteq T
  BY <1>1, <1>2, SeqInduction
<1> QED BY <1>3 DEF T

LEMMA FlattenAppend ==
  ASSUME NEW S, NEW ss \in Seq(Seq(S)), NEW s \in Seq(S)
  PROVE  /\ FlattenSeq(ss) \in Seq(S) /\ Append(ss, s) \in Seq(Seq(S))
         /\ FlattenSeq(Append(ss, s)) = FlattenSeq(ss) \o s
BY FlattenType, FlattenGrows, AppendProperties

LEMMA FlattenSingle ==
  ASSUME NEW S, NEW s \in Seq(S)
  PROVE  FlattenSeq(<<s>>) = s /\ <<s>> \in Seq(Seq(S))
<1>1. <<>> \in Seq(Seq(S)) /\ Append(<<>>, s) = <<s>>
  BY EmptySeq
<1>2. FlattenSeq(Append(<<>>, s)) = FlattenSeq(<<>>) \o s /\ Append(<<>>, s) \in Seq(Seq(S))
  BY <1>1, FlattenAppend
<1> QED BY <1>1, <1>2, FlattenEmpty, ConcatEmptySeq

LEMMA FlattenConcat ==
  ASSUME NEW S, NEW ss \in Seq(Seq(S)), NEW tt \in Seq(Seq(S))
  PROVE  /\ ss \o tt \in Seq(Seq(S))
         /\ FlattenSeq(ss) \in Seq(S) /\ FlattenSeq(tt) \in Seq(S)
         /\ FlattenSeq(ss \o tt) = FlattenSeq(ss) \o FlattenSeq(tt)
<1> DEFINE T == {uu \in Seq(Seq(S)) : FlattenSeq(ss \o uu) = FlattenSeq(ss) \o FlattenSeq(uu)}
<1>1. <<>> \in T
  BY FlattenEmpty, FlattenType, EmptySeq, ConcatEmptySeq
<1>2. ASSUME NEW uu \in Seq(Seq(S)), NEW s \in Seq(S), uu \in T PROVE Append(uu, s) \in T
  <2>1. ss \o uu \in Seq(Seq(S)) /\ Append(uu, s) \in Seq(Seq(S)) /\ <<s>> \in Seq(Seq(S))
    BY ConcatProperties, AppendProperties, FlattenSingle
  <2>2. ss \o Append(uu, s) = Append(ss \o uu, s)
    <3>1. Append(uu, s) = uu \o <<s>> /\ Append(ss \o uu, s) = (ss \o uu) \o <<s>>
      BY <2>1, AppendIsConcat
    <3> QED BY <2>1, <3>1, ConcatAssociative
  <2>3. /\ FlattenSeq(Append(ss \o uu, s)) = FlattenSeq(ss \o uu) \o s
        /\ FlattenSeq(Append(uu, s)) = FlattenSeq(uu) \o s
    BY <2>1, FlattenAppend
  <2>4. (FlattenSeq(ss) \o FlattenSeq(uu)) \o s = FlattenSeq(ss) \o (FlattenSeq(uu) \o s)
    <3>1. FlattenSeq(ss) \in Seq(S) /\ FlattenSeq(uu) \in Seq(S)
      BY FlattenType
    <3> QED BY <3>1, ConcatAssociative
  <2> QED BY <1>2, <2>1, <2>2, <2>3, <2>4
<1> HIDE DEF T
<1>3. Seq(Seq(S)) \subseteq T
  BY <1>1, <1>2, SeqInduction
<1> QED BY <1>3, FlattenType, ConcatProperties DEF T

(* What FlattenSeq does of a sequence's first element.                     *)
LEMMA FlattenCons ==
  ASSUME NEW S, NEW ss \in Seq(Seq(S)), ss # <<>>
  PROVE  /\ Head(ss) \in Seq(S) /\ Tail(ss) \in Seq(Seq(S))
         /\ FlattenSeq(Tail(ss)) \in Seq(S)
         /\ FlattenSeq(ss) = Head(ss) \o FlattenSeq(Tail(ss))
<1>1. Head(ss) \in Seq(S) /\ Tail(ss) \in Seq(Seq(S)) /\ ss = <<Head(ss)>> \o Tail(ss)
  BY HeadTailProperties
<1>2. <<Head(ss)>> \in Seq(Seq(S)) /\ FlattenSeq(<<Head(ss)>>) = Head(ss)
  BY <1>1, FlattenSingle
<1>3. /\ FlattenSeq(Tail(ss)) \in Seq(S)
      /\ FlattenSeq(<<Head(ss)>> \o Tail(ss)) = FlattenSeq(<<Head(ss)>>) \o FlattenSeq(Tail(ss))
  BY <1>1, <1>2, FlattenConcat
<1> QED BY <1>1, <1>2, <1>3

-----------------------------------------------------------------------------
(* The first n elements of a sequence, and the others.                     *)
Upto(s, n) == SubSeq(s, 1, n)
After(s, n) == SubSeq(s, n + 1, Len(s))

LEMMA UptoFacts ==
  ASSUME NEW S, NEW s \in Seq(S), NEW n \in 0..Len(s)
  PROVE  /\ Upto(s, n) \in Seq(S) /\ Len(Upto(s, n)) = n
         /\ \A i \in 1..n : Upto(s, n)[i] = s[i]
<1>1. Len(s) \in Nat /\ \A i \in 1..n : s[i] \in S
  BY ElementOfSeq, LenProperties
<1>2. n \in Int /\ 1 \in Int
  BY <1>1
<1>3. /\ Upto(s, n) \in Seq(S)
      /\ Len(Upto(s, n)) = IF 1 <= n THEN n - 1 + 1 ELSE 0
      /\ \A i \in 1..(n - 1 + 1) : Upto(s, n)[i] = s[1 + i - 1]
  BY <1>1, <1>2, SubSeqProperties DEF Upto
<1> QED BY <1>1, <1>3

LEMMA AfterFacts ==
  ASSUME NEW S, NEW s \in Seq(S), NEW n \in Nat
  PROVE  /\ After(s, n) \in Seq(S)
         /\ Len(After(s, n)) = IF n <= Len(s) THEN Len(s) - n ELSE 0
         /\ \A i \in 1..(Len(s) - n) : After(s, n)[i] = s[n + i]
<1>1. Len(s) \in Nat /\ \A i \in (n + 1)..Len(s) : s[i] \in S
  BY ElementOfSeq, LenProperties
<1>2. PICK a \in Int, b \in Int : a = n + 1 /\ b = Len(s)
  BY <1>1
<1>3. \A i \in a..b : s[i] \in S
  BY <1>1, <1>2
<1>4. /\ SubSeq(s, a, b) \in Seq(S)
      /\ Len(SubSeq(s, a, b)) = IF a <= b THEN b - a + 1 ELSE 0
      /\ \A i \in 1..(b - a + 1) : SubSeq(s, a, b)[i] = s[a + i - 1]
  BY <1>3, SubSeqProperties
<1>5. After(s, n) = SubSeq(s, a, b)
  BY <1>2 DEF After
<1>6. \A i \in 1..(b - n) : i \in 1..(b - a + 1) /\ a + i - 1 = n + i
  BY <1>2
<1>7. (IF a <= b THEN b - a + 1 ELSE 0) = IF n <= b THEN b - n ELSE 0
  BY <1>2
<1>8. \A i \in 1..(b - n) : SubSeq(s, a, b)[i] = s[n + i]
  BY <1>4, <1>6
<1> QED BY <1>2, <1>4, <1>5, <1>7, <1>8

(* Two sequences in a row, and either cut.                                 *)
LEMMA UptoOfConcat ==
  ASSUME NEW S, NEW s \in Seq(S), NEW t \in Seq(S), NEW n \in 0..(Len(s) + Len(t))
  PROVE  /\ n <= Len(s) => Upto(s \o t, n) = Upto(s, n)
         /\ n >= Len(s) => Upto(s \o t, n) = s \o Upto(t, n - Len(s))
<1> DEFINE u == s \o t
           a == Len(s)
           b == Len(t)
<1>1. /\ a \in Nat /\ b \in Nat /\ u \in Seq(S) /\ Len(u) = a + b
      /\ \A i \in 1..(a + b) : u[i] = IF i <= a THEN s[i] ELSE t[i - a]
  BY ConcatProperties, LenProperties
<1>2. n \in 0..(a + b)
  OBVIOUS
<1> HIDE DEF u, a, b
<1>3. /\ Upto(u, n) \in Seq(S) /\ Len(Upto(u, n)) = n
      /\ \A i \in 1..n : Upto(u, n)[i] = u[i]
  BY <1>1, <1>2, UptoFacts
<1>4. ASSUME n <= a PROVE Upto(u, n) = Upto(s, n)
  <2>1. n \in 0..Len(s)
    BY <1>1, <1>2, <1>4 DEF a
  <2>2. /\ Upto(s, n) \in Seq(S) /\ Len(Upto(s, n)) = n
        /\ \A i \in 1..n : Upto(s, n)[i] = s[i]
    BY <2>1, UptoFacts
  <2>3. ASSUME NEW i \in 1..n PROVE Upto(u, n)[i] = Upto(s, n)[i]
    <3>1. i \in 1..(a + b) /\ i <= a
      BY <1>1, <1>2, <1>4
    <3> QED BY <1>1, <1>3, <2>2, <3>1
  <2> QED BY <1>3, <2>2, <2>3, SeqEqual
<1>5. ASSUME n >= a PROVE Upto(u, n) = s \o Upto(t, n - a)
  <2>1. PICK m \in 0..Len(t) : m = n - a
    BY <1>1, <1>2, <1>5 DEF b
  <2>2. /\ Upto(t, m) \in Seq(S) /\ Len(Upto(t, m)) = m
        /\ \A i \in 1..m : Upto(t, m)[i] = t[i]
    BY UptoFacts
  <2>3. PICK v, w : w = Upto(t, m) /\ v = s \o w
    OBVIOUS
  <2>4. /\ v \in Seq(S) /\ Len(v) = a + m
        /\ \A i \in 1..(a + m) : v[i] = IF i <= a THEN s[i] ELSE w[i - a]
    <3>1. w \in Seq(S) /\ Len(w) = m
      BY <2>2, <2>3
    <3>2. /\ s \o w \in Seq(S) /\ Len(s \o w) = a + Len(w)
          /\ \A i \in 1..(a + Len(w)) : (s \o w)[i] = IF i <= a THEN s[i] ELSE w[i - a]
      BY <3>1, ConcatProperties DEF a
    <3> QED BY <2>3, <3>1, <3>2
  <2>5. m \in Nat /\ a + m = n
    BY <1>1, <1>2, <2>1
  <2>6. ASSUME NEW i \in 1..n PROVE Upto(u, n)[i] = v[i]
    <3>1. i \in 1..(a + b) /\ i \in 1..(a + m) /\ (~ (i <= a) => i - a \in 1..m)
      BY <1>1, <1>2, <2>5
    <3> QED BY <1>1, <1>3, <2>2, <2>3, <2>4, <3>1
  <2>7. Upto(u, n) = v
    BY <1>3, <2>4, <2>5, <2>6, SeqEqual
  <2> QED BY <2>1, <2>3, <2>7
<1> QED BY <1>4, <1>5 DEF u, a

LEMMA AfterOfConcat ==
  ASSUME NEW S, NEW s \in Seq(S), NEW t \in Seq(S), NEW n \in Nat
  PROVE  /\ n <= Len(s) => After(s \o t, n) = After(s, n) \o t
         /\ n >= Len(s) => After(s \o t, n) = After(t, n - Len(s))
<1> DEFINE u == s \o t
           a == Len(s)
           b == Len(t)
<1>1. /\ a \in Nat /\ b \in Nat /\ u \in Seq(S) /\ Len(u) = a + b
      /\ \A i \in 1..(a + b) : u[i] = IF i <= a THEN s[i] ELSE t[i - a]
  BY ConcatProperties, LenProperties
<1> HIDE DEF u
<1>2. /\ After(u, n) \in Seq(S) /\ Len(After(u, n)) = IF n <= Len(u) THEN Len(u) - n ELSE 0
      /\ \A i \in 1..(Len(u) - n) : After(u, n)[i] = u[n + i]
  <2>1. u \in Seq(S)
    BY <1>1
  <2> QED BY <2>1, AfterFacts
<1>3. /\ After(s, n) \in Seq(S) /\ Len(After(s, n)) = IF n <= a THEN a - n ELSE 0
      /\ \A i \in 1..(a - n) : After(s, n)[i] = s[n + i]
  BY AfterFacts
<1> HIDE DEF a, b
<1>4. ASSUME n <= a PROVE After(u, n) = After(s, n) \o t
  <2>1. PICK v : v = After(s, n) \o t
    OBVIOUS
  <2>2. PICK c \in Nat : c = a - n
    BY <1>1, <1>4
  <2>3. /\ v \in Seq(S) /\ Len(v) = c + b
        /\ \A i \in 1..(c + b) : v[i] = IF i <= c THEN After(s, n)[i] ELSE t[i - c]
    <3>1. Len(After(s, n)) = c
      BY <1>3, <1>4, <2>2
    <3> QED BY <1>3, <2>1, <3>1, ConcatProperties DEF b
  <2>4. Len(After(u, n)) = c + b
    BY <1>1, <1>2, <1>4, <2>2
  <2>5. ASSUME NEW i \in 1..(c + b) PROVE After(u, n)[i] = v[i]
    <3>1. i \in 1..(Len(u) - n) /\ n + i \in 1..(a + b) /\ (n + i <= a <=> i <= c)
          /\ (n + i) - a = i - c /\ (i <= c => i \in 1..(a - n))
      BY <1>1, <1>4, <2>2
    <3>2. After(u, n)[i] = u[n + i]
      BY <1>2, <3>1
    <3>3. u[n + i] = IF i <= c THEN s[n + i] ELSE t[i - c]
      BY <1>1, <3>1
    <3> QED BY <1>3, <2>3, <3>1, <3>2, <3>3
  <2> QED BY <1>2, <2>1, <2>3, <2>4, <2>5, SeqEqual
<1>5. ASSUME n >= a PROVE After(u, n) = After(t, n - a)
  <2>1. PICK m \in Nat : m = n - a
    BY <1>1, <1>5
  <2>2. /\ After(t, m) \in Seq(S) /\ Len(After(t, m)) = IF m <= b THEN b - m ELSE 0
        /\ \A i \in 1..(b - m) : After(t, m)[i] = t[m + i]
    BY AfterFacts DEF b
  <2>3. Len(After(u, n)) = Len(After(t, m))
    <3>1. (IF n <= a + b THEN a + b - n ELSE 0) = IF m <= b THEN b - m ELSE 0
      BY <1>1, <2>1
    <3> QED BY <1>1, <1>2, <2>2, <3>1
  <2>4. ASSUME NEW i \in 1..Len(After(t, m)) PROVE After(u, n)[i] = After(t, m)[i]
    <3>1. i \in 1..(b - m)
      BY <1>1, <2>1, <2>2
    <3>2. i \in 1..(Len(u) - n) /\ n + i \in 1..(a + b) /\ ~ (n + i <= a) /\ (n + i) - a = m + i
      BY <1>1, <2>1, <3>1
    <3>3. After(u, n)[i] = u[n + i]
      BY <1>2, <3>2
    <3>4. u[n + i] = t[m + i]
      BY <1>1, <3>2
    <3> QED BY <2>2, <3>1, <3>3, <3>4
  <2>5. After(u, n) = After(t, m)
    BY <1>2, <2>2, <2>3, <2>4, SeqEqual
  <2> QED BY <2>1, <2>5
<1> QED BY <1>4, <1>5 DEF u, a

(* The two parts make the whole.                                           *)
LEMMA SplitFacts ==
  ASSUME NEW S, NEW s \in Seq(S), NEW n \in 0..Len(s)
  PROVE  /\ s = Upto(s, n) \o After(s, n)
         /\ Upto(s, n) \in Seq(S) /\ After(s, n) \in Seq(S)
         /\ Len(Upto(s, n)) = n /\ Len(After(s, n)) = Len(s) - n
<1>1. Len(s) \in Nat /\ n \in Nat /\ n <= Len(s)
  BY LenProperties
<1>2. SubSeq(s, 1, n) \o SubSeq(s, n + 1, Len(s)) = SubSeq(s, 1, Len(s))
  <2>1. /\ 1 \in 1..(Len(s) + 1) /\ n \in (1 - 1)..Len(s) /\ Len(s) \in n..Len(s)
    BY <1>1
  <2> QED BY <2>1, ConcatAdjacentSubSeq
<1>3. SubSeq(s, 1, Len(s)) = s
  BY SubSeqFull
<1>4. Len(After(s, n)) = Len(s) - n /\ After(s, n) \in Seq(S)
  BY <1>1, AfterFacts
<1> QED BY <1>2, <1>3, <1>4, UptoFacts DEF Upto, After

(* Taking from a sequence in two steps.                                    *)
LEMMA UptoSum ==
  ASSUME NEW T, NEW s \in Seq(T), NEW a \in Nat, NEW b \in Nat, a + b <= Len(s)
  PROVE  Upto(s, a + b) = Upto(s, a) \o Upto(After(s, a), b)
<1>1. PICK n \in Nat : n = Len(s) /\ a \in 0..n /\ a + b \in 0..n /\ b \in 0..(n - a)
  BY LenProperties
<1>2. s = Upto(s, a) \o After(s, a) /\ Upto(s, a) \in Seq(T) /\ After(s, a) \in Seq(T)
      /\ Len(Upto(s, a)) = a /\ Len(After(s, a)) = n - a
  BY <1>1, SplitFacts
<1>3. PICK u, v : u = Upto(s, a) /\ v = After(s, a)
  OBVIOUS
<1>4. /\ u \in Seq(T) /\ v \in Seq(T) /\ Len(u) = a /\ Len(v) = n - a /\ s = u \o v
      /\ a + b \in 0..(Len(u) + Len(v)) /\ a + b >= Len(u) /\ (a + b) - Len(u) = b
  <2>1. u \in Seq(T) /\ v \in Seq(T) /\ Len(u) = a /\ Len(v) = n - a /\ s = u \o v
    BY <1>2, <1>3
  <2>2. a + (n - a) = n /\ a + b \in 0..n /\ a + b >= a /\ (a + b) - a = b
    BY <1>1
  <2> QED BY <2>1, <2>2
<1>5. Upto(u \o v, a + b) = u \o Upto(v, (a + b) - Len(u))
  BY <1>4, UptoOfConcat
<1> QED BY <1>3, <1>4, <1>5

LEMMA UptoUpto ==
  ASSUME NEW T, NEW s \in Seq(T), NEW a \in 0..Len(s), NEW b \in 0..a
  PROVE  Upto(Upto(s, a), b) = Upto(s, b)
<1>0. Len(s) \in Nat
  BY LenProperties
<1>1. PICK n \in Nat : n = Len(s) /\ a \in 0..n /\ b \in 0..n
  BY <1>0
<1>00. PICK u : u = Upto(s, a)
  OBVIOUS
<1>2. u \in Seq(T) /\ Len(u) = a /\ \A i \in 1..a : u[i] = s[i]
  BY <1>00, UptoFacts
<1>3. Upto(u, b) \in Seq(T) /\ Len(Upto(u, b)) = b /\ \A i \in 1..b : Upto(u, b)[i] = u[i]
  BY <1>2, UptoFacts
<1>4. Upto(s, b) \in Seq(T) /\ Len(Upto(s, b)) = b /\ \A i \in 1..b : Upto(s, b)[i] = s[i]
  BY <1>1, UptoFacts
<1>5. \A i \in 1..b : i \in 1..a
  OBVIOUS
<1>6. \A i \in 1..b : Upto(u, b)[i] = Upto(s, b)[i]
  BY <1>2, <1>3, <1>4, <1>5
<1>7. Upto(u, b) = Upto(s, b)
  BY <1>3, <1>4, <1>6, SeqEqual
<1> QED BY <1>00, <1>7

LEMMA AfterLen ==
  ASSUME NEW T, NEW s \in Seq(T), NEW n \in 0..Len(s)
  PROVE  /\ After(s, n) \in Seq(T) /\ Len(After(s, n)) = Len(s) - n
         /\ \A i \in 1..(Len(s) - n) : After(s, n)[i] = s[n + i]
<1>1. n \in Nat /\ n <= Len(s) /\ Len(s) \in Nat
  BY LenProperties
<1>2. Len(After(s, n)) = IF n <= Len(s) THEN Len(s) - n ELSE 0
  BY <1>1, AfterFacts
<1> QED BY <1>1, <1>2, AfterFacts

LEMMA WholeFacts ==
  ASSUME NEW T, NEW s \in Seq(T)
  PROVE  /\ Upto(s, Len(s)) = s /\ After(s, 0) = s
         /\ Upto(s, 0) = <<>> /\ After(s, Len(s)) = <<>>
<1>1. PICK n \in Nat : n = Len(s)
  BY LenProperties
<1>0. n \in 0..Len(s) /\ 0 \in 0..Len(s)
  BY <1>1
<1>2. Upto(s, n) \in Seq(T) /\ Len(Upto(s, n)) = n /\ \A i \in 1..n : Upto(s, n)[i] = s[i]
  BY <1>0, UptoFacts
<1>3. Upto(s, n) = s
  BY <1>1, <1>2, SeqEqual
<1>4. Upto(s, 0) \in Seq(T) /\ Len(Upto(s, 0)) = 0
  BY <1>0, UptoFacts
<1>5. After(s, 0) \in Seq(T) /\ Len(After(s, 0)) = n /\ \A i \in 1..n : After(s, 0)[i] = s[i]
  <2>1. /\ After(s, 0) \in Seq(T) /\ Len(After(s, 0)) = n - 0
        /\ \A i \in 1..(n - 0) : After(s, 0)[i] = s[0 + i]
    BY <1>0, <1>1, AfterLen
  <2>2. n - 0 = n /\ \A i \in 1..n : 0 + i = i
    BY <1>1
  <2> QED BY <2>1, <2>2
<1>6. After(s, n) \in Seq(T) /\ Len(After(s, n)) = 0
  <2>1. After(s, n) \in Seq(T) /\ Len(After(s, n)) = n - n
    BY <1>0, <1>1, AfterLen
  <2> QED BY <1>1, <2>1
<1>7. After(s, 0) = s
  BY <1>1, <1>5, SeqEqual
<1> QED BY <1>1, <1>3, <1>4, <1>6, <1>7, EmptySeq

-----------------------------------------------------------------------------
(* Sequences in a row: each name keeps the provers to the fact they need.  *)
LEMMA Associative ==
  ASSUME NEW T, NEW a \in Seq(T), NEW b \in Seq(T), NEW c \in Seq(T)
  PROVE  (a \o b) \o c = a \o (b \o c) /\ a \o b \in Seq(T) /\ (a \o b) \o c \in Seq(T)
BY ConcatAssociative, ConcatProperties

(* Three in a row.                                                         *)
Three(a, b, c) == (a \o b) \o c = a \o (b \o c)

LEMMA Threes ==
  ASSUME NEW T, NEW a \in Seq(T), NEW b \in Seq(T), NEW c \in Seq(T)
  PROVE  Three(a, b, c)
BY ConcatAssociative DEF Three

(* Four in a row.                                                          *)
Bracketed(a, b, c, d) ==
  /\ (a \o b) \o (c \o d) = a \o ((b \o c) \o d)
  /\ (a \o (b \o c)) \o d = (a \o b) \o (c \o d)

LEMMA Associative4 ==
  ASSUME NEW T, NEW a \in Seq(T), NEW b \in Seq(T), NEW c \in Seq(T), NEW d \in Seq(T)
  PROVE  Bracketed(a, b, c, d)
<1>1. b \o c \in Seq(T) /\ c \o d \in Seq(T) /\ a \o b \in Seq(T)
  BY ConcatProperties
<1>2. Three(a, b, c) /\ Three(b, c, d)
  BY Threes
<1>3. Three(a \o b, c, d) /\ Three(a, b, c \o d)
  BY <1>1, Threes
<1>4. (a \o (b \o c)) \o d = (a \o b) \o (c \o d)
  BY <1>2, <1>3, Zenon DEF Three
<1>5. (a \o b) \o (c \o d) = a \o ((b \o c) \o d)
  <2>1. (a \o b) \o (c \o d) = a \o (b \o (c \o d))
    BY <1>3, Zenon DEF Three
  <2>2. a \o (b \o (c \o d)) = a \o ((b \o c) \o d)
    BY <1>2, Zenon DEF Three
  <2> QED BY <2>1, <2>2, Zenon
<1> QED BY <1>4, <1>5, Zenon DEF Bracketed

Joined(T, a, b) ==
  /\ a \o b \in Seq(T) /\ Len(a \o b) = Len(a) + Len(b)
  /\ Len(a) \in Nat /\ Len(b) \in Nat
Divided(T, s, n) ==
  /\ s = Upto(s, n) \o After(s, n)
  /\ Upto(s, n) \in Seq(T) /\ After(s, n) \in Seq(T)
  /\ Len(Upto(s, n)) = n /\ Len(After(s, n)) = Len(s) - n

LEMMA Joins ==
  ASSUME NEW T, NEW a \in Seq(T), NEW b \in Seq(T)
  PROVE  Joined(T, a, b)
<1>1. a \o b \in Seq(T) /\ Len(a \o b) = Len(a) + Len(b)
  BY ConcatProperties, Zenon
<1>2. Len(a) \in Nat /\ Len(b) \in Nat
  BY LenProperties
<1> QED BY <1>1, <1>2, Zenon DEF Joined

LEMMA Divides ==
  ASSUME NEW T, NEW s \in Seq(T), NEW n \in 0..Len(s)
  PROVE  Divided(T, s, n)
BY SplitFacts, Zenon DEF Divided

-----------------------------------------------------------------------------
(* Two ways to cut one sequence.                                           *)
LEMMA Cut ==
  ASSUME NEW T, NEW a \in Seq(T), NEW b \in Seq(T), NEW c \in Seq(T), NEW d \in Seq(T),
         a \o b = c \o d, Len(a) = Len(c)
  PROVE  a = c /\ b = d
<1>1. PICK n \in Nat : n = Len(a) /\ n = Len(c) /\ Len(b) \in Nat /\ Len(d) \in Nat
  BY LenProperties
<1>2. ASSUME NEW s \in Seq(T), NEW t \in Seq(T), Len(s) = n
      PROVE  Upto(s \o t, n) = s /\ After(s \o t, n) = t
  <2>1. Upto(s, n) = s /\ After(t, 0) = t
    BY <1>2, WholeFacts
  <2>2. n \in 0..(Len(s) + Len(t)) /\ n <= Len(s) /\ n >= Len(s) /\ n - Len(s) = 0
    BY <1>2, LenProperties
  <2>3. Upto(s \o t, n) = Upto(s, n)
    BY <2>2, UptoOfConcat
  <2>4. After(s \o t, n) = After(t, n - Len(s))
    BY <2>2, AfterOfConcat
  <2> QED BY <2>1, <2>2, <2>3, <2>4
<1>3. Upto(a \o b, n) = a /\ After(a \o b, n) = b
  BY <1>1, <1>2
<1>4. Upto(c \o d, n) = c /\ After(c \o d, n) = d
  BY <1>1, <1>2
<1> QED BY <1>3, <1>4

LEMMA Longer ==
  ASSUME NEW T, NEW a \in Seq(T), NEW b \in Seq(T), NEW c \in Seq(T), NEW d \in Seq(T),
         a \o b = c \o d, Len(c) <= Len(a)
  PROVE  \E e \in Seq(T) : a = c \o e /\ d = e \o b
<1>1. Len(a) \in Nat /\ Len(c) \in Nat /\ Len(c) \in 0..Len(a)
  BY LenProperties
<1>2. PICK x, e : x = Upto(a, Len(c)) /\ e = After(a, Len(c))
  OBVIOUS
<1>3. a = x \o e /\ x \in Seq(T) /\ e \in Seq(T) /\ Len(x) = Len(c)
  <2>1. /\ a = Upto(a, Len(c)) \o After(a, Len(c))
        /\ Upto(a, Len(c)) \in Seq(T) /\ After(a, Len(c)) \in Seq(T)
        /\ Len(Upto(a, Len(c))) = Len(c)
    BY <1>1, SplitFacts
  <2> QED BY <1>2, <2>1
<1>4. e \o b \in Seq(T)
  BY <1>3, ConcatProperties
<1>7. (x \o e) \o b = x \o (e \o b)
  BY <1>3, ConcatAssociative
<1>5. x \o (e \o b) = c \o d
  BY <1>3, <1>7, Zenon
<1>6. x = c /\ e \o b = d
  BY <1>3, <1>4, <1>5, Cut
<1> QED BY <1>3, <1>6

LEMMA PrefixFacts ==
  ASSUME NEW T, NEW s \in Seq(T), NEW t \in Seq(T)
  PROVE  IsPrefix(s, s \o t)
<1>1. PICK m \in Nat, n \in Nat : m = Len(s) /\ n = Len(t)
  BY LenProperties
<1>2. Len(s \o t) = m + n
  BY <1>1, ConcatProperties
<1>3. Upto(s \o t, m) = Upto(s, m)
  <2>1. m \in 0..(Len(s) + Len(t)) /\ m <= Len(s)
    BY <1>1
  <2> QED BY <2>1, UptoOfConcat
<1> QED BY <1>1, <1>2, <1>3 DEF IsPrefix, Upto

AppendsTo(a, b, e) == Append(a \o b, e) = a \o Append(b, e)

LEMMA AppendOfConcat ==
  ASSUME NEW T, NEW a \in Seq(T), NEW b \in Seq(T), NEW e \in T
  PROVE  AppendsTo(a, b, e)
<1>1. <<e>> \in Seq(T)
  OBVIOUS
<1>2. Joined(T, a, b) /\ Three(a, b, <<e>>)
  BY <1>1, Joins, Threes
<1>3. a \o b \in Seq(T)
  BY <1>2, Zenon DEF Joined
<1>4. Append(a \o b, e) = (a \o b) \o <<e>> /\ Append(b, e) = b \o <<e>>
  BY <1>3, AppendIsConcat
<1> QED BY <1>2, <1>4, Zenon DEF Three, AppendsTo

LEMMA ConsParts ==
  ASSUME NEW T, NEW e \in T, NEW s \in Seq(T)
  PROVE  <<e>> \o s # <<>> /\ Head(<<e>> \o s) = e /\ Tail(<<e>> \o s) = s
<1>0. PICK n \in Nat : n = Len(s)
  BY LenProperties
<1>1. PICK t : n = Len(s) /\ t = <<e>> \o s
  BY <1>0
<1>2. <<e>> \in Seq(T) /\ Len(<<e>>) = 1 /\ <<e>>[1] = e
  OBVIOUS
<1>3. /\ t \in Seq(T) /\ Len(t) = 1 + n /\ t[1] = e
      /\ \A i \in 1..n : t[i + 1] = s[i]
  <2>1. /\ t \in Seq(T) /\ Len(t) = 1 + n
        /\ \A i \in 1..(1 + n) : t[i] = IF i <= 1 THEN <<e>>[i] ELSE s[i - 1]
    BY <1>1, <1>2, ConcatProperties
  <2>2. t[1] = e
    BY <1>2, <2>1
  <2>3. ASSUME NEW i \in 1..n PROVE t[i + 1] = s[i]
    <3>1. i + 1 \in 1..(1 + n) /\ ~ (i + 1 <= 1) /\ (i + 1) - 1 = i
      OBVIOUS
    <3> QED BY <2>1, <3>1
  <2> QED BY <2>1, <2>2, <2>3
<1>4. t # <<>> /\ Head(t) = e
  BY <1>3
<1>5. Tail(t) \in Seq(T) /\ Len(Tail(t)) = n /\ \A i \in 1..n : Tail(t)[i] = t[i + 1]
  BY <1>3, <1>4, HeadTailProperties
<1>6. Tail(t) = s
  <2>1. Len(Tail(t)) = Len(s) /\ \A i \in 1..Len(Tail(t)) : Tail(t)[i] = s[i]
    BY <1>1, <1>3, <1>5
  <2> QED BY <1>5, <2>1, SeqEqual
<1> QED BY <1>1, <1>4, <1>6

-----------------------------------------------------------------------------
(* What is in a sequence.                                                  *)
Holds(s, x) == \E i \in DOMAIN s : s[i] = x

LEMMA HoldsConcat ==
  ASSUME NEW T, NEW a \in Seq(T), NEW b \in Seq(T), NEW x
  PROVE  Holds(a \o b, x) <=> Holds(a, x) \/ Holds(b, x)
<1>1. PICK m \in Nat : m = Len(a) /\ DOMAIN a = 1..m
  BY LenProperties
<1>2. PICK n \in Nat : n = Len(b) /\ DOMAIN b = 1..n
  BY LenProperties
<1>3. PICK c : c = a \o b
  OBVIOUS
<1>4. /\ c \in Seq(T) /\ Len(c) = m + n
      /\ \A i \in 1..(m + n) : c[i] = IF i <= m THEN a[i] ELSE b[i - m]
  BY <1>1, <1>2, <1>3, ConcatProperties
<1>5. DOMAIN c = 1..(m + n)
  BY <1>4, LenProperties
<1>6. ASSUME Holds(c, x) PROVE Holds(a, x) \/ Holds(b, x)
  <2>1. PICK i \in 1..(m + n) : c[i] = x
    BY <1>5, <1>6 DEF Holds
  <2>2. CASE i <= m
    <3>1. i \in 1..m /\ a[i] = x
      BY <1>4, <2>1, <2>2
    <3> QED BY <1>1, <3>1 DEF Holds
  <2>3. CASE ~ (i <= m)
    <3>1. i - m \in 1..n /\ b[i - m] = x
      BY <1>4, <2>1, <2>3
    <3> QED BY <1>2, <3>1 DEF Holds
  <2> QED BY <2>2, <2>3
<1>7. ASSUME Holds(a, x) PROVE Holds(c, x)
  <2>1. PICK i \in 1..m : a[i] = x
    BY <1>1, <1>7 DEF Holds
  <2>2. i \in 1..(m + n) /\ i <= m
    OBVIOUS
  <2>3. c[i] = x
    BY <1>4, <2>1, <2>2
  <2> QED BY <1>5, <2>2, <2>3 DEF Holds
<1>8. ASSUME Holds(b, x) PROVE Holds(c, x)
  <2>1. PICK i \in 1..n : b[i] = x
    BY <1>2, <1>8 DEF Holds
  <2>2. i + m \in 1..(m + n) /\ ~ (i + m <= m) /\ (i + m) - m = i
    OBVIOUS
  <2>3. c[i + m] = x
    BY <1>4, <2>1, <2>2
  <2> QED BY <1>5, <2>2, <2>3 DEF Holds
<1> QED BY <1>3, <1>6, <1>7, <1>8

LEMMA HoldsOne == ASSUME NEW x, NEW y PROVE Holds(<<y>>, x) <=> x = y
BY DEF Holds

LEMMA HoldsHead ==
  ASSUME NEW T, NEW s \in Seq(T), s # <<>>, NEW x
  PROVE  Holds(s, x) <=> x = Head(s) \/ Holds(Tail(s), x)
<1>1. PICK e, t : e = Head(s) /\ t = Tail(s)
  OBVIOUS
<1>2. <<e>> \in Seq(T) /\ t \in Seq(T) /\ s = <<e>> \o t
  BY <1>1
<1>3. Holds(<<e>> \o t, x) <=> Holds(<<e>>, x) \/ Holds(t, x)
  BY <1>2, HoldsConcat
<1> QED BY <1>1, <1>2, <1>3, HoldsOne

LEMMA HoldsAppend ==
  ASSUME NEW T, NEW s \in Seq(T), NEW e \in T, NEW x
  PROVE  Holds(Append(s, e), x) <=> Holds(s, x) \/ x = e
<1>1. <<e>> \in Seq(T) /\ Append(s, e) = s \o <<e>>
  BY AppendIsConcat
<1>2. Holds(s \o <<e>>, x) <=> Holds(s, x) \/ Holds(<<e>>, x)
  BY <1>1, HoldsConcat
<1> QED BY <1>1, <1>2, HoldsOne

LEMMA HoldsType ==
  ASSUME NEW T, NEW s \in Seq(T), NEW x, Holds(s, x)
  PROVE  x \in T
BY LenProperties, ElementOfSeq DEF Holds
=============================================================================
