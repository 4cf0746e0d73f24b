----------------------- MODULE VoteSessionAdminProofs -----------------------
(***************************************************************************)
(* What the administration of a vote session guarantees about the orders of *)
(* the proposals, for any number of proposals, any texts and any bounds on  *)
(* what the administrator does: the inductive invariant OrderIInv, and with *)
(* it that two proposals kept in the form never have the same order.        *)
(*                                                                          *)
(* The form is refilled from the server in the middle of a save, so that    *)
(* its orders are those of the server sooner or later.  The proof therefore *)
(* follows the plan of the save: the mutations of proposals under way, run  *)
(* to their end, leave the server with distinct orders.  A mutation that    *)
(* runs moves from what is due to what is stored and leaves the plan as it  *)
(* is; a save whose proposals are valid makes the form the plan; a change   *)
(* of the form keeps its orders distinct while nothing is due for them.     *)
(*                                                                          *)
(* Sequences come first, because the chains are made of the pieces of       *)
(* ordered sets (FlattenSeq), then ranks in an order, the changes of the    *)
(* form, the chains, the server and the client, the plan, and the save.     *)
(***************************************************************************)
EXTENDS VoteSessionAdmin, NatSetLemmas, FiniteSetTheorems, SequenceTheorems

\* f flattens the first n parts of ss, the way FlattenSeq does.
Flattens(f, ss, n) == f = [i \in 1..n |-> IF i = 1 THEN ss[i] ELSE f[i - 1] \o ss[i]]

\* The recursive function of FlattenSeq exists, for each number of parts.
LEMMA FlattenSeqExists ==
  ASSUME NEW T, NEW ss \in Seq(Seq(T)), NEW n \in Nat, n <= Len(ss)
  PROVE  \E f : Flattens(f, ss, n)
<1> DEFINE Bad == {k \in Nat : k <= Len(ss) /\ ~\E f : Flattens(f, ss, k)}
<1>1. SUFFICES ASSUME Bad # {} PROVE FALSE
  OBVIOUS
<1>2. PICK k \in Bad : \A l \in Bad : k <= l
  <2>1. Bad \in SUBSET Nat
    OBVIOUS
  <2> HIDE DEF Bad
  <2> QED BY <1>1, <2>1, LeastOf
<1>3. CASE k = 0
  <2>1. Flattens([i \in 1..k |-> ss[i]], ss, k)
    BY <1>3 DEF Flattens
  <2> QED BY <2>1, <1>2
<1>4. CASE k # 0
  <2>1. k - 1 \in Nat /\ k - 1 <= Len(ss) /\ k - 1 \notin Bad
    <3>1. k \in Nat /\ k <= Len(ss) /\ Len(ss) \in Nat
      BY LenProperties
    <3>2. k - 1 \in Nat /\ k - 1 <= Len(ss) /\ ~(k <= k - 1)
      BY <3>1, <1>4
    <3> HIDE DEF Bad
    <3> QED BY <3>2, <1>2
  <2>2. PICK g : Flattens(g, ss, k - 1)
    BY <2>1
  <2> DEFINE h == [i \in 1..k |-> IF i = 1 THEN ss[i] ELSE g[i - 1] \o ss[i]]
  <2>3. k \in Nat /\ \A i \in 1..k : i # 1 => i - 1 \in 1..(k - 1) /\ i - 1 \in 1..k
    BY <1>2
  <2>4. \A j \in 1..(k - 1) : g[j] = IF j = 1 THEN ss[j] ELSE g[j - 1] \o ss[j]
    BY <2>2 DEF Flattens
  <2>5. \A j \in 1..k : h[j] = IF j = 1 THEN ss[j] ELSE g[j - 1] \o ss[j]
    OBVIOUS
  <2>6. \A j \in 1..(k - 1) : j \in 1..k
    BY <2>3
  <2>7. \A j \in 1..(k - 1) : h[j] = g[j]
    <3> HIDE DEF h
    <3> QED BY <2>4, <2>5, <2>6
  <2>8. \A j \in 1..k : (IF j = 1 THEN ss[j] ELSE g[j - 1] \o ss[j])
                         = (IF j = 1 THEN ss[j] ELSE h[j - 1] \o ss[j])
    <3> HIDE DEF h
    <3> QED BY <2>3, <2>7
  <2>9. Flattens(h, ss, k)
    BY <2>8 DEF Flattens
  <2> QED BY <2>9, <1>2
<1> QED BY <1>2, <1>3, <1>4

\* The first n parts of ss are in s, each at an offset of its own, and nothing else is.
Placed(s, ss, off, n) ==
    /\ \A k \in 1..n : \A a \in 1..Len(ss[k]) :
          off[k] + a \in 1..Len(s) /\ s[off[k] + a] = ss[k][a]
    /\ \A i \in 1..Len(s) : \E k \in 1..n : \E a \in 1..Len(ss[k]) : i = off[k] + a

\* One more part takes the offsets after those before it.
LEMMA PlacedNext ==
  ASSUME NEW T, NEW s \in Seq(T), NEW n \in Nat \ {0}, NEW ss, ss[n] \in Seq(T),
         NEW off, off[n] = Len(s), \A k \in 1..n : off[k] \in Nat,
         \A k \in 1..n : Len(ss[k]) \in Nat,
         Placed(s, ss, off, n - 1)
  PROVE  Placed(s \o ss[n], ss, off, n)
<1> DEFINE t == ss[n]   u == s \o t
<1>1. /\ Len(u) = Len(s) + Len(t) /\ Len(s) \in Nat /\ Len(t) \in Nat
      /\ \A i \in 1..Len(s) : i \in 1..Len(u) /\ u[i] = s[i]
      /\ \A a \in 1..Len(t) : Len(s) + a \in 1..Len(u) /\ u[Len(s) + a] = t[a]
  BY LenProperties, ConcatProperties
<1>2. ASSUME NEW k \in 1..n, NEW a \in 1..Len(ss[k])
      PROVE  off[k] + a \in 1..Len(u) /\ u[off[k] + a] = ss[k][a]
  <2>1. CASE k = n
    <3> HIDE DEF u
    <3> QED BY <1>1, <2>1
  <2>2. CASE k # n
    <3>1. k \in 1..(n - 1)
      BY <2>2
    <3>2. off[k] + a \in 1..Len(s) /\ s[off[k] + a] = ss[k][a]
      BY <3>1 DEF Placed
    <3> HIDE DEF t, u
    <3> QED BY <1>1, <3>2
  <2> QED BY <2>1, <2>2
<1>3. ASSUME NEW i \in 1..Len(u)
      PROVE  \E k \in 1..n : \E a \in 1..Len(ss[k]) : i = off[k] + a
  <2>1. CASE i <= Len(s)
    <3>1. i \in 1..Len(s)
      <4> HIDE DEF u, t
      <4> QED BY <2>1, <1>1
    <3>2. PICK k \in 1..(n - 1) : \E a \in 1..Len(ss[k]) : i = off[k] + a
      BY <3>1 DEF Placed
    <3> QED BY <3>2
  <2>2. CASE ~(i <= Len(s))
    <3>1. i - Len(s) \in 1..Len(t) /\ i = off[n] + (i - Len(s)) /\ n \in 1..n
      <4> HIDE DEF u, t
      <4> QED BY <2>2, <1>1
    <3> QED BY <3>1
  <2> QED BY <2>1, <2>2
<1> QED BY <1>2, <1>3 DEF Placed

\* A flattened sequence has the elements of its parts, each part at an offset of
\* its own.
LEMMA FlattenSeqIs ==
  ASSUME NEW T, NEW ss \in Seq(Seq(T))
  PROVE  /\ FlattenSeq(ss) \in Seq(T)
         /\ \E off \in [1..Len(ss) -> Nat] : Placed(FlattenSeq(ss), ss, off, Len(ss))
<1> DEFINE N == Len(ss)
<1>0. N \in Nat /\ \A k \in 1..N : ss[k] \in Seq(T) /\ Len(ss[k]) \in Nat
  BY LenProperties, ElementOfSeq
<1>1. CASE N = 0
  <2>1. FlattenSeq(ss) = ss /\ ss = <<>>
    BY <1>1, EmptySeq DEF FlattenSeq
  <2>2. [k \in 1..N |-> 0] \in [1..N -> Nat]
    OBVIOUS
  <2>3. Placed(FlattenSeq(ss), ss, [k \in 1..N |-> 0], N) /\ <<>> \in Seq(T)
    BY <1>1, <2>1, EmptySeq DEF Placed
  <2> QED BY <2>1, <2>2, <2>3
<1>2. CASE N # 0
  <2>2. PICK f : Flattens(f, ss, N) /\ FlattenSeq(ss) = f[N]
    <3>1. \E f : Flattens(f, ss, N)
      <4>1. N <= Len(ss)
        BY <1>0
      <4> HIDE DEF N
      <4> QED BY <1>0, <4>1, FlattenSeqExists
    <3>2. FlattenSeq(ss) = (CHOOSE f : Flattens(f, ss, N))[N]
      BY <1>2 DEF FlattenSeq, Flattens
    <3> QED BY <3>1, <3>2
  <2> HIDE DEF N
  <2>3. f[1] = ss[1] /\ \A k \in 1..N : k # 1 => f[k] = f[k - 1] \o ss[k]
    <3>1. \A k \in 1..N : f[k] = IF k = 1 THEN ss[k] ELSE f[k - 1] \o ss[k]
      BY <2>2 DEF Flattens
    <3>2. 1 \in 1..N
      BY <1>0, <1>2
    <3> QED BY <3>1, <3>2
  <2> DEFINE off == [k \in 1..N |-> IF k = 1 THEN 0 ELSE Len(f[k - 1])]
             Fine(n) == /\ f[n] \in Seq(T)
                        /\ \A k \in 1..n : off[k] \in Nat
                        /\ Placed(f[n], ss, off, n)
  <2>4. Fine(1)
    <3>1. 1 \in 1..N /\ off[1] = 0 /\ ss[1] \in Seq(T) /\ f[1] = ss[1] /\ 1..1 = {1}
      BY <1>0, <1>2, <2>3
    <3>2. \A a \in 1..Len(ss[1]) : 0 + a = a
      BY <3>1, LenProperties
    <3> HIDE DEF off
    <3>3. Placed(ss[1], ss, off, 1)
      BY <3>1, <3>2 DEF Placed
    <3> QED BY <3>1, <3>3
  <2>5. ASSUME NEW n \in 1..N, n # 1, Fine(n - 1) PROVE Fine(n)
    <3>1. n - 1 \in 1..N /\ f[n - 1] \in Seq(T) /\ ss[n] \in Seq(T) /\ f[n] = f[n - 1] \o ss[n] /\ n \in Nat \ {0}
      <4>1. n - 1 \in 1..N /\ n \in Nat \ {0}
        BY <1>0, <2>5
      <4>2. f[n - 1] \in Seq(T)
        BY <2>5
      <4> QED BY <4>1, <4>2, <1>0, <2>3, <2>5
    <3>3. off[n] = Len(f[n - 1]) /\ Len(f[n - 1]) \in Nat
      BY <2>5, <3>1, LenProperties
    <3>4. \A k \in 1..(n - 1) : off[k] \in Nat
      BY <2>5
    <3>5. Placed(f[n - 1], ss, off, n - 1)
      BY <2>5
    <3> HIDE DEF off
    <3>6. \A k \in 1..n : off[k] \in Nat
      BY <3>3, <3>4
    <3>7. \A k \in 1..n : Len(ss[k]) \in Nat
      BY <1>0
    <3>8. Placed(f[n - 1] \o ss[n], ss, off, n)
      BY <3>1, <3>3, <3>5, <3>6, <3>7, PlacedNext
    <3>9. f[n] \in Seq(T)
      BY <3>1, ConcatProperties
    <3> QED BY <3>1, <3>6, <3>8, <3>9
  <2> DEFINE Bad == {n \in 1..N : ~Fine(n)}
  <2>6. Fine(N)
    <3> HIDE DEF Fine
    <3>1. SUFFICES ASSUME Bad # {} PROVE FALSE
      BY <1>0, <1>2
    <3>2. PICK n \in Bad : \A l \in Bad : n <= l
      <4>1. Bad \in SUBSET Nat
        BY <1>0
      <4> HIDE DEF Bad
      <4> QED BY <3>1, <4>1, LeastOf
    <3>3. n \in 1..N /\ ~Fine(n)
      BY <3>2
    <3>4. n # 1
      BY <3>3, <2>4
    <3>5. n - 1 \in 1..N /\ ~(n <= n - 1)
      BY <1>0, <3>3, <3>4
    <3>6. n - 1 \notin Bad
      <4> HIDE DEF Bad
      <4> QED BY <3>2, <3>5
    <3>7. Fine(n - 1)
      BY <3>5, <3>6
    <3> QED BY <2>5, <3>3, <3>4, <3>7
  <2>7. off \in [1..N -> Nat] /\ f[N] \in Seq(T) /\ Placed(f[N], ss, off, N)
    <3> DEFINE value(k) == IF k = 1 THEN 0 ELSE Len(f[k - 1])
    <3>1. \A k \in 1..N : value(k) \in Nat
      BY <2>6
    <3> QED BY <2>6, <3>1
  <2> HIDE DEF off
  <2> QED BY <2>2, <2>7 DEF N
<1> QED BY <1>1, <1>2

-----------------------------------------------------------------------------
(* Sequences of whatever elements they have *)

IsSeq(s) == s \in Seq(Range(s))

\* A sequence, whatever its elements: what it has at its places is its range.
LEMMA SeqIs ==
  ASSUME NEW s, IsSeq(s)
  PROVE  /\ Len(s) \in Nat /\ DOMAIN s = 1..Len(s) /\ s = [i \in 1..Len(s) |-> s[i]]
         /\ \A i \in 1..Len(s) : s[i] \in Range(s)
         /\ \A x \in Range(s) : \E i \in 1..Len(s) : s[i] = x
<1>1. Len(s) \in Nat /\ DOMAIN s = 1..Len(s) /\ s \in [1..Len(s) -> Range(s)]
  BY LenProperties DEF IsSeq
<1> QED BY <1>1 DEF Range

LEMMA IsSeqOf ==
  ASSUME NEW s, NEW n \in Nat, s = [i \in 1..n |-> s[i]]
  PROVE  IsSeq(s) /\ Len(s) = n /\ DOMAIN s = 1..n
<1>1. DOMAIN s = 1..n
  OBVIOUS
<1>2. s \in [1..n -> Range(s)]
  BY <1>1 DEF Range
<1>3. s \in Seq(Range(s))
  BY <1>2, SeqDef
<1> QED BY <1>1, <1>3, LenProperties DEF IsSeq

\* A sequence is one over each set that its elements are in, and over their range.
LEMMA SeqIn ==
  ASSUME NEW s, IsSeq(s), NEW T, Range(s) \subseteq T
  PROVE  s \in Seq(T)
BY SeqMonotonic DEF IsSeq

LEMMA SeqSelf ==
  ASSUME NEW T, NEW s \in Seq(T)
  PROVE  IsSeq(s) /\ Range(s) \subseteq T
BY SeqOfRange, RangeOfSeq DEF IsSeq

\* The empty sequence, one of one element, the concatenation, the appended element, the rest.
LEMMA EmptyIs == IsSeq(<<>>) /\ Range(<<>>) = {} /\ Len(<<>>) = 0 /\ DOMAIN <<>> = {}
<1>1. ASSUME NEW T, NEW s, s = <<>>, T = {} PROVE IsSeq(s) /\ Range(s) \subseteq T /\ Len(s) = 0
  <2>1. s \in Seq(T) /\ Len(s) = 0
    BY <1>1, EmptySeq, Zenon
  <2> QED BY <2>1, SeqSelf
<1>2. ASSUME NEW s, IsSeq(s), Len(s) = 0 PROVE DOMAIN s = {}
  BY <1>2, SeqIs
<1> QED BY <1>1, <1>2

LEMMA SingleIs ==
  ASSUME NEW x
  PROVE  IsSeq(<<x>>) /\ Range(<<x>>) = {x} /\ Len(<<x>>) = 1 /\ DOMAIN <<x>> = {1} /\ <<x>>[1] = x
<1>1. <<x>> = [i \in 1..1 |-> <<x>>[i]] /\ <<x>>[1] = x /\ 1..1 = {1}
  OBVIOUS
<1>2. IsSeq(<<x>>) /\ Len(<<x>>) = 1 /\ DOMAIN <<x>> = {1}
  BY <1>1, IsSeqOf
<1> QED BY <1>1, <1>2 DEF Range

LEMMA ConcatIs ==
  ASSUME NEW s, NEW t, IsSeq(s), IsSeq(t)
  PROVE  /\ IsSeq(s \o t) /\ Len(s \o t) = Len(s) + Len(t) /\ DOMAIN (s \o t) = 1..(Len(s) + Len(t))
         /\ Range(s \o t) = Range(s) \union Range(t)
         /\ Len(s) \in Nat /\ Len(t) \in Nat
         /\ \A i \in 1..(Len(s) + Len(t)) : (s \o t)[i] = IF i <= Len(s) THEN s[i] ELSE t[i - Len(s)]
<1> DEFINE T == Range(s) \union Range(t)
<1>1. s \in Seq(T) /\ t \in Seq(T)
  BY SeqIn
<1>2. IsSeq(s \o t) /\ Len(s \o t) = Len(s) + Len(t)
  BY <1>1, ConcatProperties, SeqSelf
<1>3. Range(s \o t) = Range(s) \union Range(t)
  BY <1>1, RangeConcatenation
<1> QED BY <1>1, <1>2, <1>3, ConcatProperties, SeqIs

LEMMA AppendIs ==
  ASSUME NEW s, NEW x, IsSeq(s)
  PROVE  /\ IsSeq(Append(s, x)) /\ Len(Append(s, x)) = Len(s) + 1 /\ Len(s) \in Nat
         /\ Range(Append(s, x)) = Range(s) \union {x}
         /\ \A i \in 1..Len(s) : Append(s, x)[i] = s[i]
         /\ Append(s, x)[Len(s) + 1] = x
<1> DEFINE T == Range(s) \union {x}
<1>1. s \in Seq(T) /\ x \in T
  BY SeqIn
<1>2. IsSeq(Append(s, x)) /\ Len(Append(s, x)) = Len(s) + 1
  BY <1>1, AppendProperties, SeqSelf
<1>3. Append(s, x) = s \o <<x>>
  BY <1>1, AppendIsConcat
<1>4. Range(Append(s, x)) = Range(s) \union {x}
  BY <1>3, ConcatIs, SingleIs
<1> QED BY <1>1, <1>2, <1>4, AppendProperties, SeqIs

LEMMA TailIs ==
  ASSUME NEW s, IsSeq(s), s # <<>>
  PROVE  /\ IsSeq(Tail(s)) /\ Len(Tail(s)) = Len(s) - 1 /\ Len(s) \in Nat \ {0}
         /\ \A i \in 1..Len(Tail(s)) : i + 1 \in 1..Len(s) /\ Tail(s)[i] = s[i + 1]
         /\ Range(Tail(s)) \subseteq Range(s)
         /\ Head(s) = s[1] /\ Head(s) \in Range(s)
         /\ Range(s) = {Head(s)} \union Range(Tail(s))
<1>1. s \in Seq(Range(s))
  BY DEF IsSeq
<1>2. /\ Head(s) \in Range(s) /\ Tail(s) \in Seq(Range(s)) /\ Len(Tail(s)) = Len(s) - 1
      /\ \A i \in 1..Len(Tail(s)) : Tail(s)[i] = s[i + 1]
  BY <1>1, HeadTailProperties
<1>3. IsSeq(Tail(s)) /\ Range(Tail(s)) \subseteq Range(s)
  BY <1>2, SeqSelf
<1>4. Len(s) \in Nat \ {0}
  BY <1>1, EmptySeq
<1>5. Head(s) = s[1]
  BY <1>1, <1>4
<1>6. ASSUME NEW x \in Range(s), x # s[1] PROVE x \in Range(Tail(s))
  <2>1. PICK i \in 1..Len(s) : s[i] = x
    BY SeqIs
  <2>2. i - 1 \in 1..Len(Tail(s)) /\ i = (i - 1) + 1
    BY <1>2, <1>4, <1>6, <2>1
  <2>3. Tail(s)[i - 1] = x
    BY <1>2, <2>1, <2>2
  <2> QED BY <2>2, <2>3, <1>3, SeqIs
<1>7. \A i \in 1..Len(Tail(s)) : i + 1 \in 1..Len(s)
  BY <1>2, <1>4
<1> QED BY <1>2, <1>3, <1>4, <1>5, <1>6, <1>7

\* No element of C is twice in s.
Once(s, C) == \A i, j \in 1..Len(s) : s[i] \in C /\ s[i] = s[j] => i = j

\* Flattening keeps the elements, and those that were once in the parts.
LEMMA FlattenIs ==
  ASSUME NEW ss, IsSeq(ss), \A k \in 1..Len(ss) : IsSeq(ss[k])
  PROVE  /\ IsSeq(FlattenSeq(ss))
         /\ \A k \in 1..Len(ss) : Range(ss[k]) \subseteq Range(FlattenSeq(ss))
         /\ \A x \in Range(FlattenSeq(ss)) : \E k \in 1..Len(ss) : x \in Range(ss[k])
         /\ \A C : (\A k, l \in 1..Len(ss) : \A a \in 1..Len(ss[k]), b \in 1..Len(ss[l]) :
                       ss[k][a] \in C /\ ss[k][a] = ss[l][b] => k = l /\ a = b)
                    => Once(FlattenSeq(ss), C)
<1> DEFINE T == UNION {Range(ss[k]) : k \in 1..Len(ss)}   s == FlattenSeq(ss)
<1>1. ss \in Seq(Seq(T))
  <2>1. \A k \in 1..Len(ss) : ss[k] \in Seq(T)
    <3> TAKE k \in 1..Len(ss)
    <3>1. Range(ss[k]) \subseteq T
      OBVIOUS
    <3> QED BY <3>1, SeqIn
  <2>2. Range(ss) \subseteq Seq(T)
    <3> HIDE DEF T
    <3> QED BY <2>1, SeqIs
  <2> QED BY <2>2, SeqIn
<1>2. s \in Seq(T)
  BY <1>1, FlattenSeqIs
<1>3. PICK off \in [1..Len(ss) -> Nat] : Placed(s, ss, off, Len(ss))
  BY <1>1, FlattenSeqIs
<1>4. IsSeq(s)
  BY <1>2, SeqSelf
<1> HIDE DEF s, T
<1>5. ASSUME NEW k \in 1..Len(ss), NEW x \in Range(ss[k]) PROVE x \in Range(s)
  <2>1. PICK a \in 1..Len(ss[k]) : ss[k][a] = x
    BY SeqIs
  <2>2. off[k] + a \in 1..Len(s) /\ s[off[k] + a] = x
    BY <1>3, <2>1 DEF Placed
  <2> QED BY <2>2, <1>4, SeqIs
<1>6. ASSUME NEW i \in 1..Len(s)
      PROVE  \E k \in 1..Len(ss) : \E a \in 1..Len(ss[k]) : i = off[k] + a /\ s[i] = ss[k][a]
  <2>1. PICK k \in 1..Len(ss) : \E a \in 1..Len(ss[k]) : i = off[k] + a
    BY <1>3 DEF Placed
  <2>2. \A a \in 1..Len(ss[k]) : s[off[k] + a] = ss[k][a]
    BY <1>3 DEF Placed
  <2> QED BY <2>1, <2>2
<1>7. ASSUME NEW x \in Range(s) PROVE \E k \in 1..Len(ss) : x \in Range(ss[k])
  <2>1. PICK i \in 1..Len(s) : s[i] = x
    BY <1>4, SeqIs
  <2>2. PICK k \in 1..Len(ss) : \E a \in 1..Len(ss[k]) : x = ss[k][a]
    BY <1>6, <2>1
  <2> QED BY <2>2, SeqIs
<1>8. ASSUME NEW C,
             \A k, l \in 1..Len(ss) : \A a \in 1..Len(ss[k]), b \in 1..Len(ss[l]) :
                 ss[k][a] \in C /\ ss[k][a] = ss[l][b] => k = l /\ a = b,
             NEW i \in 1..Len(s), NEW j \in 1..Len(s), s[i] \in C, s[i] = s[j]
      PROVE  i = j
  <2>1. PICK k \in 1..Len(ss) : \E a \in 1..Len(ss[k]) : i = off[k] + a /\ s[i] = ss[k][a]
    BY <1>6
  <2>2. PICK a \in 1..Len(ss[k]) : i = off[k] + a /\ s[i] = ss[k][a]
    BY <2>1
  <2>3. PICK l \in 1..Len(ss) : \E b \in 1..Len(ss[l]) : j = off[l] + b /\ s[j] = ss[l][b]
    BY <1>6
  <2>4. PICK b \in 1..Len(ss[l]) : j = off[l] + b /\ s[j] = ss[l][b]
    BY <2>3
  <2>5. k = l /\ a = b
    BY <1>8, <2>2, <2>4
  <2> QED BY <2>2, <2>4, <2>5
<1>9. ASSUME NEW C,
             \A k, l \in 1..Len(ss) : \A a \in 1..Len(ss[k]), b \in 1..Len(ss[l]) :
                 ss[k][a] \in C /\ ss[k][a] = ss[l][b] => k = l /\ a = b
      PROVE  Once(s, C)
  BY <1>8, <1>9 DEF Once
<1> QED BY <1>4, <1>5, <1>7, <1>9 DEF s

\* What a part has none of, the whole has as often as the other part.
LEMMA ConcatOnce ==
  ASSUME NEW s, NEW t, IsSeq(s), IsSeq(t), NEW C, Range(s) \cap C = {}, Once(t, C)
  PROVE  Once(s \o t, C)
<1> SUFFICES ASSUME NEW i \in 1..Len(s \o t), NEW j \in 1..Len(s \o t),
                    (s \o t)[i] \in C, (s \o t)[i] = (s \o t)[j]
             PROVE  i = j
  BY DEF Once
<1>1. ASSUME NEW k \in 1..Len(s \o t), (s \o t)[k] \in C
      PROVE  k - Len(s) \in 1..Len(t) /\ (s \o t)[k] = t[k - Len(s)]
  <2>1. ~(k <= Len(s))
    <3>1. SUFFICES ASSUME k <= Len(s) PROVE FALSE
      OBVIOUS
    <3>2. k \in 1..Len(s) /\ (s \o t)[k] = s[k]
      BY <3>1, ConcatIs
    <3> QED BY <3>2, <1>1, SeqIs
  <2> QED BY <2>1, ConcatIs
<1>2. i - Len(s) = j - Len(s)
  BY <1>1 DEF Once
<1> QED BY <1>2, ConcatIs

LEMMA AppendOnce ==
  ASSUME NEW s, NEW x, IsSeq(s), NEW C, x \notin C, Once(s, C)
  PROVE  Once(Append(s, x), C)
<1> DEFINE u == Append(s, x)
<1>1. Len(u) = Len(s) + 1 /\ Len(s) \in Nat /\ u[Len(s) + 1] = x /\ \A i \in 1..Len(s) : u[i] = s[i]
  BY AppendIs
<1> HIDE DEF u
<1>2. \A i \in 1..Len(u) : i \in 1..Len(s) \/ u[i] = x
  BY <1>1
<1>3. Once(u, C)
  BY <1>1, <1>2 DEF Once
<1> QED BY <1>3 DEF u

-----------------------------------------------------------------------------
(* Finite sets: the greatest value, and the rank in an order *)

\* A function on a finite set has a greatest value.
LEMMA HighestIs ==
  ASSUME NEW S, IsFiniteSet(S), S # {}, NEW f, \A x \in S : f[x] \in Int
  PROVE  \E x \in S : \A y \in S : f[y] <= f[x]
<1> DEFINE Top(T) == \E x \in T : \A y \in T : f[y] <= f[x]
           Bad == {c \in Nat : \E T \in SUBSET S : T # {} /\ Cardinality(T) = c /\ ~Top(T)}
<1>1. SUFFICES ASSUME ~Top(S) PROVE FALSE
  OBVIOUS
<1>2. Cardinality(S) \in Bad
  BY <1>1, FS_CardinalityType
<1>3. PICK c \in Bad : \A d \in Bad : c <= d
  <2>1. Bad \in SUBSET Nat
    OBVIOUS
  <2> HIDE DEF Bad
  <2> QED BY <1>2, <2>1, LeastOf
<1>4. PICK T \in SUBSET S : T # {} /\ Cardinality(T) = c /\ ~Top(T)
  BY <1>3
<1>5. IsFiniteSet(T)
  BY FS_Subset
<1>6. PICK x \in T : TRUE
  BY <1>4
<1> DEFINE U == T \ {x}
<1>7. U \in SUBSET S /\ Cardinality(U) = c - 1 /\ c - 1 \in Nat
  <2>1. IsFiniteSet(U) /\ Cardinality(U) = Cardinality(T) - 1
    BY <1>5, FS_RemoveElement
  <2>2. Cardinality(U) \in Nat
    BY <2>1, FS_CardinalityType
  <2> QED BY <2>1, <2>2, <1>4
<1>8. U # {}
  <2>1. SUFFICES ASSUME U = {} PROVE FALSE
    OBVIOUS
  <2>2. T = {x} /\ f[x] \in Int
    BY <1>6, <2>1
  <2>3. Top(T)
    BY <2>2
  <2> QED BY <2>3, <1>4
<1>9. Top(U)
  <2>1. SUFFICES ASSUME ~Top(U) PROVE FALSE
    OBVIOUS
  <2>2. c - 1 \in Bad
    <3> HIDE DEF Top, U
    <3> QED BY <1>7, <1>8, <2>1
  <2>3. ~(c <= c - 1)
    BY <1>7
  <2> HIDE DEF Bad
  <2> QED BY <1>3, <2>2, <2>3
<1>10. PICK m \in U : \A y \in U : f[y] <= f[m]
  BY <1>9
<1>11. m \in T /\ f[m] \in Int /\ f[x] \in Int /\ \A y \in T : f[y] \in Int /\ (y = x \/ y \in U)
  BY <1>6
<1>12. Top(T)
  <2>1. CASE f[m] <= f[x]
    <3>1. \A y \in T : f[y] <= f[x]
      <4> HIDE DEF U
      <4> QED BY <2>1, <1>10, <1>11
    <3> QED BY <3>1
  <2>2. CASE ~(f[m] <= f[x])
    <3>1. \A y \in T : f[y] <= f[m]
      <4> HIDE DEF U
      <4> QED BY <2>2, <1>10, <1>11
    <3> QED BY <3>1, <1>11
  <2> QED BY <2>1, <2>2
<1> QED BY <1>4, <1>12

\* R orders S strictly, one element after another.
Orders(R, S) ==
    /\ \A x \in S : <<x, x>> \notin R
    /\ \A x, y, z \in S : <<x, y>> \in R /\ <<y, z>> \in R => <<x, z>> \in R
    /\ \A x, y \in S : x = y \/ <<x, y>> \in R \/ <<y, x>> \in R
Below(S, x, R) == {y \in S : <<y, x>> \in R}

\* The ranks of a finite set in a strict order are 1 to its size, and no two elements share one.
LEMMA RankIs ==
  ASSUME NEW S, IsFiniteSet(S), NEW R, Orders(R, S)
  PROVE  /\ \A x, y \in S : Cardinality(Below(S, x, R)) = Cardinality(Below(S, y, R)) => x = y
         /\ \A i \in 1..Cardinality(S) : \E x \in S : Cardinality(Below(S, x, R)) + 1 = i
<1> DEFINE n == Cardinality(S)   B(x) == Below(S, x, R)
<1>1. n \in Nat
  BY FS_CardinalityType
<1>2. ASSUME NEW x \in S PROVE IsFiniteSet(B(x)) /\ Cardinality(B(x)) + 1 \in 1..n /\ Cardinality(B(x)) \in Nat
  <2>1. B(x) \in SUBSET S /\ x \notin B(x)
    BY DEF Orders, Below
  <2>2. IsFiniteSet(B(x)) /\ Cardinality(B(x)) <= n /\ Cardinality(B(x)) # n
    <3> HIDE DEF B
    <3> QED BY <2>1, FS_Subset
  <2>3. Cardinality(B(x)) \in Nat
    <3> HIDE DEF B
    <3> QED BY <2>2, FS_CardinalityType
  <2> HIDE DEF B
  <2> QED BY <1>1, <2>2, <2>3
<1>3. ASSUME NEW x \in S, NEW y \in S, <<x, y>> \in R
      PROVE  Cardinality(B(x)) # Cardinality(B(y))
  <2>1. B(x) \in SUBSET B(y) /\ x \in B(y) /\ x \notin B(x)
    BY <1>3 DEF Orders, Below
  <2> HIDE DEF B
  <2> QED BY <1>2, <2>1, FS_Subset
<1>4. ASSUME NEW x \in S, NEW y \in S, Cardinality(B(x)) = Cardinality(B(y)) PROVE x = y
  BY <1>3, <1>4 DEF Orders
<1>5. ASSUME NEW i \in 1..n PROVE \E x \in S : Cardinality(B(x)) + 1 = i
  <2> DEFINE f == [x \in S |-> Cardinality(B(x)) + 1]
  <2>1. f \in [S -> 1..n]
    <3> HIDE DEF n, B
    <3> QED BY <1>2
  <2>2. ASSUME NEW a \in S, NEW b \in S, f[a] = f[b] PROVE a = b
    <3>1. Cardinality(B(a)) = Cardinality(B(b))
      <4> HIDE DEF B
      <4> QED BY <1>2, <2>2
    <3> QED BY <1>4, <3>1
  <2>3. f \in Injection(S, 1..n)
    <3> HIDE DEF n
    <3>1. DOMAIN f = S
      OBVIOUS
    <3> HIDE DEF f
    <3> QED BY <2>1, <2>2, <3>1 DEF Injection, IsInjective
  <2>4. IsFiniteSet(1..n) /\ Cardinality(1..n) = n
    BY <1>1, FS_Interval
  <2>5. f \in Surjection(S, 1..n)
    <3> HIDE DEF f
    <3> QED BY <2>3, <2>4, FS_Injection
  <2>6. \E x \in S : f[x] = i
    <3> HIDE DEF f, n
    <3> QED BY <2>5 DEF Surjection
  <2> QED BY <2>6
<1> QED BY <1>4, <1>5

\* seq has the elements of S, each once.
Lists(seq, S) ==
    /\ IsSeq(seq) /\ Len(seq) = Cardinality(S) /\ Len(seq) \in Nat
    /\ \A i \in 1..Len(seq) : seq[i] \in S
    /\ \A i, j \in 1..Len(seq) : seq[i] = seq[j] => i = j
    /\ \A x \in S : \E i \in 1..Len(seq) : seq[i] = x

\* A sequence of the elements of S by their rank has each of them once.
LEMMA RankedIs ==
  ASSUME NEW S, IsFiniteSet(S), NEW R, Orders(R, S), NEW seq,
         seq = [i \in 1..Cardinality(S) |-> seq[i]],
         \A i \in 1..Cardinality(S) :
            (\E x \in S : Cardinality(Below(S, x, R)) + 1 = i) =>
                seq[i] \in S /\ Cardinality(Below(S, seq[i], R)) + 1 = i
  PROVE  Lists(seq, S)
<1> DEFINE n == Cardinality(S)   c(x) == Cardinality(Below(S, x, R))
<1>1. n \in Nat
  BY FS_CardinalityType
<1>2. IsSeq(seq) /\ Len(seq) = n
  <2> HIDE DEF n
  <2> QED BY <1>1, IsSeqOf DEF n
<1>3. \A i \in 1..n : seq[i] \in S /\ c(seq[i]) + 1 = i
  BY RankIs
<1>4. ASSUME NEW x \in S PROVE c(x) \in Nat /\ c(x) + 1 \in 1..n
  <2>1. Below(S, x, R) \in SUBSET S /\ x \notin Below(S, x, R)
    BY DEF Orders, Below
  <2>2. IsFiniteSet(Below(S, x, R)) /\ c(x) <= n /\ c(x) # n
    BY <2>1, FS_Subset
  <2>3. c(x) \in Nat
    BY <2>2, FS_CardinalityType
  <2> HIDE DEF c, n
  <2> QED BY <1>1, <2>2, <2>3
<1>5. \A x, y \in S : c(x) = c(y) => x = y
  BY RankIs
<1>6. ASSUME NEW x \in S PROVE \E i \in 1..n : seq[i] = x
  <2>1. seq[c(x) + 1] \in S /\ c(seq[c(x) + 1]) + 1 = c(x) + 1
    <3> HIDE DEF c, n
    <3> QED BY <1>3, <1>4
  <2>2. c(seq[c(x) + 1]) = c(x)
    <3>1. c(seq[c(x) + 1]) \in Nat /\ c(x) \in Nat
      BY <1>4, <2>1
    <3> HIDE DEF c
    <3> QED BY <2>1, <3>1
  <2> QED BY <1>4, <1>5, <2>1, <2>2
<1>7. ASSUME NEW i \in 1..n, NEW j \in 1..n, seq[i] = seq[j] PROVE i = j
  BY <1>3, <1>7
<1> QED BY <1>1, <1>2, <1>3, <1>6, <1>7 DEF Lists

\* The union of finitely many finite sets.
LEMMA FiniteUnion ==
  ASSUME NEW S, IsFiniteSet(S), NEW f, \A x \in S : IsFiniteSet(f[x])
  PROVE  IsFiniteSet(UNION {f[x] : x \in S})
<1> DEFINE g == [x \in S |-> f[x]]   T == {f[x] : x \in S}
<1>1. g \in Surjection(S, T)
  BY DEF Surjection
<1>2. IsFiniteSet(T)
  <2> HIDE DEF g, T
  <2> QED BY <1>1, FS_Surjection
<1>3. \A t \in T : IsFiniteSet(t)
  OBVIOUS
<1> HIDE DEF T
<1>4. IsFiniteSet(UNION T)
  BY <1>2, <1>3, FS_UNION
<1> QED BY <1>4 DEF T

-----------------------------------------------------------------------------
(* The orders of the program: ids, and proposals in the form *)

LEMMA IdIs == \A a \in Nat \X Nat : a = <<a[1], a[2]>> /\ a[1] \in Nat /\ a[2] \in Nat
OBVIOUS

\* Ids are in a strict order.
LEMMA SmallerIs ==
  ASSUME NEW a \in Nat \X Nat, NEW b \in Nat \X Nat, NEW c \in Nat \X Nat
  PROVE  /\ ~Smaller(a, a)
         /\ Smaller(a, b) /\ Smaller(b, c) => Smaller(a, c)
         /\ a = b \/ Smaller(a, b) \/ Smaller(b, a)
<1>1. /\ a = <<a[1], a[2]>> /\ a[1] \in Nat /\ a[2] \in Nat
      /\ b = <<b[1], b[2]>> /\ b[1] \in Nat /\ b[2] \in Nat
      /\ c[1] \in Nat /\ c[2] \in Nat
  BY IdIs
<1>2. a[1] = b[1] /\ a[2] = b[2] => a = b
  BY <1>1
<1> QED BY <1>1, <1>2 DEF Smaller

\* The ids of a finite set in their order are a list of that set, and so are proposals in the
\* order of the form, which may be the same for two of them.
LEMMA OrderedIds ==
  ASSUME NEW S, IsFiniteSet(S), S \subseteq Nat \X Nat
  PROVE  Lists(Ordered(S, Smaller), S)
<1> DEFINE R == {z \in S \X S : Smaller(z[1], z[2])}   seq == Ordered(S, Smaller)
<1>1. \A x, y \in S : <<x, y>> \in R <=> Smaller(x, y)
  OBVIOUS
<1>2. Orders(R, S)
  <2> HIDE DEF R
  <2> QED BY <1>1, SmallerIs DEF Orders
<1>3. \A x \in S : Below(S, x, R) = {y \in S : Smaller(y, x)}
  <2> HIDE DEF R
  <2> QED BY <1>1 DEF Below
<1>4. seq = [i \in 1..Cardinality(S) |-> seq[i]]
  BY DEF Ordered
<1>5. ASSUME NEW i \in 1..Cardinality(S), \E x \in S : Cardinality(Below(S, x, R)) + 1 = i
      PROVE  seq[i] \in S /\ Cardinality(Below(S, seq[i], R)) + 1 = i
  <2> HIDE DEF R
  <2>1. seq[i] = CHOOSE x \in S : Cardinality({y \in S : Smaller(y, x)}) + 1 = i
    BY DEF Ordered, Rank
  <2>2. \E x \in S : Cardinality({y \in S : Smaller(y, x)}) + 1 = i
    BY <1>3, <1>5
  <2>3. seq[i] \in S /\ Cardinality({y \in S : Smaller(y, seq[i])}) + 1 = i
    <3> HIDE DEF seq
    <3> QED BY <2>1, <2>2
  <2> QED BY <1>3, <2>3
<1> HIDE DEF R, seq
<1>6. Lists(seq, S)
  <2>1. \A i \in 1..Cardinality(S) :
            (\E x \in S : Cardinality(Below(S, x, R)) + 1 = i) =>
                seq[i] \in S /\ Cardinality(Below(S, seq[i], R)) + 1 = i
    BY <1>5
  <2> QED BY <1>2, <1>4, <2>1, RankedIs
<1> QED BY <1>6 DEF seq

LEMMA OrderedProposals ==
  ASSUME NEW S, IsFiniteSet(S), S \subseteq Nat \X Nat,
         \A p \in S : form.proposals[p].order \in Int
  PROVE  Lists(Ordered(S, InOrder), S)
<1> DEFINE R == {z \in S \X S : InOrder(z[1], z[2])}   seq == Ordered(S, InOrder)
<1>1. \A x, y \in S : <<x, y>> \in R <=> InOrder(x, y)
  OBVIOUS
<1>2. Orders(R, S)
  <2> HIDE DEF R
  <2>1. \A x \in S : x \in Nat \X Nat /\ form.proposals[x].order \in Int
    OBVIOUS
  <2>2. \A x \in S : ~InOrder(x, x)
    BY <2>1, SmallerIs DEF InOrder
  <2>3. \A x, y, z \in S : InOrder(x, y) /\ InOrder(y, z) => InOrder(x, z)
    BY <2>1, SmallerIs DEF InOrder
  <2>4. \A x, y \in S : x = y \/ InOrder(x, y) \/ InOrder(y, x)
    BY <2>1, SmallerIs DEF InOrder
  <2> QED BY <1>1, <2>2, <2>3, <2>4 DEF Orders
<1>3. \A x \in S : Below(S, x, R) = {y \in S : InOrder(y, x)}
  <2> HIDE DEF R
  <2> QED BY <1>1 DEF Below
<1>4. seq = [i \in 1..Cardinality(S) |-> seq[i]]
  BY DEF Ordered
<1>5. ASSUME NEW i \in 1..Cardinality(S), \E x \in S : Cardinality(Below(S, x, R)) + 1 = i
      PROVE  seq[i] \in S /\ Cardinality(Below(S, seq[i], R)) + 1 = i
  <2> HIDE DEF R
  <2>1. seq[i] = CHOOSE x \in S : Cardinality({y \in S : InOrder(y, x)}) + 1 = i
    BY DEF Ordered, Rank
  <2>2. \E x \in S : Cardinality({y \in S : InOrder(y, x)}) + 1 = i
    BY <1>3, <1>5
  <2>3. seq[i] \in S /\ Cardinality({y \in S : InOrder(y, seq[i])}) + 1 = i
    <3> HIDE DEF seq
    <3> QED BY <2>1, <2>2
  <2> QED BY <1>3, <2>3
<1> HIDE DEF R, seq
<1>6. Lists(seq, S)
  <2>1. \A i \in 1..Cardinality(S) :
            (\E x \in S : Cardinality(Below(S, x, R)) + 1 = i) =>
                seq[i] \in S /\ Cardinality(Below(S, seq[i], R)) + 1 = i
    BY <1>5
  <2> QED BY <1>2, <1>4, <2>1, RankedIs
<1> QED BY <1>6 DEF seq

\* Numbers have a highest one, when they are finitely many.
LEMMA HighestOrder ==
  ASSUME NEW S, IsFiniteSet(S), S # {}, NEW f, \A x \in S : f[x].order \in Int
  PROVE  /\ Highest({f[x].order : x \in S}) \in Int
         /\ \A x \in S : f[x].order <= Highest({f[y].order : y \in S})
<1> DEFINE g == [x \in S |-> f[x].order]   T == {f[x].order : x \in S}
<1>1. PICK m \in S : \A y \in S : g[y] <= g[m]
  <2>1. \A x \in S : g[x] \in Int
    OBVIOUS
  <2> HIDE DEF g
  <2> QED BY <2>1, HighestIs
<1>2. g[m] \in T /\ \A k \in T : k <= g[m]
  BY <1>1
<1>3. Highest(T) \in T /\ \A k \in T : k <= Highest(T)
  <2> HIDE DEF T, g
  <2> QED BY <1>2 DEF Highest
<1> QED BY <1>3

LEMMA HighestProposal == Highest(Proposals) \in Nat /\ \A n \in Proposals : n \in Nat /\ n <= Highest(Proposals)
<1> DEFINE f == [n \in Proposals |-> n]
<1>1. PICK m \in Proposals : \A n \in Proposals : f[n] <= f[m]
  <2>1. \A x \in Proposals : f[x] \in Int
    BY ProposalsAssumption
  <2> HIDE DEF f
  <2> QED BY <2>1, HighestIs, ProposalsAssumption
<1>2. \A n \in Proposals : n <= m
  BY <1>1
<1>3. Highest(Proposals) \in Proposals /\ \A n \in Proposals : n <= Highest(Proposals)
  BY <1>2 DEF Highest
<1> QED BY <1>3, ProposalsAssumption

-----------------------------------------------------------------------------
(* The store is filled from a result *)

\* The modules of a proposal in what the server shows.
LEMMA ModulesAre ==
  ASSUME NEW view, IsView(view), NEW p
  PROVE  IsFiniteSet(ModulesOf(view, p)) /\ ModulesOf(view, p) \subseteq Nat \X Nat
<1>1. ModulesOf(view, p) \in SUBSET DOMAIN view.specs
  BY DEF ModulesOf
<1> QED BY <1>1, FS_Subset DEF IsView

\* A store filled from a result has the proposals of the result, saved, in the orders they have there.
LEMMA FillIs ==
  ASSUME NEW view, IsView(view), NEW old
  PROVE  LET f == Fill(view, old) IN
         /\ f = [page |-> f.page, pageChanged |-> f.pageChanged, inOrder |-> f.inOrder,
                 modules |-> f.modules, proposals |-> f.proposals, changed |-> f.changed]
         /\ f.inOrder \in Seq(Range(f.inOrder))
         /\ DOMAIN f.proposals = DOMAIN view.proposals
         /\ \A p \in DOMAIN view.proposals :
               /\ IsProposal(f.proposals[p])
               /\ ~f.proposals[p].isNew /\ ~f.proposals[p].toDelete
               /\ f.proposals[p].order = view.proposals[p].order
<1> DEFINE f == Fill(view, old)
<1>1. /\ f = [page |-> f.page, pageChanged |-> f.pageChanged, inOrder |-> f.inOrder,
              modules |-> f.modules, proposals |-> f.proposals, changed |-> f.changed]
      /\ f.proposals = FillProposals(view)
      /\ f.inOrder = Ordered(ModulesOf(view, None), Smaller)
  BY DEF Fill
<1>2. f.inOrder \in Seq(Range(f.inOrder))
  <2>1. Lists(Ordered(ModulesOf(view, None), Smaller), ModulesOf(view, None))
    BY ModulesAre, OrderedIds
  <2> QED BY <1>1, <2>1 DEF Lists, IsSeq
<1>3. DOMAIN f.proposals = DOMAIN view.proposals
  BY <1>1 DEF FillProposals
<1>4. ASSUME NEW p \in DOMAIN view.proposals
      PROVE  /\ IsProposal(f.proposals[p])
             /\ ~f.proposals[p].isNew /\ ~f.proposals[p].toDelete
             /\ f.proposals[p].order = view.proposals[p].order
  <2>1. f.proposals[p] =
          [order |-> view.proposals[p].order, text |-> view.proposals[p].text,
           modules |-> ModulesOf(view, p), isNew |-> FALSE, toDelete |-> FALSE, hasChanged |-> FALSE]
    BY <1>1 DEF FillProposals
  <2> HIDE DEF f
  <2> QED BY <2>1, ModulesAre DEF IsProposal
<1> HIDE DEF f
<1> QED BY <1>1, <1>2, <1>3, <1>4 DEF f

\* What the client makes of a result keeps the form in step with it.
LEMMA HoldsKeeps ==
  ASSUME IsForm, IsView(cache), FormFollowsCache, FormInOrder,
         NEW view, IsView(view), Holds(view)
  PROVE  /\ cache' = view /\ IsView(cache)'
         /\ IsForm' /\ FormFollowsCache' /\ FormInOrder'
<1>1. cache' = view /\ IsView(cache')
  BY DEF Holds
<1>2. CASE view = cache
  <2>1. form' = form /\ cache' = cache
    BY <1>2 DEF Holds
  <2> QED BY <2>1, <1>1 DEF IsForm, FormFollowsCache, FormInOrder, IsView, IsProposal, InOneOrder, Kept
<1>3. CASE view # cache
  <2>1. form' = Fill(view, form)
    BY <1>3 DEF Holds
  <2>2. /\ form' = [page |-> form'.page, pageChanged |-> form'.pageChanged, inOrder |-> form'.inOrder,
                    modules |-> form'.modules, proposals |-> form'.proposals, changed |-> form'.changed]
        /\ form'.inOrder \in Seq(Range(form'.inOrder))
        /\ DOMAIN form'.proposals = DOMAIN view.proposals
        /\ \A p \in DOMAIN view.proposals :
              /\ IsProposal(form'.proposals[p])
              /\ ~form'.proposals[p].isNew /\ ~form'.proposals[p].toDelete
              /\ form'.proposals[p].order = view.proposals[p].order
    BY <2>1, FillIs
  <2>3. IsForm'
    BY <2>2 DEF IsForm, IsView, IsProposal
  <2>4. FormFollowsCache'
    BY <1>1, <2>2 DEF FormFollowsCache
  <2>5. FormInOrder'
    <3>1. Kept' = DOMAIN view.proposals
      BY <2>2 DEF Kept
    <3> QED BY <1>1, <2>2, <3>1 DEF FormInOrder, InOneOrder
  <2> QED BY <1>1, <2>3, <2>4, <2>5
<1> QED BY <1>1, <1>2, <1>3

-----------------------------------------------------------------------------
(* What the administrator does *)

AnyOf(S) == CHOOSE x \in S : TRUE

\* The plan is about the proposals of the server, and the mutations of proposals.
LEMMA PlanKept ==
  ASSUME PlannedInOrder, Due' = Due, db'.proposals = db.proposals
  PROVE  PlannedInOrder'
<1>1. \A op, p : DueTo(op, p)' = DueTo(op, p)
  BY DEF DueTo
<1>2. Live' = Live /\ Creations' = Creations
  BY DEF Live, Creations
<1>3. Survivors' = Survivors
  BY <1>1, <1>2 DEF Survivors
<1>4. \A p : Planned(p)' = Planned(p)
  <2> TAKE p
  <2> DEFINE A == DueTo("updateProposal", p)
  <2>1. A' = A
    BY <1>1
  <2>2. Planned(p) = IF A = {} THEN db.proposals[p].order ELSE AnyOf(A).order
    BY DEF Planned, AnyOf
  <2>3. Planned(p)' = IF A' = {} THEN db'.proposals[p].order ELSE AnyOf(A').order
    BY DEF Planned, AnyOf
  <2> HIDE DEF A
  <2> QED BY <2>1, <2>2, <2>3
<1> QED BY <1>2, <1>3, <1>4 DEF PlannedInOrder

\* A change leaves the mutations, the server and the result alone.
LEMMA EditKeeps ==
  ASSUME OrderIInv, ~Excused', NEW new, Edit(new),
         IsForm', FormFollowsCache', FormInOrder'
  PROVE  OrderIInv'
<1>1. UNCHANGED <<cache, db, chains, asked>> /\ edits' = edits + 1 /\ ~Excused
  BY DEF Edit, Excused
<1>2. /\ IsServer /\ IsView(cache) /\ edits \in Nat /\ OneChain /\ DueIsKnown /\ PlannedInOrder /\ AnswerComes
      /\ chains \in Seq(Range(chains)) /\ \A c \in DOMAIN chains : IsChain(chains[c])
  BY <1>1 DEF OrderIInv, Shapes
<1>3. Shapes'
  <2>1. IsServer' /\ IsView(cache)' /\ (edits \in Nat)'
    BY <1>1, <1>2 DEF IsServer, IsView
  <2>2. (chains \in Seq(Range(chains)))' /\ (\A c \in DOMAIN chains : IsChain(chains[c]))'
    BY <1>1, <1>2 DEF IsChain, IsTask, IsCreation, OfProposals, OfOthers, IsView
  <2> QED BY <2>1, <2>2 DEF Shapes
<1>4. Due' = Due /\ (\A c \in DOMAIN chains : TasksOf(c)' = TasksOf(c))
  BY <1>1 DEF Due, TasksOf, OfProposals
<1>5. OneChain' /\ DueIsKnown'
  BY <1>1, <1>2, <1>4 DEF OneChain, DueIsKnown, OfProposals
<1>6. PlannedInOrder'
  BY <1>1, <1>2, <1>4, PlanKept
<1>7. AnswerComes'
  BY <1>1, <1>2, <1>4 DEF AnswerComes, LastReads, WillRead, Current, Visible
<1> QED BY <1>3, <1>5, <1>6, <1>7, IsForm', FormFollowsCache', FormInOrder' DEF OrderIInv

IsStore(f) ==
    f = [page |-> f.page, pageChanged |-> f.pageChanged, inOrder |-> f.inOrder,
         modules |-> f.modules, proposals |-> f.proposals, changed |-> f.changed]

\* A change that leaves alone which proposals there are, which are new and deleted,
\* and their orders.
KeepsOrders(new) ==
    /\ IsStore(new) /\ new.inOrder \in Seq(Range(new.inOrder))
    /\ DOMAIN new.proposals = DOMAIN form.proposals
    /\ \A p \in DOMAIN form.proposals :
          /\ IsProposal(new.proposals[p])
          /\ new.proposals[p].order = form.proposals[p].order
          /\ new.proposals[p].isNew = form.proposals[p].isNew
          /\ new.proposals[p].toDelete = form.proposals[p].toDelete
          /\ form.proposals[p].hasChanged => new.proposals[p].hasChanged

\* One that leaves the proposals alone.
KeepsProposals(f, new) ==
    IsStore(new) /\ new.inOrder = f.inOrder /\ new.proposals = f.proposals

\* A change that keeps the proposals in one order keeps the invariant, and one that keeps the
\* proposals but for their texts does so.
LEMMA OrdersKept ==
  ASSUME OrderIInv, ~Excused', NEW new, Edit(new), KeepsOrders(new)
  PROVE  OrderIInv'
<1>1. /\ IsForm /\ FormFollowsCache /\ FormInOrder
      /\ form' = new /\ cache' = cache
  BY DEF OrderIInv, Shapes, Edit, Excused
<1>2. IsForm'
  BY <1>1 DEF IsForm, IsStore, IsProposal, KeepsOrders
<1>3. FormFollowsCache'
  BY <1>1 DEF FormFollowsCache, KeepsOrders
<1>4. FormInOrder'
  <2>1. Kept' = Kept
    BY <1>1 DEF Kept, KeepsOrders
  <2>2. Kept \subseteq DOMAIN form.proposals
    BY DEF Kept
  <2> QED BY <1>1, <2>1, <2>2 DEF FormInOrder, InOneOrder, KeepsOrders
<1> QED BY <1>2, <1>3, <1>4, EditKeeps

LEMMA ProposalsKept ==
  ASSUME OrderIInv, ~Excused, NEW new, KeepsProposals(form, new)
  PROVE  KeepsOrders(new)
BY DEF OrderIInv, Shapes, IsForm, KeepsProposals, KeepsOrders

\* What the updates of a field of the store keep.
LEMMA WithField ==
  ASSUME NEW f, NEW g, KeepsProposals(f, g), NEW v
  PROVE  /\ KeepsProposals(f, [g EXCEPT !.changed = v])
         /\ KeepsProposals(f, [g EXCEPT !.page = v])
         /\ KeepsProposals(f, [g EXCEPT !.pageChanged = v])
         /\ KeepsProposals(f, [g EXCEPT !.modules = v])
BY DEF IsStore, KeepsProposals

LEMMA WithProposals ==
  ASSUME NEW f, IsStore(f), NEW v
  PROVE  /\ IsStore([f EXCEPT !.proposals = v])
         /\ [f EXCEPT !.proposals = v].proposals = v
         /\ [f EXCEPT !.proposals = v].inOrder = f.inOrder
BY DEF IsStore

LEMMA WithInOrder ==
  ASSUME NEW f, IsStore(f), NEW v
  PROVE  /\ IsStore([f EXCEPT !.inOrder = v])
         /\ [f EXCEPT !.inOrder = v].inOrder = v
         /\ [f EXCEPT !.inOrder = v].proposals = f.proposals
BY DEF IsStore

\* What the updates of the modules keep: a store that is none is never updated.
LEMMA StoreIs ==
  ASSUME IsStore(form)
  PROVE  KeepsProposals(form, form)
BY DEF IsStore, KeepsProposals

LEMMA ChangedIs ==
  ASSUME IsStore(form)
  PROVE  KeepsProposals(form, form) /\ KeepsProposals(form, Changed)
<1>1. PICK v : v = TRUE
  OBVIOUS
<1>2. Changed = [form EXCEPT !.changed = v]
  BY <1>1 DEF Changed
<1> QED BY <1>2, StoreIs, WithField

LEMMA WithModules ==
  ASSUME NEW f, NEW g, KeepsProposals(f, g), NEW m
  PROVE  KeepsProposals(f, [g EXCEPT !.modules = m])
BY WithField

LEMMA SayIs ==
  ASSUME NEW f, NEW g, KeepsProposals(f, g), NEW m, NEW text, NEW custom
  PROVE  KeepsProposals(f, Say(g, m, text, custom))
<1> DEFINE h == Say(g, m, text, custom)
<1>1. h = [g EXCEPT !.modules = h.modules]
  BY DEF IsStore, KeepsProposals, Say
<1> HIDE DEF h
<1> QED BY <1>1, WithModules DEF h

\* One field of a proposal changes.
LEMMA WithOrder ==
  ASSUME NEW it, IsProposal(it), NEW v
  PROVE  LET new == [it EXCEPT !.order = v] IN
         /\ IsProposal(new) /\ new.order = v
         /\ new.isNew = it.isNew /\ new.toDelete = it.toDelete /\ new.hasChanged = it.hasChanged
BY DEF IsProposal

\* What the updates of a proposal of the store keep.
LEMMA WithText ==
  ASSUME NEW it, IsProposal(it), NEW v
  PROVE  LET new == [it EXCEPT !.text = v] IN
         /\ IsProposal(new) /\ new.order = it.order
         /\ new.isNew = it.isNew /\ new.toDelete = it.toDelete /\ new.hasChanged = it.hasChanged
BY DEF IsProposal

LEMMA WithHasChanged ==
  ASSUME NEW it, IsProposal(it)
  PROVE  LET new == [it EXCEPT !.hasChanged = TRUE] IN
         /\ IsProposal(new) /\ new.order = it.order
         /\ new.isNew = it.isNew /\ new.toDelete = it.toDelete /\ new.hasChanged
<1>1. ASSUME NEW v \in BOOLEAN
      PROVE  LET new == [it EXCEPT !.hasChanged = v] IN
         /\ IsProposal(new) /\ new.order = it.order
         /\ new.isNew = it.isNew /\ new.toDelete = it.toDelete /\ new.hasChanged = v
  BY DEF IsProposal
<1> QED BY <1>1

LEMMA WithToDelete ==
  ASSUME NEW it, IsProposal(it)
  PROVE  LET new == [it EXCEPT !.toDelete = TRUE] IN
         /\ IsProposal(new) /\ new.order = it.order
         /\ new.isNew = it.isNew /\ new.toDelete /\ new.hasChanged = it.hasChanged
<1>1. ASSUME NEW v \in BOOLEAN
      PROVE  LET new == [it EXCEPT !.toDelete = v] IN
         /\ IsProposal(new) /\ new.order = it.order
         /\ new.isNew = it.isNew /\ new.toDelete = v /\ new.hasChanged = it.hasChanged
  BY DEF IsProposal
<1> QED BY <1>1

LEMMA WithMade ==
  ASSUME NEW it, IsProposal(it), NEW id \in Nat \X Nat
  PROVE  LET new == [it EXCEPT !.modules = @ \union {id}] IN
         /\ IsProposal(new) /\ new.order = it.order
         /\ new.isNew = it.isNew /\ new.toDelete = it.toDelete /\ new.hasChanged = it.hasChanged
<1>1. IsFiniteSet(it.modules \union {id})
  BY FS_AddElement DEF IsProposal
<1>2. ASSUME NEW v, v = it.modules \union {id}
      PROVE  LET new == [it EXCEPT !.modules = v] IN
         /\ IsProposal(new) /\ new.order = it.order
         /\ new.isNew = it.isNew /\ new.toDelete = it.toDelete /\ new.hasChanged = it.hasChanged
  BY <1>1, <1>2 DEF IsProposal
<1> QED BY <1>2

\* Templates marked with the modules made after them, and the customizations that are cancelled.
LEMMA MarkedIs ==
  ASSUME IsStore(form), NEW t
  PROVE  KeepsProposals(form, MarkAllDependencies(t))
BY ChangedIs, WithModules DEF MarkAllDependencies, SetModules

LEMMA CancelledIs ==
  ASSUME NEW f, NEW g, KeepsProposals(f, g), NEW S, NEW text
  PROVE  KeepsProposals(f, Cancelled(g, S, text))
BY WithModules DEF Cancelled, SetModules

\* The changes of the page, the templates and the modules.
LEMMA EditPageKeeps ==
  ASSUME OrderIInv, ~Excused', EditPage
  PROVE  OrderIInv'
<1>1. PICK text : Edit([form EXCEPT !.page = text, !.pageChanged = TRUE])
  BY DEF EditPage
<1>2. ~Excused
  BY <1>1 DEF Edit, Excused
<1>3. \A v : KeepsProposals(form, [form EXCEPT !.page = text, !.pageChanged = v])
  <2> TAKE v
  <2> DEFINE g == [form EXCEPT !.page = text]
  <2>1. IsStore(form)
    BY <1>2 DEF OrderIInv, Shapes, IsForm, IsStore
  <2>2. KeepsProposals(form, g)
    BY <2>1, StoreIs, WithField
  <2> HIDE DEF g
  <2>3. KeepsProposals(form, [g EXCEPT !.pageChanged = v])
    BY <2>2, WithField
  <2>4. [form EXCEPT !.page = text, !.pageChanged = v] = [g EXCEPT !.pageChanged = v]
    BY DEF g
  <2> QED BY <2>3, <2>4
<1> QED BY <1>1, <1>2, <1>3, ProposalsKept, OrdersKept

\* Changes of the templates: of their number, then of what they say.
LEMMA CreateTemplateKeeps ==
  ASSUME OrderIInv, ~Excused', CreateTemplate
  PROVE  OrderIInv'
<1> DEFINE new == [Changed EXCEPT !.inOrder = Append(@, FreshId(0)),
                                  !.modules = Also(@, FreshId(0), NewModule(None, None))]
<1>1. Edit(new)
  BY DEF CreateTemplate
<1>2. ~Excused
  BY <1>1 DEF Edit, Excused
<1>3. IsForm /\ IsStore(form)
  BY <1>2 DEF OrderIInv, Shapes, IsForm, IsStore
<1>4. KeepsProposals(form, Changed)
  BY <1>3, ChangedIs
<1>5. IsStore(new) /\ new.inOrder = Append(form.inOrder, FreshId(0)) /\ new.proposals = form.proposals
  <2> DEFINE g == [Changed EXCEPT !.inOrder = Append(Changed.inOrder, FreshId(0))]
             m == Also(Changed.modules, FreshId(0), NewModule(None, None))
  <2>1. IsStore(g) /\ g.inOrder = Append(form.inOrder, FreshId(0)) /\ g.proposals = form.proposals
    <3>1. \A v : /\ IsStore([Changed EXCEPT !.inOrder = v])
                 /\ [Changed EXCEPT !.inOrder = v].inOrder = v
                 /\ [Changed EXCEPT !.inOrder = v].proposals = Changed.proposals
      BY <1>4, WithInOrder DEF KeepsProposals
    <3>2. Changed.inOrder = form.inOrder /\ Changed.proposals = form.proposals
      BY <1>4 DEF KeepsProposals
    <3> QED BY <3>1, <3>2
  <2>2. new = [g EXCEPT !.modules = m]
    <3> HIDE DEF m
    <3>1. g.modules = Changed.modules
      BY <1>4 DEF IsStore, KeepsProposals
    <3> QED BY <3>1 DEF m
  <2> HIDE DEF g, new, m
  <2>3. KeepsProposals(g, g)
    BY <2>1 DEF KeepsProposals
  <2>4. KeepsProposals(g, new)
    BY <2>2, <2>3, WithField
  <2> QED BY <2>1, <2>4 DEF KeepsProposals
<1> HIDE DEF new
<1>6. new.inOrder \in Seq(Range(new.inOrder))
  BY <1>3, <1>5, AppendIs DEF IsForm, IsSeq
<1>7. KeepsOrders(new)
  BY <1>3, <1>5, <1>6 DEF KeepsOrders, IsForm
<1> QED BY <1>1, <1>7, OrdersKept

\* The changes that leave the proposals alone keep the invariant.
LEMMA StoreKept ==
  ASSUME OrderIInv, ~Excused', NEW new, Edit(new),
         IsStore(form) => KeepsProposals(form, new)
  PROVE  OrderIInv'
<1>1. ~Excused
  BY DEF Edit, Excused
<1>2. IsStore(form)
  BY <1>1 DEF OrderIInv, Shapes, IsForm, IsStore
<1> QED BY <1>1, <1>2, ProposalsKept, OrdersKept

LEMMA DeleteTemplatesKeeps ==
  ASSUME OrderIInv, ~Excused', DeleteTemplates
  PROVE  OrderIInv'
<1>1. PICK S : Edit(SetModules(Changed, S, LAMBDA m : [m EXCEPT !.toDelete = TRUE]))
  BY DEF DeleteTemplates
<1> DEFINE new == SetModules(Changed, S, LAMBDA m : [m EXCEPT !.toDelete = TRUE])
<1>2. IsStore(form) => KeepsProposals(form, new)
  BY ChangedIs, WithModules DEF SetModules
<1> HIDE DEF new
<1> QED BY <1>1, <1>2, StoreKept DEF new

LEMMA UndeleteTemplatesKeeps ==
  ASSUME OrderIInv, ~Excused', UndeleteTemplates
  PROVE  OrderIInv'
<1> DEFINE new == SetModules(form, Range(form.inOrder), LAMBDA m : [m EXCEPT !.toDelete = FALSE])
<1>1. Edit(new)
  BY DEF UndeleteTemplates
<1>2. IsStore(form) => KeepsProposals(form, new)
  BY StoreIs, WithModules DEF SetModules
<1> HIDE DEF new
<1> QED BY <1>1, <1>2, StoreKept

LEMMA EditTemplateKeeps ==
  ASSUME OrderIInv, ~Excused', EditTemplate
  PROVE  OrderIInv'
<1>1. PICK t, text, custom : Edit(Say(MarkAllDependencies(t), t, text, custom))
  BY DEF EditTemplate
<1>2. ~Excused
  BY <1>1 DEF Edit, Excused
<1>3. IsStore(form)
  BY <1>2 DEF OrderIInv, Shapes, IsForm, IsStore
<1>4. KeepsProposals(form, Say(MarkAllDependencies(t), t, text, custom))
  BY <1>3, MarkedIs, SayIs
<1> QED BY <1>1, <1>2, <1>4, ProposalsKept, OrdersKept

\* Changes of what a proposal says, and of its modules.
LEMMA EditProposalKeeps ==
  ASSUME OrderIInv, ~Excused', EditProposal
  PROVE  OrderIInv'
<1>1. PICK p \in Kept, text \in Texts :
         Edit([Changed EXCEPT !.proposals[p].text = text, !.proposals[p].hasChanged = TRUE])
  BY DEF EditProposal
<1> DEFINE new == [Changed EXCEPT !.proposals[p].text = text, !.proposals[p].hasChanged = TRUE]
<1>2. ~Excused
  BY <1>1 DEF Edit, Excused
<1>3. IsForm /\ IsStore(form) /\ p \in DOMAIN form.proposals
  BY <1>2 DEF OrderIInv, Shapes, IsForm, IsStore, Kept
<1>4. KeepsProposals(form, Changed)
  BY <1>3, ChangedIs
<1> DEFINE P == [form.proposals EXCEPT ![p].text = text, ![p].hasChanged = TRUE]
<1>5. IsStore(new) /\ new.inOrder = form.inOrder /\ new.proposals = P
  <2>1. new = [Changed EXCEPT !.proposals = P]
    BY <1>4 DEF IsStore, KeepsProposals
  <2> HIDE DEF P, new
  <2> QED BY <1>4, <2>1, WithProposals DEF KeepsProposals
<1>6. /\ DOMAIN P = DOMAIN form.proposals
      /\ \A q \in DOMAIN form.proposals : q # p => P[q] = form.proposals[q]
      /\ P[p] = [[form.proposals[p] EXCEPT !.text = text] EXCEPT !.hasChanged = TRUE]
  BY <1>3
<1> HIDE DEF new, P
<1>7. IsProposal(form.proposals[p])
  BY <1>3 DEF IsForm
<1>8. /\ IsProposal(P[p]) /\ P[p].order = form.proposals[p].order /\ P[p].isNew = form.proposals[p].isNew
      /\ P[p].toDelete = form.proposals[p].toDelete /\ P[p].hasChanged
  <2> DEFINE it == [form.proposals[p] EXCEPT !.text = text]
  <2>1. /\ IsProposal(it) /\ it.order = form.proposals[p].order /\ it.isNew = form.proposals[p].isNew
        /\ it.toDelete = form.proposals[p].toDelete
    BY <1>7, WithText
  <2>2. P[p] = [it EXCEPT !.hasChanged = TRUE]
    BY <1>6
  <2> HIDE DEF it
  <2> QED BY <2>1, <2>2, WithHasChanged
<1>9. KeepsOrders(new)
  BY <1>3, <1>5, <1>6, <1>8 DEF KeepsOrders, IsForm
<1> QED BY <1>1, <1>9, OrdersKept DEF new

LEMMA AssociateModuleKeeps ==
  ASSUME OrderIInv, ~Excused', NEW p \in Kept, NEW t, AssociateModule(p, t)
  PROVE  OrderIInv'
<1> DEFINE new == [Changed EXCEPT !.modules = Also(@, FreshId(0), NewModule(p, t)),
                                  !.proposals[p].modules = @ \union {FreshId(0)}]
<1>1. Edit(new)
  BY DEF AssociateModule
<1>2. ~Excused
  BY <1>1 DEF Edit, Excused
<1>3. IsForm /\ IsStore(form) /\ p \in DOMAIN form.proposals /\ edits \in Nat
  BY <1>2 DEF OrderIInv, Shapes, IsForm, IsStore, Kept
<1>4. KeepsProposals(form, Changed)
  BY <1>3, ChangedIs
<1> DEFINE P == [form.proposals EXCEPT ![p].modules = @ \union {FreshId(0)}]
           m == Also(form.modules, FreshId(0), NewModule(p, t))
<1>5. IsStore(new) /\ new.inOrder = form.inOrder /\ new.proposals = P
  <2> DEFINE g == [Changed EXCEPT !.modules = m]
  <2>1. new = [g EXCEPT !.proposals = P]
    <3>1. Changed.modules = form.modules
      BY <1>3 DEF Changed, IsStore
    <3> HIDE DEF Changed
    <3> QED BY <1>4, <3>1 DEF IsStore, KeepsProposals
  <2>2. KeepsProposals(form, g)
    BY <1>4, WithField
  <2> HIDE DEF P, new, g
  <2> QED BY <2>1, <2>2, WithProposals DEF KeepsProposals
<1>6. /\ DOMAIN P = DOMAIN form.proposals
      /\ \A q \in DOMAIN form.proposals : q # p => P[q] = form.proposals[q]
      /\ P[p] = [form.proposals[p] EXCEPT !.modules = @ \union {FreshId(0)}]
  BY <1>3
<1>7. FreshId(0) \in Nat \X Nat
  BY <1>3 DEF FreshId
<1> HIDE DEF new, P
<1>8. IsProposal(form.proposals[p])
  BY <1>3 DEF IsForm
<1>9. /\ IsProposal(P[p]) /\ P[p].order = form.proposals[p].order /\ P[p].isNew = form.proposals[p].isNew
      /\ P[p].toDelete = form.proposals[p].toDelete /\ P[p].hasChanged = form.proposals[p].hasChanged
  BY <1>6, <1>7, <1>8, WithMade
<1>10. KeepsOrders(new)
  BY <1>3, <1>5, <1>6, <1>9 DEF KeepsOrders, IsForm
<1> QED BY <1>1, <1>10, OrdersKept DEF new

LEMMA EditModulesKeeps ==
  ASSUME OrderIInv, ~Excused', EditModules
  PROVE  OrderIInv'
<1>1. PICK p \in Kept, t \in Range(Active) :
        \/ AssociateModule(p, t)
        \/ DeassociateModule(p, t)
        \/ ReactivateModule(p, t)
        \/ CustomizeGauge(p, t)
        \/ ApplyToAllProposals(p, t)
        \/ CancelCustomization(p, t)
  BY DEF EditModules
<1>2. ASSUME NEW new, Edit(new), IsStore(form) => KeepsProposals(form, new) PROVE OrderIInv'
  BY <1>2, StoreKept
<1>3. CASE AssociateModule(p, t)
  BY <1>3, AssociateModuleKeeps
<1>4. CASE DeassociateModule(p, t)
  <2> DEFINE new == [Changed EXCEPT !.modules[FirstMade(p, t)].toDelete = TRUE]
  <2>1. ASSUME IsStore(form) PROVE KeepsProposals(form, new)
    <3>1. KeepsProposals(form, Changed)
      BY <2>1, ChangedIs
    <3>2. new = [Changed EXCEPT !.modules = new.modules]
      <4> HIDE DEF Changed
      <4> QED BY <3>1 DEF IsStore, KeepsProposals
    <3> HIDE DEF new
    <3> QED BY <3>1, <3>2, WithModules
  <2>2. Edit(new)
    BY <1>4 DEF DeassociateModule
  <2> QED BY <1>2, <2>1, <2>2
<1>5. CASE ReactivateModule(p, t)
  <2> DEFINE new == [form EXCEPT !.modules[FirstMade(p, t)].toDelete = FALSE]
  <2>1. ASSUME IsStore(form) PROVE KeepsProposals(form, new)
    <3>1. new = [form EXCEPT !.modules = new.modules]
      BY <2>1 DEF IsStore
    <3> HIDE DEF new
    <3> QED BY <2>1, <3>1, StoreIs, WithModules
  <2>2. Edit(new)
    BY <1>5 DEF ReactivateModule
  <2> QED BY <1>2, <2>1, <2>2
<1>6. CASE CustomizeGauge(p, t)
  <2>1. PICK text : Edit(Say(Changed, FirstMade(p, t), text, TRUE))
    BY <1>6 DEF CustomizeGauge
  <2>2. IsStore(form) => KeepsProposals(form, Say(Changed, FirstMade(p, t), text, TRUE))
    BY ChangedIs, SayIs
  <2> QED BY <1>2, <2>1, <2>2
<1>7. CASE ApplyToAllProposals(p, t)
  <2>1. PICK text, S : Edit(Cancelled(Say(Changed, t, text, FALSE), S, text))
    BY <1>7 DEF ApplyToAllProposals
  <2>2. IsStore(form) => KeepsProposals(form, Cancelled(Say(Changed, t, text, FALSE), S, text))
    BY ChangedIs, SayIs, CancelledIs
  <2> QED BY <1>2, <2>1, <2>2
<1>8. CASE CancelCustomization(p, t)
  <2> DEFINE new == Cancelled(Changed, {FirstMade(p, t)}, form.modules[t].text)
  <2>1. IsStore(form) => KeepsProposals(form, new)
    BY ChangedIs, CancelledIs
  <2>2. Edit(new)
    BY <1>8 DEF CancelCustomization
  <2> QED BY <1>2, <2>1, <2>2
<1> QED BY <1>1, <1>3, <1>4, <1>5, <1>6, <1>7, <1>8

\* A proposal is created, deleted, or moved.
LEMMA CreateProposalKeeps ==
  ASSUME OrderIInv, ~Excused', CreateVoteProposalAndModules
  PROVE  OrderIInv'
<1> DEFINE id == FreshId(0)
           made == {FreshId(k) : k \in DOMAIN form.inOrder}
           it == NewProposal(NextOrder, made)
           P == Also(form.proposals, id, it)
<1>1. PICK m : Edit([Changed EXCEPT !.proposals = Also(@, id, it), !.modules = m])
  <2> DEFINE TemplateOf(m) == form.inOrder[m[2]]
             x == Merge(Changed.modules, [m \in made |-> NewModule(FreshId(0), TemplateOf(m))])
  <2>1. Edit([Changed EXCEPT !.proposals = Also(@, id, it),
                             !.modules = Merge(@, [m \in made |-> NewModule(FreshId(0), TemplateOf(m))])])
    BY DEF CreateVoteProposalAndModules
  <2>2. [Changed EXCEPT !.proposals = Also(@, id, it),
                        !.modules = Merge(@, [m \in made |-> NewModule(FreshId(0), TemplateOf(m))])]
        = [Changed EXCEPT !.proposals = Also(@, id, it), !.modules = x]
    <3> HIDE DEF Changed, it, id, made
    <3> QED OBVIOUS
  <2> QED BY <2>1, <2>2
<1> DEFINE new == [Changed EXCEPT !.proposals = Also(@, id, it), !.modules = m]
<1>2. ~Excused
  BY <1>1 DEF Edit, Excused
<1>3. /\ IsForm /\ IsStore(form) /\ edits \in Nat /\ FormFollowsCache /\ FormInOrder
      /\ form' = new /\ cache' = cache
  BY <1>1, <1>2 DEF OrderIInv, Shapes, IsForm, IsStore, Edit
<1>4. KeepsProposals(form, Changed)
  BY <1>3, ChangedIs
<1>5. IsStore(new) /\ new.inOrder = form.inOrder /\ new.proposals = P
  <2> DEFINE g == [Changed EXCEPT !.proposals = P]
  <2>1. new = [g EXCEPT !.modules = m]
    <3> HIDE DEF Changed, it, id
    <3> QED BY <1>4 DEF KeepsProposals
  <2>2. IsStore(g) /\ g.proposals = P /\ g.inOrder = form.inOrder
    <3> HIDE DEF P
    <3> QED BY <1>4, WithProposals DEF KeepsProposals
  <2>3. KeepsProposals(g, g)
    BY <2>2 DEF KeepsProposals
  <2> HIDE DEF g, new, P
  <2>4. KeepsProposals(g, new)
    BY <2>1, <2>3, WithModules
  <2> QED BY <2>2, <2>4 DEF KeepsProposals
<1>6. id \in Nat \X Nat
  BY <1>3 DEF FreshId
<1>7. IsProposal(it) /\ it.isNew /\ ~it.toDelete /\ it.order = NextOrder
  <2>1. IsFiniteSet(made) /\ made \subseteq Nat \X Nat
    <3>1. DOMAIN form.inOrder = 1..Len(form.inOrder) /\ Len(form.inOrder) \in Nat
      BY <1>3, SeqIs DEF IsForm, IsSeq
    <3> DEFINE D == DOMAIN form.inOrder
    <3>2. IsFiniteSet(D) /\ D \subseteq Nat
      BY <3>1, FS_Interval
    <3>3. made = {edits + 1} \X D
      BY DEF FreshId
    <3> HIDE DEF D, made
    <3>4. IsFiniteSet({edits + 1} \X D)
      BY <3>2, FS_Product, FS_Singleton
    <3> QED BY <1>3, <3>2, <3>3, <3>4
  <2> HIDE DEF made
  <2> QED BY <2>1 DEF NewProposal, IsProposal
<1>8. /\ DOMAIN P = DOMAIN form.proposals \union {id}
      /\ \A q \in DOMAIN form.proposals : P[q] = form.proposals[q]
      /\ id \notin DOMAIN form.proposals => P[id] = it
  <2> HIDE DEF it, id
  <2> QED BY DEF Also, Merge
<1> HIDE DEF new, P, id, it
<1>9. IsForm'
  <2>1. IsFiniteSet(DOMAIN P)
    BY <1>3, <1>8, FS_AddElement DEF IsForm
  <2>2. DOMAIN P \subseteq Nat \X Nat
    BY <1>3, <1>6, <1>8 DEF IsForm
  <2>3. \A p \in DOMAIN P : IsProposal(P[p])
    BY <1>3, <1>7, <1>8 DEF IsForm
  <2>4. new.inOrder \in Seq(Range(new.inOrder))
    BY <1>3, <1>5 DEF IsForm
  <2> QED BY <1>3, <1>5, <2>1, <2>2, <2>3, <2>4 DEF IsForm, IsStore, IsProposal
<1>10. FormFollowsCache'
  BY <1>3, <1>5, <1>7, <1>8 DEF FormFollowsCache
<1>11. FormInOrder'
  <2>1. SUFFICES ASSUME InOneOrder(cache.proposals, DOMAIN cache.proposals)
                 PROVE  /\ InOneOrder(P, Kept')
                        /\ \A p \in DOMAIN P : P[p].order \in Int
    BY <1>3, <1>5 DEF FormInOrder, InOneOrder
  <2>2. /\ Kept # {} /\ \A p \in DOMAIN form.proposals : form.proposals[p].order \in Int
        /\ \A p, q \in Kept : form.proposals[p].order = form.proposals[q].order => p = q
    BY <1>3, <2>1 DEF FormInOrder, InOneOrder
  <2>3. Kept \subseteq DOMAIN form.proposals /\ IsFiniteSet(Kept)
    <3>1. Kept \in SUBSET DOMAIN form.proposals
      BY DEF Kept
    <3> QED BY <1>3, <3>1, FS_Subset DEF IsForm
  <2>4. NextOrder \in Int /\ \A p \in Kept : form.proposals[p].order < NextOrder
    <3> DEFINE f == form.proposals
    <3>1. \A x \in Kept : f[x].order \in Int
      BY <2>2, <2>3
    <3>2. NextOrder = 1 + Highest({f[p].order : p \in Kept})
      BY DEF NextOrder
    <3> HIDE DEF f
    <3>3. /\ Highest({f[x].order : x \in Kept}) \in Int
          /\ \A x \in Kept : f[x].order <= Highest({f[y].order : y \in Kept})
      BY <2>2, <2>3, <3>1, HighestOrder
    <3> DEFINE h == Highest({f[x].order : x \in Kept})
    <3> HIDE DEF h
    <3>4. NextOrder = 1 + h /\ h \in Int /\ \A x \in Kept : f[x].order <= h
      BY <3>2, <3>3 DEF h
    <3> QED BY <3>1, <3>4 DEF f
  <2>5. /\ Kept \subseteq Kept' /\ Kept' \subseteq Kept \union {id}
        /\ \A p \in Kept' : p \notin Kept => P[p] = it
        /\ \A p \in Kept : P[p] = form.proposals[p]
    BY <1>3, <1>5, <1>8 DEF Kept
  <2>6. \A p \in DOMAIN P : P[p].order \in Int
    BY <1>7, <1>8, <2>2, <2>4
  <2>7. \A p, q \in Kept' : P[p].order = P[q].order => p = q
    BY <1>7, <2>2, <2>3, <2>4, <2>5
  <2>8. Kept' \subseteq DOMAIN P
    BY <1>3, <1>5 DEF Kept
  <2> QED BY <2>2, <2>5, <2>6, <2>7, <2>8 DEF InOneOrder
<1> QED BY <1>1, <1>9, <1>10, <1>11, EditKeeps DEF new

\* A proposal that is deleted leaves the others in their order.
LEMMA DeleteProposalKeeps ==
  ASSUME OrderIInv, ~Excused', DeleteProposal
  PROVE  OrderIInv'
<1>1. PICK p \in Kept : Edit([Changed EXCEPT !.proposals[p].toDelete = TRUE])
  BY DEF DeleteProposal
<1> DEFINE new == [Changed EXCEPT !.proposals[p].toDelete = TRUE]
           P == [form.proposals EXCEPT ![p].toDelete = TRUE]
<1>2. ~Excused
  BY <1>1 DEF Edit, Excused
<1>3. /\ IsForm /\ IsStore(form) /\ FormFollowsCache /\ FormInOrder
      /\ form' = new /\ cache' = cache /\ p \in DOMAIN form.proposals
  BY <1>1, <1>2 DEF OrderIInv, Shapes, IsForm, IsStore, Edit, Kept
<1>4. KeepsProposals(form, Changed)
  BY <1>3, ChangedIs
<1>5. IsStore(new) /\ new.inOrder = form.inOrder /\ new.proposals = P
  <2>1. new = [Changed EXCEPT !.proposals = P]
    BY <1>4 DEF IsStore, KeepsProposals
  <2> HIDE DEF P, new
  <2> QED BY <1>4, <2>1, WithProposals DEF KeepsProposals
<1>6. /\ DOMAIN P = DOMAIN form.proposals
      /\ \A q \in DOMAIN form.proposals : q # p => P[q] = form.proposals[q]
      /\ P[p] = [form.proposals[p] EXCEPT !.toDelete = TRUE]
  BY <1>3
<1> HIDE DEF new, P
<1>7. IsProposal(form.proposals[p])
  BY <1>3 DEF IsForm
<1>8. /\ IsProposal(P[p]) /\ P[p].order = form.proposals[p].order /\ P[p].isNew = form.proposals[p].isNew
      /\ P[p].toDelete /\ P[p].hasChanged = form.proposals[p].hasChanged
  BY <1>6, <1>7, WithToDelete
<1>9. IsForm'
  <2>1. \A q \in DOMAIN P : IsProposal(P[q])
    BY <1>3, <1>6, <1>8 DEF IsForm
  <2> QED BY <1>3, <1>5, <1>6, <2>1 DEF IsForm, IsStore, IsProposal
<1>10. FormFollowsCache'
  <2>1. \A q \in DOMAIN form.proposals :
           /\ P[q].isNew = form.proposals[q].isNew /\ P[q].order = form.proposals[q].order
           /\ P[q].hasChanged = form.proposals[q].hasChanged
    BY <1>6, <1>8
  <2> QED BY <1>3, <1>5, <1>6, <2>1 DEF FormFollowsCache
<1>11. FormInOrder'
  <2>1. SUFFICES ASSUME InOneOrder(cache.proposals, DOMAIN cache.proposals)
                 PROVE  /\ InOneOrder(P, Kept')
                        /\ \A q \in DOMAIN P : P[q].order \in Int
    BY <1>3, <1>5 DEF FormInOrder, InOneOrder
  <2>2. /\ Kept # {} /\ \A q \in DOMAIN form.proposals : form.proposals[q].order \in Int
        /\ \A q, r \in Kept : form.proposals[q].order = form.proposals[r].order => q = r
    BY <1>3, <2>1 DEF FormInOrder, InOneOrder
  <2>3. Kept \subseteq DOMAIN form.proposals /\ IsFiniteSet(Kept)
    <3>1. Kept \in SUBSET DOMAIN form.proposals
      BY DEF Kept
    <3> QED BY <1>3, <3>1, FS_Subset DEF IsForm
  <2>4. Kept' = Kept \ {p}
    BY <1>3, <1>5, <1>6, <1>8 DEF Kept
  <2>5. Kept' # {}
    <3>1. Lists(Sorted, Kept)
      BY <1>3, <2>2, <2>3, OrderedProposals DEF Sorted, IsForm
    <3>2. Len(Sorted) > 2
      BY DEF DeleteProposal
    <3>3. Sorted[1] \in Kept /\ Sorted[2] \in Kept /\ Sorted[1] # Sorted[2]
      BY <3>1, <3>2 DEF Lists
    <3> QED BY <2>4, <3>3
  <2>6. \A q \in DOMAIN form.proposals : P[q].order = form.proposals[q].order
    BY <1>6, <1>8
  <2> QED BY <1>6, <2>2, <2>3, <2>4, <2>5, <2>6 DEF InOneOrder
<1> QED BY <1>1, <1>9, <1>10, <1>11, EditKeeps DEF new

\* Two neighbours exchanged, the sequence has the same elements.
LEMMA MovedIs ==
  ASSUME NEW seq, NEW S, Lists(seq, S), NEW i \in 1..(Len(seq) - 1)
  PROVE  LET moved == Moved(seq, i) IN
         /\ DOMAIN moved = 1..Len(seq)
         /\ \A x \in S : \E k \in 1..Len(seq) : moved[k] = x
<1> DEFINE moved == Moved(seq, i)
<1>1. Len(seq) \in Nat /\ DOMAIN seq = 1..Len(seq) /\ i \in 1..Len(seq) /\ i + 1 \in 1..Len(seq) /\ i # i + 1
  BY SeqIs DEF Lists
<1>2. /\ DOMAIN moved = 1..Len(seq)
      /\ moved[i] = seq[i + 1] /\ moved[i + 1] = seq[i]
      /\ \A k \in 1..Len(seq) : k # i /\ k # i + 1 => moved[k] = seq[k]
  BY <1>1 DEF Moved
<1> HIDE DEF moved
<1>3. ASSUME NEW x \in S PROVE \E k \in 1..Len(seq) : moved[k] = x
  <2>1. PICK k \in 1..Len(seq) : seq[k] = x
    BY DEF Lists
  <2>2. CASE k = i
    BY <1>1, <1>2, <2>1, <2>2
  <2>3. CASE k = i + 1
    BY <1>1, <1>2, <2>1, <2>3
  <2>4. CASE k # i /\ k # i + 1
    BY <1>2, <2>1, <2>4
  <2> QED BY <2>2, <2>3, <2>4
<1> QED BY <1>2, <1>3 DEF moved

\* A proposal that moves exchanges its order with its neighbour among those kept.
LEMMA MoveProposalKeeps ==
  ASSUME OrderIInv, ~Excused', MoveProposal
  PROVE  OrderIInv'
<1>1. PICK i \in 1..(Len(Sorted) - 1) :
        LET seq == Moved(Sorted, i)
            Order(p) == CHOOSE k \in DOMAIN seq : seq[k] = p
        IN  Edit([Changed EXCEPT !.proposals =
                    [p \in DOMAIN @ |->
                        IF p \notin Kept \/ @[p].order = Order(p) THEN @[p]
                        ELSE [@[p] EXCEPT !.order = Order(p), !.hasChanged = TRUE]]])
  BY DEF MoveProposal
<1> DEFINE seq == Moved(Sorted, i)
           Order(p) == CHOOSE k \in DOMAIN seq : seq[k] = p
           P == [p \in DOMAIN form.proposals |->
                    IF p \notin Kept \/ form.proposals[p].order = Order(p) THEN form.proposals[p]
                    ELSE [form.proposals[p] EXCEPT !.order = Order(p), !.hasChanged = TRUE]]
           new == [Changed EXCEPT !.proposals = P]
<1>2. Edit([Changed EXCEPT !.proposals =
                    [p \in DOMAIN @ |->
                        IF p \notin Kept \/ @[p].order = Order(p) THEN @[p]
                        ELSE [@[p] EXCEPT !.order = Order(p), !.hasChanged = TRUE]]])
  BY <1>1
<1>3. ~Excused
  BY <1>2 DEF Edit, Excused
<1>4. /\ IsForm /\ IsStore(form) /\ FormFollowsCache /\ FormInOrder
  BY <1>3 DEF OrderIInv, Shapes, IsForm, IsStore
<1>5. KeepsProposals(form, Changed)
  BY <1>4, ChangedIs
<1> HIDE DEF Order
<1>6. Edit(new)
  <2>1. Changed.proposals = form.proposals
    BY <1>5 DEF KeepsProposals
  <2> HIDE DEF Changed
  <2> QED BY <1>2, <2>1
<1> HIDE DEF P
<1>7. IsStore(new) /\ new.inOrder = form.inOrder /\ new.proposals = P
  BY <1>5, WithProposals DEF KeepsProposals
<1>8. /\ DOMAIN P = DOMAIN form.proposals
      /\ \A p \in DOMAIN form.proposals :
            \/ /\ p \notin Kept \/ form.proposals[p].order = Order(p)
               /\ P[p] = form.proposals[p]
            \/ /\ p \in Kept
               /\ P[p] = [form.proposals[p] EXCEPT !.order = Order(p), !.hasChanged = TRUE]
  BY DEF P
<1> HIDE DEF new
<1>9. ASSUME NEW p \in DOMAIN form.proposals
      PROVE  /\ IsProposal(P[p])
             /\ P[p].isNew = form.proposals[p].isNew /\ P[p].toDelete = form.proposals[p].toDelete
             /\ \/ P[p] = form.proposals[p] /\ (p \in Kept => P[p].order = Order(p))
                \/ p \in Kept /\ P[p].hasChanged /\ P[p].order = Order(p)
  <2>1. IsProposal(form.proposals[p])
    BY <1>4 DEF IsForm
  <2>2. CASE (p \notin Kept \/ form.proposals[p].order = Order(p)) /\ P[p] = form.proposals[p]
    BY <2>1, <2>2
  <2>3. CASE p \in Kept /\ P[p] = [form.proposals[p] EXCEPT !.order = Order(p), !.hasChanged = TRUE]
    <3> DEFINE it == [form.proposals[p] EXCEPT !.order = Order(p)]
    <3>1. /\ IsProposal(it) /\ it.order = Order(p) /\ it.isNew = form.proposals[p].isNew
          /\ it.toDelete = form.proposals[p].toDelete
      BY <2>1, WithOrder
    <3>2. P[p] = [it EXCEPT !.hasChanged = TRUE]
      BY <2>3
    <3> HIDE DEF it
    <3> QED BY <2>3, <3>1, <3>2, WithHasChanged
  <2> QED BY <1>8, <2>2, <2>3
<1>10. form' = new /\ cache' = cache
  BY <1>6 DEF Edit
<1>11. IsForm'
  <2>1. \A q \in DOMAIN P : IsProposal(P[q])
    BY <1>8, <1>9
  <2> QED BY <1>4, <1>7, <1>8, <1>10, <2>1 DEF IsForm, IsStore, IsProposal
<1>12. FormFollowsCache'
  BY <1>4, <1>7, <1>8, <1>9, <1>10 DEF FormFollowsCache
<1>13. FormInOrder'
  <2>1. SUFFICES ASSUME InOneOrder(cache.proposals, DOMAIN cache.proposals)
                 PROVE  /\ InOneOrder(P, Kept')
                        /\ \A q \in DOMAIN P : P[q].order \in Int
    BY <1>7, <1>10 DEF FormInOrder, InOneOrder
  <2>2. /\ Kept # {} /\ \A q \in DOMAIN form.proposals : form.proposals[q].order \in Int
    BY <1>4, <2>1 DEF FormInOrder, InOneOrder
  <2>3. Kept \subseteq DOMAIN form.proposals /\ IsFiniteSet(Kept)
    <3>1. Kept \in SUBSET DOMAIN form.proposals
      BY DEF Kept
    <3> QED BY <1>4, <3>1, FS_Subset DEF IsForm
  <2>4. Kept' = Kept
    BY <1>7, <1>8, <1>9, <1>10 DEF Kept
  <2>5. Lists(Sorted, Kept)
    BY <1>4, <2>2, <2>3, OrderedProposals DEF Sorted, IsForm
  <2>6. DOMAIN seq = 1..Len(Sorted) /\ \A x \in Kept : \E k \in 1..Len(Sorted) : seq[k] = x
    BY <2>5, MovedIs
  <2>7. \A p \in Kept : Order(p) \in 1..Len(Sorted) /\ seq[Order(p)] = p
    <3> HIDE DEF seq
    <3> QED BY <2>6 DEF Order
  <2>8. \A p \in Kept : P[p].order = Order(p) /\ Order(p) \in Int
    <3>1. Len(Sorted) \in Nat
      BY <2>5 DEF Lists
    <3> HIDE DEF seq
    <3> QED BY <1>9, <2>3, <2>7, <3>1
  <2>9. \A p, q \in Kept : P[p].order = P[q].order => p = q
    <3> HIDE DEF seq
    <3> QED BY <2>7, <2>8
  <2>10. \A p \in DOMAIN P : P[p].order \in Int
    <3> SUFFICES ASSUME NEW p \in DOMAIN P PROVE P[p].order \in Int
      OBVIOUS
    <3>1. CASE p \in Kept
      BY <2>8, <3>1
    <3>2. CASE p \notin Kept
      BY <1>8, <1>9, <2>2, <3>2
    <3> QED BY <3>1, <3>2
  <2> QED BY <2>2, <2>3, <2>4, <2>8, <2>9, <2>10 DEF InOneOrder
<1> QED BY <1>6, <1>11, <1>12, <1>13, EditKeeps

\* Every change of the form keeps the invariant.
LEMMA EditFormKeeps ==
  ASSUME OrderIInv, ~Excused', EditForm
  PROVE  OrderIInv'
BY EditPageKeeps, CreateTemplateKeeps, DeleteTemplatesKeeps, UndeleteTemplatesKeeps, EditTemplateKeeps,
   CreateProposalKeeps, EditProposalKeeps, DeleteProposalKeeps, MoveProposalKeeps, EditModulesKeeps DEF EditForm

-----------------------------------------------------------------------------
(* The chains, and the mutations of proposals that are in them *)

\* The server shows the proposals that are not tombstones.
LEMMA VisibleIs ==
  ASSUME IsServer
  PROVE  /\ IsView(Visible(db))
         /\ DOMAIN Visible(db).proposals = Live
         /\ \A p \in Live : Visible(db).proposals[p] = db.proposals[p]
<1> DEFINE seen == {s \in DOMAIN db.specs : db.specs[s].proposal \in Live \union {None}}
           v == Visible(db)
<1>1. v = [page |-> db.page, specs |-> Restrict(db.specs, seen), proposals |-> Restrict(db.proposals, Live)]
  BY DEF Visible, Live
<1>2. seen \in SUBSET DOMAIN db.specs /\ Live \in SUBSET DOMAIN db.proposals
  BY DEF Live
<1>3. IsFiniteSet(seen) /\ IsFiniteSet(Live)
  <2> HIDE DEF seen
  <2> QED BY <1>2, FS_Subset DEF IsServer
<1>4. seen \subseteq Nat \X Nat /\ Live \subseteq Nat \X Nat
  <2>1. DOMAIN db.proposals \subseteq {0} \X Nat
    BY HighestProposal DEF IsServer
  <2> QED BY <1>2, <2>1 DEF IsServer
<1> HIDE DEF seen, v
<1>5. /\ v = [page |-> v.page, specs |-> v.specs, proposals |-> v.proposals]
      /\ v.specs = Restrict(db.specs, seen) /\ v.proposals = Restrict(db.proposals, Live)
  BY <1>1
<1>6. /\ DOMAIN v.specs = seen /\ DOMAIN v.proposals = Live
      /\ \A p \in Live : v.proposals[p] = db.proposals[p]
  BY <1>5 DEF Restrict
<1> QED BY <1>3, <1>4, <1>5, <1>6 DEF IsView, v

\* The mutations of proposals under way are those in the chains.
LEMMA DueIs ==
  \A t : t \in Due <=> OfProposals(t) /\ \E c \in DOMAIN chains : t \in Range(chains[c].tasks)
BY DEF Due, TasksOf

LEMMA DueNext ==
  \A t : t \in Due' <=> OfProposals(t) /\ \E c \in DOMAIN chains' : t \in Range(chains'[c].tasks)
BY DEF Due, TasksOf, OfProposals

\* A refetch is no mutation.
LEMMA RefetchIs ==
  /\ Refetch.op = "refetch" /\ ~OfProposals(Refetch) /\ ~OfOthers(Refetch) /\ IsTask(Refetch)
  /\ \A t : OfProposals(t) \/ OfOthers(t) => t # Refetch
BY DEF Refetch, OfProposals, OfOthers, IsTask

\* A chain of tasks, none of them the query, ends with the query.
LEMMA ChainIs ==
  ASSUME NEW tasks, IsSeq(tasks), \A t \in Range(tasks) : IsTask(t) /\ t # Refetch
  PROVE  LET all == Chain(tasks) IN
         /\ IsSeq(all) /\ Len(all) = IF tasks = <<>> THEN 0 ELSE 1
         /\ tasks = <<>> => all = <<>>
         /\ \A e \in 1..Len(all) :
               /\ IsChain(all[e]) /\ all[e].tasks = Append(tasks, Refetch) /\ all[e].reply = <<>>
               /\ all[e].tasks # <<Refetch>>
<1>1. CASE tasks = <<>>
  <2>1. Chain(tasks) = <<>>
    BY <1>1 DEF Chain
  <2>2. IsSeq(Chain(tasks)) /\ Len(Chain(tasks)) = 0
    BY <2>1, EmptyIs
  <2> QED BY <1>1, <2>1, <2>2
<1>2. CASE tasks # <<>>
  <2> DEFINE chain == [tasks |-> Append(tasks, Refetch), reply |-> <<>>]
  <2>1. Chain(tasks) = <<chain>>
    BY <1>2 DEF Chain
  <2>2. IsSeq(Chain(tasks)) /\ Len(Chain(tasks)) = 1 /\ Chain(tasks)[1] = chain
    <3> HIDE DEF chain
    <3> QED BY <2>1, SingleIs
  <2> DEFINE s == chain.tasks
  <2>3. /\ IsSeq(s) /\ Len(s) = Len(tasks) + 1 /\ Len(tasks) \in Nat
        /\ Range(s) = Range(tasks) \union {Refetch}
        /\ (\A i \in 1..Len(tasks) : s[i] = tasks[i])
        /\ s = Append(tasks, Refetch) /\ chain.reply = <<>>
    BY AppendIs
  <2>4. chain = [tasks |-> chain.tasks, reply |-> chain.reply]
    OBVIOUS
  <2>5. Len(tasks) # 0
    BY <1>2, EmptySeq DEF IsSeq
  <2> HIDE DEF chain, s
  <2>6. \A t \in Range(s) : IsTask(t)
    BY <2>3, RefetchIs
  <2>7. \A i \in DOMAIN s : s[i] = Refetch => i = Len(s)
    <3> SUFFICES ASSUME NEW i \in DOMAIN s, s[i] = Refetch, i # Len(s) PROVE FALSE
      OBVIOUS
    <3>1. DOMAIN s = 1..(Len(tasks) + 1) /\ \A k \in 1..Len(tasks) : tasks[k] \in Range(tasks)
      BY <2>3, SeqIs
    <3>2. i \in 1..Len(tasks)
      BY <2>3, <3>1
    <3> QED BY <2>3, <3>1, <3>2
  <2>8. s # <<Refetch>>
    BY <2>3, <2>5, SingleIs
  <2>9. IsChain(chain)
    BY <2>3, <2>4, <2>6, <2>7 DEF IsChain, IsSeq, s
  <2> QED BY <1>2, <2>2, <2>3, <2>8, <2>9 DEF s
<1> QED BY <1>1, <1>2

\* The chain c goes on, to "all" but for what the end of every chain clears.
Advances(all, c) ==
    /\ IsSeq(all) /\ DOMAIN chains \subseteq DOMAIN all
    /\ \A e \in DOMAIN all : IsChain(all[e])
    /\ \A e \in DOMAIN chains : e # c => all[e] = chains[e]
    /\ all[c].tasks = Tail(chains[c].tasks)
    /\ \A e \in DOMAIN all \ DOMAIN chains :
          all[e].tasks # <<Refetch>> /\ \A t \in Range(all[e].tasks) : ~OfProposals(t)
    /\ chains' = Left(all)

AreChains == IsSeq(chains) /\ \A c \in DOMAIN chains : IsChain(chains[c])

\* The chains are forgotten together, when none has anything left.
LEMMA LeftIs ==
  ASSUME NEW all
  PROVE  \/ Left(all) = all
         \/ Left(all) = <<>> /\ \A e \in DOMAIN all : all[e].tasks = <<>>
BY DEF Left

\* A chain that has done its first task: what is due but for it is still due.
LEMMA AdvanceDue ==
  ASSUME AreChains, NEW c \in DOMAIN chains, chains[c].tasks # <<>>, NEW all, Advances(all, c)
  PROVE  /\ AreChains'
         /\ Due' \subseteq Due
         /\ Due \ {Task(c)} \subseteq Due'
         /\ OneChain => OneChain'
         /\ OneChain /\ Task(c).op = "createProposal" => Task(c) \notin Due'
<1> DEFINE s == chains[c].tasks   r == Tail(s)
<1>1. /\ IsSeq(s) /\ IsSeq(r) /\ Len(r) = Len(s) - 1 /\ Len(s) \in Nat \ {0}
      /\ \A i \in 1..Len(r) : i + 1 \in 1..Len(s) /\ r[i] = s[i + 1]
      /\ Task(c) = s[1] /\ Range(s) = {Task(c)} \union Range(r)
      /\ Range(r) \subseteq Range(s)
  <2>1. IsSeq(s)
    BY DEF AreChains, IsChain, IsSeq
  <2> HIDE DEF s
  <2> QED BY <2>1, TailIs DEF Task, s
<1>2. \A t : t \in Due' <=> OfProposals(t) /\ \E e \in DOMAIN all : t \in Range(all[e].tasks)
  <2>1. \A t : t \in Due' <=> OfProposals(t) /\ \E e \in DOMAIN chains' : t \in Range(chains'[e].tasks)
    BY DueNext
  <2>2. CASE chains' = all
    BY <2>1, <2>2
  <2>3. CASE chains' = <<>> /\ \A e \in DOMAIN all : all[e].tasks = <<>>
    <3>1. \A e \in DOMAIN all : Range(all[e].tasks) = {}
      BY <2>3, EmptyIs
    <3>2. DOMAIN chains' = {}
      BY <2>3, EmptyIs
    <3> QED BY <2>1, <3>1, <3>2
  <2> QED BY <2>2, <2>3, LeftIs DEF Advances
<1>3. ASSUME NEW t, OfProposals(t), NEW e \in DOMAIN all, t \in Range(all[e].tasks)
      PROVE  /\ e \in DOMAIN chains /\ t \in Range(chains[e].tasks)
             /\ e = c => t \in Range(r)
  BY <1>1, <1>3 DEF Advances
<1>4. AreChains'
  <2>1. CASE chains' = all
    BY <2>1 DEF Advances, AreChains, IsSeq, IsChain, IsTask, IsCreation, OfProposals, OfOthers, IsView
  <2>2. CASE chains' = <<>>
    <3>1. IsSeq(chains') /\ DOMAIN chains' = {}
      BY <2>2, EmptyIs
    <3> QED BY <3>1 DEF AreChains, IsSeq
  <2> QED BY <2>1, <2>2, LeftIs DEF Advances
<1>5. Due' \subseteq Due
  BY <1>2, <1>3, DueIs
<1>6. Due \ {Task(c)} \subseteq Due'
  <2> SUFFICES ASSUME NEW t \in Due, t # Task(c) PROVE t \in Due'
    OBVIOUS
  <2>1. PICK e \in DOMAIN chains : t \in Range(chains[e].tasks)
    BY DueIs
  <2>2. t \in Range(all[e].tasks) /\ e \in DOMAIN all
    BY <1>1, <2>1 DEF Advances
  <2> QED BY <1>2, <2>2, DueIs
<1>7. ASSUME OneChain PROVE OneChain'
  <2>1. CASE chains' = all
    <3>1. ASSUME NEW d \in DOMAIN all, NEW e \in DOMAIN all,
                 NEW t \in Range(all[d].tasks), NEW u \in Range(all[e].tasks), OfProposals(t), OfProposals(u)
          PROVE  d = e
      <4>1. d \in DOMAIN chains /\ t \in Range(chains[d].tasks) /\ e \in DOMAIN chains /\ u \in Range(chains[e].tasks)
        BY <1>3, <3>1
      <4> QED BY <1>7, <3>1, <4>1 DEF OneChain, TasksOf
    <3>2. ASSUME NEW d \in DOMAIN all, NEW i \in DOMAIN all[d].tasks, NEW j \in DOMAIN all[d].tasks,
                 all[d].tasks[i].op = "createProposal", all[d].tasks[i] = all[d].tasks[j]
          PROVE  i = j
      <4>1. OfProposals(all[d].tasks[i]) /\ all[d].tasks[i] \in Range(all[d].tasks)
        BY <3>2 DEF OfProposals, Range
      <4>2. d \in DOMAIN chains
        BY <1>3, <4>1
      <4>3. CASE d # c
        <5>1. all[d] = chains[d]
          BY <4>2, <4>3 DEF Advances
        <5> QED BY <1>7, <3>2, <4>2, <5>1 DEF OneChain
      <4>4. CASE d = c
        <5>1. all[d].tasks = r
          BY <4>4 DEF Advances
        <5>2. DOMAIN r = 1..Len(r) /\ DOMAIN s = 1..Len(s)
          BY <1>1, SeqIs
        <5> HIDE DEF s, r
        <5>3. i \in 1..Len(r) /\ j \in 1..Len(r) /\ r[i].op = "createProposal" /\ r[i] = r[j]
          BY <3>2, <5>1, <5>2
        <5>4. i + 1 \in DOMAIN s /\ j + 1 \in DOMAIN s /\ s[i + 1].op = "createProposal" /\ s[i + 1] = s[j + 1]
          BY <1>1, <5>2, <5>3
        <5>5. i + 1 = j + 1
          BY <1>7, <5>4 DEF OneChain, s
        <5> QED BY <5>3, <5>5
      <4> QED BY <4>3, <4>4
    <3> QED BY <2>1, <3>1, <3>2 DEF OneChain, TasksOf, OfProposals
  <2>2. CASE chains' = <<>>
    BY <2>2, EmptyIs DEF OneChain
  <2> QED BY <2>1, <2>2, LeftIs DEF Advances
<1>8. ASSUME OneChain, Task(c).op = "createProposal", Task(c) \in Due' PROVE FALSE
  <2>1. OfProposals(Task(c)) /\ Task(c) \in Range(s)
    BY <1>1, <1>8 DEF OfProposals
  <2>2. PICK e \in DOMAIN all : Task(c) \in Range(all[e].tasks)
    BY <1>2, <1>8
  <2>3. e \in DOMAIN chains /\ Task(c) \in Range(chains[e].tasks) /\ (e = c => Task(c) \in Range(r))
    BY <1>3, <2>1, <2>2
  <2>4. e = c
    BY <1>8, <2>1, <2>3 DEF OneChain, TasksOf
  <2>5. PICK i \in 1..Len(r) : r[i] = Task(c)
    BY <1>1, <2>3, <2>4, SeqIs
  <2>6. i + 1 \in DOMAIN s /\ 1 \in DOMAIN s /\ s[1].op = "createProposal" /\ s[1] = s[i + 1]
    BY <1>1, <1>8, <2>5, SeqIs
  <2>7. 1 = i + 1
    BY <1>8, <2>6 DEF OneChain
  <2> QED BY <1>1, <2>7
<1> QED BY <1>4, <1>5, <1>6, <1>7, <1>8

\* A chain that will ask the query again still does, until only the query is left.
LEMMA WillReadOn ==
  ASSUME AreChains, OneChain, NEW c \in DOMAIN chains, chains[c].tasks # <<>>, NEW all, Advances(all, c),
         NEW d \in DOMAIN chains, WillRead(d)
  PROVE  \/ d \in DOMAIN chains' /\ WillRead(d)'
         \/ d = c /\ Tail(chains[c].tasks) = <<Refetch>> /\ Due' = {} /\ chains' = all
<1> DEFINE s == chains[d].tasks   r == Tail(s)
<1>1. IsSeq(s) /\ Len(s) > 1 /\ s[Len(s)] = Refetch /\ Due \subseteq Range(s) /\ Len(s) \in Nat
  <2>1. IsSeq(s)
    BY DEF AreChains, IsChain, IsSeq
  <2> QED BY <2>1, SeqIs DEF WillRead, Last, TasksOf
<1>2. Due' \subseteq Due
  BY AdvanceDue
<1>3. d \in DOMAIN all
  BY DEF Advances
<1>4. CASE d # c
  <2>1. all[d] = chains[d]
    BY <1>4 DEF Advances
  <2>2. all[d].tasks # <<>>
    BY <1>1, <2>1, EmptyIs
  <2>3. chains' = all
    BY <1>3, <2>2, LeftIs DEF Advances
  <2> QED BY <1>1, <1>2, <1>3, <2>1, <2>3 DEF WillRead, Last, TasksOf
<1>5. CASE d = c
  <2>1. /\ IsSeq(r) /\ Len(r) = Len(s) - 1 /\ Len(r) \in Nat
        /\ \A i \in 1..Len(r) : i + 1 \in 1..Len(s) /\ r[i] = s[i + 1]
        /\ all[d].tasks = r
    <3>1. s # <<>>
      BY <1>1, EmptyIs
    <3>2. all[d].tasks = r
      BY <1>5 DEF Advances
    <3> HIDE DEF s
    <3>3. /\ IsSeq(r) /\ Len(r) = Len(s) - 1
          /\ \A i \in 1..Len(r) : i + 1 \in 1..Len(s) /\ r[i] = s[i + 1]
      BY <1>1, <3>1, TailIs
    <3> HIDE DEF r
    <3> QED BY <1>1, <3>2, <3>3
  <2> HIDE DEF s, r
  <2>2. r[Len(r)] = Refetch /\ Len(r) >= 1
    <3>1. Len(r) \in 1..Len(r) /\ Len(r) + 1 = Len(s)
      BY <1>1, <2>1
    <3> QED BY <1>1, <2>1, <3>1
  <2>3. chains' = all
    <3>1. r # <<>>
      BY <2>2, EmptyIs
    <3> QED BY <1>3, <2>1, <3>1, LeftIs DEF Advances
  <2>4. Due' \subseteq Range(r)
    <3> SUFFICES ASSUME NEW t \in Due' PROVE t \in Range(r)
      OBVIOUS
    <3>1. OfProposals(t) /\ \E e \in DOMAIN all : t \in Range(all[e].tasks)
      BY <2>3, DueNext
    <3>2. PICK e \in DOMAIN all : t \in Range(all[e].tasks)
      BY <3>1
    <3>3. e \in DOMAIN chains
      BY <3>1, <3>2 DEF Advances
    <3>4. CASE e = c
      BY <1>5, <2>1, <3>2, <3>4
    <3>5. CASE e # c
      <4>1. t \in Range(chains[e].tasks)
        BY <3>2, <3>3, <3>5 DEF Advances
      <4>2. t \in Range(chains[d].tasks)
        BY <1>1, <1>2 DEF s
      <4>3. e = d
        BY <3>1, <3>3, <4>1, <4>2 DEF OneChain, TasksOf
      <4> QED BY <1>5, <3>5, <4>3
    <3> QED BY <3>4, <3>5
  <2>5. CASE Len(r) > 1
    BY <1>3, <2>1, <2>2, <2>3, <2>4, <2>5 DEF WillRead, Last, TasksOf
  <2>6. CASE Len(r) = 1
    <3>1. r[1] = Refetch /\ DOMAIN r = {1}
      <4>1. 1..1 = {1}
        OBVIOUS
      <4> QED BY <2>1, <2>2, <2>6, <4>1, SeqIs
    <3>2. r = <<Refetch>>
      <4>1. r = [i \in 1..1 |-> r[i]]
        BY <2>1, <2>6, SeqIs
      <4>2. \A i \in 1..1 : r[i] = <<Refetch>>[i]
        BY <3>1
      <4>3. <<Refetch>> = [i \in 1..1 |-> <<Refetch>>[i]]
        BY SingleIs, SeqIs
      <4> QED BY <4>1, <4>2, <4>3
    <3>3. Due' = {}
      <4>1. Range(r) = {Refetch}
        BY <3>2, SingleIs
      <4>2. \A t \in Due' : OfProposals(t)
        BY DueNext
      <4> QED BY <2>4, <4>1, <4>2, RefetchIs
    <3> QED BY <1>5, <2>3, <3>2, <3>3 DEF r, s
  <2> QED BY <2>2, <2>5, <2>6, <2>1
<1> QED BY <1>4, <1>5

-----------------------------------------------------------------------------
(* What the server does, and what the client makes of its answers *)

LEMMA OneIs ==
  ASSUME NEW x
  PROVE  <<x>> # <<>> /\ Len(<<x>>) = 1 /\ Head(<<x>>) = x /\ Tail(<<x>>) = <<>> /\ Range(<<x>>) = {x}
<1>1. IsSeq(<<x>>) /\ Len(<<x>>) = 1 /\ Range(<<x>>) = {x} /\ <<x>>[1] = x
  BY SingleIs
<1>2. <<x>> # <<>>
  <2>1. Range(<<x>>) # Range(<<>>)
    BY <1>1, EmptyIs
  <2> QED BY <2>1
<1>3. Head(<<x>>) = x /\ IsSeq(Tail(<<x>>)) /\ Len(Tail(<<x>>)) = 0
  <2>1. ASSUME NEW s, IsSeq(s), s # <<>>, Len(s) = 1, s[1] = x
        PROVE  Head(s) = x /\ IsSeq(Tail(s)) /\ Len(Tail(s)) = 0
    BY <2>1, TailIs
  <2> QED BY <1>1, <1>2, <2>1, Zenon
<1>4. \A s : IsSeq(s) /\ Len(s) = 0 => s = <<>>
  BY EmptySeq DEF IsSeq
<1> QED BY <1>1, <1>2, <1>3, <1>4

LEMMA OneRefetch ==
  /\ <<Refetch>> # <<>> /\ Len(<<Refetch>>) = 1 /\ Head(<<Refetch>>) = Refetch
  /\ Tail(<<Refetch>>) = <<>> /\ Range(<<Refetch>>) = {Refetch}
BY OneIs

\* The query is asked last in its chain: when it is next, it is all that is left.
LEMMA OnlyRefetch ==
  ASSUME NEW s, IsSeq(s), s # <<>>, s[1] = Refetch, \A i \in DOMAIN s : s[i] = Refetch => i = Len(s)
  PROVE  s = <<Refetch>>
<1>1. 1 = Len(s) /\ s = [i \in 1..Len(s) |-> s[i]]
  <2>1. Len(s) \in Nat \ {0} /\ DOMAIN s = 1..Len(s)
    BY SeqIs, TailIs
  <2>2. 1 \in DOMAIN s
    BY <2>1
  <2> QED BY <2>2, SeqIs
<1>2. <<Refetch>> = [i \in 1..1 |-> <<Refetch>>[i]] /\ <<Refetch>>[1] = Refetch
  BY SingleIs, SeqIs
<1>3. \A i \in 1..1 : s[i] = <<Refetch>>[i]
  <2>1. \A i \in 1..1 : i = 1
    OBVIOUS
  <2> QED BY <2>1, <1>2
<1> QED BY <1>1, <1>2, <1>3

\* The server reads the session for a refetch: if that is the last one and nothing is due, what it
\* reads is current.
LEMMA ReadKeeps ==
  ASSUME OrderIInv, ~Excused', NEW c \in DOMAIN chains, Read(c)
  PROVE  OrderIInv'
<1>1. /\ Pending(c) /\ Task(c) = Refetch
      /\ chains' = [chains EXCEPT ![c].reply = <<Visible(db)>>]
      /\ UNCHANGED <<form, cache, db, asked, edits>> /\ ~Excused
  BY DEF Read, Excused
<1>2. /\ IsForm /\ IsServer /\ IsView(cache) /\ edits \in Nat /\ AreChains
      /\ FormFollowsCache /\ FormInOrder /\ OneChain /\ DueIsKnown /\ PlannedInOrder /\ AnswerComes
  BY <1>1 DEF OrderIInv, Shapes, AreChains, IsSeq
<1>3. /\ IsChain(chains[c]) /\ chains[c].tasks = <<Refetch>>
  <2>1. IsChain(chains[c]) /\ IsSeq(chains[c].tasks) /\ chains[c].tasks # <<>>
    BY <1>1, <1>2 DEF AreChains, IsChain, IsSeq, Pending
  <2>2. chains[c].tasks[1] = Refetch
    BY <1>1, <2>1, TailIs DEF Task
  <2>3. \A i \in DOMAIN chains[c].tasks : chains[c].tasks[i] = Refetch => i = Len(chains[c].tasks)
    BY <2>1 DEF IsChain
  <2> QED BY <2>1, <2>2, <2>3, OnlyRefetch
<1>4. IsView(Visible(db)) /\ Current(Visible(db))
  BY <1>2, VisibleIs DEF Current
<1> DEFINE v == Visible(db)
           new == [chains[c] EXCEPT !.reply = <<v>>]
<1>5. /\ DOMAIN chains' = DOMAIN chains
      /\ \A e \in DOMAIN chains : e # c => chains'[e] = chains[e]
      /\ chains'[c] = new
  <2>1. chains' = [chains EXCEPT ![c].reply = <<v>>]
    BY <1>1
  <2> HIDE DEF v
  <2> QED BY <2>1
<1>6. new.tasks = <<Refetch>> /\ new.reply = <<v>> /\ new = [tasks |-> new.tasks, reply |-> new.reply] /\ new.reply[1] = v
  <2> HIDE DEF v
  <2>1. chains[c] = [tasks |-> chains[c].tasks, reply |-> chains[c].reply]
    BY <1>3 DEF IsChain
  <2> QED BY <1>3, <2>1
<1> HIDE DEF new, v
<1>7. IsChain(new)
  <2>1. /\ IsSeq(<<Refetch>>) /\ Range(<<Refetch>>) = {Refetch} /\ DOMAIN <<Refetch>> = {1} /\ Len(<<Refetch>>) = 1
    BY SingleIs
  <2> QED BY <1>4, <1>6, <2>1, RefetchIs DEF IsChain, IsSeq, v
<1>8. AreChains'
  <2>1. IsSeq(chains')
    <3>1. DOMAIN chains' = 1..Len(chains) /\ Len(chains) \in Nat
      BY <1>2, <1>5, SeqIs DEF AreChains
    <3>2. chains' = [i \in 1..Len(chains) |-> chains'[i]]
      BY <1>1, <3>1
    <3> QED BY <3>1, <3>2, IsSeqOf
  <2>2. \A e \in DOMAIN chains' : IsChain(chains'[e])
    BY <1>2, <1>5, <1>7 DEF AreChains
  <2> QED BY <2>1, <2>2 DEF AreChains, IsSeq, IsChain, IsTask, IsCreation, OfProposals, OfOthers, IsView
<1>9. /\ \A e \in DOMAIN chains : chains'[e].tasks = chains[e].tasks
      /\ Due' = Due
  BY <1>3, <1>5, <1>6 DEF Due, TasksOf, OfProposals
<1>10. Shapes'
  <2>1. IsForm' /\ IsServer' /\ IsView(cache)' /\ (edits \in Nat)'
    BY <1>1, <1>2 DEF IsForm, IsProposal, IsServer, IsView
  <2> QED BY <1>8, <2>1 DEF Shapes, AreChains, IsSeq
<1>11. FormFollowsCache' /\ FormInOrder' /\ DueIsKnown'
  BY <1>1, <1>2, <1>9 DEF FormFollowsCache, FormInOrder, InOneOrder, Kept, DueIsKnown
<1>12. OneChain'
  BY <1>2, <1>5, <1>9 DEF OneChain, TasksOf, OfProposals
<1>13. PlannedInOrder'
  BY <1>1, <1>2, <1>9, PlanKept
<1>14. AnswerComes'
  <2>1. CASE LastReads
    <3>1. \A view : Current(view)' = Current(view)
      BY <1>1 DEF Current, Visible
    <3>2. CASE asked = c
      <4>1. Range(chains'[c].reply) = {v}
        BY <1>5, <1>6, SingleIs
      <4>2. \A view \in Range(chains'[asked].reply) : Current(view)'
        BY <1>1, <1>4, <3>1, <3>2, <4>1 DEF v
      <4>3. asked' \in DOMAIN chains' /\ chains'[asked'].tasks = <<Refetch>>
        BY <1>1, <1>5, <1>6, <3>2
      <4>4. LastReads'
        BY <1>1, <1>9, <2>1, <4>2, <4>3 DEF LastReads
      <4> QED BY <4>4 DEF AnswerComes
    <3>3. CASE asked # c
      <4>1. LastReads'
        BY <1>1, <1>5, <1>9, <2>1, <3>1, <3>3 DEF LastReads
      <4> QED BY <4>1 DEF AnswerComes
    <3> QED BY <3>2, <3>3
  <2>2. CASE \E d \in DOMAIN chains : WillRead(d)
    BY <1>5, <1>9, <2>2 DEF AnswerComes, WillRead, TasksOf
  <2> QED BY <1>2, <2>1, <2>2 DEF AnswerComes
<1> QED BY <1>10, <1>11, <1>12, <1>13, <1>14 DEF OrderIInv

\* The client receives it: the store is filled again if the result has changed.
LEMMA ReceiveKeeps ==
  ASSUME OrderIInv, ~Excused', NEW c \in DOMAIN chains, Receive(c)
  PROVE  OrderIInv'
<1> DEFINE view == IF c = asked THEN Head(chains[c].reply) ELSE cache
           done == [tasks |-> <<>>, reply |-> <<>>]
           all == [chains EXCEPT ![c] = done]
<1>1. /\ chains[c].reply # <<>> /\ Holds(view) /\ chains' = Left(all)
      /\ UNCHANGED <<db, asked, edits>> /\ ~Excused
  BY DEF Receive, Excused
<1>2. /\ IsForm /\ IsServer /\ IsView(cache) /\ edits \in Nat /\ AreChains
      /\ FormFollowsCache /\ FormInOrder /\ OneChain /\ DueIsKnown /\ PlannedInOrder /\ AnswerComes
  BY <1>1 DEF OrderIInv, Shapes, AreChains, IsSeq
<1>3. /\ chains[c].tasks = <<Refetch>> /\ chains[c].reply = <<chains[c].reply[1]>>
      /\ IsView(chains[c].reply[1])
  BY <1>1, <1>2 DEF AreChains, IsChain
<1>4. Head(chains[c].reply) = chains[c].reply[1] /\ Range(chains[c].reply) = {chains[c].reply[1]}
  <2>1. \A x : Head(<<x>>) = x /\ Range(<<x>>) = {x}
    BY SingleIs, TailIs
  <2> QED BY <1>3, <2>1
<1>5. IsView(view)
  BY <1>2, <1>3, <1>4
<1>6. /\ cache' = view /\ IsView(cache)' /\ IsForm' /\ FormFollowsCache' /\ FormInOrder'
  <2> HIDE DEF view
  <2> QED BY <1>1, <1>2, <1>5, HoldsKeeps
<1>7. /\ DOMAIN all = DOMAIN chains /\ all[c] = done
      /\ \A e \in DOMAIN chains : e # c => all[e] = chains[e]
  BY DEF AreChains
<1>8. done.tasks = <<>> /\ done.reply = <<>> /\ done = [tasks |-> done.tasks, reply |-> done.reply]
  OBVIOUS
<1>9. IsSeq(all)
  <2>1. DOMAIN all = 1..Len(chains) /\ Len(chains) \in Nat
    BY <1>2, <1>7, SeqIs DEF AreChains
  <2>2. all = [i \in 1..Len(chains) |-> all[i]]
    BY <2>1
  <2> HIDE DEF all
  <2> QED BY <2>1, <2>2, IsSeqOf
<1> HIDE DEF all, done
<1>10. IsChain(done)
  BY <1>8, EmptyIs DEF IsChain, IsSeq
<1>11. Tail(chains[c].tasks) = <<>>
  BY <1>3, OneRefetch
<1>12. Advances(all, c)
  BY <1>1, <1>2, <1>7, <1>8, <1>9, <1>10, <1>11 DEF Advances, AreChains
<1>13. chains[c].tasks # <<>> /\ Task(c) = Refetch
  BY <1>3, OneRefetch DEF Task
<1>14. AreChains' /\ Due' = Due /\ OneChain'
  <2>1. Task(c) \notin Due
    BY <1>13, DueIs, RefetchIs
  <2> QED BY <1>2, <1>12, <1>13, <2>1, AdvanceDue
<1>15. Shapes'
  <2>1. IsServer' /\ (edits \in Nat)'
    BY <1>1, <1>2 DEF IsServer
  <2> QED BY <1>6, <1>14, <2>1 DEF Shapes, AreChains, IsSeq
<1>16. DueIsKnown' /\ PlannedInOrder'
  <2>1. DueIsKnown'
    BY <1>1, <1>2, <1>14 DEF DueIsKnown
  <2> QED BY <1>1, <1>2, <1>14, <2>1, PlanKept
<1>17. AnswerComes'
  <2>1. CASE LastReads
    <3>1. \A v : Current(v)' = Current(v)
      BY <1>1 DEF Current, Visible
    <3>2. CASE asked = c
      <4>1. Current(cache)'
        <5>1. view = chains[c].reply[1] /\ Current(chains[c].reply[1])
          BY <1>3, <1>4, <2>1, <3>2 DEF LastReads
        <5> QED BY <1>1, <1>6, <5>1 DEF Current, Visible
      <4>2. ~(asked \in DOMAIN chains' /\ chains'[asked].tasks = <<Refetch>>)
        <5>1. <<Refetch>> # <<>>
          BY SingleIs, EmptyIs
        <5> QED BY <1>1, <1>7, <1>8, <3>2, <5>1, LeftIs, EmptyIs
      <4>3. LastReads'
        BY <1>1, <1>14, <2>1, <4>1, <4>2 DEF LastReads
      <4> QED BY <4>3 DEF AnswerComes
    <3>3. CASE asked # c
      <4>1. cache' = cache
        BY <1>6, <3>3
      <4>2. CASE asked \in DOMAIN chains /\ chains[asked].tasks = <<Refetch>>
        <5>1. all[asked] = chains[asked] /\ asked \in DOMAIN all
          BY <1>7, <3>3, <4>2
        <5>2. chains' = all
          <6>1. <<Refetch>> # <<>>
            BY SingleIs, EmptyIs
          <6> QED BY <1>1, <4>2, <5>1, <6>1, LeftIs
        <5>3. LastReads'
          BY <1>1, <1>14, <2>1, <3>1, <4>2, <5>1, <5>2 DEF LastReads
        <5> QED BY <5>3 DEF AnswerComes
      <4>3. CASE ~(asked \in DOMAIN chains /\ chains[asked].tasks = <<Refetch>>)
        <5>1. ~(asked \in DOMAIN chains' /\ chains'[asked].tasks = <<Refetch>>)
          BY <1>1, <1>7, <3>3, <4>3, LeftIs, EmptyIs
        <5>2. Current(cache)'
          BY <1>1, <2>1, <4>1, <4>3 DEF LastReads, Current, Visible
        <5>3. LastReads'
          BY <1>1, <1>14, <2>1, <5>1, <5>2 DEF LastReads
        <5> QED BY <5>3 DEF AnswerComes
      <4> QED BY <4>2, <4>3
    <3> QED BY <3>2, <3>3
  <2>2. ASSUME NEW d \in DOMAIN chains, WillRead(d) PROVE AnswerComes'
    <3>1. d # c
      <4>1. Len(chains[c].tasks) = 1
        BY <1>3, OneRefetch
      <4>2. \A n : n = 1 => ~(n > 1)
        OBVIOUS
      <4>3. Len(chains[d].tasks) > 1
        BY <2>2 DEF WillRead
      <4> QED BY <4>1, <4>2, <4>3, Zenon
    <3> QED BY <1>2, <1>12, <1>13, <2>2, <3>1, WillReadOn DEF AnswerComes
  <2> QED BY <1>2, <2>1, <2>2 DEF AnswerComes
<1> QED BY <1>6, <1>14, <1>15, <1>16, <1>17 DEF OrderIInv

\* What the server has is a record with these fields, and an operation leaves it one.
IsDb(d) == d = [page |-> d.page, next |-> d.next, specs |-> d.specs, proposals |-> d.proposals]

NextAs(d, v) == [d EXCEPT !.next = v]
SpecsAs(d, v) == [d EXCEPT !.specs = v]
ProposalsAs(d, v) == [d EXCEPT !.proposals = v]
PageAs(d, v) == [d EXCEPT !.page = v]

\* What the updates of the server's tables and of its items keep.
LEMMA DbWith ==
  ASSUME NEW d, IsDb(d), NEW v
  PROVE  /\ IsDb(NextAs(d, v)) /\ NextAs(d, v).next = v
         /\ NextAs(d, v).specs = d.specs /\ NextAs(d, v).proposals = d.proposals
         /\ IsDb(SpecsAs(d, v)) /\ SpecsAs(d, v).next = d.next
         /\ SpecsAs(d, v).specs = v /\ SpecsAs(d, v).proposals = d.proposals
         /\ IsDb(ProposalsAs(d, v)) /\ ProposalsAs(d, v).next = d.next
         /\ ProposalsAs(d, v).specs = d.specs /\ ProposalsAs(d, v).proposals = v
         /\ IsDb(PageAs(d, v)) /\ PageAs(d, v).next = d.next
         /\ PageAs(d, v).specs = d.specs /\ PageAs(d, v).proposals = d.proposals
<1>1. LET e == [d EXCEPT !.next = v] IN
         IsDb(e) /\ e.next = v /\ e.specs = d.specs /\ e.proposals = d.proposals
  BY DEF IsDb
<1>2. LET e == [d EXCEPT !.specs = v] IN
         IsDb(e) /\ e.next = d.next /\ e.specs = v /\ e.proposals = d.proposals
  BY DEF IsDb
<1>3. LET e == [d EXCEPT !.proposals = v] IN
         IsDb(e) /\ e.next = d.next /\ e.specs = d.specs /\ e.proposals = v
  BY DEF IsDb
<1>4. LET e == [d EXCEPT !.page = v] IN
         IsDb(e) /\ e.next = d.next /\ e.specs = d.specs /\ e.proposals = d.proposals
  BY DEF IsDb
<1> QED BY <1>1, <1>2, <1>3, <1>4 DEF NextAs, SpecsAs, ProposalsAs, PageAs

\* So is a proposal there.
IsItem(x) == x = [order |-> x.order, text |-> x.text, live |-> x.live, of |-> x.of]
SaysItem(x, order, text) == [[x EXCEPT !.order = order] EXCEPT !.text = text]
LiveAs(x, v) == [x EXCEPT !.live = v]

LEMMA SaysItemIs ==
  ASSUME NEW x, IsItem(x), NEW order, NEW text
  PROVE  /\ IsItem(SaysItem(x, order, text)) /\ SaysItem(x, order, text).order = order
         /\ SaysItem(x, order, text).live = x.live
<1> DEFINE y == [x EXCEPT !.order = order]   z == [y EXCEPT !.text = text]
<1>1. IsItem(y) /\ y.order = order /\ y.live = x.live
  BY DEF IsItem
<1> HIDE DEF y
<1>2. IsItem(z) /\ z.order = order /\ z.live = x.live
  BY <1>1 DEF IsItem
<1> QED BY <1>2 DEF y, SaysItem

LEMMA LiveAsIs ==
  ASSUME NEW x, IsItem(x), NEW v \in BOOLEAN
  PROVE  IsItem(LiveAs(x, v)) /\ LiveAs(x, v).order = x.order /\ LiveAs(x, v).live = v
BY DEF IsItem, LiveAs

ServerIds(n) == {0} \X (0..(n + 2 * Highest(Proposals)))

\* A new id is one that the server has not given yet.
LEMMA ServerIdIs ==
  ASSUME NEW n \in Nat
  PROVE  /\ ServerId(n) \in ServerIds(n + 1) /\ ServerId(n) \notin ServerIds(n)
         /\ ServerIds(n) \subseteq ServerIds(n + 1)
         /\ ServerId(n) \in Nat \X Nat
BY HighestProposal DEF ServerId, ServerIds

\* The server's part of the invariant, without its primes hidden in operators.
LEMMA ServerIs ==
  IsServer <=>
     /\ IsDb(db) /\ db.next \in Nat
     /\ IsFiniteSet(DOMAIN db.specs) /\ DOMAIN db.specs \subseteq Nat \X Nat
     /\ IsFiniteSet(DOMAIN db.proposals) /\ DOMAIN db.proposals \subseteq ServerIds(db.next)
     /\ \A p \in DOMAIN db.proposals : IsItem(db.proposals[p])
BY DEF IsServer, IsDb, IsItem, ServerIds

LEMMA ServerIsNext ==
  IsServer' <=>
     /\ IsDb(db') /\ db'.next \in Nat
     /\ IsFiniteSet(DOMAIN db'.specs) /\ DOMAIN db'.specs \subseteq Nat \X Nat
     /\ IsFiniteSet(DOMAIN db'.proposals) /\ DOMAIN db'.proposals \subseteq ServerIds(db'.next)
     /\ \A p \in DOMAIN db'.proposals : IsItem(db'.proposals[p])
BY DEF IsServer, IsDb, IsItem, ServerIds

\* What a mutation leaves on the server: of a page or a module, of a proposal created, updated,
\* deleted.
LEMMA StoresOthers ==
  ASSUME IsServer, NEW task, OfOthers(task), db' = Stores(task)
  PROVE  IsServer' /\ db'.proposals = db.proposals
<1>1. /\ IsDb(db) /\ db.next \in Nat
      /\ IsFiniteSet(DOMAIN db.specs) /\ DOMAIN db.specs \subseteq Nat \X Nat
      /\ IsFiniteSet(DOMAIN db.proposals) /\ DOMAIN db.proposals \subseteq ServerIds(db.next)
      /\ \A p \in DOMAIN db.proposals : IsItem(db.proposals[p])
  BY ServerIs
<1>2. CASE task.op = "createSpec"
  <2> DEFINE spec == [proposal |-> task.proposal, template |-> task.template, text |-> task.text,
                      custom |-> task.custom, of |-> task.of]
             S == [s \in DOMAIN db.specs \union {ServerId(db.next)} |->
                      IF s \in DOMAIN db.specs THEN db.specs[s] ELSE spec]
  <2>1. db' = SpecsAs(NextAs(db, db.next + 1), Also(db.specs, ServerId(db.next), spec))
    BY <1>2 DEF Stores, SpecsAs, NextAs
  <2>2. DOMAIN Also(db.specs, ServerId(db.next), spec) = DOMAIN db.specs \union {ServerId(db.next)}
    <3> HIDE DEF spec
    <3> QED BY DEF Also, Merge
  <2> HIDE DEF spec
  <2>3. /\ IsDb(db') /\ db'.next = db.next + 1 /\ db'.proposals = db.proposals
        /\ DOMAIN db'.specs = DOMAIN db.specs \union {ServerId(db.next)}
    BY <1>1, <2>1, <2>2, DbWith
  <2>4. IsFiniteSet(DOMAIN db'.specs)
    BY <1>1, <2>3, FS_AddElement
  <2>5. DOMAIN db'.specs \subseteq Nat \X Nat /\ DOMAIN db'.proposals \subseteq ServerIds(db'.next)
    <3>1. ServerId(db.next) \in Nat \X Nat /\ ServerIds(db.next) \subseteq ServerIds(db.next + 1)
      BY <1>1, ServerIdIs
    <3>2. ServerIds(db'.next) = ServerIds(db.next + 1)
      BY <2>3
    <3> QED BY <1>1, <2>3, <3>1, <3>2
  <2> QED BY <1>1, <2>3, <2>4, <2>5, ServerIsNext
<1>3. CASE task.op = "updateSpec"
  <2> DEFINE S == [db.specs EXCEPT ![task.id] = [@ EXCEPT !.text = task.text, !.custom = task.custom]]
  <2>1. db' = SpecsAs(db, S)
    BY <1>3 DEF Stores, SpecsAs
  <2>2. DOMAIN S = DOMAIN db.specs
    OBVIOUS
  <2> HIDE DEF S
  <2>3. IsDb(db') /\ db'.next = db.next /\ db'.specs = S /\ db'.proposals = db.proposals
    BY <1>1, <2>1, DbWith
  <2> QED BY <1>1, <2>2, <2>3, ServerIsNext
<1>4. CASE task.op = "deleteSpec"
  <2> DEFINE T == {s \in DOMAIN db.specs : s # task.id /\ db.specs[s].template # task.id}
             S == Restrict(db.specs, T)
  <2>1. db' = SpecsAs(db, S)
    BY <1>4 DEF Stores, SpecsAs
  <2>2. DOMAIN S = T /\ T \in SUBSET DOMAIN db.specs
    BY DEF Restrict
  <2> HIDE DEF S, T
  <2>3. IsDb(db') /\ db'.next = db.next /\ db'.specs = S /\ db'.proposals = db.proposals
    BY <1>1, <2>1, DbWith
  <2>4. IsFiniteSet(T)
    BY <1>1, <2>2, FS_Subset
  <2> QED BY <1>1, <2>2, <2>3, <2>4, ServerIsNext
<1>5. CASE task.op = "updatePage"
  <2>1. db' = PageAs(db, task.text)
    BY <1>5 DEF Stores, PageAs
  <2>2. IsDb(db') /\ db'.next = db.next /\ db'.specs = db.specs /\ db'.proposals = db.proposals
    BY <1>1, <2>1, DbWith
  <2> QED BY <1>1, <2>2, ServerIsNext
<1> QED BY <1>2, <1>3, <1>4, <1>5 DEF OfOthers

LEMMA StoresCreation ==
  ASSUME IsServer, NEW task, task.op = "createProposal", db' = Stores(task)
  PROVE  LET new == ServerId(db.next) IN
         /\ IsServer'
         /\ new \notin DOMAIN db.proposals /\ DOMAIN db'.proposals = DOMAIN db.proposals \union {new}
         /\ \A p \in DOMAIN db.proposals : db'.proposals[p] = db.proposals[p]
         /\ db'.proposals[new].order = task.order /\ db'.proposals[new].live = TRUE
<1> DEFINE new == ServerId(db.next)
           it(v) == [order |-> task.order, text |-> task.text, live |-> v, of |-> task.of]
<1>1. /\ IsDb(db) /\ db.next \in Nat
      /\ IsFiniteSet(DOMAIN db.specs) /\ DOMAIN db.specs \subseteq Nat \X Nat
      /\ IsFiniteSet(DOMAIN db.proposals) /\ DOMAIN db.proposals \subseteq ServerIds(db.next)
      /\ \A p \in DOMAIN db.proposals : IsItem(db.proposals[p])
  BY ServerIs
<1>2. db' = ProposalsAs(NextAs(db, db.next + 1), Also(db.proposals, new, it(TRUE)))
  BY DEF Stores, ProposalsAs, NextAs
<1>3. \A v \in BOOLEAN : it(v).order = task.order /\ it(v).live = v /\ IsItem(it(v))
  BY DEF IsItem
<1> DEFINE item == it(TRUE)
<1>4. item.order = task.order /\ item.live = TRUE /\ IsItem(item)
  BY <1>3
<1>5. new \notin DOMAIN db.proposals
  BY <1>1, ServerIdIs
<1>6. db' = ProposalsAs(NextAs(db, db.next + 1), Also(db.proposals, new, item))
  BY <1>2
<1> HIDE DEF it, item, new
<1> DEFINE P == Also(db.proposals, new, item)
<1>7. DOMAIN P = DOMAIN db.proposals \union {new}
  BY DEF Also, Merge
<1>8. \A p \in DOMAIN db.proposals : P[p] = db.proposals[p]
  BY DEF Also, Merge
<1>9. P[new] = item
  BY <1>5 DEF Also, Merge
<1> HIDE DEF P
<1>10. IsDb(db') /\ db'.next = db.next + 1 /\ db'.specs = db.specs /\ db'.proposals = P
  BY <1>1, <1>6, DbWith DEF P
<1>11. IsFiniteSet(DOMAIN P)
  BY <1>1, <1>7, FS_AddElement
<1>12. DOMAIN P \subseteq ServerIds(db.next + 1)
  BY <1>1, <1>7, ServerIdIs DEF new
<1>13. \A p \in DOMAIN P : IsItem(P[p])
  BY <1>1, <1>4, <1>7, <1>8, <1>9
<1>14. IsServer'
  BY <1>1, <1>10, <1>11, <1>12, <1>13, ServerIsNext
<1>15. /\ DOMAIN db'.proposals = DOMAIN db.proposals \union {new}
       /\ \A p \in DOMAIN db.proposals : db'.proposals[p] = db.proposals[p]
       /\ db'.proposals[new].order = task.order /\ db'.proposals[new].live = TRUE
  BY <1>4, <1>7, <1>8, <1>9, <1>10
<1> QED BY <1>5, <1>14, <1>15 DEF new

LEMMA StoresUpdate ==
  ASSUME IsServer, NEW task, task.op = "updateProposal", task.id \in DOMAIN db.proposals, db' = Stores(task)
  PROVE  /\ IsServer' /\ DOMAIN db'.proposals = DOMAIN db.proposals
         /\ \A p \in DOMAIN db.proposals : p # task.id => db'.proposals[p] = db.proposals[p]
         /\ db'.proposals[task.id].order = task.order
         /\ db'.proposals[task.id].live = db.proposals[task.id].live
<1> DEFINE it == SaysItem(db.proposals[task.id], task.order, task.text)
           P == [db.proposals EXCEPT ![task.id] = it]
<1>1. /\ IsDb(db) /\ db.next \in Nat
      /\ IsFiniteSet(DOMAIN db.specs) /\ DOMAIN db.specs \subseteq Nat \X Nat
      /\ IsFiniteSet(DOMAIN db.proposals) /\ DOMAIN db.proposals \subseteq ServerIds(db.next)
      /\ \A p \in DOMAIN db.proposals : IsItem(db.proposals[p])
  BY ServerIs
<1>2. db' = ProposalsAs(db, P)
  BY DEF Stores, ProposalsAs, SaysItem
<1>3. it.order = task.order /\ it.live = db.proposals[task.id].live /\ IsItem(it)
  BY <1>1, SaysItemIs, LiveAsIs
<1> HIDE DEF it
<1>4. /\ DOMAIN P = DOMAIN db.proposals /\ P[task.id] = it
      /\ \A p \in DOMAIN db.proposals : p # task.id => P[p] = db.proposals[p]
  OBVIOUS
<1> HIDE DEF P
<1>5. IsDb(db') /\ db'.next = db.next /\ db'.specs = db.specs /\ db'.proposals = P
  BY <1>1, <1>2, DbWith
<1>6. \A p \in DOMAIN P : IsItem(P[p])
  BY <1>1, <1>3, <1>4
<1>7. IsServer'
  BY <1>1, <1>4, <1>5, <1>6, ServerIsNext
<1> QED BY <1>3, <1>4, <1>5, <1>7

LEMMA StoresDeletion ==
  ASSUME IsServer, NEW task, task.op = "deleteProposal", task.id \in DOMAIN db.proposals, db' = Stores(task)
  PROVE  /\ IsServer' /\ DOMAIN db'.proposals = DOMAIN db.proposals
         /\ \A p \in DOMAIN db.proposals : p # task.id => db'.proposals[p] = db.proposals[p]
         /\ db'.proposals[task.id].order = db.proposals[task.id].order
         /\ db'.proposals[task.id].live = FALSE
<1> DEFINE it == LiveAs(db.proposals[task.id], FALSE)
           P == [db.proposals EXCEPT ![task.id] = it]
<1>1. /\ IsDb(db) /\ db.next \in Nat
      /\ IsFiniteSet(DOMAIN db.specs) /\ DOMAIN db.specs \subseteq Nat \X Nat
      /\ IsFiniteSet(DOMAIN db.proposals) /\ DOMAIN db.proposals \subseteq ServerIds(db.next)
      /\ \A p \in DOMAIN db.proposals : IsItem(db.proposals[p])
  BY ServerIs
<1>2. db' = ProposalsAs(db, P)
  BY DEF Stores, ProposalsAs, LiveAs
<1>3. it.order = db.proposals[task.id].order /\ it.live = FALSE /\ IsItem(it)
  BY <1>1, SaysItemIs, LiveAsIs
<1> HIDE DEF it
<1>4. /\ DOMAIN P = DOMAIN db.proposals /\ P[task.id] = it
      /\ \A p \in DOMAIN db.proposals : p # task.id => P[p] = db.proposals[p]
  OBVIOUS
<1> HIDE DEF P
<1>5. IsDb(db') /\ db'.next = db.next /\ db'.specs = db.specs /\ db'.proposals = P
  BY <1>1, <1>2, DbWith
<1>6. \A p \in DOMAIN P : IsItem(P[p])
  BY <1>1, <1>3, <1>4
<1>7. IsServer'
  BY <1>1, <1>4, <1>5, <1>6, ServerIsNext
<1> QED BY <1>3, <1>4, <1>5, <1>7

\* The answer of a mutation changes the proposals of Apollo's cache only if it is of a proposal.
LEMMA MergedIs ==
  ASSUME IsView(cache), NEW task
  PROVE  IsView(Merged(task)) /\ (~OfProposals(task) => Merged(task).proposals = cache.proposals)
<1>1. /\ cache = [page |-> cache.page, specs |-> cache.specs, proposals |-> cache.proposals]
      /\ IsFiniteSet(DOMAIN cache.specs) /\ DOMAIN cache.specs \subseteq Nat \X Nat
      /\ IsFiniteSet(DOMAIN cache.proposals) /\ DOMAIN cache.proposals \subseteq Nat \X Nat
  BY DEF IsView
<1>2. CASE task.op = "updateSpec" /\ task.id \in DOMAIN cache.specs
  <2> DEFINE S == [cache.specs EXCEPT ![task.id] = [@ EXCEPT !.text = task.text, !.custom = task.custom]]
             v == Merged(task)
  <2>1. v = [cache EXCEPT !.specs = S]
    BY <1>2 DEF Merged
  <2>2. DOMAIN S = DOMAIN cache.specs
    OBVIOUS
  <2> HIDE DEF S, v
  <2>3. v = [page |-> v.page, specs |-> v.specs, proposals |-> v.proposals] /\ v.specs = S /\ v.proposals = cache.proposals
    BY <1>1, <2>1
  <2>4. IsView(v) /\ v.proposals = cache.proposals
    BY <1>1, <2>2, <2>3 DEF IsView
  <2> QED BY <2>4 DEF v
<1>3. CASE task.op = "updateProposal" /\ task.id \in DOMAIN cache.proposals
  <2> DEFINE P == [cache.proposals EXCEPT ![task.id] = [@ EXCEPT !.order = task.order, !.text = task.text]]
             v == Merged(task)
  <2>1. v = [cache EXCEPT !.proposals = P]
    BY <1>3 DEF Merged
  <2>2. DOMAIN P = DOMAIN cache.proposals
    OBVIOUS
  <2> HIDE DEF P, v
  <2>3. v = [page |-> v.page, specs |-> v.specs, proposals |-> v.proposals] /\ v.specs = cache.specs /\ v.proposals = P
    BY <1>1, <2>1
  <2>4. IsView(v)
    BY <1>1, <2>2, <2>3 DEF IsView
  <2> QED BY <1>3, <2>4 DEF v, OfProposals
<1>4. CASE ~(task.op = "updateSpec" /\ task.id \in DOMAIN cache.specs) /\
           ~(task.op = "updateProposal" /\ task.id \in DOMAIN cache.proposals)
  BY <1>4 DEF Merged
<1> QED BY <1>2, <1>3, <1>4

-----------------------------------------------------------------------------
(* The plan, when a mutation has run *)

PlanOf(order, A) == IF A = {} THEN order ELSE AnyOf(A).order

\* The order that a proposal is planned to have.
LEMMA PlannedIs == \A p : Planned(p) = PlanOf(db.proposals[p].order, DueTo("updateProposal", p))
BY DEF Planned, PlanOf, AnyOf

LEMMA PlannedNext == \A p : Planned(p)' = PlanOf(db'.proposals[p].order, DueTo("updateProposal", p)')
BY DEF Planned, PlanOf, AnyOf

\* A mutation of one kind leaves those of the others.
LEMMA DueToKept ==
  ASSUME NEW task, Due' \subseteq Due, Due \ {task} \subseteq Due'
  PROVE  \A op, p : op # task.op \/ p # task.id => DueTo(op, p)' = DueTo(op, p)
<1> SUFFICES ASSUME NEW op, NEW p, op # task.op \/ p # task.id PROVE DueTo(op, p)' = DueTo(op, p)
  OBVIOUS
<1>1. \A t : t \in DueTo(op, p) <=> t \in Due /\ t.op = op /\ t.id = p
  BY DEF DueTo
<1>2. \A t : t \in DueTo(op, p)' <=> t \in Due' /\ t.op = op /\ t.id = p
  BY DEF DueTo
<1> QED BY <1>1, <1>2

\* The plan is what it was when a creation, an update or a deletion that is due has been done.
LEMMA PlanCreation ==
  ASSUME PlannedInOrder, DueIsKnown, NEW task \in Due, task.op = "createProposal",
         Due' \subseteq Due, Due \ {task} \subseteq Due', task \notin Due',
         NEW new, new \notin DOMAIN db.proposals, DOMAIN db'.proposals = DOMAIN db.proposals \union {new},
         \A p \in DOMAIN db.proposals : db'.proposals[p] = db.proposals[p],
         db'.proposals[new].order = task.order, db'.proposals[new].live = TRUE
  PROVE  PlannedInOrder' /\ DueIsKnown'
<1>1. \A op, p : op # "createProposal" => DueTo(op, p)' = DueTo(op, p)
  BY DueToKept
<1>2. DueTo("deleteProposal", new) = {} /\ DueTo("updateProposal", new) = {}
  BY DEF DueTo, DueIsKnown
<1>3. Survivors' = Survivors \union {new}
  <2>1. \A p : p \in Live' <=> p \in Live \/ p = new
    BY DEF Live
  <2>2. \A p : p \in Survivors' <=> p \in Live' /\ DueTo("deleteProposal", p)' = {}
    BY DEF Survivors
  <2>3. \A p : p \in Survivors <=> p \in Live /\ DueTo("deleteProposal", p) = {}
    BY DEF Survivors
  <2> QED BY <1>1, <1>2, <2>1, <2>2, <2>3
<1>4. \A p \in Survivors : p \in DOMAIN db.proposals /\ Planned(p)' = Planned(p)
  <2>1. \A p \in Survivors : p \in DOMAIN db.proposals
    BY DEF Survivors, Live
  <2> QED BY <1>1, <2>1, PlannedIs, PlannedNext
<1>5. Planned(new)' = task.order
  BY <1>1, <1>2, PlannedNext DEF PlanOf
<1>6. Creations' = Creations \ {task} /\ task \in Creations
  BY DEF Creations
<1>7. PlannedInOrder'
  <2>1. /\ \A t, u \in Due : t.op = "updateProposal" /\ u.op = "updateProposal" /\ t.id = u.id => t = u
        /\ \A p \in Survivors : Planned(p) \in Int
        /\ \A t \in Creations : t.order \in Int
        /\ \A p, q \in Survivors : Planned(p) = Planned(q) => p = q
        /\ \A p \in Survivors, t \in Creations : Planned(p) # t.order
        /\ \A t, u \in Creations : t.order = u.order => t = u
    BY DEF PlannedInOrder
  <2>2. \A t, u \in Due' : t.op = "updateProposal" /\ u.op = "updateProposal" /\ t.id = u.id => t = u
    BY <2>1
  <2>3. Survivors' # {}
    BY <1>3
  <2>4. \A p \in Survivors' : Planned(p)' \in Int
    BY <1>3, <1>4, <1>5, <1>6, <2>1
  <2>5. \A t \in Creations' : t.order \in Int
    BY <1>6, <2>1
  <2>6. \A p, q \in Survivors' : Planned(p)' = Planned(q)' => p = q
    BY <1>3, <1>4, <1>5, <1>6, <2>1
  <2>7. \A p \in Survivors', t \in Creations' : Planned(p)' # t.order
    BY <1>3, <1>4, <1>5, <1>6, <2>1
  <2>8. \A t, u \in Creations' : t.order = u.order => t = u
    BY <1>6, <2>1
  <2> QED BY <2>2, <2>3, <2>4, <2>5, <2>6, <2>7, <2>8 DEF PlannedInOrder
<1>8. DueIsKnown'
  BY DEF DueIsKnown
<1> QED BY <1>7, <1>8

\* The plan is the same, when the mutations and the orders to come are.
LEMMA PlanSame ==
  ASSUME PlannedInOrder, Due' \subseteq Due, Survivors' = Survivors, Creations' = Creations,
         \A p \in Survivors : Planned(p)' = Planned(p)
  PROVE  PlannedInOrder'
<1>1. \A t, u \in Due' : t.op = "updateProposal" /\ u.op = "updateProposal" /\ t.id = u.id => t = u
  BY DEF PlannedInOrder
<1>2. Survivors' # {} \/ Creations' # {}
  BY DEF PlannedInOrder
<1>3. /\ \A p \in Survivors' : Planned(p)' \in Int
      /\ \A task \in Creations' : task.order \in Int
      /\ \A p, q \in Survivors' : Planned(p)' = Planned(q)' => p = q
      /\ \A p \in Survivors', task \in Creations' : Planned(p)' # task.order
      /\ \A t, u \in Creations' : t.order = u.order => t = u
  BY DEF PlannedInOrder
<1> QED BY <1>1, <1>2, <1>3 DEF PlannedInOrder

LEMMA PlanUpdate ==
  ASSUME PlannedInOrder, DueIsKnown, NEW task \in Due, task.op = "updateProposal",
         Due' \subseteq Due, Due \ {task} \subseteq Due',
         DOMAIN db'.proposals = DOMAIN db.proposals,
         \A p \in DOMAIN db.proposals : p # task.id => db'.proposals[p] = db.proposals[p],
         db'.proposals[task.id].order = task.order,
         db'.proposals[task.id].live = db.proposals[task.id].live
  PROVE  PlannedInOrder' /\ DueIsKnown'
<1>1. \A op, p : op # "updateProposal" \/ p # task.id => DueTo(op, p)' = DueTo(op, p)
  BY DueToKept
<1>2. Live' = Live
  BY DEF Live
<1>3. Survivors' = Survivors
  <2>1. \A p : p \in Survivors' <=> p \in Live' /\ DueTo("deleteProposal", p)' = {}
    BY DEF Survivors
  <2>2. \A p : p \in Survivors <=> p \in Live /\ DueTo("deleteProposal", p) = {}
    BY DEF Survivors
  <2> QED BY <1>1, <1>2, <2>1, <2>2
<1>4. Creations' = Creations
  BY DEF Creations
<1>5. Planned(task.id) = task.order /\ Planned(task.id)' = task.order
  <2> DEFINE A == DueTo("updateProposal", task.id)
  <2>1. A = {task}
    BY DEF DueTo, PlannedInOrder
  <2>2. A' = {task} \/ A' = {}
    BY <2>1 DEF DueTo
  <2>3. AnyOf({task}) = task
    BY DEF AnyOf
  <2>4. Planned(task.id) = PlanOf(db.proposals[task.id].order, A)
    BY PlannedIs
  <2>5. Planned(task.id)' = PlanOf(db'.proposals[task.id].order, A')
    BY PlannedNext
  <2> HIDE DEF A
  <2> QED BY <2>1, <2>2, <2>3, <2>4, <2>5 DEF PlanOf
<1>6. \A p \in Survivors : Planned(p)' = Planned(p)
  <2> TAKE p \in Survivors
  <2>1. CASE p = task.id
    BY <1>5, <2>1
  <2>2. CASE p # task.id
    <3>1. p \in DOMAIN db.proposals
      BY DEF Survivors, Live
    <3>2. DueTo("updateProposal", p)' = DueTo("updateProposal", p)
      BY <1>1, <2>2
    <3>3. db'.proposals[p] = db.proposals[p]
      BY <2>2, <3>1
    <3> QED BY <3>2, <3>3, PlannedIs, PlannedNext
  <2> QED BY <2>1, <2>2
<1>7. DueIsKnown'
  BY DEF DueIsKnown
<1> QED BY <1>3, <1>4, <1>6, <1>7, PlanSame

LEMMA PlanDeletion ==
  ASSUME PlannedInOrder, DueIsKnown, NEW task \in Due, task.op = "deleteProposal",
         Due' \subseteq Due, Due \ {task} \subseteq Due',
         DOMAIN db'.proposals = DOMAIN db.proposals,
         \A p \in DOMAIN db.proposals : p # task.id => db'.proposals[p] = db.proposals[p],
         db'.proposals[task.id].order = db.proposals[task.id].order,
         db'.proposals[task.id].live = FALSE
  PROVE  PlannedInOrder' /\ DueIsKnown'
<1>1. \A op, p : op # "deleteProposal" \/ p # task.id => DueTo(op, p)' = DueTo(op, p)
  BY DueToKept
<1>2. \A p : p \in Live' <=> p \in Live /\ p # task.id
  BY DEF Live
<1>3. Survivors' = Survivors
  <2>1. \A p : p \in Survivors' <=> p \in Live' /\ DueTo("deleteProposal", p)' = {}
    BY DEF Survivors
  <2>2. \A p : p \in Survivors <=> p \in Live /\ DueTo("deleteProposal", p) = {}
    BY DEF Survivors
  <2>3. task \in DueTo("deleteProposal", task.id)
    BY DEF DueTo
  <2>4. \A p : p # task.id => DueTo("deleteProposal", p)' = DueTo("deleteProposal", p)
    BY <1>1
  <2>5. \A p : p \in Survivors' <=> p \in Survivors
    BY <1>2, <2>1, <2>2, <2>3, <2>4
  <2> QED BY <2>5
<1>4. Creations' = Creations
  BY DEF Creations
<1>5. \A p \in Survivors : Planned(p)' = Planned(p)
  <2> TAKE p \in Survivors
  <2>1. p \in DOMAIN db.proposals
    BY DEF Survivors, Live
  <2>2. DueTo("updateProposal", p)' = DueTo("updateProposal", p)
    BY <1>1
  <2>3. db'.proposals[p].order = db.proposals[p].order
    BY <2>1
  <2> QED BY <2>2, <2>3, PlannedIs, PlannedNext
<1>6. DueIsKnown'
  BY DEF DueIsKnown
<1> QED BY <1>3, <1>4, <1>5, <1>6, PlanSame

-----------------------------------------------------------------------------
(* A mutation runs *)

\* The chain of the modules of a new proposal has no mutation of a proposal.
LEMMA NestedIs ==
  ASSUME NEW task, IsTask(task)
  PROVE  LET all == Nested(task) IN
         /\ IsSeq(all)
         /\ \A e \in 1..Len(all) :
               /\ IsChain(all[e]) /\ all[e].tasks # <<Refetch>>
               /\ \A t \in Range(all[e].tasks) : ~OfProposals(t)
<1>1. CASE task.op # "createProposal"
  <2>1. Nested(task) = <<>>
    BY <1>1 DEF Nested
  <2>2. \A s : s = <<>> => IsSeq(s) /\ Len(s) = 0
    BY EmptyIs
  <2>3. IsSeq(Nested(task)) /\ Len(Nested(task)) = 0
    BY <2>1, <2>2
  <2> QED BY <2>3
<1>2. CASE task.op = "createProposal"
  <2> DEFINE made == Made(task)
  <2>1. Nested(task) = Chain(made)
    BY <1>2 DEF Nested
  <2>2. IsSeq(task.modules) /\ \A m \in Range(task.modules) : IsCreation(m)
    BY <1>2 DEF IsTask, IsSeq
  <2>3. DOMAIN made = DOMAIN task.modules
    BY DEF Made
  <2>4. \A i \in DOMAIN made : made[i].op = "createSpec"
    <3> TAKE i \in DOMAIN made
    <3> DEFINE m == task.modules[i]
    <3>1. IsCreation(m)
      BY <2>2, <2>3, SeqIs
    <3>2. made[i] = [m EXCEPT !.proposal = ServerId(db.next)]
      BY <2>3 DEF Made
    <3> HIDE DEF m, made
    <3>3. m = [op |-> "createSpec", of |-> m.of, proposal |-> m.proposal,
               template |-> m.template, text |-> m.text, custom |-> m.custom]
      BY <3>1 DEF IsCreation
    <3> QED BY <3>2, <3>3
  <2>5. IsSeq(made)
    <3>1. Len(task.modules) \in Nat /\ DOMAIN task.modules = 1..Len(task.modules)
      BY <2>2, SeqIs
    <3>2. made = [i \in 1..Len(task.modules) |-> made[i]]
      BY <3>1 DEF Made
    <3> HIDE DEF made
    <3> QED BY <3>1, <3>2, IsSeqOf
  <2> HIDE DEF made
  <2>6. \A t \in Range(made) : IsTask(t) /\ t # Refetch /\ ~OfProposals(t)
    <3>1. \A t \in Range(made) : t.op = "createSpec"
      BY <2>4 DEF Range
    <3> QED BY <3>1, RefetchIs DEF IsTask, OfOthers, OfProposals
  <2> DEFINE all == Chain(made)
  <2>7. /\ IsSeq(all)
        /\ \A e \in 1..Len(all) :
              IsChain(all[e]) /\ all[e].tasks = Append(made, Refetch) /\ all[e].tasks # <<Refetch>>
    BY <2>5, <2>6, ChainIs
  <2>8. Range(Append(made, Refetch)) = Range(made) \union {Refetch}
    BY <2>5, AppendIs
  <2>9. \A t \in Range(Append(made, Refetch)) : ~OfProposals(t)
    BY <2>6, <2>8, RefetchIs
  <2> QED BY <2>1, <2>7, <2>9
<1> QED BY <1>1, <1>2

\* The chain of a mutation goes on, beside those it starts, which are of modules only.
LEMMA StepsOn ==
  ASSUME AreChains, NEW c \in DOMAIN chains, Pending(c), NEW more, IsSeq(more),
         \A e \in 1..Len(more) : /\ IsChain(more[e]) /\ more[e].tasks # <<Refetch>>
                                 /\ \A t \in Range(more[e].tasks) : ~OfProposals(t),
         chains' = Left([chains EXCEPT ![c].tasks = Tail(chains[c].tasks)] \o more)
  PROVE  LET all == [chains EXCEPT ![c].tasks = Tail(chains[c].tasks)] \o more IN
         Advances(all, c) /\ all[c].reply = <<>>
<1> DEFINE s == chains[c].tasks   r == Tail(s)
           chain == [chains[c] EXCEPT !.tasks = r]
           mid == [chains EXCEPT ![c] = chain]
           all == mid \o more
<1>1. IsSeq(chains) /\ IsChain(chains[c]) /\ s # <<>> /\ chains[c].reply = <<>>
  BY DEF AreChains, Pending
<1>2. chains' = Left(all)
  OBVIOUS
<1>3. chain.tasks = r /\ chain.reply = <<>> /\ chain = [tasks |-> chain.tasks, reply |-> chain.reply]
  <2>1. chains[c] = [tasks |-> chains[c].tasks, reply |-> chains[c].reply]
    BY <1>1 DEF IsChain
  <2> HIDE DEF r
  <2> QED BY <1>1, <2>1
<1> HIDE DEF chain
<1>4. /\ IsSeq(s) /\ IsSeq(r) /\ Len(r) = Len(s) - 1 /\ Len(s) \in Nat \ {0}
      /\ \A i \in 1..Len(r) : i + 1 \in 1..Len(s) /\ r[i] = s[i + 1]
      /\ Range(r) \subseteq Range(s)
  <2>1. IsSeq(s)
    BY <1>1 DEF IsChain, IsSeq
  <2> HIDE DEF s
  <2> QED BY <1>1, <2>1, TailIs
<1>5. IsChain(chain)
  <2>1. \A task \in Range(s) : IsTask(task)
    BY <1>1 DEF IsChain
  <2>2. \A i \in 1..Len(s) : s[i] = Refetch => i = Len(s)
    BY <1>1, <1>4, SeqIs DEF IsChain
  <2> HIDE DEF s, r
  <2>3. \A i \in 1..Len(r) : r[i] = Refetch => i = Len(r)
    BY <1>4, <2>2
  <2>4. DOMAIN r = 1..Len(r)
    BY <1>4, SeqIs
  <2> QED BY <1>3, <1>4, <2>1, <2>3, <2>4 DEF IsChain, IsSeq
<1>6. /\ DOMAIN mid = DOMAIN chains /\ mid[c] = chain
      /\ \A e \in DOMAIN chains : e # c => mid[e] = chains[e]
  OBVIOUS
<1>7. IsSeq(mid) /\ Len(mid) = Len(chains) /\ DOMAIN mid = 1..Len(mid) /\ Len(mid) \in Nat
  <2>1. DOMAIN chains = 1..Len(chains) /\ Len(chains) \in Nat
    BY <1>1, SeqIs
  <2>2. mid = [e \in 1..Len(chains) |-> mid[e]]
    BY <1>6, <2>1
  <2> HIDE DEF mid
  <2> QED BY <1>6, <2>1, <2>2, IsSeqOf
<1> HIDE DEF mid
<1>8. /\ IsSeq(all) /\ DOMAIN all = 1..(Len(mid) + Len(more)) /\ Len(more) \in Nat
      /\ \A e \in 1..(Len(mid) + Len(more)) : all[e] = IF e <= Len(mid) THEN mid[e] ELSE more[e - Len(mid)]
  BY <1>7, ConcatIs
<1> HIDE DEF all
<1>9. \A e \in DOMAIN chains : e \in DOMAIN all /\ all[e] = mid[e]
  BY <1>6, <1>7, <1>8
<1>10. \A e \in DOMAIN all \ DOMAIN chains : \E d \in 1..Len(more) : all[e] = more[d]
  <2> SUFFICES ASSUME NEW e \in DOMAIN all \ DOMAIN chains PROVE \E d \in 1..Len(more) : all[e] = more[d]
    OBVIOUS
  <2>1. e - Len(mid) \in 1..Len(more) /\ all[e] = more[e - Len(mid)]
    BY <1>6, <1>7, <1>8
  <2> QED BY <2>1
<1>11. \A e \in DOMAIN all : IsChain(all[e])
  <2> SUFFICES ASSUME NEW e \in DOMAIN all PROVE IsChain(all[e])
    OBVIOUS
  <2>1. CASE e \in DOMAIN chains
    BY <1>5, <1>6, <1>9, <2>1 DEF AreChains
  <2>2. CASE e \notin DOMAIN chains
    BY <1>10, <2>2
  <2> QED BY <2>1, <2>2
<1>12. Advances(all, c) /\ all[c].reply = <<>>
  <2>1. all[c].tasks = Tail(chains[c].tasks) /\ all[c].reply = <<>>
    BY <1>3, <1>6, <1>9
  <2>2. DOMAIN chains \subseteq DOMAIN all /\ \A e \in DOMAIN chains : e # c => all[e] = chains[e]
    BY <1>6, <1>9
  <2>3. \A e \in DOMAIN all \ DOMAIN chains :
           all[e].tasks # <<Refetch>> /\ \A t \in Range(all[e].tasks) : ~OfProposals(t)
    BY <1>10
  <2> QED BY <1>2, <1>8, <1>11, <2>1, <2>2, <2>3 DEF Advances
<1>13. all = [chains EXCEPT ![c].tasks = Tail(chains[c].tasks)] \o more
  BY DEF all, mid, chain
<1> QED BY <1>12, <1>13

\* Whether a view is current depends on the server's proposals alone.
LEMMA CurrentKept ==
  ASSUME db'.proposals = db.proposals
  PROVE  /\ \A view : Current(view)' = Current(view)
         /\ cache'.proposals = cache.proposals => Current(cache)' = Current(cache)
BY DEF Current, Visible

\* A mutation that runs keeps the invariant.
LEMMA MutateKeeps ==
  ASSUME OrderIInv, ~Excused', NEW c \in DOMAIN chains, Mutate(c)
  PROVE  OrderIInv'
<1> DEFINE task == Task(c)
           s == chains[c].tasks   rest == Tail(s)
           all == [chains EXCEPT ![c].tasks = Tail(chains[c].tasks)] \o Nested(task)
<1>1. /\ Pending(c) /\ task # Refetch /\ db' = Stores(task) /\ chains' = Left(all)
      /\ asked' = IF rest # <<>> /\ Head(rest) = Refetch THEN c ELSE asked
      /\ Holds(Merged(task)) /\ UNCHANGED <<troubles, edits>>
  BY DEF Mutate
<1>2. ~Excused
  BY <1>1 DEF Excused
<1>3. /\ IsForm /\ IsServer /\ IsView(cache) /\ edits \in Nat /\ AreChains
      /\ FormFollowsCache /\ FormInOrder /\ OneChain /\ DueIsKnown /\ PlannedInOrder /\ AnswerComes
  BY <1>2 DEF OrderIInv, Shapes, AreChains, IsSeq
<1>4. /\ IsSeq(s) /\ s # <<>> /\ task \in Range(s) /\ IsTask(task) /\ s[1] = task
      /\ \A i \in DOMAIN s : s[i] = Refetch => i = Len(s)
  <2>1. IsChain(chains[c]) /\ IsSeq(s) /\ s # <<>>
    BY <1>1, <1>3 DEF AreChains, IsChain, IsSeq, Pending
  <2>2. task \in Range(s) /\ s[1] = task
    BY <2>1, TailIs DEF Task
  <2> QED BY <2>1, <2>2 DEF IsChain
<1>5. Advances(all, c) /\ all[c].reply = <<>>
  <2>1. /\ IsSeq(Nested(task))
        /\ \A e \in 1..Len(Nested(task)) :
              /\ IsChain(Nested(task)[e]) /\ Nested(task)[e].tasks # <<Refetch>>
              /\ \A t \in Range(Nested(task)[e].tasks) : ~OfProposals(t)
    BY <1>4, NestedIs
  <2> HIDE DEF task
  <2> QED BY <1>1, <1>3, <2>1, StepsOn
<1> HIDE DEF all
<1>6. /\ AreChains' /\ OneChain' /\ Due' \subseteq Due /\ Due \ {task} \subseteq Due'
      /\ task.op = "createProposal" => task \notin Due'
  BY <1>3, <1>4, <1>5, AdvanceDue
<1>7. OfProposals(task) => task \in Due
  BY <1>4, DueIs
<1>8. IsView(Merged(task)) /\ (~OfProposals(task) => Merged(task).proposals = cache.proposals)
  BY <1>3, MergedIs
<1>9. cache' = Merged(task) /\ IsView(cache)' /\ IsForm' /\ FormFollowsCache' /\ FormInOrder'
  <2> HIDE DEF task
  <2> QED BY <1>1, <1>3, <1>8, HoldsKeeps
<1> HIDE DEF task
<1>10. IsServer' /\ PlannedInOrder' /\ DueIsKnown'
  <2>1. CASE ~OfProposals(task)
    <3>1. OfOthers(task)
      BY <1>1, <1>4, <2>1 DEF IsTask
    <3>2. IsServer' /\ db'.proposals = db.proposals
      BY <1>1, <1>3, <3>1, StoresOthers
    <3>3. Due' = Due
      BY <1>6, <2>1, DueIs
    <3> QED BY <1>3, <3>2, <3>3, PlanKept DEF DueIsKnown
  <2>2. CASE task.op = "createProposal"
    <3> DEFINE new == ServerId(db.next)
    <3>1. /\ IsServer'
          /\ new \notin DOMAIN db.proposals /\ DOMAIN db'.proposals = DOMAIN db.proposals \union {new}
          /\ \A p \in DOMAIN db.proposals : db'.proposals[p] = db.proposals[p]
          /\ db'.proposals[new].order = task.order /\ db'.proposals[new].live = TRUE
      BY <1>1, <1>3, <2>2, StoresCreation
    <3>2. task \in Due /\ task \notin Due'
      BY <1>6, <1>7, <2>2 DEF OfProposals
    <3> HIDE DEF new
    <3> QED BY <1>3, <1>6, <2>2, <3>1, <3>2, PlanCreation
  <2>3. CASE task.op = "updateProposal"
    <3>1. task \in Due
      BY <1>7, <2>3 DEF OfProposals
    <3>2. task.id \in DOMAIN db.proposals
      BY <1>3, <2>3, <3>1 DEF DueIsKnown
    <3>3. /\ IsServer' /\ DOMAIN db'.proposals = DOMAIN db.proposals
          /\ \A p \in DOMAIN db.proposals : p # task.id => db'.proposals[p] = db.proposals[p]
          /\ db'.proposals[task.id].order = task.order
          /\ db'.proposals[task.id].live = db.proposals[task.id].live
      BY <1>1, <1>3, <2>3, <3>2, StoresUpdate
    <3> QED BY <1>3, <1>6, <2>3, <3>1, <3>3, PlanUpdate
  <2>4. CASE task.op = "deleteProposal"
    <3>1. task \in Due
      BY <1>7, <2>4 DEF OfProposals
    <3>2. task.id \in DOMAIN db.proposals
      BY <1>3, <2>4, <3>1 DEF DueIsKnown
    <3>3. /\ IsServer' /\ DOMAIN db'.proposals = DOMAIN db.proposals
          /\ \A p \in DOMAIN db.proposals : p # task.id => db'.proposals[p] = db.proposals[p]
          /\ db'.proposals[task.id].order = db.proposals[task.id].order
          /\ db'.proposals[task.id].live = FALSE
      BY <1>1, <1>3, <2>4, <3>2, StoresDeletion
    <3> QED BY <1>3, <1>6, <2>4, <3>1, <3>3, PlanDeletion
  <2> QED BY <2>1, <2>2, <2>3, <2>4 DEF OfProposals
<1>11. Shapes'
  <2>1. (edits \in Nat)'
    BY <1>1, <1>3
  <2> QED BY <1>6, <1>9, <1>10, <2>1 DEF Shapes, AreChains, IsSeq
<1>12. AnswerComes'
  <2>1. ASSUME rest = <<Refetch>>, Due' = {} PROVE LastReads'
    <3>1. asked' = c
      BY <1>1, <2>1, OneRefetch
    <3>2. all[c].tasks = <<Refetch>> /\ c \in DOMAIN all
      BY <1>5, <2>1 DEF Advances
    <3>3. chains' = all
      BY <1>1, <3>2, OneRefetch, LeftIs
    <3>4. Range(chains'[c].reply) = {}
      BY <1>5, <3>3, EmptyIs
    <3> QED BY <2>1, <3>1, <3>2, <3>3, <3>4 DEF LastReads
  <2>2. CASE LastReads
    <3>1. Due = {} /\ Due' = {} /\ ~OfProposals(task)
      BY <1>6, <1>7, <2>2 DEF LastReads
    <3>2. OfOthers(task)
      BY <1>1, <1>4, <3>1 DEF IsTask
    <3>3. db'.proposals = db.proposals /\ cache'.proposals = cache.proposals
      BY <1>1, <1>3, <1>8, <1>9, <3>1, <3>2, StoresOthers
    <3>4. (\A view : Current(view)' = Current(view)) /\ Current(cache)' = Current(cache)
      BY <3>3, CurrentKept
    <3>5. CASE rest = <<Refetch>>
      BY <2>1, <3>1, <3>5 DEF AnswerComes
    <3>6. CASE rest # <<Refetch>>
      <4>1. asked' = asked
        <5>1. SUFFICES ASSUME rest # <<>>, Head(rest) = Refetch PROVE FALSE
          BY <1>1
        <5>2. IsChain(all[c]) /\ all[c].tasks = rest
          BY <1>5 DEF Advances
        <5>3. IsSeq(rest) /\ \A i \in DOMAIN rest : rest[i] = Refetch => i = Len(rest)
          BY <5>2 DEF IsChain, IsSeq
        <5> HIDE DEF rest
        <5>4. rest[1] = Refetch
          BY <5>1, <5>3, TailIs
        <5> QED BY <3>6, <5>1, <5>3, <5>4, OnlyRefetch
      <4>2. CASE asked \in DOMAIN chains /\ chains[asked].tasks = <<Refetch>>
        <5>1. asked # c
          <6>1. SUFFICES ASSUME s = <<Refetch>> PROVE FALSE
            BY <4>2
          <6>2. task = Refetch
            BY <1>4, <6>1, SingleIs
          <6> QED BY <1>1, <6>2
        <5>2. asked \in DOMAIN all /\ all[asked] = chains[asked]
          BY <1>5, <4>2, <5>1 DEF Advances
        <5>3. chains' = all
          BY <1>1, <4>2, <5>2, OneRefetch, LeftIs
        <5>4. LastReads'
          BY <2>2, <3>1, <3>4, <4>1, <4>2, <5>2, <5>3 DEF LastReads
        <5> QED BY <5>4 DEF AnswerComes
      <4>3. CASE ~(asked \in DOMAIN chains /\ chains[asked].tasks = <<Refetch>>)
        <5>1. ~(asked \in DOMAIN all /\ all[asked].tasks = <<Refetch>>)
          BY <1>5, <3>6, <4>3 DEF Advances
        <5>2. ~(asked \in DOMAIN chains' /\ chains'[asked].tasks = <<Refetch>>)
          BY <1>1, <5>1, LeftIs, EmptyIs
        <5>3. Current(cache)'
          BY <2>2, <3>4, <4>3 DEF LastReads
        <5>4. LastReads'
          BY <3>1, <4>1, <5>2, <5>3 DEF LastReads
        <5> QED BY <5>4 DEF AnswerComes
      <4> QED BY <4>2, <4>3
    <3> QED BY <3>5, <3>6
  <2>3. ASSUME NEW d \in DOMAIN chains, WillRead(d) PROVE AnswerComes'
    <3>1. CASE d \in DOMAIN chains' /\ WillRead(d)'
      BY <3>1 DEF AnswerComes
    <3>2. CASE d = c /\ rest = <<Refetch>> /\ Due' = {} /\ chains' = all
      BY <2>1, <3>2 DEF AnswerComes
    <3> QED BY <1>3, <1>4, <1>5, <2>3, <3>1, <3>2, WillReadOn
  <2> QED BY <1>3, <2>2, <2>3 DEF AnswerComes
<1> QED BY <1>6, <1>9, <1>10, <1>11, <1>12 DEF OrderIInv

\* What a rejected mutation leaves undone excuses whatever follows.
LEMMA RejectKeeps ==
  ASSUME NEW c \in DOMAIN chains, Reject(c)
  PROVE  OrderIInv'
BY DEF Reject, Excused, OrderIInv

-----------------------------------------------------------------------------
(* What the button "save" sends *)

\* Pieces: what each element contributes, once if that of no two is the same.
LEMMA PiecesIs ==
  ASSUME NEW S, NEW seq, Lists(seq, S), NEW g, \A x \in S : IsSeq(g[x]),
         NEW ss, ss = [i \in DOMAIN seq |-> ss[i]], \A i \in DOMAIN seq : ss[i] = g[seq[i]]
  PROVE  /\ IsSeq(FlattenSeq(ss))
         /\ \A t : t \in Range(FlattenSeq(ss)) <=> \E x \in S : t \in Range(g[x])
         /\ \A C : (\A x, y \in S : \A a \in 1..Len(g[x]), b \in 1..Len(g[y]) :
                       g[x][a] \in C /\ g[x][a] = g[y][b] => x = y /\ a = b)
                    => Once(FlattenSeq(ss), C)
<1>1. DOMAIN seq = 1..Len(seq) /\ Len(seq) \in Nat
  BY SeqIs DEF Lists
<1>2. IsSeq(ss) /\ Len(ss) = Len(seq)
  BY <1>1, IsSeqOf
<1>3. \A i \in 1..Len(ss) : seq[i] \in S /\ ss[i] = g[seq[i]] /\ IsSeq(ss[i])
  BY <1>1, <1>2 DEF Lists
<1> DEFINE s == FlattenSeq(ss)
<1>4. /\ IsSeq(s)
      /\ \A k \in 1..Len(ss) : Range(ss[k]) \subseteq Range(s)
      /\ \A x \in Range(s) : \E k \in 1..Len(ss) : x \in Range(ss[k])
      /\ \A C : (\A k, l \in 1..Len(ss) : \A a \in 1..Len(ss[k]), b \in 1..Len(ss[l]) :
                       ss[k][a] \in C /\ ss[k][a] = ss[l][b] => k = l /\ a = b)
                    => Once(s, C)
  BY <1>2, <1>3, FlattenIs
<1> HIDE DEF s
<1>5. \A x \in S : \E i \in 1..Len(ss) : seq[i] = x
  BY <1>2 DEF Lists
<1>6. ASSUME NEW t PROVE t \in Range(s) <=> \E x \in S : t \in Range(g[x])
  <2>1. t \in Range(s) => \E x \in S : t \in Range(g[x])
    BY <1>3, <1>4
  <2>2. ASSUME NEW x \in S, t \in Range(g[x]) PROVE t \in Range(s)
    BY <1>3, <1>4, <1>5, <2>2
  <2> QED BY <2>1, <2>2
<1>7. ASSUME NEW C, \A x, y \in S : \A a \in 1..Len(g[x]), b \in 1..Len(g[y]) :
                       g[x][a] \in C /\ g[x][a] = g[y][b] => x = y /\ a = b
      PROVE  Once(s, C)
  <2>1. ASSUME NEW k \in 1..Len(ss), NEW l \in 1..Len(ss),
               NEW a \in 1..Len(ss[k]), NEW b \in 1..Len(ss[l]),
               ss[k][a] \in C, ss[k][a] = ss[l][b]
        PROVE  k = l /\ a = b
    <3>1. seq[k] = seq[l] /\ a = b
      BY <1>3, <1>7, <2>1
    <3>2. \A i, j \in 1..Len(seq) : seq[i] = seq[j] => i = j
      BY DEF Lists
    <3> QED BY <1>2, <3>1, <3>2
  <2>2. (\A k, l \in 1..Len(ss) : \A a \in 1..Len(ss[k]), b \in 1..Len(ss[l]) :
            ss[k][a] \in C /\ ss[k][a] = ss[l][b] => k = l /\ a = b) => Once(s, C)
    BY <1>4
  <2> QED BY <2>1, <2>2
<1> QED BY <1>4, <1>6, <1>7 DEF s

\* runMutations leaves out what is a promise already.
LEMMA FunctionsAre ==
  ASSUME NEW tasks, IsSeq(tasks)
  PROVE  /\ IsSeq(FunctionsOf(tasks))
         /\ Range(FunctionsOf(tasks)) = Range(tasks) \ {Promise}
         /\ \A C : Promise \notin C /\ Once(tasks, C) => Once(FunctionsOf(tasks), C)
<1> DEFINE ss == [i \in DOMAIN tasks |-> IF tasks[i] = Promise THEN <<>> ELSE <<tasks[i]>>]
           s == FlattenSeq(ss)
<1>1. FunctionsOf(tasks) = s
  BY DEF FunctionsOf
<1>2. DOMAIN tasks = 1..Len(tasks) /\ Len(tasks) \in Nat
  BY SeqIs
<1>3. IsSeq(ss) /\ Len(ss) = Len(tasks)
  <2>1. ss = [i \in 1..Len(tasks) |-> ss[i]]
    BY <1>2
  <2> HIDE DEF ss
  <2> QED BY <1>2, <2>1, IsSeqOf
<1>4. ASSUME NEW i \in 1..Len(ss)
      PROVE  /\ IsSeq(ss[i])
             /\ tasks[i] = Promise => Len(ss[i]) = 0 /\ Range(ss[i]) = {}
             /\ tasks[i] # Promise => Len(ss[i]) = 1 /\ Range(ss[i]) = {tasks[i]} /\ ss[i][1] = tasks[i]
  <2>1. ss[i] = IF tasks[i] = Promise THEN <<>> ELSE <<tasks[i]>>
    BY <1>2, <1>3
  <2> HIDE DEF ss
  <2>2. CASE tasks[i] = Promise
    <3>1. \A e : e = <<>> => IsSeq(e) /\ Len(e) = 0 /\ Range(e) = {}
      BY EmptyIs
    <3> QED BY <2>1, <2>2, <3>1
  <2>3. CASE tasks[i] # Promise
    BY <2>1, <2>3, SingleIs
  <2> QED BY <2>2, <2>3
<1> HIDE DEF ss
<1>5. /\ IsSeq(s)
      /\ \A k \in 1..Len(ss) : Range(ss[k]) \subseteq Range(s)
      /\ \A x \in Range(s) : \E k \in 1..Len(ss) : x \in Range(ss[k])
      /\ \A C : (\A k, l \in 1..Len(ss) : \A a \in 1..Len(ss[k]), b \in 1..Len(ss[l]) :
                       ss[k][a] \in C /\ ss[k][a] = ss[l][b] => k = l /\ a = b)
                    => Once(s, C)
  BY <1>3, <1>4, FlattenIs
<1> HIDE DEF s
<1>6. Range(s) = Range(tasks) \ {Promise}
  <2>1. ASSUME NEW x \in Range(s) PROVE x \in Range(tasks) \ {Promise}
    <3>1. PICK k \in 1..Len(ss) : x \in Range(ss[k])
      BY <1>5
    <3>2. x = tasks[k] /\ tasks[k] # Promise
      BY <1>4, <3>1
    <3> QED BY <1>3, <3>2, SeqIs
  <2>2. ASSUME NEW x \in Range(tasks), x # Promise PROVE x \in Range(s)
    <3>1. PICK k \in 1..Len(tasks) : tasks[k] = x
      BY SeqIs
    <3> QED BY <1>3, <1>4, <1>5, <2>2, <3>1
  <2> QED BY <2>1, <2>2
<1>7. ASSUME NEW C, Promise \notin C, Once(tasks, C) PROVE Once(s, C)
  <2>1. ASSUME NEW k \in 1..Len(ss), NEW l \in 1..Len(ss),
               NEW a \in 1..Len(ss[k]), NEW b \in 1..Len(ss[l]),
               ss[k][a] \in C, ss[k][a] = ss[l][b]
        PROVE  k = l /\ a = b
    <3>1. tasks[k] # Promise /\ tasks[l] # Promise
      BY <1>4
    <3>2. Len(ss[k]) = 1 /\ Len(ss[l]) = 1 /\ ss[k][1] = tasks[k] /\ ss[l][1] = tasks[l]
      BY <1>4, <3>1
    <3>3. a = 1 /\ b = 1
      BY <3>2
    <3>4. tasks[k] \in C /\ tasks[k] = tasks[l]
      BY <2>1, <3>2, <3>3
    <3> QED BY <1>3, <1>7, <3>3, <3>4 DEF Once
  <2> QED BY <1>5, <2>1
<1> QED BY <1>1, <1>5, <1>6, <1>7

\* Chains without a mutation of a proposal.
Quiet(all) ==
    /\ IsSeq(all)
    /\ \A e \in 1..Len(all) :
          /\ IsChain(all[e]) /\ all[e].reply = <<>> /\ all[e].tasks # <<Refetch>>
          /\ \A t \in Range(all[e].tasks) : ~OfProposals(t)

\* Chains without a mutation of a proposal.
LEMMA QuietNone ==
  ASSUME NEW all, all = <<>>
  PROVE  Quiet(all)
<1>1. IsSeq(all) /\ Len(all) = 0
  BY EmptyIs
<1> QED BY <1>1 DEF Quiet

LEMMA QuietConcat ==
  ASSUME NEW s, NEW t, Quiet(s), Quiet(t)
  PROVE  Quiet(s \o t)
<1> DEFINE u == s \o t
<1>1. /\ IsSeq(u) /\ Len(u) = Len(s) + Len(t) /\ Len(s) \in Nat /\ Len(t) \in Nat
      /\ \A i \in 1..(Len(s) + Len(t)) : u[i] = IF i <= Len(s) THEN s[i] ELSE t[i - Len(s)]
  BY ConcatIs DEF Quiet
<1> HIDE DEF u
<1>2. ASSUME NEW e \in 1..Len(u)
      PROVE  /\ IsChain(u[e]) /\ u[e].reply = <<>> /\ u[e].tasks # <<Refetch>>
             /\ \A x \in Range(u[e].tasks) : ~OfProposals(x)
  <2>1. CASE e <= Len(s)
    <3>1. e \in 1..Len(s) /\ u[e] = s[e]
      BY <1>1, <2>1
    <3> QED BY <3>1 DEF Quiet
  <2>2. CASE ~(e <= Len(s))
    <3>1. e - Len(s) \in 1..Len(t) /\ u[e] = t[e - Len(s)]
      BY <1>1, <2>2
    <3> QED BY <3>1 DEF Quiet
  <2> QED BY <2>1, <2>2
<1>3. Quiet(u)
  BY <1>1, <1>2 DEF Quiet
<1> QED BY <1>3 DEF u

LEMMA QuietChain ==
  ASSUME NEW tasks, IsSeq(tasks), \A t \in Range(tasks) : OfOthers(t)
  PROVE  Quiet(Chain(tasks))
<1>1. \A t \in Range(tasks) : IsTask(t) /\ t # Refetch /\ ~OfProposals(t)
  BY RefetchIs DEF IsTask, OfOthers, OfProposals
<1> DEFINE all == Chain(tasks)
<1>2. /\ IsSeq(all)
      /\ \A e \in 1..Len(all) :
            /\ IsChain(all[e]) /\ all[e].tasks = Append(tasks, Refetch) /\ all[e].reply = <<>>
            /\ all[e].tasks # <<Refetch>>
  BY <1>1, ChainIs
<1>3. Range(Append(tasks, Refetch)) = Range(tasks) \union {Refetch}
  BY AppendIs
<1>4. \A t \in Range(Append(tasks, Refetch)) : ~OfProposals(t)
  BY <1>1, <1>3, RefetchIs
<1> HIDE DEF all
<1>5. Quiet(all)
  BY <1>2, <1>4 DEF Quiet
<1> QED BY <1>5 DEF all

\* The tasks of a module, and of the modules of a set.
LEMMA SpecTaskIs ==
  ASSUME NEW m
  PROVE  /\ IsSeq(SpecTask(m)) /\ \A t \in Range(SpecTask(m)) : OfOthers(t)
         /\ form.modules[m].isNew /\ ~form.modules[m].toDelete =>
               \A t \in Range(SpecTask(m)) : IsCreation(t)
<1> DEFINE it == form.modules[m]   s == SpecTask(m)
           creation == [op |-> "createSpec", of |-> m, proposal |-> it.proposal, template |-> it.template,
                        text |-> Says(m), custom |-> it.custom]
           deletion == [op |-> "deleteSpec", id |-> m]
           update == [op |-> "updateSpec", id |-> m, text |-> Says(m), custom |-> it.custom]
<1>1. creation.op = "createSpec" /\ IsCreation(creation) /\ deletion.op = "deleteSpec" /\ update.op = "updateSpec"
  BY DEF IsCreation
<1>2. OfOthers(creation) /\ OfOthers(deletion) /\ OfOthers(update)
  BY <1>1 DEF OfOthers
<1>3. /\ s = <<>> \/ s = <<creation>> \/ s = <<deletion>> \/ s = <<update>>
      /\ it.isNew /\ ~it.toDelete => s = <<creation>>
  <2> HIDE DEF it
  <2>1. s = CASE it.isNew /\ it.toDelete -> <<>>
              [] it.isNew /\ ~it.toDelete -> <<creation>>
              [] ~it.isNew /\ it.toDelete -> <<deletion>>
              [] ~it.isNew /\ ~it.toDelete /\ it.hasChanged -> <<update>>
              [] OTHER -> <<>>
    BY DEF SpecTask, it
  <2> HIDE DEF s, creation, deletion, update
  <2> QED BY <2>1
<1>4. \A e : e = <<>> => IsSeq(e) /\ Range(e) = {}
  BY EmptyIs
<1> HIDE DEF s, creation, deletion, update
<1>5. /\ IsSeq(s) /\ \A t \in Range(s) : OfOthers(t)
      /\ it.isNew /\ ~it.toDelete => \A t \in Range(s) : IsCreation(t)
  BY <1>1, <1>2, <1>3, <1>4, SingleIs
<1> QED BY <1>5 DEF s

LEMMA SpecPieces ==
  ASSUME NEW S, IsFiniteSet(S), S \subseteq Nat \X Nat
  PROVE  LET all == Pieces(S, SpecTask, Smaller) IN
         IsSeq(all) /\ \A t \in Range(all) : \E m \in S : t \in Range(SpecTask(m))
<1> DEFINE seq == Ordered(S, Smaller)
           ss == [i \in DOMAIN seq |-> SpecTask(seq[i])]
           g == [m \in S |-> SpecTask(m)]
<1>1. Pieces(S, SpecTask, Smaller) = FlattenSeq(ss)
  BY DEF Pieces
<1>2. Lists(seq, S)
  BY OrderedIds
<1> HIDE DEF seq
<1>3. \A i \in DOMAIN seq : seq[i] \in S
  BY <1>2, SeqIs DEF Lists
<1>4. ss = [i \in DOMAIN seq |-> ss[i]] /\ \A i \in DOMAIN seq : ss[i] = g[seq[i]]
  BY <1>3
<1>5. \A m \in S : g[m] = SpecTask(m) /\ IsSeq(g[m])
  BY SpecTaskIs
<1> HIDE DEF ss, g
<1>6. IsSeq(FlattenSeq(ss)) /\ \A t : t \in Range(FlattenSeq(ss)) <=> \E m \in S : t \in Range(g[m])
  BY <1>2, <1>4, <1>5, PiecesIs
<1> QED BY <1>1, <1>5, <1>6

\* The mutations of proposals that a save asks for.
DeletionOf(p) == [op |-> "deleteProposal", id |-> p]
UpdateOf(p) == [op |-> "updateProposal", id |-> p,
                order |-> form.proposals[p].order, text |-> form.proposals[p].text]
NewModulesOf(p) == {m \in form.proposals[p].modules : form.modules[m].isNew /\ ~form.modules[m].toDelete}
CreationOf(p) == [op |-> "createProposal", of |-> p, order |-> form.proposals[p].order,
                  text |-> form.proposals[p].text, modules |-> Pieces(NewModulesOf(p), SpecTask, Smaller)]

\* The mutations that the save sends for a proposal.
LEMMA MutationsAre ==
  ASSUME NEW p
  PROVE  /\ DeletionOf(p).op = "deleteProposal" /\ DeletionOf(p).id = p
         /\ UpdateOf(p).op = "updateProposal" /\ UpdateOf(p).id = p
         /\ UpdateOf(p).order = form.proposals[p].order
         /\ CreationOf(p).op = "createProposal" /\ CreationOf(p).of = p
         /\ CreationOf(p).order = form.proposals[p].order
BY DEF DeletionOf, UpdateOf, CreationOf

LEMMA PromiseIs ==
  /\ Promise.op = "promise" /\ ~OfProposals(Promise)
  /\ \A t : OfProposals(t) \/ OfOthers(t) => t # Promise
BY DEF Promise, OfProposals, OfOthers

LEMMA CreationIs ==
  ASSUME NEW p, IsProposal(form.proposals[p])
  PROVE  IsTask(CreationOf(p))
<1> DEFINE S == NewModulesOf(p)
<1>1. S \in SUBSET form.proposals[p].modules
  BY DEF NewModulesOf
<1>2. IsFiniteSet(S) /\ S \subseteq Nat \X Nat
  BY <1>1, FS_Subset DEF IsProposal
<1> DEFINE all == Pieces(S, SpecTask, Smaller)
<1>3. IsSeq(all) /\ \A t \in Range(all) : \E m \in S : t \in Range(SpecTask(m))
  <2> HIDE DEF S
  <2> QED BY <1>2, SpecPieces
<1>4. \A m \in S : \A t \in Range(SpecTask(m)) : IsCreation(t)
  BY SpecTaskIs DEF NewModulesOf
<1>5. CreationOf(p).modules = all /\ CreationOf(p).op = "createProposal"
  BY DEF CreationOf
<1> HIDE DEF S, all
<1>6. \A t \in Range(all) : IsCreation(t)
  BY <1>3, <1>4
<1> QED BY <1>3, <1>5, <1>6 DEF IsTask, IsSeq, OfProposals

\* The part of the chain that creates a proposal, and the part of one that exists.
LEMMA CreateIs ==
  ASSUME NEW p
  PROVE  /\ IsSeq(CreateTask(p))
         /\ form.proposals[p].toDelete => Len(CreateTask(p)) = 0 /\ Range(CreateTask(p)) = {}
         /\ ~form.proposals[p].toDelete =>
               Len(CreateTask(p)) = 1 /\ Range(CreateTask(p)) = {CreationOf(p)} /\ CreateTask(p)[1] = CreationOf(p)
<1>1. CreateTask(p) = IF form.proposals[p].toDelete THEN <<>> ELSE <<CreationOf(p)>>
  BY DEF CreateTask, CreationOf, NewModulesOf
<1>2. \A e : e = <<>> => IsSeq(e) /\ Len(e) = 0 /\ Range(e) = {}
  BY EmptyIs
<1>3. CASE form.proposals[p].toDelete
  BY <1>1, <1>2, <1>3
<1>4. CASE ~form.proposals[p].toDelete
  BY <1>1, <1>4, SingleIs
<1> QED BY <1>3, <1>4

LEMMA ExistingIs ==
  ASSUME NEW p, IsProposal(form.proposals[p])
  PROVE  LET it == form.proposals[p] IN
         /\ IsSeq(ExistingTasks(p))
         /\ \A t \in Range(ExistingTasks(p)) :
               \/ t = Promise \/ OfOthers(t)
               \/ it.toDelete /\ t = DeletionOf(p)
               \/ it.hasChanged /\ t = UpdateOf(p)
         /\ it.toDelete => DeletionOf(p) \in Range(ExistingTasks(p))
         /\ it.hasChanged => UpdateOf(p) \in Range(ExistingTasks(p))
<1> DEFINE it == form.proposals[p]
           promises == [i \in 1..Cardinality(it.modules) |-> Promise]
           A == IF it.toDelete THEN promises \o <<DeletionOf(p)>> ELSE <<>>
           B == Pieces(it.modules, SpecTask, Smaller)
           D == IF it.hasChanged THEN <<UpdateOf(p)>> ELSE <<>>
<1>1. ExistingTasks(p) = (A \o B) \o D
  BY DEF ExistingTasks, DeletionOf, UpdateOf
<1>2. IsFiniteSet(it.modules) /\ it.modules \subseteq Nat \X Nat /\ it.toDelete \in BOOLEAN /\ it.hasChanged \in BOOLEAN
  BY DEF IsProposal
<1>3. \A e : e = <<>> => IsSeq(e) /\ Range(e) = {}
  BY EmptyIs
<1>4. IsSeq(promises) /\ Range(promises) \subseteq {Promise}
  <2>1. Cardinality(it.modules) \in Nat
    BY <1>2, FS_CardinalityType
  <2>2. promises = [i \in 1..Cardinality(it.modules) |-> promises[i]]
    OBVIOUS
  <2>3. Range(promises) \subseteq {Promise}
    BY DEF Range
  <2> HIDE DEF promises
  <2> QED BY <2>1, <2>2, <2>3, IsSeqOf
<1>5. /\ IsSeq(A) /\ \A t \in Range(A) : t = Promise \/ (it.toDelete /\ t = DeletionOf(p))
      /\ it.toDelete => DeletionOf(p) \in Range(A)
  <2> HIDE DEF promises
  <2>1. CASE it.toDelete
    <3>1. A = promises \o <<DeletionOf(p)>>
      BY <2>1
    <3>2. IsSeq(<<DeletionOf(p)>>) /\ Range(<<DeletionOf(p)>>) = {DeletionOf(p)}
      BY SingleIs
    <3> HIDE DEF A
    <3>3. IsSeq(A) /\ Range(A) = Range(promises) \union {DeletionOf(p)}
      BY <1>4, <3>1, <3>2, ConcatIs
    <3> QED BY <1>4, <2>1, <3>3
  <2>2. CASE ~it.toDelete
    <3>1. A = <<>>
      BY <2>2
    <3> QED BY <1>3, <2>2, <3>1
  <2> QED BY <2>1, <2>2
<1>6. IsSeq(B) /\ \A t \in Range(B) : OfOthers(t)
  <2>1. IsSeq(B) /\ \A t \in Range(B) : \E m \in it.modules : t \in Range(SpecTask(m))
    <3> HIDE DEF it
    <3> QED BY <1>2, SpecPieces
  <2> HIDE DEF B
  <2> QED BY <2>1, SpecTaskIs
<1>7. /\ IsSeq(D) /\ \A t \in Range(D) : it.hasChanged /\ t = UpdateOf(p)
      /\ it.hasChanged => UpdateOf(p) \in Range(D)
  <2>1. CASE it.hasChanged
    <3>1. D = <<UpdateOf(p)>>
      BY <2>1
    <3>2. IsSeq(<<UpdateOf(p)>>) /\ Range(<<UpdateOf(p)>>) = {UpdateOf(p)}
      BY SingleIs
    <3> HIDE DEF D
    <3> QED BY <2>1, <3>1, <3>2
  <2>2. CASE ~it.hasChanged
    <3>1. D = <<>>
      BY <2>2
    <3> QED BY <1>3, <2>2, <3>1
  <2> QED BY <2>1, <2>2
<1> HIDE DEF A, B, D
<1>8. IsSeq(A \o B) /\ Range(A \o B) = Range(A) \union Range(B)
  BY <1>5, <1>6, ConcatIs
<1> DEFINE E == A \o B
<1>9. IsSeq(E \o D) /\ Range(E \o D) = Range(E) \union Range(D)
  <2> HIDE DEF E
  <2> QED BY <1>7, <1>8, ConcatIs DEF E
<1>10. Range(ExistingTasks(p)) = (Range(A) \union Range(B)) \union Range(D) /\ IsSeq(ExistingTasks(p))
  BY <1>1, <1>8, <1>9
<1> HIDE DEF E
<1> QED BY <1>5, <1>6, <1>7, <1>10

\* The proposals of the form that the server knows.
Known == DOMAIN form.proposals \ NewOnes
Asks(t) ==
    \/ \E p \in Known : form.proposals[p].toDelete /\ t = DeletionOf(p)
    \/ \E p \in Known : form.proposals[p].hasChanged /\ t = UpdateOf(p)
    \/ \E p \in NewOnes : ~form.proposals[p].toDelete /\ t = CreationOf(p)

\* The chain of the proposals: it asks for each new proposal once, for each deleted and each changed one.
LEMMA ProposalTasksAre ==
  ASSUME IsForm, \A p \in DOMAIN form.proposals : form.proposals[p].order \in Int
  PROVE  /\ IsSeq(ProposalTasks)
         /\ \A t \in Range(ProposalTasks) : t = Promise \/ (IsTask(t) /\ t # Refetch)
         /\ \A t : OfProposals(t) => (t \in Range(ProposalTasks) <=> Asks(t))
         /\ Once(ProposalTasks, {CreationOf(p) : p \in NewOnes})
<1> DEFINE seqE == Ordered(Known, InOrder)   seqN == Ordered(NewOnes, InOrder)
           E == [i \in DOMAIN seqE |-> ExistingTasks(seqE[i])]
           N == [i \in DOMAIN seqN |-> CreateTask(seqN[i])]
           g == [p \in Known |-> ExistingTasks(p)]
           h == [p \in NewOnes |-> CreateTask(p)]
           C == {CreationOf(p) : p \in NewOnes}
<1>1. ProposalTasks = FlattenSeq(E) \o FlattenSeq(N)
  BY DEF ProposalTasks, Pieces, Known
<1>2. Known \in SUBSET DOMAIN form.proposals /\ NewOnes \in SUBSET DOMAIN form.proposals
  BY DEF Known, NewOnes
<1>3. /\ IsFiniteSet(DOMAIN form.proposals) /\ DOMAIN form.proposals \subseteq Nat \X Nat
      /\ \A p \in DOMAIN form.proposals : IsProposal(form.proposals[p])
  BY DEF IsForm
<1>4. IsFiniteSet(Known) /\ IsFiniteSet(NewOnes) /\ Known \subseteq Nat \X Nat /\ NewOnes \subseteq Nat \X Nat
  BY <1>2, <1>3, FS_Subset
<1>5. Lists(seqE, Known) /\ Lists(seqN, NewOnes)
  <2>1. (\A p \in Known : form.proposals[p].order \in Int) /\ (\A p \in NewOnes : form.proposals[p].order \in Int)
    BY <1>2
  <2> QED BY <1>4, <2>1, OrderedProposals
<1> HIDE DEF seqE, seqN
<1>6. (\A i \in DOMAIN seqE : seqE[i] \in Known) /\ (\A i \in DOMAIN seqN : seqN[i] \in NewOnes)
  BY <1>5, SeqIs DEF Lists
<1>7. /\ E = [i \in DOMAIN seqE |-> E[i]] /\ \A i \in DOMAIN seqE : E[i] = g[seqE[i]]
      /\ N = [i \in DOMAIN seqN |-> N[i]] /\ \A i \in DOMAIN seqN : N[i] = h[seqN[i]]
  BY <1>6
<1>8. \A p \in Known : g[p] = ExistingTasks(p) /\ IsSeq(g[p])
  BY <1>2, <1>3, ExistingIs
<1>9. \A p \in NewOnes : h[p] = CreateTask(p) /\ IsSeq(h[p])
  BY CreateIs
<1> DEFINE first == FlattenSeq(E)   second == FlattenSeq(N)
<1> HIDE DEF E, N, g, h, C
<1>10. IsSeq(first) /\ \A t : t \in Range(first) <=> \E p \in Known : t \in Range(g[p])
  BY <1>5, <1>7, <1>8, PiecesIs
<1>11. /\ IsSeq(second) /\ \A t : t \in Range(second) <=> \E p \in NewOnes : t \in Range(h[p])
       /\ (\A x, y \in NewOnes : \A a \in 1..Len(h[x]), b \in 1..Len(h[y]) :
                       h[x][a] \in C /\ h[x][a] = h[y][b] => x = y /\ a = b)
                    => Once(second, C)
  BY <1>5, <1>7, <1>9, PiecesIs
<1> HIDE DEF first, second
<1>12. /\ IsSeq(first \o second) /\ Range(first \o second) = Range(first) \union Range(second)
  BY <1>10, <1>11, ConcatIs
<1>13. Once(second, C)
  <2>1. ASSUME NEW x \in NewOnes, NEW y \in NewOnes, NEW a \in 1..Len(h[x]), NEW b \in 1..Len(h[y]),
               h[x][a] = h[y][b]
        PROVE  x = y /\ a = b
    <3>1. Len(h[x]) # 0 /\ Len(h[y]) # 0
      OBVIOUS
    <3>2. Len(h[x]) = 1 /\ Len(h[y]) = 1 /\ h[x][1] = CreationOf(x) /\ h[y][1] = CreationOf(y)
      BY <1>9, <3>1, CreateIs
    <3>3. a = 1 /\ b = 1
      BY <3>2
    <3>4. CreationOf(x).of = x /\ CreationOf(y).of = y
      BY MutationsAre
    <3>5. CreationOf(x) = CreationOf(y)
      BY <2>1, <3>2, <3>3
    <3> QED BY <3>3, <3>4, <3>5
  <2> QED BY <1>11, <2>1
<1>14. Range(first) \cap C = {}
  <2> SUFFICES ASSUME NEW p \in NewOnes, CreationOf(p) \in Range(first) PROVE FALSE
    BY DEF C
  <2>1. PICK q \in Known : CreationOf(p) \in Range(ExistingTasks(q))
    BY <1>8, <1>10
  <2>2. \/ CreationOf(p) = Promise \/ OfOthers(CreationOf(p))
        \/ CreationOf(p) = DeletionOf(q) \/ CreationOf(p) = UpdateOf(q)
    BY <1>2, <1>3, <2>1, ExistingIs
  <2> QED BY <2>2, MutationsAre, PromiseIs DEF OfOthers
<1>15. Once(first \o second, C)
  BY <1>10, <1>11, <1>13, <1>14, ConcatOnce
<1>16. ASSUME NEW p \in Known, NEW t \in Range(ExistingTasks(p))
       PROVE  t = Promise \/ (IsTask(t) /\ t # Refetch)
  <2>1. t = Promise \/ OfOthers(t) \/ t = DeletionOf(p) \/ t = UpdateOf(p)
    BY <1>2, <1>3, <1>16, ExistingIs
  <2>2. CASE t = DeletionOf(p) \/ t = UpdateOf(p)
    BY <2>2, MutationsAre, RefetchIs DEF IsTask, OfProposals
  <2>3. CASE OfOthers(t)
    BY <2>3, RefetchIs DEF IsTask, OfOthers
  <2> QED BY <2>1, <2>2, <2>3
<1>17. ASSUME NEW p \in NewOnes, NEW t \in Range(CreateTask(p))
       PROVE  ~form.proposals[p].toDelete /\ t = CreationOf(p) /\ IsTask(t) /\ t # Refetch
  <2>1. ~form.proposals[p].toDelete /\ t = CreationOf(p)
    BY <1>17, CreateIs
  <2>2. IsTask(CreationOf(p))
    BY <1>2, <1>3, CreationIs
  <2> QED BY <2>1, <2>2, MutationsAre, RefetchIs
<1>18. ASSUME NEW t, OfProposals(t) PROVE t \in Range(first \o second) <=> Asks(t)
  <2>1. ASSUME t \in Range(first) PROVE Asks(t)
    <3>1. PICK p \in Known : t \in Range(ExistingTasks(p))
      BY <1>8, <1>10, <2>1
    <3>2. t # Promise /\ ~OfOthers(t)
      BY <1>18, PromiseIs DEF OfOthers, OfProposals
    <3> QED BY <1>2, <1>3, <3>1, <3>2, ExistingIs DEF Asks
  <2>2. ASSUME t \in Range(second) PROVE Asks(t)
    <3>1. PICK p \in NewOnes : t \in Range(CreateTask(p))
      BY <1>9, <1>11, <2>2
    <3> QED BY <1>17, <3>1 DEF Asks
  <2>3. ASSUME NEW p \in Known, form.proposals[p].toDelete, t = DeletionOf(p) PROVE t \in Range(first)
    <3>1. t \in Range(ExistingTasks(p))
      BY <1>2, <1>3, <2>3, ExistingIs
    <3> QED BY <1>8, <1>10, <3>1
  <2>4. ASSUME NEW p \in Known, form.proposals[p].hasChanged, t = UpdateOf(p) PROVE t \in Range(first)
    <3>1. t \in Range(ExistingTasks(p))
      BY <1>2, <1>3, <2>4, ExistingIs
    <3> QED BY <1>8, <1>10, <3>1
  <2>5. ASSUME NEW p \in NewOnes, ~form.proposals[p].toDelete, t = CreationOf(p) PROVE t \in Range(second)
    <3>1. t \in Range(CreateTask(p))
      BY <2>5, CreateIs
    <3> QED BY <1>9, <1>11, <3>1
  <2> QED BY <1>12, <2>1, <2>2, <2>3, <2>4, <2>5 DEF Asks
<1>19. \A t \in Range(first \o second) : t = Promise \/ (IsTask(t) /\ t # Refetch)
  BY <1>8, <1>9, <1>10, <1>11, <1>12, <1>16, <1>17
<1>20. ProposalTasks = first \o second
  BY <1>1 DEF first, second
<1> QED BY <1>12, <1>15, <1>18, <1>19, <1>20 DEF C

\* The other chains of the save ask for no proposal.
LEMMA TemplatesQuiet ==
  ASSUME IsForm
  PROVE  Quiet(Chain(TemplateTasks))
<1> DEFINE seq == form.inOrder   ss == [i \in DOMAIN seq |-> SpecTask(seq[i])]
<1>1. IsSeq(seq)
  BY DEF IsForm, IsSeq
<1>2. DOMAIN seq = 1..Len(seq) /\ Len(seq) \in Nat
  BY <1>1, SeqIs
<1>3. IsSeq(ss) /\ Len(ss) = Len(seq)
  <2>1. ss = [i \in 1..Len(seq) |-> ss[i]]
    BY <1>2
  <2> HIDE DEF ss
  <2> QED BY <1>2, <2>1, IsSeqOf
<1>4. \A i \in 1..Len(ss) : ss[i] = SpecTask(seq[i]) /\ IsSeq(ss[i])
  <2>1. \A i \in 1..Len(seq) : ss[i] = SpecTask(seq[i])
    BY <1>2
  <2> HIDE DEF ss
  <2> QED BY <1>3, <2>1, SpecTaskIs
<1>5. TemplateTasks = FlattenSeq(ss)
  BY DEF TemplateTasks
<1> HIDE DEF ss, seq
<1>6. IsSeq(FlattenSeq(ss)) /\ \A t \in Range(FlattenSeq(ss)) : \E k \in 1..Len(ss) : t \in Range(ss[k])
  BY <1>3, <1>4, FlattenIs
<1>7. \A t \in Range(FlattenSeq(ss)) : OfOthers(t)
  BY <1>4, <1>6, SpecTaskIs
<1> QED BY <1>5, <1>6, <1>7, QuietChain

LEMMA DeletionsQuiet ==
  ASSUME IsForm
  PROVE  Quiet(Deletions)
<1> DEFINE deleted == {p \in DOMAIN form.proposals \ NewOnes : form.proposals[p].toDelete}
           f == [p \in deleted |-> form.proposals[p].modules]
           S == UNION {form.proposals[p].modules : p \in deleted}
           task(m) == [op |-> "deleteSpec", id |-> m]
           seq == Ordered(S, Smaller)
           ss == [i \in DOMAIN seq |-> ChainOnly(<<task(seq[i])>>)]
           g == [m \in S |-> ChainOnly(<<task(m)>>)]
<1>1. Deletions = FlattenSeq(ss)
  BY DEF Deletions, Pieces
<1>2. /\ IsFiniteSet(DOMAIN form.proposals)
      /\ \A p \in DOMAIN form.proposals :
            IsFiniteSet(form.proposals[p].modules) /\ form.proposals[p].modules \subseteq Nat \X Nat
  BY DEF IsForm, IsProposal
<1>3. deleted \in SUBSET DOMAIN form.proposals
  OBVIOUS
<1>4. IsFiniteSet(S) /\ S \subseteq Nat \X Nat
  <2>1. IsFiniteSet(deleted)
    <3> HIDE DEF deleted
    <3> QED BY <1>2, <1>3, FS_Subset
  <2>2. \A p \in deleted : f[p] = form.proposals[p].modules /\ IsFiniteSet(f[p])
    BY <1>2
  <2>3. S = UNION {f[p] : p \in deleted}
    <3> HIDE DEF deleted
    <3> QED OBVIOUS
  <2>4. S \subseteq Nat \X Nat
    BY <1>2
  <2> HIDE DEF S, f, deleted
  <2> QED BY <2>1, <2>2, <2>3, <2>4, FiniteUnion
<1> HIDE DEF S, deleted, f
<1>5. Lists(seq, S)
  BY <1>4, OrderedIds
<1> HIDE DEF seq
<1>6. \A i \in DOMAIN seq : seq[i] \in S
  BY <1>5, SeqIs DEF Lists
<1>7. ss = [i \in DOMAIN seq |-> ss[i]] /\ \A i \in DOMAIN seq : ss[i] = g[seq[i]]
  BY <1>6
<1>8. ASSUME NEW m \in S
      PROVE  /\ IsSeq(g[m])
             /\ \A ch \in Range(g[m]) :
                   /\ IsChain(ch) /\ ch.reply = <<>> /\ ch.tasks # <<Refetch>>
                   /\ \A t \in Range(ch.tasks) : ~OfProposals(t)
  <2> DEFINE tasks == <<task(m)>>   ch == [tasks |-> tasks, reply |-> <<>>]
  <2>1. IsSeq(tasks) /\ Range(tasks) = {task(m)} /\ tasks # <<>> /\ tasks[1] = task(m) /\ DOMAIN tasks = {1}
    <3> HIDE DEF task
    <3> QED BY OneIs, SingleIs
  <2>2. g[m] = <<ch>>
    <3> HIDE DEF tasks
    <3> QED BY <2>1 DEF ChainOnly, tasks
  <2>3. OfOthers(task(m))
    BY DEF OfOthers
  <2>4. IsTask(task(m)) /\ task(m) # Refetch /\ ~OfProposals(task(m))
    <3> HIDE DEF task
    <3>1. task(m).op # "createProposal"
      BY <2>3 DEF OfOthers
    <3> QED BY <2>3, <3>1, RefetchIs DEF IsTask, OfOthers, OfProposals
  <2> HIDE DEF task
  <2>5. ch.tasks = tasks /\ ch.reply = <<>> /\ ch = [tasks |-> ch.tasks, reply |-> ch.reply]
    OBVIOUS
  <2> HIDE DEF ch
  <2>6. tasks # <<Refetch>>
    BY <2>1, <2>4, SingleIs
  <2> HIDE DEF tasks
  <2>7. IsChain(ch)
    BY <2>1, <2>4, <2>5 DEF IsChain, IsSeq
  <2>8. IsSeq(g[m]) /\ Range(g[m]) = {ch}
    <3> HIDE DEF g
    <3> QED BY <2>2, SingleIs
  <2> HIDE DEF g
  <2> QED BY <2>1, <2>4, <2>5, <2>6, <2>7, <2>8
<1> DEFINE all == FlattenSeq(ss)
<1> HIDE DEF ss, g
<1>9. IsSeq(all) /\ \A ch : ch \in Range(all) <=> \E m \in S : ch \in Range(g[m])
  BY <1>5, <1>7, <1>8, PiecesIs
<1> HIDE DEF all
<1>10. \A e \in 1..Len(all) : all[e] \in Range(all)
  BY <1>9, SeqIs
<1>11. \A e \in 1..Len(all) : \E m \in S : all[e] \in Range(g[m])
  BY <1>9, <1>10
<1>12. Quiet(all)
  BY <1>8, <1>9, <1>11 DEF Quiet
<1> QED BY <1>1, <1>12 DEF all

\* What the plan becomes when the mutations that the form asks for are due.
LEMMA PlanAsked ==
  ASSUME IsForm, FormFollowsCache, InOneOrder(form.proposals, Kept),
         DOMAIN cache.proposals = Live, \A p \in Live : cache.proposals[p].order = db.proposals[p].order,
         \A t : t \in Due' <=> OfProposals(t) /\ Asks(t), UNCHANGED db
  PROVE  PlannedInOrder' /\ DueIsKnown'
<1>1. Known = Live /\ Known \in SUBSET DOMAIN db.proposals
  BY DEF Known, NewOnes, FormFollowsCache, Live
<1>2. /\ \A p \in DOMAIN form.proposals : p \in Known \/ p \in NewOnes
      /\ \A p : p \in Kept <=> p \in DOMAIN form.proposals /\ ~form.proposals[p].toDelete
      /\ \A p \in Known : p \in DOMAIN form.proposals
      /\ \A p \in NewOnes : p \in DOMAIN form.proposals /\ p \notin Known
  BY DEF Known, NewOnes, Kept
<1>3. /\ Kept # {} /\ \A p \in Kept : form.proposals[p].order \in Int
      /\ \A p, q \in Kept : form.proposals[p].order = form.proposals[q].order => p = q
  BY DEF InOneOrder
<1>4. \A t \in Due' :
         /\ t.op = "deleteProposal" => \E p \in Known : form.proposals[p].toDelete /\ t = DeletionOf(p)
         /\ t.op = "updateProposal" => \E p \in Known : form.proposals[p].hasChanged /\ t = UpdateOf(p)
         /\ t.op = "createProposal" => \E p \in NewOnes : ~form.proposals[p].toDelete /\ t = CreationOf(p)
  BY MutationsAre DEF Asks
<1>5. /\ \A p \in Known : form.proposals[p].toDelete => DeletionOf(p) \in Due'
      /\ \A p \in Known : form.proposals[p].hasChanged => UpdateOf(p) \in Due'
      /\ \A p \in NewOnes : ~form.proposals[p].toDelete => CreationOf(p) \in Due'
  BY MutationsAre DEF Asks, OfProposals
<1>6. Live' = Live
  BY DEF Live
<1>7. \A p : p \in Survivors' <=> p \in Known /\ p \in Kept
  <2> TAKE p
  <2>1. p \in Survivors' <=> p \in Known /\ DueTo("deleteProposal", p)' = {}
    BY <1>1, <1>6 DEF Survivors
  <2>2. \A t : t \in DueTo("deleteProposal", p)' <=> t \in Due' /\ t.op = "deleteProposal" /\ t.id = p
    BY DEF DueTo
  <2>3. ASSUME p \in Known, form.proposals[p].toDelete PROVE DeletionOf(p) \in DueTo("deleteProposal", p)'
    BY <1>5, <2>2, <2>3, MutationsAre
  <2>4. ASSUME NEW t \in DueTo("deleteProposal", p)' PROVE form.proposals[p].toDelete
    <3>1. PICK q \in Known : form.proposals[q].toDelete /\ t = DeletionOf(q)
      BY <1>4, <2>2
    <3>2. q = p
      BY <2>2, <3>1, MutationsAre
    <3> QED BY <3>1, <3>2
  <2> QED BY <1>2, <2>1, <2>3, <2>4
<1>8. ASSUME NEW p \in Known PROVE Planned(p)' = form.proposals[p].order
  <2> DEFINE A == DueTo("updateProposal", p)'
  <2>1. \A t : t \in A <=> t \in Due' /\ t.op = "updateProposal" /\ t.id = p
    BY DEF DueTo
  <2>2. Planned(p)' = PlanOf(db'.proposals[p].order, A)
    BY PlannedNext
  <2> HIDE DEF A
  <2>3. \A t \in A : form.proposals[p].hasChanged /\ t = UpdateOf(p)
    <3> TAKE t \in A
    <3>1. PICK q \in Known : form.proposals[q].hasChanged /\ t = UpdateOf(q)
      BY <1>4, <2>1
    <3>2. q = p
      BY <2>1, <3>1, MutationsAre
    <3> QED BY <3>1, <3>2
  <2>4. CASE form.proposals[p].hasChanged
    <3>1. UpdateOf(p) \in A
      BY <1>5, <2>1, <2>4, MutationsAre
    <3>2. A = {UpdateOf(p)}
      BY <2>3, <3>1
    <3>3. \A u : AnyOf({u}) = u
      BY DEF AnyOf
    <3>4. PlanOf(db'.proposals[p].order, A) = UpdateOf(p).order
      BY <3>2, <3>3 DEF PlanOf
    <3> QED BY <2>2, <3>4, MutationsAre
  <2>5. CASE ~form.proposals[p].hasChanged
    <3>1. A = {}
      BY <2>3, <2>5
    <3>2. form.proposals[p].order = db.proposals[p].order
      BY <1>1, <2>5 DEF FormFollowsCache
    <3> QED BY <2>2, <3>1, <3>2 DEF PlanOf
  <2> QED BY <2>4, <2>5
<1>9. \A t : t \in Creations' => \E p \in NewOnes : p \in Kept /\ t = CreationOf(p) /\ t.order = form.proposals[p].order
  BY <1>2, <1>4, MutationsAre DEF Creations
<1>10. PlannedInOrder'
  <2>1. \A t, u \in Due' : t.op = "updateProposal" /\ u.op = "updateProposal" /\ t.id = u.id => t = u
    <3> SUFFICES ASSUME NEW t \in Due', NEW u \in Due', t.op = "updateProposal", u.op = "updateProposal", t.id = u.id
                 PROVE  t = u
      OBVIOUS
    <3>1. PICK p \in Known : t = UpdateOf(p)
      BY <1>4
    <3>2. PICK q \in Known : u = UpdateOf(q)
      BY <1>4
    <3> QED BY <3>1, <3>2, MutationsAre
  <2>2. Survivors' # {} \/ Creations' # {}
    <3>1. PICK p \in Kept : TRUE
      BY <1>3
    <3>2. CASE p \in Known
      BY <1>7, <3>2
    <3>3. CASE p \in NewOnes
      <4>1. CreationOf(p) \in Due' /\ CreationOf(p).op = "createProposal"
        BY <1>2, <1>5, <3>3, MutationsAre
      <4> QED BY <4>1 DEF Creations
    <3> QED BY <1>2, <3>2, <3>3
  <2>3. \A p \in Survivors' : Planned(p)' \in Int
    BY <1>3, <1>7, <1>8
  <2>4. \A task \in Creations' : task.order \in Int
    BY <1>3, <1>9
  <2>5. \A p, q \in Survivors' : Planned(p)' = Planned(q)' => p = q
    BY <1>3, <1>7, <1>8
  <2>6. \A p \in Survivors', task \in Creations' : Planned(p)' # task.order
    <3> SUFFICES ASSUME NEW p \in Survivors', NEW t \in Creations', Planned(p)' = t.order PROVE FALSE
      OBVIOUS
    <3>1. PICK q \in NewOnes : q \in Kept /\ t.order = form.proposals[q].order
      BY <1>9
    <3>2. p \in Known /\ p \in Kept /\ form.proposals[p].order = form.proposals[q].order
      BY <1>7, <1>8, <3>1
    <3> QED BY <1>2, <1>3, <3>1, <3>2
  <2>7. \A t, u \in Creations' : t.order = u.order => t = u
    <3> SUFFICES ASSUME NEW t \in Creations', NEW u \in Creations', t.order = u.order PROVE t = u
      OBVIOUS
    <3>1. PICK p \in NewOnes : p \in Kept /\ t = CreationOf(p) /\ t.order = form.proposals[p].order
      BY <1>9
    <3>2. PICK q \in NewOnes : q \in Kept /\ u = CreationOf(q) /\ u.order = form.proposals[q].order
      BY <1>9
    <3> QED BY <1>3, <3>1, <3>2
  <2> QED BY <2>1, <2>2, <2>3, <2>4, <2>5, <2>6, <2>7 DEF PlannedInOrder
<1>11. DueIsKnown'
  <2> SUFFICES ASSUME NEW t \in Due', t.op # "createProposal" PROVE t.id \in DOMAIN db.proposals
    BY DEF DueIsKnown
  <2>1. t.op = "deleteProposal" \/ t.op = "updateProposal"
    BY DEF OfProposals
  <2>2. PICK p \in Known : t = DeletionOf(p) \/ t = UpdateOf(p)
    BY <1>4, <2>1
  <2> QED BY <1>1, <2>2, MutationsAre
<1> QED BY <1>10, <1>11

\* Before the save nothing is due.
LEMMA NothingDue ==
  ASSUME chains = <<>>
  PROVE  /\ DOMAIN chains = {} /\ IsSeq(chains) /\ Due = {} /\ Creations = {} /\ Survivors = Live
         /\ \A p : Planned(p) = db.proposals[p].order
<1>1. DOMAIN chains = {} /\ IsSeq(chains)
  BY EmptyIs
<1>2. Due = {}
  BY <1>1, DueIs
<1>3. \A op, p : DueTo(op, p) = {}
  BY <1>2 DEF DueTo
<1>4. \A p : Planned(p) = db.proposals[p].order
  BY <1>3, PlannedIs DEF PlanOf
<1> QED BY <1>1, <1>2, <1>3, <1>4 DEF Creations, Survivors

\* With no chain under way the client has what the server has, in one order, and
\* so has the form.
LEMMA Idle ==
  ASSUME OrderIInv, ~Excused, chains = <<>>
  PROVE  /\ DOMAIN cache.proposals = Live
         /\ \A p \in Live : cache.proposals[p].order = db.proposals[p].order
         /\ InOneOrder(form.proposals, Kept)
         /\ \A p \in DOMAIN form.proposals : form.proposals[p].order \in Int
         /\ Current(cache)
<1>1. IsServer /\ FormInOrder /\ PlannedInOrder /\ AnswerComes
  BY DEF OrderIInv, Shapes
<1>2. Current(cache)
  BY <1>1, NothingDue DEF AnswerComes, LastReads
<1>3. DOMAIN cache.proposals = Live /\ \A p \in Live : cache.proposals[p] = db.proposals[p]
  BY <1>1, <1>2, VisibleIs DEF Current
<1>4. InOneOrder(cache.proposals, DOMAIN cache.proposals)
  BY <1>1, <1>3, NothingDue DEF InOneOrder, PlannedInOrder
<1> QED BY <1>1, <1>2, <1>3, <1>4 DEF FormInOrder

\* A click on the button: the plan is the form, or the save is excused.
LEMMA SaveKeeps ==
  ASSUME OrderIInv, ~Excused', Save
  PROVE  OrderIInv'
<1> DEFINE pageTask == [op |-> "updatePage", text |-> form.page]
           page == IF form.pageChanged THEN Chain(<<pageTask>>) ELSE <<>>
           templates == IF form.changed THEN Chain(TemplateTasks) ELSE <<>>
           proposals == IF form.changed /\ IsValid THEN ProposalTasks ELSE <<>>
           deletions == IF form.changed /\ IsValid THEN Deletions ELSE <<>>
           pre == chains \o page \o templates \o deletions
           F == FunctionsOf(proposals)
           R == RunMutations(proposals)
<1>1. /\ chains' = pre \o R /\ UNCHANGED <<form, cache, db, asked, edits>>
      /\ Throws(proposals) => "threw" \in troubles'
      /\ chains # <<>> => "again" \in troubles'
      /\ {"again", "threw", "failed"} \cap troubles \subseteq troubles'
  BY DEF Save
<1>2. ~Throws(proposals) /\ chains = <<>> /\ ~Excused
  BY <1>1 DEF Excused
<1>3. /\ IsForm /\ IsServer /\ IsView(cache) /\ edits \in Nat
      /\ FormFollowsCache /\ FormInOrder /\ OneChain /\ DueIsKnown /\ PlannedInOrder
  BY <1>2 DEF OrderIInv, Shapes
<1>4. /\ DOMAIN cache.proposals = Live
      /\ \A p \in Live : cache.proposals[p].order = db.proposals[p].order
      /\ InOneOrder(form.proposals, Kept)
      /\ \A p \in DOMAIN form.proposals : form.proposals[p].order \in Int
      /\ Current(cache)
  BY <1>2, Idle
<1>5. Quiet(pre)
  <2>1. Quiet(page)
    <3>1. OfOthers(pageTask)
      BY DEF OfOthers
    <3>2. IsSeq(<<pageTask>>) /\ \A t \in Range(<<pageTask>>) : OfOthers(t)
      <4> HIDE DEF pageTask
      <4> QED BY <3>1, SingleIs
    <3> HIDE DEF pageTask
    <3>3. Quiet(Chain(<<pageTask>>))
      BY <3>2, QuietChain
    <3> QED BY <3>3, QuietNone
  <2>2. Quiet(templates)
    BY <1>3, TemplatesQuiet, QuietNone
  <2>3. Quiet(deletions)
    BY <1>3, DeletionsQuiet, QuietNone
  <2>4. Quiet(chains)
    BY <1>2, QuietNone
  <2> HIDE DEF page, templates, deletions
  <2>5. Quiet(chains \o page)
    BY <2>1, <2>4, QuietConcat
  <2>6. Quiet((chains \o page) \o templates)
    BY <2>2, <2>5, QuietConcat
  <2> QED BY <2>3, <2>6, QuietConcat
<1> HIDE DEF pre
<1>6. /\ IsSeq(proposals) /\ \A t \in Range(proposals) : t = Promise \/ (IsTask(t) /\ t # Refetch)
      /\ Once(proposals, {CreationOf(p) : p \in NewOnes})
      /\ form.changed /\ IsValid => \A t : OfProposals(t) => (t \in Range(proposals) <=> Asks(t))
      /\ ~(form.changed /\ IsValid) => Range(proposals) = {}
  <2>1. CASE form.changed /\ IsValid
    <3>1. proposals = ProposalTasks
      BY <2>1
    <3> HIDE DEF proposals
    <3> QED BY <1>3, <1>4, <2>1, <3>1, ProposalTasksAre
  <2>2. CASE ~(form.changed /\ IsValid)
    <3>1. proposals = <<>>
      BY <2>2
    <3> HIDE DEF proposals
    <3>2. IsSeq(proposals) /\ Range(proposals) = {} /\ Len(proposals) = 0
      BY <3>1, EmptyIs
    <3> QED BY <2>2, <3>2 DEF Once
  <2> QED BY <2>1, <2>2
<1> HIDE DEF proposals
<1>7. /\ IsSeq(F) /\ Range(F) = Range(proposals) \ {Promise}
      /\ Once(F, {CreationOf(p) : p \in NewOnes})
  <2> DEFINE C == {CreationOf(p) : p \in NewOnes}
  <2>1. Promise \notin C
    BY MutationsAre, PromiseIs
  <2> HIDE DEF C
  <2>2. Promise \notin C /\ Once(proposals, C) => Once(F, C)
    BY <1>6, FunctionsAre
  <2>3. Once(F, C)
    BY <1>6, <2>1, <2>2 DEF C
  <2> QED BY <1>6, <2>3, FunctionsAre DEF C
<1>8. R = Chain(F)
  BY <1>2 DEF RunMutations
<1> HIDE DEF F, R
<1>9. \A t \in Range(F) : IsTask(t) /\ t # Refetch
  BY <1>6, <1>7
<1>10. /\ IsSeq(R) /\ Len(R) = IF F = <<>> THEN 0 ELSE 1
       /\ \A e \in 1..Len(R) :
             /\ IsChain(R[e]) /\ R[e].tasks = Append(F, Refetch) /\ R[e].reply = <<>>
             /\ R[e].tasks # <<Refetch>>
  BY <1>7, <1>8, <1>9, ChainIs
<1>11. /\ IsSeq(Append(F, Refetch)) /\ Len(Append(F, Refetch)) = Len(F) + 1 /\ Len(F) \in Nat
       /\ Range(Append(F, Refetch)) = Range(F) \union {Refetch}
       /\ Append(F, Refetch)[Len(F) + 1] = Refetch
  BY <1>7, AppendIs
<1> DEFINE n == Len(pre)   last == n + 1
<1>12. /\ IsSeq(chains') /\ DOMAIN chains' = 1..(n + Len(R)) /\ n \in Nat /\ Len(R) \in Nat
       /\ \A e \in 1..(n + Len(R)) : chains'[e] = IF e <= n THEN pre[e] ELSE R[e - n]
  BY <1>1, <1>5, <1>10, ConcatIs DEF Quiet
<1> HIDE DEF n
<1>13. ASSUME NEW e \in DOMAIN chains'
       PROVE  \/ /\ IsChain(chains'[e]) /\ chains'[e].tasks # <<Refetch>>
                 /\ \A t \in Range(chains'[e].tasks) : ~OfProposals(t)
              \/ /\ e = last /\ F # <<>> /\ IsChain(chains'[e]) /\ chains'[e].tasks # <<Refetch>>
                 /\ chains'[e].tasks = Append(F, Refetch)
  <2>1. CASE e <= n
    <3>1. e \in 1..Len(pre) /\ chains'[e] = pre[e]
      BY <1>12, <2>1 DEF n
    <3> QED BY <1>5, <3>1 DEF Quiet
  <2>2. CASE ~(e <= n)
    <3>1. Len(R) # 0
      BY <1>12, <2>2
    <3>2. Len(R) = 1 /\ F # <<>>
      BY <1>10, <3>1
    <3>3. e = last /\ e - n = 1
      BY <1>12, <2>2, <3>2
    <3>4. chains'[e] = R[1] /\ 1 \in 1..Len(R)
      BY <1>12, <2>2, <3>2, <3>3
    <3> QED BY <1>10, <3>2, <3>3, <3>4
  <2> QED BY <2>1, <2>2
<1>14. F # <<>> => last \in DOMAIN chains' /\ chains'[last].tasks = Append(F, Refetch)
  <2> SUFFICES ASSUME F # <<>> PROVE last \in DOMAIN chains' /\ chains'[last].tasks = Append(F, Refetch)
    OBVIOUS
  <2>1. Len(R) = 1 /\ 1 \in 1..Len(R)
    BY <1>10
  <2>2. last \in DOMAIN chains' /\ chains'[last] = R[1]
    <3>1. last \in 1..(n + Len(R)) /\ ~(last <= n) /\ last - n = 1
      BY <1>12, <2>1
    <3> HIDE DEF last
    <3> QED BY <1>12, <3>1
  <2> QED BY <1>10, <2>1, <2>2
<1> HIDE DEF last
<1>15. \A t : t \in Due' <=> OfProposals(t) /\ t \in Range(F)
  <2> TAKE t
  <2>1. t \in Due' <=> OfProposals(t) /\ \E e \in DOMAIN chains' : t \in Range(chains'[e].tasks)
    BY DueNext
  <2>2. ASSUME OfProposals(t), NEW e \in DOMAIN chains', t \in Range(chains'[e].tasks) PROVE t \in Range(F)
    BY <1>11, <1>13, <2>2, RefetchIs
  <2>3. ASSUME t \in Range(F) PROVE F # <<>> /\ t \in Range(Append(F, Refetch))
    BY <1>11, <2>3, EmptyIs
  <2> QED BY <1>14, <2>1, <2>2, <2>3
<1>16. AreChains'
  <2>1. \A e \in DOMAIN chains' : IsChain(chains'[e])
    BY <1>13
  <2> QED BY <1>12, <2>1 DEF AreChains, IsSeq, IsChain, IsTask, IsCreation, OfProposals, OfOthers, IsView
<1>17. Shapes'
  <2>1. IsForm' /\ IsServer' /\ IsView(cache)' /\ (edits \in Nat)'
    BY <1>1, <1>3 DEF IsForm, IsProposal, IsServer, IsView
  <2> QED BY <1>16, <2>1 DEF Shapes, AreChains, IsSeq
<1>18. FormFollowsCache' /\ FormInOrder'
  BY <1>1, <1>3 DEF FormFollowsCache, FormInOrder, InOneOrder, Kept
<1>19. PlannedInOrder' /\ DueIsKnown'
  <2>1. CASE form.changed /\ IsValid
    <3>1. \A t : t \in Due' <=> OfProposals(t) /\ Asks(t)
      BY <1>6, <1>7, <1>15, <2>1, PromiseIs
    <3>2. UNCHANGED db
      BY <1>1
    <3> QED BY <1>3, <1>4, <3>1, <3>2, PlanAsked
  <2>2. CASE ~(form.changed /\ IsValid)
    <3>1. Due' = {}
      BY <1>6, <1>7, <1>15, <2>2
    <3>2. Due' = Due
      BY <1>2, <3>1, NothingDue
    <3> QED BY <1>1, <1>3, <3>1, <3>2, PlanKept DEF DueIsKnown
  <2> QED BY <2>1, <2>2
<1>20. OneChain'
  <2>1. ASSUME NEW c \in DOMAIN chains', NEW d \in DOMAIN chains',
               NEW t \in Range(chains'[c].tasks), NEW u \in Range(chains'[d].tasks), OfProposals(t), OfProposals(u)
        PROVE  c = d
    BY <1>13, <2>1
  <2>2. ASSUME NEW c \in DOMAIN chains', NEW i \in DOMAIN chains'[c].tasks, NEW j \in DOMAIN chains'[c].tasks,
               chains'[c].tasks[i].op = "createProposal", chains'[c].tasks[i] = chains'[c].tasks[j]
        PROVE  i = j
    <3> DEFINE s == Append(F, Refetch)   C == {CreationOf(p) : p \in NewOnes}
    <3>1. chains'[c].tasks[i] \in Range(chains'[c].tasks) /\ OfProposals(chains'[c].tasks[i])
      BY <2>2 DEF OfProposals, Range
    <3>2. chains'[c].tasks = s
      BY <1>13, <3>1
    <3>3. i \in 1..Len(s) /\ j \in 1..Len(s) /\ s[i] = s[j] /\ s[i].op = "createProposal" /\ s[i] \in Range(s)
      BY <1>11, <2>2, <3>1, <3>2, SeqIs
    <3>4. Once(s, C)
      <4>1. Refetch \notin C
        BY MutationsAre, RefetchIs
      <4> HIDE DEF C
      <4>2. Once(F, C)
        BY <1>7 DEF C
      <4> QED BY <1>7, <4>1, <4>2, AppendOnce
    <3>5. s[i] \in C
      <4> HIDE DEF s
      <4>1. OfProposals(s[i]) /\ s[i] \in Range(F)
        BY <1>11, <3>3, RefetchIs DEF OfProposals, s
      <4>2. form.changed /\ IsValid
        BY <1>6, <1>7, <4>1
      <4>3. Asks(s[i])
        BY <1>6, <1>7, <4>1, <4>2
      <4> QED BY <3>3, <4>3, MutationsAre DEF Asks
    <3> HIDE DEF s, C
    <3> QED BY <3>3, <3>4, <3>5 DEF Once
  <2> QED BY <2>1, <2>2 DEF OneChain, TasksOf, OfProposals
<1>21. AnswerComes'
  <2>1. CASE F = <<>>
    <3>1. Due' = {}
      BY <1>15, <2>1, EmptyIs
    <3>2. ~(asked' \in DOMAIN chains' /\ chains'[asked'].tasks = <<Refetch>>)
      BY <1>13
    <3>3. Current(cache)'
      BY <1>1, <1>4 DEF Current, Visible
    <3>4. LastReads'
      BY <3>1, <3>2, <3>3 DEF LastReads
    <3> QED BY <3>4 DEF AnswerComes
  <2>2. CASE F # <<>>
    <3>1. Len(F) # 0
      BY <1>7, <2>2, EmptySeq DEF IsSeq
    <3> DEFINE s == Append(F, Refetch)
    <3>2. Len(s) > 1 /\ s[Len(s)] = Refetch
      <4>1. Len(s) = Len(F) + 1 /\ Len(F) \in Nat /\ s[Len(F) + 1] = Refetch
        BY <1>11
      <4> HIDE DEF s
      <4> QED BY <3>1, <4>1
    <3>3. Due' \subseteq Range(s)
      BY <1>11, <1>15
    <3>4. chains'[last].tasks = s /\ last \in DOMAIN chains'
      BY <1>14, <2>2
    <3> HIDE DEF s
    <3>5. PICK k : k = last
      OBVIOUS
    <3>6. k \in DOMAIN chains' /\ chains'[k].tasks = s
      BY <3>4, <3>5
    <3>7. WillRead(k)'
      BY <3>2, <3>3, <3>6 DEF WillRead, TasksOf, Last
    <3> QED BY <3>6, <3>7 DEF AnswerComes
  <2> QED BY <2>1, <2>2
<1> QED BY <1>17, <1>18, <1>19, <1>20, <1>21 DEF OrderIInv

-----------------------------------------------------------------------------
(* The first state, and the theorems *)

\* The session that the page loads has its proposals in one order, and the form is filled from it.
LEMMA FirstServer ==
  ASSUME Init
  PROVE  /\ IsServer /\ Live # {} /\ \A p \in Live : db.proposals[p].order \in Int
         /\ \A p, q \in Live : db.proposals[p].order = db.proposals[q].order => p = q
<1> DEFINE H == Highest(Proposals)   P == DOMAIN db.proposals   S == DOMAIN db.specs
           first(v) == [p \in {FirstProposal(n) : n \in Proposals} |->
                          [order |-> p[2] - 1, text |-> Old, live |-> v, of |-> p]]
<1>1. /\ db = [page |-> Old, next |-> 0, specs |-> FirstSpecs, proposals |-> FirstProposals]
  BY DEF Init
<1>2. IsDb(db) /\ db.next = 0 /\ db.specs = FirstSpecs /\ db.proposals = FirstProposals
  BY <1>1 DEF IsDb
<1>3. S = {Template} \union {FirstModule(n) : n \in Proposals}
  BY <1>2 DEF FirstSpecs
<1>4. P = {FirstProposal(n) : n \in Proposals}
  BY <1>2 DEF FirstProposals
<1>5. \A v \in BOOLEAN : \A p \in {FirstProposal(n) : n \in Proposals} :
         first(v)[p].order = p[2] - 1 /\ first(v)[p].live = v /\ IsItem(first(v)[p])
  BY DEF IsItem
<1>6. first(TRUE) = FirstProposals
  BY DEF FirstProposals
<1> HIDE DEF first
<1>7. \A p \in P : db.proposals[p].order = p[2] - 1 /\ db.proposals[p].live = TRUE /\ IsItem(db.proposals[p])
  <2>1. db.proposals = first(TRUE)
    BY <1>2, <1>6
  <2> HIDE DEF P
  <2> QED BY <1>4, <1>5, <2>1
<1>8. \A n \in Proposals : n \in Nat /\ n <= H /\ n # 0 /\ n # 1
  BY HighestProposal, ProposalsAssumption
<1>9. H \in Nat
  BY HighestProposal
<1> HIDE DEF H, P, S
<1>10. IsFiniteSet(P) /\ IsFiniteSet({FirstModule(n) : n \in Proposals})
  <2> DEFINE f == [n \in Proposals |-> FirstProposal(n)]   g == [n \in Proposals |-> FirstModule(n)]
             M == {FirstModule(n) : n \in Proposals}
  <2>1. f \in Surjection(Proposals, P)
    BY <1>4 DEF Surjection
  <2>2. g \in Surjection(Proposals, M)
    BY DEF Surjection
  <2> HIDE DEF f, g, M
  <2>3. IsFiniteSet(P) /\ IsFiniteSet(M)
    BY <2>1, <2>2, FS_Surjection, ProposalsAssumption
  <2> QED BY <2>3 DEF M
<1>11. IsFiniteSet(S) /\ S \subseteq Nat \X Nat
  <2> DEFINE M == {FirstModule(n) : n \in Proposals}
  <2>1. M \subseteq Nat \X Nat /\ Template \in Nat \X Nat
    BY <1>8, <1>9 DEF FirstModule, Template, H
  <2>2. IsFiniteSet(M)
    BY <1>10
  <2> HIDE DEF M
  <2>3. IsFiniteSet(M \union {Template})
    BY <2>2, FS_AddElement
  <2>4. S = M \union {Template}
    BY <1>3 DEF M
  <2> QED BY <2>1, <2>3, <2>4
<1>12. P \subseteq ServerIds(0)
  BY <1>4, <1>8, <1>9 DEF FirstProposal, ServerIds, H
<1>13. IsServer
  <2>1. 0 \in Nat
    OBVIOUS
  <2> QED BY <1>2, <1>7, <1>10, <1>11, <1>12, <2>1, ServerIs DEF P, S
<1>14. Live = P
  BY <1>7 DEF Live, P
<1>15. \A p \in P : \E n \in Proposals : p = <<0, n>> /\ p[2] = n /\ db.proposals[p].order = n - 1
  BY <1>4, <1>7 DEF FirstProposal
<1>16. P # {}
  BY <1>4, ProposalsAssumption
<1>17. \A p, q \in P : db.proposals[p].order = db.proposals[q].order => p = q
  BY <1>8, <1>15
<1>18. \A p \in P : db.proposals[p].order \in Int
  BY <1>8, <1>15
<1> QED BY <1>13, <1>14, <1>16, <1>17, <1>18

LEMMA InitKeeps ==
  ASSUME Init
  PROVE  OrderIInv
<1>1. /\ cache = Visible(db) /\ form = Fill(cache, [modules |-> <<>>, proposals |-> <<>>])
      /\ chains = <<>> /\ asked = 0 /\ edits = 0
  BY DEF Init
<1>2. /\ IsServer /\ Live # {} /\ \A p \in Live : db.proposals[p].order \in Int
      /\ \A p, q \in Live : db.proposals[p].order = db.proposals[q].order => p = q
  BY FirstServer
<1>3. /\ IsView(cache) /\ DOMAIN cache.proposals = Live /\ Current(cache)
      /\ \A p \in Live : cache.proposals[p] = db.proposals[p]
  BY <1>1, <1>2, VisibleIs DEF Current
<1>4. /\ form = [page |-> form.page, pageChanged |-> form.pageChanged, inOrder |-> form.inOrder,
                 modules |-> form.modules, proposals |-> form.proposals, changed |-> form.changed]
      /\ form.inOrder \in Seq(Range(form.inOrder))
      /\ DOMAIN form.proposals = DOMAIN cache.proposals
      /\ \A p \in DOMAIN cache.proposals :
            /\ IsProposal(form.proposals[p])
            /\ ~form.proposals[p].isNew /\ ~form.proposals[p].toDelete
            /\ form.proposals[p].order = cache.proposals[p].order
  BY <1>1, <1>3, FillIs
<1>5. IsForm
  BY <1>3, <1>4 DEF IsForm, IsView
<1>6. /\ DOMAIN chains = {} /\ IsSeq(chains) /\ Due = {} /\ Creations = {} /\ Survivors = Live
      /\ \A p : Planned(p) = db.proposals[p].order
  BY <1>1, NothingDue
<1>7. Shapes
  <2>1. edits \in Nat
    BY <1>1
  <2> QED BY <1>2, <1>3, <1>5, <1>6, <2>1 DEF Shapes, IsSeq
<1>8. FormFollowsCache
  BY <1>4 DEF FormFollowsCache
<1>9. FormInOrder
  <2>1. Kept = DOMAIN cache.proposals
    BY <1>4 DEF Kept
  <2> QED BY <1>4, <2>1 DEF FormInOrder, InOneOrder
<1>10. OneChain /\ DueIsKnown
  BY <1>6 DEF OneChain, DueIsKnown
<1>11. PlannedInOrder
  BY <1>2, <1>6 DEF PlannedInOrder
<1>12. AnswerComes
  BY <1>3, <1>6 DEF AnswerComes, LastReads
<1> QED BY <1>7, <1>8, <1>9, <1>10, <1>11, <1>12 DEF OrderIInv

\* Once it is excused, a behaviour stays so: nothing is left to show.
LEMMA StutterKeeps ==
  ASSUME OrderIInv, UNCHANGED vars
  PROVE  OrderIInv'
<1>1. UNCHANGED <<form, cache, db, chains, asked, troubles, edits>>
  BY DEF vars
<1>2. CASE Excused'
  BY <1>2 DEF OrderIInv
<1>3. CASE ~Excused'
  <2>1. ~Excused
    BY <1>1, <1>3 DEF Excused
  <2>2. /\ IsForm /\ IsServer /\ IsView(cache) /\ edits \in Nat /\ AreChains
        /\ FormFollowsCache /\ FormInOrder /\ OneChain /\ DueIsKnown /\ PlannedInOrder /\ AnswerComes
    BY <2>1 DEF OrderIInv, Shapes, AreChains, IsSeq
  <2>3. IsForm' /\ IsServer' /\ IsView(cache)' /\ (edits \in Nat)'
    BY <1>1, <2>2 DEF IsForm, IsProposal, IsServer, IsView
  <2>4. AreChains'
    BY <1>1, <2>2 DEF AreChains, IsSeq, IsChain, IsTask, IsCreation, OfProposals, OfOthers, IsView
  <2>5. Shapes'
    BY <2>3, <2>4 DEF Shapes, AreChains, IsSeq
  <2>6. FormFollowsCache' /\ FormInOrder'
    BY <1>1, <2>2 DEF FormFollowsCache, FormInOrder, InOneOrder, Kept
  <2>7. Due' = Due /\ (\A c \in DOMAIN chains : TasksOf(c)' = TasksOf(c))
    BY <1>1 DEF Due, TasksOf, OfProposals
  <2>8. OneChain' /\ DueIsKnown'
    BY <1>1, <2>2, <2>7 DEF OneChain, DueIsKnown, OfProposals
  <2>9. PlannedInOrder'
    BY <1>1, <2>2, <2>7, PlanKept
  <2>10. AnswerComes'
    BY <1>1, <2>2, <2>7 DEF AnswerComes, LastReads, WillRead, Current, Visible
  <2> QED BY <2>5, <2>6, <2>8, <2>9, <2>10 DEF OrderIInv
<1> QED BY <1>2, <1>3

\* Every step keeps the invariant.
LEMMA NextKeeps ==
  ASSUME OrderIInv, [Next]_vars
  PROVE  OrderIInv'
<1>1. CASE Excused'
  BY <1>1 DEF OrderIInv
<1>2. CASE ~Excused'
  <2>1. CASE EditForm
    BY <1>2, <2>1, EditFormKeeps
  <2>2. CASE Save
    BY <1>2, <2>2, SaveKeeps
  <2>3. CASE Serve
    <3>1. PICK c \in DOMAIN chains : Mutate(c) \/ Reject(c) \/ Read(c) \/ Receive(c)
      BY <2>3 DEF Serve
    <3> QED BY <1>2, <3>1, MutateKeeps, RejectKeeps, ReadKeeps, ReceiveKeeps
  <2>4. CASE UNCHANGED vars
    BY <2>4, StutterKeeps
  <2> QED BY <2>1, <2>2, <2>3, <2>4 DEF Next
<1> QED BY <1>1, <1>2

(***************************************************************************)
(* The inductive invariant: the mutations of proposals that are under way, *)
(* run to their end, leave the server with the proposals in one order, the *)
(* client hears of it, and the form follows what the client heard          *)
(* (saveAction, runSerial, the refetch of every chain), whatever the       *)
(* administrator changes meanwhile, until a save is excused.               *)
(***************************************************************************)
THEOREM OrderInvariant == Spec => []OrderIInv
<1>1. Init => OrderIInv
  BY InitKeeps
<1>2. OrderIInv /\ [Next]_vars => OrderIInv'
  BY NextKeeps
<1> QED BY <1>1, <1>2, PTL DEF Spec

(***************************************************************************)
(* Two proposals that are kept never have the same order in a form that no *)
(* mutation is under way for (CREATE_VOTE_PROPOSAL, moveItemUp): however   *)
(* many proposals there are, in whatever order they were made, moved,      *)
(* deleted and saved.                                                      *)
(***************************************************************************)
THEOREM OrdersStayDistinct == Spec => []OrdersDistinct
<1>1. OrderIInv => OrdersDistinct
  <2> SUFFICES ASSUME OrderIInv, Only({"edited", "refused"})
               PROVE  \A p, q \in Kept : form.proposals[p].order = form.proposals[q].order => p = q
    BY DEF OrdersDistinct
  <2>1. chains = <<>> /\ ~Excused
    BY DEF Only, Excused
  <2>2. InOneOrder(form.proposals, Kept)
    BY <2>1, Idle
  <2> QED BY <2>2 DEF InOneOrder
<1> QED BY <1>1, OrderInvariant, PTL
====
