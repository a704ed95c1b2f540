--------------------------- MODULE SseParserProofs ---------------------------
(* Theorems about SseParser, for every set of blocks, streams of any       *)
(* length, and bytes cut into chunks in any way.                           *)
EXTENDS SseParser, Integers, SequenceTheorems, WellFoundedInduction, TLAPS

-----------------------------------------------------------------------------
(* Sequences that are put together from others.                            *)

\* What holds of 0 and of the next of each holds of every number.  The library
\* has this for a formula; here it is for a set.
LEMMA SetInduction ==
  ASSUME NEW S, 0 \in S, \A n \in Nat : n \in S => n + 1 \in S
  PROVE  Nat \subseteq S
<1> SUFFICES ASSUME Nat \ S # {} PROVE FALSE
  OBVIOUS
<1> DEFINE R == {ss \in Nat \X Nat : ss[1] < ss[2]}
<1>1. R = OpToRel(<, Nat)
  BY Zenon DEF OpToRel
<1>2. IsWellFoundedOn(R, Nat)
  BY <1>1, NatLessThanWellFounded, Zenon
<1>3. PICK x \in Nat \ S : \A y \in Nat \ S : ~ (<<y, x>> \in R)
  <2> HIDE DEF R
  <2> QED
    BY <1>2, WFMin, Zenon
<1>4. x # 0 /\ x - 1 \in Nat
  OBVIOUS
<1>5. x - 1 \in S
  <2>1. <<x - 1, x>> \in R
    BY <1>4
  <2> HIDE DEF R
  <2> QED
    BY <1>3, <1>4, <2>1
<1> QED
  BY <1>4, <1>5

Cat(s, t) == s \o t

\* flat[i] is the first i items of ss, put together.
FlatUpTo(ss, n, flat) ==
  flat = [i \in 1..n |-> IF i = 1 THEN ss[i] ELSE Cat(flat[i - 1], ss[i])]

\* What FlatUpTo says of one position.
LEMMA FlatAt ==
  ASSUME NEW ss, NEW n, NEW flat, FlatUpTo(ss, n, flat), NEW i \in 1..n
  PROVE  flat[i] = IF i = 1 THEN ss[i] ELSE Cat(flat[i - 1], ss[i])
BY DEF FlatUpTo

\* Such a function exists for every length.
LEMMA FlatExists ==
  ASSUME NEW ss, NEW n \in Nat
  PROVE  \E flat : FlatUpTo(ss, n, flat)
<1> DEFINE S == {m \in Nat : \E flat : FlatUpTo(ss, m, flat)}
<1>1. 0 \in S
  <2>1. FlatUpTo(ss, 0, [i \in 1..0 |-> i])
    BY DEF FlatUpTo
  <2> QED
    BY <2>1
<1>2. ASSUME NEW m \in Nat, m \in S
      PROVE  m + 1 \in S
  <2>1. PICK g : FlatUpTo(ss, m, g)
    BY <1>2
  <2> DEFINE h == [i \in 1..(m+1) |->
                     IF i = m + 1 THEN (IF i = 1 THEN ss[i] ELSE Cat(g[m], ss[i])) ELSE g[i]]
  <2>2. FlatUpTo(ss, m + 1, h)
    BY <2>1 DEF FlatUpTo
  <2> QED
    BY <2>2
<1> HIDE DEF S
<1>3. Nat \subseteq S
  BY <1>1, <1>2, SetInduction
<1> QED
  BY <1>3 DEF S

\* It depends on no later items.
LEMMA FlatSame ==
  ASSUME NEW ss, NEW tt, NEW n \in Nat, NEW m \in Nat, n <= m, \A i \in 1..n : ss[i] = tt[i],
         NEW g, FlatUpTo(ss, n, g), NEW h, FlatUpTo(tt, m, h)
  PROVE  \A i \in 1..n : g[i] = h[i]
<1> DEFINE S == {k \in Nat : k \in 1..n => g[k] = h[k]}
<1>1. 0 \in S
  OBVIOUS
<1>2. ASSUME NEW k \in Nat, k \in S
      PROVE  k + 1 \in S
  <2> SUFFICES ASSUME k + 1 \in 1..n PROVE g[k + 1] = h[k + 1]
    OBVIOUS
  <2>1. g[k + 1] = IF k + 1 = 1 THEN ss[k + 1] ELSE Cat(g[k], ss[k + 1])
    BY DEF FlatUpTo
  <2>2. h[k + 1] = IF k + 1 = 1 THEN tt[k + 1] ELSE Cat(h[k], tt[k + 1])
    BY DEF FlatUpTo
  <2> QED
    BY <1>2, <2>1, <2>2
<1> HIDE DEF S
<1>3. Nat \subseteq S
  BY <1>1, <1>2, SetInduction
<1> QED
  BY <1>3 DEF S

\* FlattenSeq is the last value of such a function.
LEMMA FlattenIs ==
  ASSUME NEW ss, NEW n \in Nat, Len(ss) = n, n # 0, NEW g, FlatUpTo(ss, n, g)
  PROVE  FlattenSeq(ss) = g[n]
<1> DEFINE f == CHOOSE h : FlatUpTo(ss, n, h)
<1>1. FlatUpTo(ss, n, f)
  BY FlatExists
<1>2. FlattenSeq(ss) = f[n]
  BY DEF FlattenSeq, FlatUpTo, Cat
<1> HIDE DEF f
<1>3. n \in 1..n /\ n <= n /\ \A i \in 1..n : ss[i] = ss[i]
  OBVIOUS
<1>4. \A i \in 1..n : f[i] = g[i]
  BY <1>1, <1>3, FlatSame
<1> QED
  BY <1>2, <1>3, <1>4

\* Nothing put together is nothing.
LEMMA FlattenEmpty ==
  ASSUME NEW ss, Len(ss) = 0
  PROVE  FlattenSeq(ss) = ss
BY DEF FlattenSeq

\* Sequences of T put together are a sequence of T.
LEMMA FlattenType ==
  ASSUME NEW T, NEW ss \in Seq(Seq(T))
  PROVE  FlattenSeq(ss) \in Seq(T)
<1> DEFINE n == Len(ss)
<1>1. CASE n = 0
  BY <1>1, FlattenEmpty, EmptySeq
<1>2. CASE n # 0
  <2>1. n \in Nat /\ n \in 1..n /\ \A i \in 1..n : ss[i] \in Seq(T)
    BY <1>2
  <2>2. PICK g : FlatUpTo(ss, n, g)
    BY <2>1, FlatExists
  <2>3. FlattenSeq(ss) = g[n]
    BY <1>2, <2>1, <2>2, FlattenIs
  <2> HIDE DEF n
  <2> DEFINE S == {k \in Nat : k \in 1..n => g[k] \in Seq(T)}
  <2>4. 0 \in S
    BY <2>1
  <2>5. ASSUME NEW k \in Nat, k \in S
        PROVE  k + 1 \in S
    <3> SUFFICES ASSUME k + 1 \in 1..n PROVE g[k + 1] \in Seq(T)
      OBVIOUS
    <3>1. g[k + 1] = IF k = 0 THEN ss[k + 1] ELSE Cat(g[k], ss[k + 1])
      <4>1. k + 1 - 1 = k /\ (k + 1 = 1 <=> k = 0)
        OBVIOUS
      <4> QED
        BY <2>2, <4>1, FlatAt
    <3>2. k # 0 => g[k] \in Seq(T)
      BY <2>1, <2>5
    <3> QED
      BY <2>1, <3>1, <3>2, ConcatProperties DEF Cat
  <2> HIDE DEF S
  <2>6. Nat \subseteq S
    BY <2>4, <2>5, SetInduction
  <2> QED
    BY <2>1, <2>3, <2>6 DEF S
<1> QED
  BY <1>1, <1>2

\* One item more is put behind the others.
LEMMA FlattenAppend ==
  ASSUME NEW T, NEW ss \in Seq(Seq(T)), NEW s \in Seq(T)
  PROVE  FlattenSeq(Append(ss, s)) = FlattenSeq(ss) \o s
<1> DEFINE n == Len(ss)
           tt == Append(ss, s)
<1>1. /\ Len(tt) = n + 1 /\ n \in Nat /\ tt[n + 1] = s /\ \A i \in 1..n : ss[i] = tt[i]
      /\ n + 1 \in Nat /\ n + 1 # 0 /\ n + 1 \in 1..(n + 1) /\ n + 1 - 1 = n /\ n <= n + 1
  OBVIOUS
<1>2. n = 0 => FlattenSeq(ss) = << >>
  BY FlattenEmpty, EmptySeq
<1>3. n = Len(ss)
  OBVIOUS
<1> HIDE DEF n, tt
<1>4. PICK g : FlatUpTo(tt, n + 1, g)
  BY FlatExists, <1>1
<1>5. FlattenSeq(tt) = g[n + 1]
  BY <1>1, <1>4, FlattenIs
<1>6. g[n + 1] = IF n + 1 = 1 THEN tt[n + 1] ELSE Cat(g[n + 1 - 1], tt[n + 1])
  BY <1>1, <1>4, FlatAt
<1>7. CASE n = 0
  BY <1>1, <1>2, <1>5, <1>6, <1>7, ConcatEmptySeq DEF tt
<1>8. CASE n # 0
  <2>1. PICK h : FlatUpTo(ss, n, h)
    BY FlatExists, <1>1
  <2>2. FlattenSeq(ss) = h[n]
    BY <1>1, <1>3, <1>8, <2>1, FlattenIs
  <2>3. \A i \in 1..n : h[i] = g[i]
    <3> DEFINE m == n + 1
    <3>1. n \in Nat /\ m \in Nat /\ n <= m /\ FlatUpTo(tt, m, g)
      BY <1>1, <1>4
    <3>2. \A i \in 1..n : ss[i] = tt[i]
      BY <1>1
    <3> HIDE DEF m
    <3> QED
      BY <2>1, <3>1, <3>2, FlatSame
  <2>4. n \in 1..n /\ n + 1 # 1
    BY <1>1, <1>8
  <2> QED
    BY <1>1, <1>5, <1>6, <2>2, <2>3, <2>4 DEF Cat, tt
<1> QED
  BY <1>7, <1>8

\* What is behind the first n items.
LEMMA Behind ==
  ASSUME NEW T, NEW s \in Seq(T), NEW n \in 0..Len(s)
  PROVE  /\ SubSeq(s, n + 1, Len(s)) \in Seq(T)
         /\ Len(SubSeq(s, n + 1, Len(s))) = Len(s) - n
         /\ \A i \in 1..(Len(s) - n) : SubSeq(s, n + 1, Len(s))[i] = s[n + i]
<1> DEFINE l == n + 1
           m == Len(s)
           t == SubSeq(s, l, m)
<1>1. m \in Nat /\ l \in Nat /\ m - l + 1 = m - n /\ (l <= m <=> m - n # 0)
      /\ (\A i \in 1..(m - n) : l + i - 1 = n + i) /\ m - n \in Nat
  OBVIOUS
<1>2. \A i \in l..m : s[i] \in T
  <2> SUFFICES ASSUME NEW i \in l..m PROVE s[i] \in T
    OBVIOUS
  <2>1. i \in 1..m
    OBVIOUS
  <2> QED
    BY <2>1
<1> HIDE DEF l, m
<1>3. /\ t \in Seq(T) /\ Len(t) = IF l <= m THEN m - l + 1 ELSE 0
      /\ \A i \in 1..(m - l + 1) : t[i] = s[l + i - 1]
  BY <1>1, <1>2, SubSeqProperties
<1> HIDE DEF t
<1> QED
  BY <1>1, <1>3 DEF t, l, m

-----------------------------------------------------------------------------
(* What a sequence of blocks comes to.                                     *)

\* The first k blocks.
Start(blocks, k) == SubSeq(blocks, 1, k)

\* No blocks come to nothing.
LEMMA LaidNothing ==
  ASSUME NEW of, NEW blocks, blocks = << >>
  PROVE  Laid(of, blocks) = << >>
<1> DEFINE ss == [i \in DOMAIN blocks |-> of[blocks[i]]]
<1>1. Len(ss) = 0 /\ ss = << >>
  OBVIOUS
<1> QED
  BY <1>1, FlattenEmpty DEF Laid

\* One block more.
LEMMA LaidAppend ==
  ASSUME NEW K, NEW T, NEW of, \A x \in K : of[x] \in Seq(T), NEW blocks \in Seq(K), NEW b \in K
  PROVE  /\ Laid(of, blocks) \in Seq(T)
         /\ Laid(of, Append(blocks, b)) = Laid(of, blocks) \o of[b]
<1> DEFINE ss == [i \in DOMAIN blocks |-> of[blocks[i]]]
           more == Append(blocks, b)
           tt == [i \in DOMAIN more |-> of[more[i]]]
<1>1. ss \in Seq(Seq(T)) /\ of[b] \in Seq(T)
  OBVIOUS
<1>2. tt = Append(ss, of[b])
  <2>1. tt \in Seq(Seq(T)) /\ Append(ss, of[b]) \in Seq(Seq(T))
    <3>1. more \in Seq(K)
      OBVIOUS
    <3>2. Append(ss, of[b]) \in Seq(Seq(T))
      <4> HIDE DEF ss
      <4> QED
        BY <1>1, AppendProperties
    <3> HIDE DEF more
    <3>3. DOMAIN more = 1..Len(more) /\ Len(more) \in Nat
          /\ \A i \in 1..Len(more) : of[more[i]] \in Seq(T)
      BY <3>1
    <3>4. tt \in [1..Len(more) -> Seq(T)]
      BY <3>3
    <3>5. tt \in Seq(Seq(T))
      BY <3>3, <3>4, SeqDef
    <3> QED
      BY <3>2, <3>5
  <2>2. Len(tt) = Len(blocks) + 1 /\ Len(Append(ss, of[b])) = Len(blocks) + 1
    OBVIOUS
  <2>3. ASSUME NEW i \in 1..(Len(blocks) + 1)
        PROVE  tt[i] = Append(ss, of[b])[i]
    OBVIOUS
  <2> QED
    BY <2>1, <2>2, <2>3, SeqEqual
<1>3. Laid(of, blocks) = FlattenSeq(ss) /\ Laid(of, Append(blocks, b)) = FlattenSeq(tt)
  BY DEF Laid
<1> HIDE DEF ss, tt
<1> QED
  BY <1>1, <1>2, <1>3, FlattenType, FlattenAppend

\* The same of the first blocks of a sequence.
LEMMA LaidStep ==
  ASSUME NEW K, NEW T, NEW of, \A x \in K : of[x] \in Seq(T), NEW blocks \in Seq(K),
         NEW k \in 0..(Len(blocks) - 1)
  PROVE  /\ Laid(of, Start(blocks, k)) \in Seq(T)
         /\ Laid(of, Start(blocks, k + 1)) \in Seq(T)
         /\ of[blocks[k + 1]] \in Seq(T)
         /\ Laid(of, Start(blocks, k + 1)) = Laid(of, Start(blocks, k)) \o of[blocks[k + 1]]
<1>1. Start(blocks, k) \in Seq(K) /\ blocks[k + 1] \in K /\ Start(blocks, k + 1) \in Seq(K)
  BY DEF Start
<1>2. Start(blocks, k + 1) = Append(Start(blocks, k), blocks[k + 1])
  BY DEF Start
<1> DEFINE start == Start(blocks, k)
           b == blocks[k + 1]
<1>3. start \in Seq(K) /\ b \in K /\ of[b] \in Seq(T)
  BY <1>1
<1>4. Start(blocks, k + 1) = Append(start, b)
  BY <1>2
<1> HIDE DEF start, b
<1>5. Laid(of, start) \in Seq(T) /\ Laid(of, Append(start, b)) = Laid(of, start) \o of[b]
  BY <1>3, LaidAppend
<1>6. Laid(of, start) \o of[b] \in Seq(T)
  BY <1>3, <1>5, ConcatProperties
<1> QED
  BY <1>3, <1>4, <1>5, <1>6 DEF start, b

\* t begins with s.
Extends(t, s) == Len(s) <= Len(t) /\ \A i \in 1..Len(s) : t[i] = s[i]

\* What is put behind a sequence leaves it as it is.
LEMMA ConcatExtends ==
  ASSUME NEW T, NEW s \in Seq(T), NEW t \in Seq(T)
  PROVE  /\ s \o t \in Seq(T) /\ Len(s \o t) = Len(s) + Len(t)
         /\ Extends(s \o t, s)
         /\ \A j \in 1..Len(t) : (s \o t)[Len(s) + j] = t[j]
<1>1. /\ s \o t \in Seq(T) /\ Len(s \o t) = Len(s) + Len(t)
      /\ \A i \in 1..(Len(s) + Len(t)) :
           (s \o t)[i] = IF i <= Len(s) THEN s[i] ELSE t[i - Len(s)]
  BY ConcatProperties
<1> DEFINE st == s \o t
<1>2. Len(s) \in Nat /\ Len(t) \in Nat
  OBVIOUS
<1> HIDE DEF st
<1>3. \A i \in 1..Len(s) : st[i] = s[i]
  BY <1>1, <1>2 DEF st
<1>4. ASSUME NEW j \in 1..Len(t)
      PROVE  st[Len(s) + j] = t[j]
  <2>1. Len(s) + j \in 1..(Len(s) + Len(t)) /\ ~(Len(s) + j <= Len(s)) /\ Len(s) + j - Len(s) = j
    BY <1>2
  <2> QED
    BY <1>1, <2>1 DEF st
<1> QED
  BY <1>1, <1>2, <1>3, <1>4 DEF st, Extends

\* What the first blocks come to, the others follow.
LEMMA LaidGrows ==
  ASSUME NEW K, NEW T, NEW of, \A x \in K : of[x] \in Seq(T), NEW blocks \in Seq(K),
         NEW k \in 0..Len(blocks), NEW m \in k..Len(blocks)
  PROVE  /\ Laid(of, Start(blocks, k)) \in Seq(T)
         /\ Extends(Laid(of, Start(blocks, m)), Laid(of, Start(blocks, k)))
<1> DEFINE L(n) == Laid(of, Start(blocks, n))
           S == {j \in Nat : k + j <= Len(blocks) => L(k + j) \in Seq(T) /\ Extends(L(k + j), L(k))}
           N == Len(blocks)
<1>1. N \in Nat /\ k \in Nat /\ m \in Nat /\ m <= N /\ k <= m /\ k + 0 = k
  OBVIOUS
<1>2. \A n \in 0..(N - 1) : /\ L(n) \in Seq(T) /\ L(n + 1) \in Seq(T)
                            /\ L(n + 1) = L(n) \o of[blocks[n + 1]]
                            /\ of[blocks[n + 1]] \in Seq(T)
  BY LaidStep
<1>3. L(0) \in Seq(T)
  <2>1. Start(blocks, 0) = << >>
    BY DEF Start
  <2> QED
    BY <2>1, LaidNothing, EmptySeq
<1> HIDE DEF L, N
<1>4. L(k) \in Seq(T)
  <2>1. CASE k = 0
    BY <1>3, <2>1
  <2>2. CASE k # 0
    <3>1. k - 1 \in 0..(N - 1) /\ k - 1 + 1 = k
      BY <1>1, <2>2
    <3> QED
      BY <1>2, <3>1
  <2> QED
    BY <2>1, <2>2
<1>5. 0 \in S
  BY <1>1, <1>4 DEF Extends
<1>6. ASSUME NEW j \in Nat, j \in S
      PROVE  j + 1 \in S
  <2> SUFFICES ASSUME k + (j + 1) <= N
               PROVE  L(k + (j + 1)) \in Seq(T) /\ Extends(L(k + (j + 1)), L(k))
    BY DEF N
  <2> DEFINE n == k + j
  <2>1. n \in 0..(N - 1) /\ k + (j + 1) = n + 1 /\ k + j <= N /\ n = k + j
    BY <1>1
  <2> HIDE DEF n
  <2>2. L(n) \in Seq(T) /\ Extends(L(n), L(k))
    BY <1>6, <2>1 DEF N
  <2> DEFINE w == of[blocks[n + 1]]
  <2>3. /\ L(n + 1) \in Seq(T) /\ w \in Seq(T) /\ L(n + 1) = L(n) \o w
    BY <1>2, <2>1
  <2> HIDE DEF w
  <2>4. Extends(L(n + 1), L(n))
    <3> DEFINE p == L(n)
    <3>1. p \in Seq(T) /\ w \in Seq(T) /\ L(n + 1) = p \o w
      BY <2>2, <2>3
    <3> HIDE DEF p
    <3>2. Extends(p \o w, p)
      BY <3>1, ConcatExtends
    <3> QED
      BY <3>1, <3>2 DEF p
  <2>5. Len(L(k)) \in Nat /\ Len(L(n)) \in Nat /\ Len(L(n + 1)) \in Nat
    BY <1>4, <2>2, <2>3
  <2>6. Extends(L(n + 1), L(k))
    BY <2>2, <2>4, <2>5 DEF Extends
  <2> QED
    BY <2>1, <2>3, <2>6
<1> HIDE DEF S
<1>7. m - k \in S
  <2>1. m - k \in Nat
    BY <1>1
  <2> QED
    BY <1>5, <1>6, <2>1, SetInduction
<1> QED
  <2>1. k + (m - k) = m
    BY <1>1
  <2> QED
    BY <1>1, <1>4, <1>7, <2>1 DEF S, L, N

\* Where each block is.
LEMMA LaidAt ==
  ASSUME NEW K, NEW T, NEW of, \A x \in K : of[x] \in Seq(T), NEW blocks \in Seq(K),
         NEW k \in 0..(Len(blocks) - 1)
  PROVE  LET before == Len(Laid(of, Start(blocks, k)))
             w == of[blocks[k + 1]]
         IN  /\ before \in Nat /\ w \in Seq(T)
             /\ Len(Laid(of, Start(blocks, k + 1))) = before + Len(w)
             /\ before + Len(w) <= Len(Laid(of, blocks))
             /\ \A j \in 1..Len(w) : Laid(of, blocks)[before + j] = w[j]
<1> DEFINE N == Len(blocks)
           w == of[blocks[k + 1]]
           s == Laid(of, Start(blocks, k))
           t == Laid(of, Start(blocks, k + 1))
           all == Laid(of, blocks)
<1>1. s \in Seq(T) /\ t \in Seq(T) /\ t = s \o w /\ w \in Seq(T)
  <2>1. \A n \in 0..(N - 1) :
          /\ Laid(of, Start(blocks, n)) \in Seq(T)
          /\ Laid(of, Start(blocks, n + 1)) \in Seq(T)
          /\ of[blocks[n + 1]] \in Seq(T)
          /\ Laid(of, Start(blocks, n + 1)) = Laid(of, Start(blocks, n)) \o of[blocks[n + 1]]
    BY LaidStep
  <2> QED
    BY <2>1
<1>2. Extends(all, t)
  <2>1. Start(blocks, N) = blocks
    BY DEF Start
  <2>2. k + 1 \in 0..N /\ N \in (k + 1)..N
    OBVIOUS
  <2> HIDE DEF N
  <2> QED
    BY <2>1, <2>2, LaidGrows DEF N
<1> HIDE DEF s, t, w, all
<1>3. Len(t) = Len(s) + Len(w) /\ \A j \in 1..Len(w) : t[Len(s) + j] = w[j]
  BY <1>1, ConcatExtends
<1>4. Len(s) \in Nat /\ Len(w) \in Nat
  BY <1>1
<1>5. \A j \in 1..Len(w) : all[Len(s) + j] = w[j]
  <2> SUFFICES ASSUME NEW j \in 1..Len(w) PROVE all[Len(s) + j] = w[j]
    OBVIOUS
  <2>1. Len(s) + j \in 1..Len(t)
    BY <1>3, <1>4
  <2> QED
    BY <1>2, <1>3, <2>1 DEF Extends
<1> QED
  BY <1>1, <1>2, <1>3, <1>4, <1>5 DEF s, t, w, all, Extends

-----------------------------------------------------------------------------
(* Blocks.                                                                 *)

\* What a block is written with.
Pieces == {"data", "id", "colon", "NL", "x", "y", "junk", "hi", "lo",
           "started", "queued", "delivered"}

\* A block begins with text and ends with its only blank line.
WellFormed(w) ==
  /\ w \in Seq(Pieces) /\ Len(w) \in 3..8 /\ w[1] # "NL"
  /\ \A j \in 1..(Len(w) - 1) : w[j] = "NL" /\ w[j + 1] = "NL" <=> j = Len(w) - 1

\* Every kind of block does.
LEMMA BlocksWellFormed ==
  ASSUME NEW b \in DOMAIN BlockWire
  PROVE  WellFormed(BlockWire[b])
<1>1. WellFormed(<<"data", "x", "NL", "NL">>)
  BY DEF WellFormed, Pieces
<1>2. WellFormed(<<"id", "NL", "data", "y", "NL", "NL">>)
  BY DEF WellFormed, Pieces
<1>3. WellFormed(<<"data", "x", "NL", "data", "y", "NL", "NL">>)
  BY DEF WellFormed, Pieces
<1>4. WellFormed(<<"data", "junk", "NL", "NL">>)
  BY DEF WellFormed, Pieces
<1>5. WellFormed(<<"colon", "NL", "NL">>)
  BY DEF WellFormed, Pieces
<1>6. WellFormed(<<"data", "hi", "lo", "NL", "NL">>)
  BY DEF WellFormed, Pieces
<1>7. WellFormed(<<"id", "NL", "id", "NL", "data", "started", "NL", "NL">>)
  BY DEF WellFormed, Pieces
<1>8. WellFormed(<<"id", "NL", "id", "NL", "data", "queued", "NL", "NL">>)
  BY DEF WellFormed, Pieces
<1>9. WellFormed(<<"id", "NL", "id", "NL", "data", "delivered", "NL", "NL">>)
  BY DEF WellFormed, Pieces
<1> QED
  BY <1>1, <1>2, <1>3, <1>4, <1>5, <1>6, <1>7, <1>8, <1>9 DEF BlockWire

-----------------------------------------------------------------------------
(* The data of a block.                                                    *)

\* What was read of a block: its data so far and the line so far.
Got(data, line) == [data |-> data, line |-> line]

\* read[i] is what was read of the first i pieces.
ReadOf(block, n, read) ==
  read = [i \in 0..n |-> IF i = 0 THEN Got(<<>>, <<>>) ELSE Take(read[i - 1], block[i])]

Scanned(block) == CHOOSE read : ReadOf(block, Len(block), read)

\* Every block can be read.
LEMMA ScannedIs ==
  ASSUME NEW block, Len(block) \in Nat
  PROVE  ReadOf(block, Len(block), Scanned(block))
<1> DEFINE S == {m \in Nat : \E read : ReadOf(block, m, read)}
           n == Len(block)
<1>1. 0 \in S
  <2>1. ReadOf(block, 0, [i \in 0..0 |-> Got(<<>>, <<>>)])
    BY DEF ReadOf
  <2> QED
    BY <2>1
<1>2. ASSUME NEW m \in Nat, m \in S
      PROVE  m + 1 \in S
  <2>1. PICK g : ReadOf(block, m, g)
    BY <1>2
  <2> DEFINE h == [i \in 0..(m + 1) |-> IF i = m + 1 THEN Take(g[m], block[i]) ELSE g[i]]
  <2>2. ReadOf(block, m + 1, h)
    BY <2>1 DEF ReadOf
  <2> QED
    BY <2>2
<1> HIDE DEF S
<1>3. Nat \subseteq S
  BY <1>1, <1>2, SetInduction
<1>4. PICK g : ReadOf(block, n, g)
  BY <1>3 DEF S
<1> QED
  BY <1>4 DEF Scanned

\* The pieces are read one after the other, and there is a line end behind the
\* last.
InTurn(block) ==
  LET read == Scanned(block)
  IN  /\ read[0] = Got(<<>>, <<>>)
      /\ Len(block) >= 1 => read[1] = Take(read[0], block[1])
      /\ Len(block) >= 2 => read[2] = Take(read[1], block[2])
      /\ Len(block) >= 3 => read[3] = Take(read[2], block[3])
      /\ Len(block) >= 4 => read[4] = Take(read[3], block[4])
      /\ Len(block) >= 5 => read[5] = Take(read[4], block[5])
      /\ Len(block) >= 6 => read[6] = Take(read[5], block[6])
      /\ Data(block) = Take(read[Len(block)], "NL").data

\* So is every block.
LEMMA ReadInTurn ==
  ASSUME NEW block, Len(block) \in Nat
  PROVE  InTurn(block)
<1> DEFINE f == Scanned(block)
           n == Len(block)
<1>1. f = [i \in 0..n |-> IF i = 0 THEN Got(<<>>, <<>>) ELSE Take(f[i - 1], block[i])]
  BY ScannedIs DEF ReadOf
<1>2. Data(block) = Take(f[n], "NL").data
  BY DEF Data, Scanned, ReadOf, Got
<1>3. n \in Nat
  OBVIOUS
<1> HIDE DEF f, n
<1>4. f[0] = Got(<<>>, <<>>)
  BY <1>1, <1>3
<1>5. n >= 1 => f[1] = Take(f[0], block[1])
  BY <1>1, <1>3
<1>6. n >= 2 => f[2] = Take(f[1], block[2])
  BY <1>1, <1>3
<1>7. n >= 3 => f[3] = Take(f[2], block[3])
  BY <1>1, <1>3
<1>8. n >= 4 => f[4] = Take(f[3], block[4])
  BY <1>1, <1>3
<1>9. n >= 5 => f[5] = Take(f[4], block[5])
  BY <1>1, <1>3
<1>10. n >= 6 => f[6] = Take(f[5], block[6])
  BY <1>1, <1>3
<1> QED
  BY <1>2, <1>4, <1>5, <1>6, <1>7, <1>8, <1>9, <1>10 DEF f, n, InTurn

\* Two sequences put together are the one that has their items.
LEMMA ConcatIs ==
  ASSUME NEW T, NEW s \in Seq(T), NEW t \in Seq(T), NEW u \in Seq(T),
         Len(u) = Len(s) + Len(t), \A i \in 1..Len(s) : s[i] = u[i],
         \A j \in 1..Len(t) : t[j] = u[Len(s) + j]
  PROVE  s \o t = u
<1> DEFINE st == s \o t
<1>1. /\ st \in Seq(T) /\ Len(st) = Len(u)
      /\ \A i \in 1..(Len(s) + Len(t)) : st[i] = IF i <= Len(s) THEN s[i] ELSE t[i - Len(s)]
  BY ConcatProperties
<1>2. Len(s) \in Nat /\ Len(t) \in Nat
  OBVIOUS
<1> HIDE DEF st
<1>3. ASSUME NEW i \in 1..Len(u)
      PROVE  st[i] = u[i]
  <2>1. CASE i <= Len(s)
    BY <1>1, <1>2, <2>1
  <2>2. CASE ~(i <= Len(s))
    <3>1. i - Len(s) \in 1..Len(t) /\ Len(s) + (i - Len(s)) = i
      BY <1>2, <2>2
    <3> QED
      BY <1>1, <2>2, <3>1
  <2> QED
    BY <2>1, <2>2
<1> QED
  BY <1>1, <1>3, SeqEqual DEF st

\* The same with one item at the end.
LEMMA AppendIs ==
  ASSUME NEW T, NEW s \in Seq(T), NEW p \in T, NEW u \in Seq(T),
         Len(u) = Len(s) + 1, \A i \in 1..Len(s) : s[i] = u[i], p = u[Len(s) + 1]
  PROVE  Append(s, p) = u
<1>1. /\ Append(s, p) \in Seq(T) /\ Len(Append(s, p)) = Len(s) + 1
      /\ \A i \in 1..Len(s) : Append(s, p)[i] = s[i]
      /\ Append(s, p)[Len(s) + 1] = p
  BY AppendProperties
<1> DEFINE sp == Append(s, p)
<1>2. Len(s) \in Nat
  OBVIOUS
<1> HIDE DEF sp
<1>3. ASSUME NEW i \in 1..Len(u)
      PROVE  sp[i] = u[i]
  BY <1>1, <1>2 DEF sp
<1> QED
  BY <1>1, <1>3, SeqEqual DEF sp

\* The lines that the blocks have.
LEMMA LineFacts ==
  /\ \A p : Append(<<>>, p) = <<p>>
  /\ \A p, q : Append(<<p>>, q) = <<p, q>>
  /\ \A p, q, r : Append(<<p, q>>, r) = <<p, q, r>>
  /\ \A data : AddLine(data, <<"id">>) = data /\ AddLine(data, <<"colon">>) = data
  /\ \A p : AddLine(<<>>, <<"data", p>>) = <<p>>
  /\ \A p, q : AddLine(<<>>, <<"data", p, q>>) = <<p, q>>
  /\ AddLine(<<"x">>, <<"data", "y">>) = <<"x", "NL", "y">>
<1>1. \A p : AddLine(<<>>, <<"data", p>>) = <<p>>
  BY DEF AddLine
<1>2. \A p, q : AddLine(<<>>, <<"data", p, q>>) = <<p, q>>
  BY DEF AddLine
<1>3. AddLine(<<"x">>, <<"data", "y">>) = <<"x", "NL", "y">>
  <2>1. AddLine(<<"x">>, <<"data", "y">>) = (<<"x">> \o <<"NL">>) \o <<"y">>
    BY DEF AddLine
  <2>2. <<"x">> \o <<"NL">> = <<"x", "NL">>
    <3> DEFINE s == <<"x">>
               t == <<"NL">>
               u == <<"x", "NL">>
    <3>1. s \in Seq(Pieces) /\ t \in Seq(Pieces) /\ u \in Seq(Pieces)
      BY DEF Pieces
    <3>2. Len(s) = 1 /\ Len(t) = 1 /\ Len(u) = 2 /\ s[1] = u[1] /\ t[1] = u[2]
      OBVIOUS
    <3> HIDE DEF s, t, u
    <3>3. /\ Len(u) = Len(s) + Len(t)
          /\ \A i \in 1..Len(s) : s[i] = u[i]
          /\ \A j \in 1..Len(t) : t[j] = u[Len(s) + j]
      BY <3>2
    <3>4. s \o t = u
      BY <3>1, <3>3, ConcatIs
    <3> QED
      BY <3>4 DEF s, t, u
  <2>3. <<"x", "NL">> \o <<"y">> = <<"x", "NL", "y">>
    <3> DEFINE s == <<"x", "NL">>
               t == <<"y">>
               u == <<"x", "NL", "y">>
    <3>1. s \in Seq(Pieces) /\ t \in Seq(Pieces) /\ u \in Seq(Pieces)
      BY DEF Pieces
    <3>2. /\ Len(s) = 2 /\ Len(t) = 1 /\ Len(u) = 3
          /\ s[1] = u[1] /\ s[2] = u[2] /\ t[1] = u[3]
      OBVIOUS
    <3> HIDE DEF s, t, u
    <3>3. /\ Len(u) = Len(s) + Len(t)
          /\ \A i \in 1..Len(s) : s[i] = u[i]
          /\ \A j \in 1..Len(t) : t[j] = u[Len(s) + j]
      BY <3>2
    <3>4. s \o t = u
      BY <3>1, <3>3, ConcatIs
    <3> QED
      BY <3>4 DEF s, t, u
  <2> QED
    BY <2>1, <2>2, <2>3
<1>4. \A data : AddLine(data, <<"id">>) = data /\ AddLine(data, <<"colon">>) = data
  BY DEF AddLine
<1>5. \A p : Append(<<>>, p) = <<p>>
  OBVIOUS
<1>6. ASSUME NEW p, NEW q
      PROVE  Append(<<p>>, q) = <<p, q>>
  <2> DEFINE T == {p, q}
             s == <<p>>
             u == <<p, q>>
  <2>1. s \in Seq(T) /\ u \in Seq(T) /\ q \in T
    OBVIOUS
  <2>2. Len(s) = 1 /\ Len(u) = 2 /\ s[1] = u[1] /\ u[2] = q
    OBVIOUS
  <2> HIDE DEF T, s, u
  <2>3. Len(u) = Len(s) + 1 /\ \A i \in 1..Len(s) : s[i] = u[i]
    BY <2>2
  <2>4. q = u[Len(s) + 1]
    BY <2>2
  <2>5. Append(s, q) = u
    BY <2>1, <2>3, <2>4, AppendIs
  <2> QED
    BY <2>5 DEF s, u
<1>7. ASSUME NEW p, NEW q, NEW r
      PROVE  Append(<<p, q>>, r) = <<p, q, r>>
  <2> DEFINE T == {p, q, r}
             s == <<p, q>>
             u == <<p, q, r>>
  <2>1. s \in Seq(T) /\ u \in Seq(T) /\ r \in T
    OBVIOUS
  <2>2. Len(s) = 2 /\ Len(u) = 3 /\ s[1] = u[1] /\ s[2] = u[2] /\ u[3] = r
    OBVIOUS
  <2> HIDE DEF T, s, u
  <2>3. Len(u) = Len(s) + 1 /\ \A i \in 1..Len(s) : s[i] = u[i]
    BY <2>2
  <2>4. r = u[Len(s) + 1]
    BY <2>2
  <2>5. Append(s, r) = u
    BY <2>1, <2>3, <2>4, AppendIs
  <2> QED
    BY <2>5 DEF s, u
<1> QED
  BY <1>1, <1>2, <1>3, <1>4, <1>5, <1>6, <1>7

\* The same lines by name, so that the provers do not look into them.
Empty == << >>
One(p) == <<p>>
Two(p, q) == <<p, q>>
Three(p, q, r) == <<p, q, r>>

\* How they grow, and what each adds to the data.
LEMMA NamedLines ==
  /\ \A p : Append(Empty, p) = One(p)
  /\ \A p, q : Append(One(p), q) = Two(p, q)
  /\ \A p, q, r : Append(Two(p, q), r) = Three(p, q, r)
  /\ \A data : AddLine(data, One("id")) = data /\ AddLine(data, One("colon")) = data
  /\ \A p : AddLine(Empty, Two("data", p)) = One(p)
  /\ \A p, q : AddLine(Empty, Three("data", p, q)) = Two(p, q)
  /\ AddLine(One("x"), Two("data", "y")) = Three("x", "NL", "y")
BY LineFacts DEF Empty, One, Two, Three

\* A piece joins the line; the end of the line adds it to the data.
LEMMA TakeFacts ==
  /\ \A data, line, p : p # "NL" => Take(Got(data, line), p) = Got(data, Append(line, p))
  /\ \A data, line : Take(Got(data, line), "NL") = Got(AddLine(data, line), Empty)
  /\ \A data, line : Got(data, line).data = data
BY DEF Take, Got, Empty

\* The steps of reading that the blocks take.
LEMMA ReadSteps ==
  /\ \A d, p : p # "NL" => Take(Got(d, Empty), p) = Got(d, One(p))
  /\ \A d, p, q : q # "NL" => Take(Got(d, One(p)), q) = Got(d, Two(p, q))
  /\ \A d, p, q, r : r # "NL" => Take(Got(d, Two(p, q)), r) = Got(d, Three(p, q, r))
  /\ \A d : Take(Got(d, One("id")), "NL") = Got(d, Empty)
  /\ \A d : Take(Got(d, One("colon")), "NL") = Got(d, Empty)
  /\ \A p : Take(Got(Empty, Two("data", p)), "NL") = Got(One(p), Empty)
  /\ \A p, q : Take(Got(Empty, Three("data", p, q)), "NL") = Got(Two(p, q), Empty)
  /\ Take(Got(One("x"), Two("data", "y")), "NL") = Got(Three("x", "NL", "y"), Empty)
  /\ \A d, line : Got(d, line).data = d
<1>1. ASSUME NEW d, NEW p, p # "NL"
      PROVE  Take(Got(d, Empty), p) = Got(d, One(p))
  <2>1. Take(Got(d, Empty), p) = Got(d, Append(Empty, p))
    BY <1>1, TakeFacts
  <2> QED
    BY <2>1, NamedLines
<1>2. ASSUME NEW d, NEW p, NEW q, q # "NL"
      PROVE  Take(Got(d, One(p)), q) = Got(d, Two(p, q))
  <2>1. Take(Got(d, One(p)), q) = Got(d, Append(One(p), q))
    BY <1>2, TakeFacts
  <2> QED
    BY <2>1, NamedLines
<1>3. ASSUME NEW d, NEW p, NEW q, NEW r, r # "NL"
      PROVE  Take(Got(d, Two(p, q)), r) = Got(d, Three(p, q, r))
  <2>1. Take(Got(d, Two(p, q)), r) = Got(d, Append(Two(p, q), r))
    BY <1>3, TakeFacts
  <2> QED
    BY <2>1, NamedLines
<1>4. ASSUME NEW d, NEW p \in {"id", "colon"}
      PROVE  Take(Got(d, One(p)), "NL") = Got(d, Empty)
  <2>1. Take(Got(d, One(p)), "NL") = Got(AddLine(d, One(p)), Empty)
    BY TakeFacts
  <2> QED
    BY <2>1, NamedLines
<1>5. ASSUME NEW p
      PROVE  Take(Got(Empty, Two("data", p)), "NL") = Got(One(p), Empty)
  <2>1. Take(Got(Empty, Two("data", p)), "NL") = Got(AddLine(Empty, Two("data", p)), Empty)
    BY TakeFacts
  <2> QED
    BY <2>1, NamedLines
<1>6. ASSUME NEW p, NEW q
      PROVE  Take(Got(Empty, Three("data", p, q)), "NL") = Got(Two(p, q), Empty)
  <2>1. Take(Got(Empty, Three("data", p, q)), "NL")
          = Got(AddLine(Empty, Three("data", p, q)), Empty)
    BY TakeFacts
  <2> QED
    BY <2>1, NamedLines
<1>7. Take(Got(One("x"), Two("data", "y")), "NL") = Got(Three("x", "NL", "y"), Empty)
  <2>1. Take(Got(One("x"), Two("data", "y")), "NL")
          = Got(AddLine(One("x"), Two("data", "y")), Empty)
    BY TakeFacts
  <2> QED
    BY <2>1, NamedLines
<1> QED
  BY <1>1, <1>2, <1>3, <1>4, <1>5, <1>6, <1>7, TakeFacts

\* The data of a block of one line of one piece, of two pieces, of a line behind
\* a field, behind two fields, of two lines, and of a comment.
LEMMA DataFacts ==
  /\ \A p : p # "NL" => Data(<<"data", p>>) = <<p>>
  /\ \A p, q : p # "NL" /\ q # "NL" => Data(<<"data", p, q>>) = <<p, q>>
  /\ \A p : p # "NL" => Data(<<"id", "NL", "data", p>>) = <<p>>
  /\ \A p : p # "NL" => Data(<<"id", "NL", "id", "NL", "data", p>>) = <<p>>
  /\ Data(<<"data", "x", "NL", "data", "y">>) = <<"x", "NL", "y">>
  /\ Data(<<"colon">>) = <<>>
<1>1. ASSUME NEW p, p # "NL"
      PROVE  Data(<<"data", p>>) = <<p>>
  <2> DEFINE block == <<"data", p>>
             f == Scanned(block)
  <2>1. Len(block) = 2 /\ block[1] = "data" /\ block[2] = p
    OBVIOUS
  <2> HIDE DEF block
  <2>2. /\ f[0] = Got(Empty, Empty)
        /\ f[1] = Take(f[0], block[1])
        /\ f[2] = Take(f[1], block[2])
        /\ Data(block) = Take(f[2], "NL").data
    <3>1. Len(block) \in Nat
      BY <2>1
    <3>2. InTurn(block)
      BY <3>1, ReadInTurn
    <3> QED
      BY <2>1, <3>2 DEF InTurn, Empty
  <2> HIDE DEF f
  <2>3. f[1] = Got(Empty, One("data"))
    BY <1>1, <2>1, <2>2, ReadSteps
  <2>4. f[2] = Got(Empty, Two("data", p))
    BY <1>1, <2>1, <2>2, <2>3, ReadSteps
  <2>5. Data(block) = One(p)
    BY <2>2, <2>4, ReadSteps
  <2> QED
    BY <2>5 DEF block, One
<1>2. ASSUME NEW p, NEW q, p # "NL", q # "NL"
      PROVE  Data(<<"data", p, q>>) = <<p, q>>
  <2> DEFINE block == <<"data", p, q>>
             f == Scanned(block)
  <2>1. Len(block) = 3 /\ block[1] = "data" /\ block[2] = p /\ block[3] = q
    OBVIOUS
  <2> HIDE DEF block
  <2>2. /\ f[0] = Got(Empty, Empty)
        /\ f[1] = Take(f[0], block[1])
        /\ f[2] = Take(f[1], block[2])
        /\ f[3] = Take(f[2], block[3])
        /\ Data(block) = Take(f[3], "NL").data
    <3>1. Len(block) \in Nat
      BY <2>1
    <3>2. InTurn(block)
      BY <3>1, ReadInTurn
    <3> QED
      BY <2>1, <3>2 DEF InTurn, Empty
  <2> HIDE DEF f
  <2>3. f[1] = Got(Empty, One("data"))
    BY <1>2, <2>1, <2>2, ReadSteps
  <2>4. f[2] = Got(Empty, Two("data", p))
    BY <1>2, <2>1, <2>2, <2>3, ReadSteps
  <2>5. f[3] = Got(Empty, Three("data", p, q))
    BY <1>2, <2>1, <2>2, <2>4, ReadSteps
  <2>6. Data(block) = Two(p, q)
    BY <2>2, <2>5, ReadSteps
  <2> QED
    BY <2>6 DEF block, Two
<1>3. ASSUME NEW p, p # "NL"
      PROVE  Data(<<"id", "NL", "data", p>>) = <<p>>
  <2> DEFINE block == <<"id", "NL", "data", p>>
             f == Scanned(block)
  <2>1. /\ Len(block) = 4 /\ block[1] = "id" /\ block[2] = "NL"
        /\ block[3] = "data" /\ block[4] = p
    OBVIOUS
  <2> HIDE DEF block
  <2>2. /\ f[0] = Got(Empty, Empty)
        /\ f[1] = Take(f[0], block[1])
        /\ f[2] = Take(f[1], block[2])
        /\ f[3] = Take(f[2], block[3])
        /\ f[4] = Take(f[3], block[4])
        /\ Data(block) = Take(f[4], "NL").data
    <3>1. Len(block) \in Nat
      BY <2>1
    <3>2. InTurn(block)
      BY <3>1, ReadInTurn
    <3> QED
      BY <2>1, <3>2 DEF InTurn, Empty
  <2> HIDE DEF f
  <2>3. f[1] = Got(Empty, One("id"))
    BY <1>3, <2>1, <2>2, ReadSteps
  <2>4. f[2] = Got(Empty, Empty)
    BY <1>3, <2>1, <2>2, <2>3, ReadSteps
  <2>5. f[3] = Got(Empty, One("data"))
    BY <1>3, <2>1, <2>2, <2>4, ReadSteps
  <2>6. f[4] = Got(Empty, Two("data", p))
    BY <1>3, <2>1, <2>2, <2>5, ReadSteps
  <2>7. Data(block) = One(p)
    BY <2>2, <2>6, ReadSteps
  <2> QED
    BY <2>7 DEF block, One
<1>4. ASSUME NEW p, p # "NL"
      PROVE  Data(<<"id", "NL", "id", "NL", "data", p>>) = <<p>>
  <2> DEFINE block == <<"id", "NL", "id", "NL", "data", p>>
             f == Scanned(block)
  <2>1. /\ Len(block) = 6 /\ block[1] = "id" /\ block[2] = "NL" /\ block[3] = "id"
        /\ block[4] = "NL" /\ block[5] = "data" /\ block[6] = p
    OBVIOUS
  <2> HIDE DEF block
  <2>2. /\ f[0] = Got(Empty, Empty)
        /\ f[1] = Take(f[0], block[1])
        /\ f[2] = Take(f[1], block[2])
        /\ f[3] = Take(f[2], block[3])
        /\ f[4] = Take(f[3], block[4])
        /\ f[5] = Take(f[4], block[5])
        /\ f[6] = Take(f[5], block[6])
        /\ Data(block) = Take(f[6], "NL").data
    <3>1. Len(block) \in Nat
      BY <2>1
    <3>2. InTurn(block)
      BY <3>1, ReadInTurn
    <3> QED
      BY <2>1, <3>2 DEF InTurn, Empty
  <2> HIDE DEF f
  <2>3. f[1] = Got(Empty, One("id"))
    BY <1>4, <2>1, <2>2, ReadSteps
  <2>4. f[2] = Got(Empty, Empty)
    BY <1>4, <2>1, <2>2, <2>3, ReadSteps
  <2>5. f[3] = Got(Empty, One("id"))
    BY <1>4, <2>1, <2>2, <2>4, ReadSteps
  <2>6. f[4] = Got(Empty, Empty)
    BY <1>4, <2>1, <2>2, <2>5, ReadSteps
  <2>7. f[5] = Got(Empty, One("data"))
    BY <1>4, <2>1, <2>2, <2>6, ReadSteps
  <2>8. f[6] = Got(Empty, Two("data", p))
    BY <1>4, <2>1, <2>2, <2>7, ReadSteps
  <2>9. Data(block) = One(p)
    BY <2>2, <2>8, ReadSteps
  <2> QED
    BY <2>9 DEF block, One
<1>5. Data(<<"data", "x", "NL", "data", "y">>) = <<"x", "NL", "y">>
  <2> DEFINE block == <<"data", "x", "NL", "data", "y">>
             f == Scanned(block)
  <2>1. /\ Len(block) = 5 /\ block[1] = "data" /\ block[2] = "x"
        /\ block[3] = "NL" /\ block[4] = "data" /\ block[5] = "y"
    OBVIOUS
  <2> HIDE DEF block
  <2>2. /\ f[0] = Got(Empty, Empty)
        /\ f[1] = Take(f[0], block[1])
        /\ f[2] = Take(f[1], block[2])
        /\ f[3] = Take(f[2], block[3])
        /\ f[4] = Take(f[3], block[4])
        /\ f[5] = Take(f[4], block[5])
        /\ Data(block) = Take(f[5], "NL").data
    <3>1. Len(block) \in Nat
      BY <2>1
    <3>2. InTurn(block)
      BY <3>1, ReadInTurn
    <3> QED
      BY <2>1, <3>2 DEF InTurn, Empty
  <2> HIDE DEF f
  <2>3. f[1] = Got(Empty, One("data"))
    BY <2>1, <2>2, ReadSteps
  <2>4. f[2] = Got(Empty, Two("data", "x"))
    BY <2>1, <2>2, <2>3, ReadSteps
  <2>5. f[3] = Got(One("x"), Empty)
    BY <2>1, <2>2, <2>4, ReadSteps
  <2>6. f[4] = Got(One("x"), One("data"))
    BY <2>1, <2>2, <2>5, ReadSteps
  <2>7. f[5] = Got(One("x"), Two("data", "y"))
    BY <2>1, <2>2, <2>6, ReadSteps
  <2>8. Data(block) = Three("x", "NL", "y")
    BY <2>2, <2>7, ReadSteps
  <2> QED
    BY <2>8 DEF block, Three
<1>6. Data(<<"colon">>) = <<>>
  <2> DEFINE block == <<"colon">>
             f == Scanned(block)
  <2>1. Len(block) = 1 /\ block[1] = "colon"
    OBVIOUS
  <2> HIDE DEF block
  <2>2. /\ f[0] = Got(Empty, Empty)
        /\ f[1] = Take(f[0], block[1])
        /\ Data(block) = Take(f[1], "NL").data
    <3>1. Len(block) \in Nat
      BY <2>1
    <3>2. InTurn(block)
      BY <3>1, ReadInTurn
    <3> QED
      BY <2>1, <3>2 DEF InTurn, Empty
  <2> HIDE DEF f
  <2>3. f[1] = Got(Empty, One("colon"))
    BY <2>1, <2>2, ReadSteps
  <2>4. Data(block) = Empty
    BY <2>2, <2>3, ReadSteps
  <2> QED
    BY <2>4 DEF block, Empty
<1> QED
  BY <1>1, <1>2, <1>3, <1>4, <1>5, <1>6

-----------------------------------------------------------------------------
(* What becomes of a block.                                                *)

\* A piece of text and the piece it was.
PieceReads(t, w) == t = w \/ (t = "U+FFFD" /\ w \in {"hi", "lo"})

\* What text is made of.
Texts == Pieces \cup {"U+FFFD"}

\* block is the text of a block of kind b, up to the blank line.
ReadBlock(block, b) ==
  /\ block \in Seq(Texts)
  /\ Len(block) = Len(BlockWire[b]) - 2
  /\ \A i \in 1..Len(block) : PieceReads(block[i], BlockWire[b][i])

\* The parser makes the event of b of it, if b has one.
Understood(block, b) ==
  LET data == Data(block)
  IN  /\ data \in Seq(Texts)
      /\ \/ /\ b = "keepalive" /\ data = <<>> /\ BlockEvents[b] = <<>>
         \/ /\ b # "keepalive" /\ data # <<>> /\ ~IsEvent(data) /\ BlockEvents[b] = <<>>
         \/ /\ b # "keepalive" /\ data # <<>> /\ IsEvent(data)
            /\ Len(BlockEvents[b]) = 1 /\ Reads(data, BlockEvents[b][1])

\* Text that reads as a block whose characters are of one byte is the block.
LEMMA ReadExactly ==
  ASSUME NEW b, NEW block, ReadBlock(block, b),
         NEW t \in Seq(Texts), Len(BlockWire[b]) = Len(t) + 2,
         \A i \in 1..Len(t) : BlockWire[b][i] = t[i] /\ t[i] \notin {"hi", "lo"}
  PROVE  block = t
<1>1. Len(block) = Len(t) /\ block \in Seq(Texts)
  BY DEF ReadBlock
<1>2. \A i \in 1..Len(t) : block[i] = t[i]
  BY <1>1 DEF ReadBlock, PieceReads
<1> QED
  BY <1>1, <1>2, SeqEqual

\* An event of one-byte characters reads as itself.
LEMMA ExactEvent ==
  ASSUME NEW b, NEW block, NEW e, b # "keepalive", Data(block) = e, BlockEvents[b] = <<e>>,
         e # <<>>, IsEvent(e), e \in Seq(Texts)
  PROVE  Understood(block, b)
<1>1. Reads(e, e)
  BY DEF Reads
<1> QED
  BY <1>1 DEF Understood

\* The parser understands every kind of block.
LEMMA Understands ==
  ASSUME NEW b \in DOMAIN BlockWire, NEW block, ReadBlock(block, b)
  PROVE  Understood(block, b)
<1>1. CASE b = "plain"
  <2> DEFINE t == <<"data", "x">>
             e == <<"x">>
  <2>1. /\ t \in Seq(Texts) /\ Len(BlockWire[b]) = Len(t) + 2
        /\ \A i \in 1..Len(t) : BlockWire[b][i] = t[i] /\ t[i] \notin {"hi", "lo"}
    BY <1>1 DEF BlockWire, Texts, Pieces
  <2>2. Data(t) = e
    BY DataFacts
  <2>3. /\ BlockEvents[b] = <<e>> /\ e # <<>> /\ IsEvent(e) /\ e \in Seq(Texts)
    BY <1>1 DEF BlockEvents, IsEvent, Contains, Texts, Pieces
  <2> HIDE DEF t, e
  <2>4. block = t
    BY <2>1, ReadExactly
  <2> QED
    BY <1>1, <2>2, <2>3, <2>4, ExactEvent
<1>2. CASE b = "field"
  <2> DEFINE t == <<"id", "NL", "data", "y">>
             e == <<"y">>
  <2>1. /\ t \in Seq(Texts) /\ Len(BlockWire[b]) = Len(t) + 2
        /\ \A i \in 1..Len(t) : BlockWire[b][i] = t[i] /\ t[i] \notin {"hi", "lo"}
    BY <1>2 DEF BlockWire, Texts, Pieces
  <2>2. Data(t) = e
    BY DataFacts
  <2>3. /\ BlockEvents[b] = <<e>> /\ e # <<>> /\ IsEvent(e) /\ e \in Seq(Texts)
    BY <1>2 DEF BlockEvents, IsEvent, Contains, Texts, Pieces
  <2> HIDE DEF t, e
  <2>4. block = t
    BY <2>1, ReadExactly
  <2> QED
    BY <1>2, <2>2, <2>3, <2>4, ExactEvent
<1>3. CASE b = "lines"
  <2> DEFINE t == <<"data", "x", "NL", "data", "y">>
             e == <<"x", "NL", "y">>
  <2>1. /\ t \in Seq(Texts) /\ Len(BlockWire[b]) = Len(t) + 2
        /\ \A i \in 1..Len(t) : BlockWire[b][i] = t[i] /\ t[i] \notin {"hi", "lo"}
    BY <1>3 DEF BlockWire, Texts, Pieces
  <2>2. Data(t) = e
    BY DataFacts
  <2>3. /\ BlockEvents[b] = <<e>> /\ e # <<>> /\ IsEvent(e) /\ e \in Seq(Texts)
    BY <1>3 DEF BlockEvents, IsEvent, Contains, Texts, Pieces
  <2> HIDE DEF t, e
  <2>4. block = t
    BY <2>1, ReadExactly
  <2> QED
    BY <1>3, <2>2, <2>3, <2>4, ExactEvent
<1>4. CASE b = "started"
  <2> DEFINE t == <<"id", "NL", "id", "NL", "data", "started">>
             e == <<"started">>
  <2>1. /\ t \in Seq(Texts) /\ Len(BlockWire[b]) = Len(t) + 2
        /\ \A i \in 1..Len(t) : BlockWire[b][i] = t[i] /\ t[i] \notin {"hi", "lo"}
    BY <1>4 DEF BlockWire, Texts, Pieces
  <2>2. Data(t) = e
    BY DataFacts
  <2>3. /\ BlockEvents[b] = <<e>> /\ e # <<>> /\ IsEvent(e) /\ e \in Seq(Texts)
    BY <1>4 DEF BlockEvents, IsEvent, Contains, Texts, Pieces
  <2> HIDE DEF t, e
  <2>4. block = t
    BY <2>1, ReadExactly
  <2> QED
    BY <1>4, <2>2, <2>3, <2>4, ExactEvent
<1>5. CASE b = "queued"
  <2> DEFINE t == <<"id", "NL", "id", "NL", "data", "queued">>
             e == <<"queued">>
  <2>1. /\ t \in Seq(Texts) /\ Len(BlockWire[b]) = Len(t) + 2
        /\ \A i \in 1..Len(t) : BlockWire[b][i] = t[i] /\ t[i] \notin {"hi", "lo"}
    BY <1>5 DEF BlockWire, Texts, Pieces
  <2>2. Data(t) = e
    BY DataFacts
  <2>3. /\ BlockEvents[b] = <<e>> /\ e # <<>> /\ IsEvent(e) /\ e \in Seq(Texts)
    BY <1>5 DEF BlockEvents, IsEvent, Contains, Texts, Pieces
  <2> HIDE DEF t, e
  <2>4. block = t
    BY <2>1, ReadExactly
  <2> QED
    BY <1>5, <2>2, <2>3, <2>4, ExactEvent
<1>6. CASE b = "delivered"
  <2> DEFINE t == <<"id", "NL", "id", "NL", "data", "delivered">>
             e == <<"delivered">>
  <2>1. /\ t \in Seq(Texts) /\ Len(BlockWire[b]) = Len(t) + 2
        /\ \A i \in 1..Len(t) : BlockWire[b][i] = t[i] /\ t[i] \notin {"hi", "lo"}
    BY <1>6 DEF BlockWire, Texts, Pieces
  <2>2. Data(t) = e
    BY DataFacts
  <2>3. /\ BlockEvents[b] = <<e>> /\ e # <<>> /\ IsEvent(e) /\ e \in Seq(Texts)
    BY <1>6 DEF BlockEvents, IsEvent, Contains, Texts, Pieces
  <2> HIDE DEF t, e
  <2>4. block = t
    BY <2>1, ReadExactly
  <2> QED
    BY <1>6, <2>2, <2>3, <2>4, ExactEvent
<1>7. CASE b = "junk"
  <2> DEFINE t == <<"data", "junk">>
  <2>1. /\ t \in Seq(Texts) /\ Len(BlockWire[b]) = Len(t) + 2
        /\ \A i \in 1..Len(t) : BlockWire[b][i] = t[i] /\ t[i] \notin {"hi", "lo"}
    BY <1>7 DEF BlockWire, Texts, Pieces
  <2>2. Data(t) = <<"junk">>
    BY DataFacts
  <2> HIDE DEF t
  <2>3. block = t
    BY <2>1, ReadExactly
  <2>4. BlockEvents[b] = <<>> /\ <<"junk">> # <<>> /\ ~IsEvent(<<"junk">>)
        /\ <<"junk">> \in Seq(Texts)
    BY <1>7 DEF BlockEvents, IsEvent, Contains, Texts, Pieces
  <2> QED
    BY <1>7, <2>2, <2>3, <2>4 DEF Understood
<1>8. CASE b = "keepalive"
  <2> DEFINE t == <<"colon">>
  <2>1. /\ t \in Seq(Texts) /\ Len(BlockWire[b]) = Len(t) + 2
        /\ \A i \in 1..Len(t) : BlockWire[b][i] = t[i] /\ t[i] \notin {"hi", "lo"}
    BY <1>8 DEF BlockWire, Texts, Pieces
  <2>2. Data(t) = <<>>
    BY DataFacts
  <2> HIDE DEF t
  <2>3. block = t
    BY <2>1, ReadExactly
  <2>4. BlockEvents[b] = <<>> /\ <<>> \in Seq(Texts)
    BY <1>8 DEF BlockEvents
  <2> QED
    BY <1>8, <2>2, <2>3, <2>4 DEF Understood
<1>9. CASE b = "accent"
  <2>1. BlockWire[b] = <<"data", "hi", "lo", "NL", "NL">> /\ BlockEvents[b] = <<<<"hi", "lo">>>>
    BY <1>9 DEF BlockWire, BlockEvents
  <2>2. /\ block \in Seq(Texts) /\ Len(block) = 3 /\ block[1] = "data"
        /\ PieceReads(block[2], "hi") /\ PieceReads(block[3], "lo")
    BY <2>1 DEF ReadBlock, PieceReads
  <2> DEFINE p == block[2]
             q == block[3]
             t == <<"data", p, q>>
             e == <<p, q>>
  <2>3. p \in {"hi", "lo", "U+FFFD"} /\ q \in {"hi", "lo", "U+FFFD"}
    BY <2>2 DEF PieceReads
  <2>4. /\ t \in Seq(Texts) /\ Len(t) = 3 /\ t[1] = "data" /\ t[2] = p /\ t[3] = q
    BY <2>3 DEF Texts, Pieces
  <2>5. block = t
    <3> HIDE DEF t
    <3> QED
      BY <2>2, <2>4, SeqEqual
  <2> HIDE DEF p, q
  <2>6. Data(t) = e
    BY <2>3, DataFacts
  <2>7. e # <<>> /\ IsEvent(e) /\ e \in Seq(Texts)
    BY <2>3 DEF IsEvent, Contains, Texts, Pieces
  <2>8. Reads(e, <<"hi", "lo">>)
    BY <2>2 DEF Reads, PieceReads, p, q
  <2> HIDE DEF t, e
  <2>9. Len(BlockEvents[b]) = 1 /\ BlockEvents[b][1] = <<"hi", "lo">>
    BY <2>1
  <2> QED
    BY <1>9, <2>5, <2>6, <2>7, <2>8, <2>9 DEF Understood
<1> QED
  BY <1>1, <1>2, <1>3, <1>4, <1>5, <1>6, <1>7, <1>8, <1>9 DEF BlockWire

-----------------------------------------------------------------------------
(* The invariant.                                                          *)

\* Where block k + 1 begins.
Off(k) == Len(Wire(Start(script, k)))

Types == /\ script \in Seq(Blocks) /\ Len(script) <= MaxBlocks
         /\ buffer \in Seq(Texts) /\ emitted \in Seq(Seq(Texts))
         /\ source \in {"open", "expired", "failed", "closed"}
         /\ mode \in {"parse", "wait", "last", "ended"}
         /\ mode = "last" => source = "closed"

\* What is unread is the end of what was written.
Unread == /\ rest \in Seq(Pieces) /\ Len(rest) <= Len(Wire(script))
          /\ \A i \in 1..Len(rest) : rest[i] = Wire(script)[Received + i]

\* The buffer is what was read behind the first k blocks.
Buffered(k) ==
  /\ Off(k) + Len(buffer) = Received
  /\ \A i \in 1..Len(buffer) : PieceReads(buffer[i], Wire(script)[Off(k) + i])

\* What came of events is what was written.
AsWritten(came, written) ==
  /\ Len(came) = Len(written)
  /\ \A e \in DOMAIN came : Reads(came[e], written[e])

\* The consumer has the events of the first k blocks.
Handed(k) == AsWritten(emitted, Events(Start(script, k)))

\* Block k is a keep-alive.
IdleAt(k) == k >= 1 /\ IsIdle(script[k])

\* Only behind a keep-alive does the parser leave a block in the buffer, and
\* only behind two of them does it end before it.
Looked(k) ==
  Separators(buffer) # {} => /\ mode \in {"wait", "last"} => IdleAt(k)
                             /\ mode = "ended" => IdleAt(k) /\ IdleAt(k - 1)

\* The first k blocks have been taken off the buffer.
At(k) == Buffered(k) /\ Handed(k) /\ Looked(k)

IInv == Types /\ Unread /\ \E k \in 0..Len(script) : At(k)


-----------------------------------------------------------------------------
(* Where the blocks are on the wire.                                       *)

\* A set of numbers up to n has a greatest one.
LEMMA MaxIs ==
  ASSUME NEW n \in Nat, NEW S \in SUBSET (0..n), S # {}
  PROVE  Max(S) \in S /\ \A y \in S : y <= Max(S)
<1> DEFINE HasMax(T) == \E x \in T : \A y \in T : y <= x
           P == {m \in Nat : \A T \in SUBSET (0..m) : T # {} => HasMax(T)}
<1>1. 0 \in P
  <2> SUFFICES ASSUME NEW T \in SUBSET (0..0), T # {} PROVE HasMax(T)
    OBVIOUS
  <2>1. PICK x \in T : TRUE
    OBVIOUS
  <2>2. \A y \in T : y <= x
    OBVIOUS
  <2> QED
    BY <2>1, <2>2
<1>2. ASSUME NEW m \in Nat, m \in P
      PROVE  m + 1 \in P
  <2> SUFFICES ASSUME NEW T \in SUBSET (0..(m + 1)), T # {} PROVE HasMax(T)
    OBVIOUS
  <2>1. CASE m + 1 \in T
    BY <2>1
  <2>2. CASE m + 1 \notin T
    <3>1. T \in SUBSET (0..m)
      BY <2>2
    <3> QED
      BY <1>2, <3>1
  <2> QED
    BY <2>1, <2>2
<1> HIDE DEF P
<1>3. n \in P
  BY <1>1, <1>2, SetInduction
<1>4. HasMax(S)
  BY <1>3 DEF P
<1> QED
  BY <1>4 DEF Max

\* The least number of a set.
LEMMA MinIs ==
  ASSUME NEW S \in SUBSET Nat, NEW m \in S, \A y \in S : m <= y
  PROVE  Min(S) = m
<1>1. Min(S) \in S /\ \A y \in S : Min(S) <= y
  BY DEF Min
<1> DEFINE lo == Min(S)
<1>2. lo \in Nat /\ m \in Nat /\ lo <= m /\ m <= lo
  BY <1>1
<1> HIDE DEF lo
<1> QED
  BY <1>2 DEF lo

\* Blocks and events are sequences of pieces.
LEMMA BlockTypes ==
  /\ \A x \in Blocks : /\ x \in DOMAIN BlockWire /\ WellFormed(BlockWire[x])
                       /\ BlockWire[x] \in Seq(Pieces)
                       /\ BlockEvents[x] \in Seq(Seq(Pieces))
<1> SUFFICES ASSUME NEW x \in Blocks
             PROVE  /\ x \in DOMAIN BlockWire /\ WellFormed(BlockWire[x])
                    /\ BlockWire[x] \in Seq(Pieces)
                    /\ BlockEvents[x] \in Seq(Seq(Pieces))
  OBVIOUS
<1>1. x \in DOMAIN BlockWire
  BY BlocksAssumption
<1>2. WellFormed(BlockWire[x])
  BY <1>1, BlocksWellFormed
<1>3. BlockEvents[x] \in Seq(Seq(Pieces))
  <2>1. <<"x">> \in Seq(Pieces) /\ <<"y">> \in Seq(Pieces) /\ <<"x", "NL", "y">> \in Seq(Pieces)
    BY DEF Pieces
  <2>2. <<"hi", "lo">> \in Seq(Pieces) /\ <<"started">> \in Seq(Pieces)
        /\ <<"queued">> \in Seq(Pieces) /\ <<"delivered">> \in Seq(Pieces)
    BY DEF Pieces
  <2> DEFINE P == Seq(Pieces)
  <2>3. \A e \in P : <<e>> \in Seq(P)
    OBVIOUS
  <2>4. << >> \in Seq(P)
    OBVIOUS
  <2> HIDE DEF P
  <2>5. /\ <<<<"x">>>> \in Seq(P) /\ <<<<"y">>>> \in Seq(P) /\ <<<<"x", "NL", "y">>>> \in Seq(P)
        /\ <<<<"hi", "lo">>>> \in Seq(P) /\ <<<<"started">>>> \in Seq(P)
        /\ <<<<"queued">>>> \in Seq(P) /\ <<<<"delivered">>>> \in Seq(P)
    BY <2>1, <2>2, <2>3 DEF P
  <2>6. x \in {"plain", "field", "lines", "junk", "keepalive", "accent", "started", "queued",
               "delivered"}
    BY <1>1 DEF BlockWire
  <2>7. /\ x = "plain" => BlockEvents[x] = <<<<"x">>>>
        /\ x = "field" => BlockEvents[x] = <<<<"y">>>>
        /\ x = "lines" => BlockEvents[x] = <<<<"x", "NL", "y">>>>
        /\ x \in {"junk", "keepalive"} => BlockEvents[x] = << >>
        /\ x = "accent" => BlockEvents[x] = <<<<"hi", "lo">>>>
        /\ x = "started" => BlockEvents[x] = <<<<"started">>>>
        /\ x = "queued" => BlockEvents[x] = <<<<"queued">>>>
        /\ x = "delivered" => BlockEvents[x] = <<<<"delivered">>>>
    BY DEF BlockEvents
  <2>8. BlockEvents[x] \in Seq(P)
    BY <2>4, <2>5, <2>6, <2>7, Zenon
  <2> QED
    BY <2>8 DEF P
<1> QED
  BY <1>1, <1>2, <1>3 DEF WellFormed
\* Where block k + 1 is on the wire.
LEMMA WireFacts ==
  ASSUME Types
  PROVE  /\ Len(script) \in Nat /\ Wire(script) \in Seq(Pieces) /\ Len(Wire(script)) \in Nat
         /\ Off(0) = 0 /\ Off(Len(script)) = Len(Wire(script))
         /\ \A k \in 0..Len(script) : Off(k) \in Nat
         /\ \A k \in 0..Len(script) : \A m \in k..Len(script) : Off(k) <= Off(m)
<1> DEFINE N == Len(script)
<1>1. script \in Seq(Blocks) /\ \A x \in Blocks : BlockWire[x] \in Seq(Pieces)
  BY BlockTypes DEF Types
<1>2. N \in Nat /\ Start(script, N) = script /\ Start(script, 0) = << >>
  BY <1>1 DEF Start
<1> HIDE DEF N
<1>3. \A k \in 0..N : \A m \in k..N :
        /\ Laid(BlockWire, Start(script, k)) \in Seq(Pieces)
        /\ Extends(Laid(BlockWire, Start(script, m)), Laid(BlockWire, Start(script, k)))
  BY <1>1, LaidGrows DEF N
<1>4. \A k \in 0..N : Off(k) \in Nat
  <2> SUFFICES ASSUME NEW k \in 0..N PROVE Off(k) \in Nat
    OBVIOUS
  <2>1. k \in k..N
    BY <1>2
  <2>2. Laid(BlockWire, Start(script, k)) \in Seq(Pieces)
    BY <1>3, <2>1
  <2> QED
    BY <2>2 DEF Off, Wire
<1>5. \A k \in 0..N : \A m \in k..N : Off(k) <= Off(m)
  BY <1>3 DEF Extends, Off, Wire
<1>6. Laid(BlockWire, Start(script, 0)) = << >>
  BY <1>2, LaidNothing
<1>7. Off(0) = 0
  BY <1>6 DEF Off, Wire
<1>8. Wire(script) \in Seq(Pieces) /\ Off(N) = Len(Wire(script))
  <2>1. N \in 0..N /\ N \in N..N
    BY <1>2
  <2>2. Laid(BlockWire, Start(script, N)) \in Seq(Pieces)
    BY <1>3, <2>1
  <2> QED
    BY <1>2, <2>2 DEF Wire, Off
<1> QED
  BY <1>2, <1>4, <1>5, <1>7, <1>8 DEF N

\* The wire of block k + 1.
LEMMA WireAt ==
  ASSUME Types, NEW k \in 0..(Len(script) - 1), NEW w, w = BlockWire[script[k + 1]]
  PROVE  /\ k + 1 \in 0..Len(script) /\ script[k + 1] \in Blocks /\ WellFormed(w)
         /\ Off(k + 1) = Off(k) + Len(w) /\ Off(k + 1) <= Len(Wire(script))
         /\ \A j \in 1..Len(w) : Wire(script)[Off(k) + j] = w[j]
<1>1. /\ script \in Seq(Blocks)
      /\ \A x \in Blocks : BlockWire[x] \in Seq(Pieces) /\ WellFormed(BlockWire[x])
  BY BlockTypes DEF Types
<1>2. k + 1 \in 0..Len(script) /\ script[k + 1] \in Blocks
  BY <1>1
<1>3. WellFormed(w)
  BY <1>1, <1>2
<1> DEFINE of == BlockWire
           T == Pieces
<1>4. \A x \in Blocks : of[x] \in Seq(T)
  BY <1>1
<1>5. w = of[script[k + 1]]
  OBVIOUS
<1> HIDE DEF of, T
<1>6. LET before == Len(Laid(of, Start(script, k)))
          v == of[script[k + 1]]
      IN  /\ before \in Nat /\ v \in Seq(T)
          /\ Len(Laid(of, Start(script, k + 1))) = before + Len(v)
          /\ before + Len(v) <= Len(Laid(of, script))
          /\ \A j \in 1..Len(v) : Laid(of, script)[before + j] = v[j]
  BY <1>1, <1>4, LaidAt
<1> QED
  BY <1>2, <1>3, <1>5, <1>6 DEF of, Off, Wire

\* The events of the blocks.
LEMMA EventFacts ==
  ASSUME Types
  PROVE  /\ Events(Start(script, 0)) = << >>
         /\ \A k \in 0..Len(script) :
              /\ Events(Start(script, k)) \in Seq(Seq(Pieces))
              /\ \A m \in k..Len(script) :
                   Extends(Events(Start(script, m)), Events(Start(script, k)))
         /\ \A k \in 0..(Len(script) - 1) :
              LET e == BlockEvents[script[k + 1]]
              IN  /\ e \in Seq(Seq(Pieces))
                  /\ Events(Start(script, k + 1)) = Events(Start(script, k)) \o e
<1>1. script \in Seq(Blocks) /\ \A x \in Blocks : BlockEvents[x] \in Seq(Seq(Pieces))
  BY BlockTypes DEF Types
<1>2. Start(script, 0) = << >> /\ Len(script) \in Nat
  BY <1>1 DEF Start
<1>3. Laid(BlockEvents, Start(script, 0)) = << >>
  BY <1>2, LaidNothing
<1>4. \A k \in 0..Len(script) : \A m \in k..Len(script) :
        /\ Laid(BlockEvents, Start(script, k)) \in Seq(Seq(Pieces))
        /\ Extends(Laid(BlockEvents, Start(script, m)), Laid(BlockEvents, Start(script, k)))
  BY <1>1, LaidGrows
<1>5. \A k \in 0..(Len(script) - 1) :
        /\ BlockEvents[script[k + 1]] \in Seq(Seq(Pieces))
        /\ Laid(BlockEvents, Start(script, k + 1))
             = Laid(BlockEvents, Start(script, k)) \o BlockEvents[script[k + 1]]
  <2> DEFINE of == BlockEvents
             T == Seq(Pieces)
  <2>1. \A x \in Blocks : of[x] \in Seq(T)
    BY <1>1
  <2> HIDE DEF of, T
  <2>2. script \in Seq(Blocks)
    BY <1>1
  <2>3. ASSUME NEW k \in 0..(Len(script) - 1)
        PROVE  /\ Laid(of, Start(script, k)) \in Seq(T)
               /\ Laid(of, Start(script, k + 1)) \in Seq(T)
               /\ of[script[k + 1]] \in Seq(T)
               /\ Laid(of, Start(script, k + 1)) = Laid(of, Start(script, k)) \o of[script[k + 1]]
    BY <2>1, <2>2, LaidStep, Z3
  <2> QED
    BY <2>3 DEF of, T
<1>6. \A k \in 0..Len(script) : k \in k..Len(script)
  BY <1>2
<1>7. \A k \in 0..Len(script) : Laid(BlockEvents, Start(script, k)) \in Seq(Seq(Pieces))
  BY <1>4, <1>6
<1> QED
  BY <1>3, <1>4, <1>5, <1>7 DEF Events

-----------------------------------------------------------------------------
(* Where the blank lines are in the buffer.                                *)

\* What is in the buffer of block k + 1 has line ends where the block has them.
LEMMA LineEnds ==
  ASSUME Types, NEW k \in 0..(Len(script) - 1), Buffered(k),
         NEW w, w = BlockWire[script[k + 1]], NEW i \in 1..Len(w), i <= Len(buffer)
  PROVE  PieceReads(buffer[i], w[i]) /\ (buffer[i] = "NL" <=> w[i] = "NL")
<1>1. Wire(script)[Off(k) + i] = w[i]
  BY WireAt
<1>2. i \in 1..Len(buffer)
  BY DEF Types
<1>3. PieceReads(buffer[i], w[i])
  BY <1>1, <1>2 DEF Buffered
<1> QED
  BY <1>3 DEF PieceReads

\* The end of block k + 1 is the first blank line.
LEMMA SeparatorAt ==
  ASSUME Types, NEW k \in 0..(Len(script) - 1), Buffered(k),
         NEW w, w = BlockWire[script[k + 1]], NEW i \in 1..(Len(w) - 1)
  PROVE  i \in Separators(buffer) <=> i = Len(w) - 1 /\ Len(w) <= Len(buffer)
<1>1. WellFormed(w) /\ Len(w) \in 3..8 /\ Len(buffer) \in Nat
  <2>1. WellFormed(w)
    BY WireAt
  <2>2. buffer \in Seq(Texts)
    BY DEF Types
  <2> QED
    BY <2>1, <2>2 DEF WellFormed
<1>2. w[i] = "NL" /\ w[i + 1] = "NL" <=> i = Len(w) - 1
  BY <1>1 DEF WellFormed
<1>3. i \in 1..Len(w) /\ i + 1 \in 1..Len(w) /\ i \in Nat
  BY <1>1
<1>4. CASE i + 1 <= Len(buffer)
  <2>1. /\ buffer[i] = "NL" <=> w[i] = "NL"
        /\ buffer[i + 1] = "NL" <=> w[i + 1] = "NL"
    <3>1. i <= Len(buffer)
      BY <1>1, <1>3, <1>4
    <3> QED
      BY <1>3, <1>4, <3>1, LineEnds
  <2>2. i \in 1..Len(buffer) - 1 /\ (i = Len(w) - 1 => Len(w) <= Len(buffer))
    BY <1>1, <1>3, <1>4
  <2> QED
    BY <1>2, <2>1, <2>2 DEF Separators
<1>5. CASE ~(i + 1 <= Len(buffer))
  <2>1. i \notin 1..Len(buffer) - 1
    BY <1>1, <1>3, <1>5
  <2>2. ~(i = Len(w) - 1 /\ Len(w) <= Len(buffer))
    BY <1>1, <1>3, <1>5
  <2> QED
    BY <2>1, <2>2 DEF Separators
<1> QED
  BY <1>4, <1>5

\* There is a block that is not taken yet as long as there is text.
LEMMA NextBlock ==
  ASSUME Types, Unread, NEW k \in 0..Len(script), Buffered(k), Len(buffer) # 0
  PROVE  k \in 0..(Len(script) - 1)
<1>1. Off(k) + Len(buffer) = Len(Wire(script)) - Len(rest)
  BY DEF Buffered, Received
<1>2. Len(buffer) \in Nat /\ Len(rest) \in Nat
  BY DEF Types, Unread
<1>3. /\ Len(Wire(script)) \in Nat /\ Off(k) \in Nat
      /\ Off(Len(script)) = Len(Wire(script)) /\ Len(script) \in Nat
  BY WireFacts
<1>4. k # Len(script)
  BY <1>1, <1>2, <1>3
<1> QED
  BY <1>3, <1>4

\* A blank line in the buffer is behind block k + 1 or a later one.
LEMMA FirstBlock ==
  ASSUME Types, Unread, NEW k \in 0..Len(script), Buffered(k), Separators(buffer) # {}
  PROVE  /\ k \in 0..(Len(script) - 1)
         /\ Len(BlockWire[script[k + 1]]) <= Len(buffer)
         /\ Min(Separators(buffer)) = Len(BlockWire[script[k + 1]]) - 1
<1> DEFINE w == BlockWire[script[k + 1]]
<1>1. PICK i \in Separators(buffer) : TRUE
  OBVIOUS
<1>2. Len(buffer) \in Nat /\ i \in 1..Len(buffer) - 1
  BY DEF Types, Separators
<1>3. k \in 0..(Len(script) - 1)
  BY <1>2, NextBlock
<1>4. w = BlockWire[script[k + 1]]
  OBVIOUS
<1> HIDE DEF w
<1>5. Len(w) \in 3..8
  BY <1>3, <1>4, WireAt DEF WellFormed
<1>6. \A j \in 1..(Len(w) - 1) :
        j \in Separators(buffer) <=> j = Len(w) - 1 /\ Len(w) <= Len(buffer)
  BY <1>3, <1>4, SeparatorAt
<1>7. Len(w) <= Len(buffer)
  <2>1. CASE i \in 1..(Len(w) - 1)
    BY <1>6, <2>1
  <2>2. CASE i \notin 1..(Len(w) - 1)
    BY <1>2, <1>5, <2>2
  <2> QED
    BY <2>1, <2>2
<1>8. Len(w) - 1 \in Separators(buffer)
  <2>1. \A n \in 3..8 : n - 1 \in 1..(n - 1)
    OBVIOUS
  <2>2. Len(w) - 1 \in 1..(Len(w) - 1)
    BY <1>5, <2>1
  <2> QED
    BY <1>6, <1>7, <2>2
<1>9. Separators(buffer) \in SUBSET Nat
  BY <1>2 DEF Separators
<1>10. \A j \in Separators(buffer) : Len(w) - 1 <= j
  <2> SUFFICES ASSUME NEW j \in Separators(buffer), ~(Len(w) - 1 <= j) PROVE FALSE
    OBVIOUS
  <2>1. j \in 1..(Len(w) - 1) /\ j # Len(w) - 1
    BY <1>2, <1>5 DEF Separators
  <2> QED
    BY <1>6, <2>1
<1>11. Min(Separators(buffer)) = Len(w) - 1
  BY <1>8, <1>9, <1>10, MinIs
<1> QED
  BY <1>3, <1>4, <1>7, <1>11

\* The blocks that are complete are those that are taken and those that have
\* their blank line in the buffer.
LEMMA CompleteIs ==
  ASSUME Types, Unread, NEW k \in 0..Len(script), Buffered(k)
  PROVE  \E c \in k..Len(script) :
            Complete = Start(script, c) /\ (Separators(buffer) = {} => c = k)
<1> DEFINE N == Len(script)
           S == {n \in 0..N : Off(n) <= Received}
           c == Max(S)
<1>1. Complete = Start(script, c)
  BY DEF Complete, Start, Off
<1>2. /\ N \in Nat /\ Off(0) = 0 /\ \A n \in 0..N : Off(n) \in Nat
      /\ \A m \in 0..N : \A n \in m..N : Off(m) <= Off(n)
  BY WireFacts
<1>3. Off(k) + Len(buffer) = Received /\ Len(buffer) \in Nat
  BY DEF Buffered, Types
<1>4. N = Len(script)
  OBVIOUS
<1> HIDE DEF N
<1>5. k \in S /\ S \in SUBSET (0..N)
  BY <1>2, <1>3, <1>4
<1>6. c \in S /\ k <= c
  <2> HIDE DEF S
  <2> QED
    BY <1>2, <1>5, MaxIs
<1>7. c \in k..N /\ Off(c) <= Received
  <2> HIDE DEF c
  <2> QED
    BY <1>2, <1>4, <1>6
<1> HIDE DEF c, S
<1>8. ASSUME Separators(buffer) = {}, c # k
      PROVE  FALSE
  <2> DEFINE w == BlockWire[script[k + 1]]
  <2>1. k \in 0..(N - 1) /\ k + 1 \in 0..N /\ c \in (k + 1)..N /\ k \in Nat
    BY <1>2, <1>4, <1>7, <1>8
  <2>2. w = BlockWire[script[k + 1]]
    OBVIOUS
  <2> HIDE DEF w
  <2>3. Len(w) \in 3..8 /\ Off(k + 1) = Off(k) + Len(w)
    BY <1>4, <2>1, <2>2, WireAt DEF WellFormed
  <2>4. Off(k + 1) <= Off(c) /\ Off(k) \in Nat /\ Off(k + 1) \in Nat /\ Off(c) \in Nat
    BY <1>2, <1>4, <1>7, <2>1
  <2>5. Len(w) <= Len(buffer)
    BY <1>3, <1>7, <2>3, <2>4
  <2>6. Len(w) - 1 \in 1..(Len(w) - 1)
    <3>1. \A n \in 3..8 : n - 1 \in 1..(n - 1)
      OBVIOUS
    <3> QED
      BY <2>3, <3>1
  <2>7. Len(w) - 1 \in Separators(buffer)
    BY <1>4, <2>1, <2>2, <2>5, <2>6, SeparatorAt
  <2> QED
    BY <1>8, <2>7
<1> QED
  BY <1>1, <1>4, <1>7, <1>8

-----------------------------------------------------------------------------
(* The steps.                                                              *)

\* The text before the first blank line is that of block k + 1, and the text
\* behind it is behind that block.
LEMMA TakeBlock ==
  ASSUME Types, Unread, NEW k \in 0..Len(script), Buffered(k), Separators(buffer) # {},
         NEW pos, pos = Min(Separators(buffer)), buffer' = After(buffer, pos),
         UNCHANGED <<script, rest>>
  PROVE  /\ k + 1 \in 0..Len(script) /\ script[k + 1] \in Blocks
         /\ ReadBlock(SubSeq(buffer, 1, pos - 1), script[k + 1])
         /\ buffer' \in Seq(Texts) /\ Buffered(k + 1)'
<1> DEFINE w == BlockWire[script[k + 1]]
           n == Len(w)
           m == Len(buffer)
<1>1. k \in 0..(Len(script) - 1) /\ n <= m /\ pos = n - 1
  BY FirstBlock
<1>2. w = BlockWire[script[k + 1]] /\ n = Len(w)
  OBVIOUS
<1>3. m \in Nat /\ buffer \in Seq(Texts) /\ m = Len(buffer)
  BY DEF Types
<1> HIDE DEF w, n, m
<1>4. n \in 3..8 /\ k + 1 \in 0..Len(script) /\ script[k + 1] \in Blocks
  BY <1>1, <1>2, WireAt DEF WellFormed
<1>5. \A i \in 1..n : PieceReads(buffer[i], w[i])
  <2> SUFFICES ASSUME NEW i \in 1..n PROVE PieceReads(buffer[i], w[i])
    OBVIOUS
  <2>1. i \in 1..Len(w) /\ i <= Len(buffer)
    BY <1>1, <1>2, <1>3, <1>4
  <2> QED
    BY <1>1, <1>2, <2>1, LineEnds
<1>6. ReadBlock(SubSeq(buffer, 1, pos - 1), script[k + 1])
  <2> DEFINE s == SubSeq(buffer, 1, pos - 1)
             l == n - 2
  <2>1. s \in Seq(Texts) /\ Len(s) = l /\ \A i \in 1..l : s[i] = buffer[i]
    <3>1. l \in Nat /\ l <= m /\ pos - 1 = l
      BY <1>1, <1>3, <1>4
    <3> HIDE DEF l
    <3> QED
      BY <1>3, <3>1
  <2>2. \A i \in 1..l : i \in 1..n
    BY <1>4
  <2> HIDE DEF s
  <2> QED
    BY <1>2, <1>5, <2>1, <2>2 DEF ReadBlock, s
<1>7. /\ buffer' \in Seq(Texts) /\ Len(buffer') = m - n
      /\ \A i \in 1..(m - n) : buffer'[i] = buffer[n + i]
  <2>1. buffer' = SubSeq(buffer, n + 1, m)
    <3>1. pos + 2 = n + 1
      BY <1>1, <1>4
    <3> QED
      BY <1>3, <3>1 DEF After
  <2>2. n \in 0..m
    BY <1>1, <1>4, <1>3
  <2> QED
    BY <1>3, <2>1, <2>2, Behind
<1>8. Off(k + 1) = Off(k) + n /\ Off(k) \in Nat
  BY <1>1, <1>2, WireAt, WireFacts
<1>9. /\ Off(k) + m = Received
      /\ \A i \in 1..m : PieceReads(buffer[i], Wire(script)[Off(k) + i])
  BY <1>3 DEF Buffered
<1>10. Off(k + 1) + Len(buffer') = Received
  <2>1. \A a \in Nat : a + n + (m - n) = a + m
    BY <1>3, <1>4
  <2> QED
    BY <1>7, <1>8, <1>9, <2>1
<1>11. \A i \in 1..Len(buffer') : PieceReads(buffer'[i], Wire(script)[Off(k + 1) + i])
  <2> SUFFICES ASSUME NEW i \in 1..(m - n)
               PROVE  PieceReads(buffer[n + i], Wire(script)[Off(k + 1) + i])
    BY <1>7
  <2>1. n + i \in 1..m /\ Off(k) + (n + i) = Off(k + 1) + i
    BY <1>1, <1>3, <1>4, <1>8
  <2>2. PieceReads(buffer[n + i], Wire(script)[Off(k) + (n + i)])
    BY <1>9, <2>1
  <2> QED
    BY <2>1, <2>2
<1>12. script' = script /\ rest' = rest /\ Off(k + 1)' = Off(k + 1) /\ Received' = Received
  BY DEF Off, Received
<1>13. Buffered(k + 1)'
  BY <1>10, <1>11, <1>12 DEF Buffered
<1> QED
  BY <1>4, <1>6, <1>7, <1>13

\* An event more on both sides.
LEMMA OneMore ==
  ASSUME NEW came, NEW T, NEW S, came \in Seq(S), NEW written \in Seq(T), AsWritten(came, written),
         NEW more \in Seq(T), Len(more) = 1, NEW e \in S, Reads(e, more[1])
  PROVE  AsWritten(Append(came, e), written \o more)
<1> DEFINE s == Append(came, e)
           t == written \o more
           n == Len(came)
<1>1. n \in Nat /\ Len(written) = n
  BY DEF AsWritten
<1>2. Len(s) = n + 1 /\ DOMAIN s = 1..(n + 1) /\ s[n + 1] = e /\ \A i \in 1..n : s[i] = came[i]
  OBVIOUS
<1>3. Len(t) = n + 1 /\ t[n + 1] = more[1] /\ \A i \in 1..n : t[i] = written[i]
  <2>1. /\ Len(written \o more) = Len(written) + Len(more)
        /\ Extends(written \o more, written)
        /\ \A j \in 1..Len(more) : (written \o more)[Len(written) + j] = more[j]
    BY ConcatExtends
  <2> QED
    BY <1>1, <2>1 DEF Extends
<1>4. \A i \in 1..n : Reads(came[i], written[i])
  BY <1>1 DEF AsWritten
<1> HIDE DEF s, t, n
<1>5. \A i \in 1..(n + 1) : Reads(s[i], t[i])
  <2> SUFFICES ASSUME NEW i \in 1..(n + 1) PROVE Reads(s[i], t[i])
    OBVIOUS
  <2>1. CASE i = n + 1
    BY <1>2, <1>3, <2>1
  <2>2. CASE i # n + 1
    <3>1. i \in 1..n
      BY <1>1, <2>2
    <3> QED
      BY <1>2, <1>3, <1>4, <3>1
  <2> QED
    BY <2>1, <2>2
<1>6. AsWritten(s, t)
  BY <1>2, <1>3, <1>5 DEF AsWritten
<1> QED
  BY <1>6 DEF s, t

-----------------------------------------------------------------------------
(* The invariant is kept.                                                  *)

\* It holds at the start.
LEMMA InitIInv == Init => IInv
<1> SUFFICES ASSUME Init PROVE IInv
  OBVIOUS
<1>1. script \in Seq(Blocks) /\ Len(script) <= MaxBlocks
  <2>1. script \in UNION {[1..m -> Blocks] : m \in 0..MaxBlocks}
    BY DEF Init, BoundedSeq, SeqOf
  <2>2. PICK m \in 0..MaxBlocks : script \in [1..m -> Blocks]
    BY <2>1
  <2> QED
    BY <2>2, BlocksAssumption
<1>2. Types
  <2>1. << >> \in Seq(Texts) /\ << >> \in Seq(Seq(Texts))
    OBVIOUS
  <2> QED
    BY <1>1, <2>1 DEF Types, Init
<1>3. rest = Wire(script) /\ buffer = << >> /\ emitted = << >> /\ mode = "parse"
  BY DEF Init
<1>4. Wire(script) \in Seq(Pieces) /\ Len(Wire(script)) \in Nat /\ Off(0) = 0 /\ Len(script) \in Nat
  BY <1>2, WireFacts
<1>5. Received = 0
  BY <1>3, <1>4 DEF Received
<1>6. Unread
  BY <1>3, <1>4, <1>5 DEF Unread
<1>7. Len(buffer) = 0
  BY <1>3
<1>8. Buffered(0)
  BY <1>4, <1>5, <1>7 DEF Buffered
<1>9. Handed(0)
  <2>1. Events(Start(script, 0)) = << >>
    BY <1>2, EventFacts
  <2> QED
    BY <1>3, <2>1 DEF Handed, AsWritten
<1>10. Looked(0)
  <2>1. Separators(buffer) = {}
    BY <1>7 DEF Separators
  <2> QED
    BY <2>1 DEF Looked
<1> QED
  BY <1>2, <1>4, <1>6, <1>8, <1>9, <1>10 DEF IInv, At

\* One event more, or none, for block k + 1.
LEMMA HandedOn ==
  ASSUME Types, NEW k \in 0..(Len(script) - 1), Handed(k), UNCHANGED script,
         LET e == BlockEvents[script[k + 1]]
         IN  \/ e = << >> /\ UNCHANGED emitted
             \/ \E data \in Seq(Texts) : /\ Len(e) = 1 /\ Reads(data, e[1])
                                         /\ emitted' = Append(emitted, data)
  PROVE  emitted' \in Seq(Seq(Texts)) /\ Handed(k + 1)'
<1> DEFINE e == BlockEvents[script[k + 1]]
           s == Events(Start(script, k))
           t == Events(Start(script, k + 1))
<1>1. s \in Seq(Seq(Pieces)) /\ e \in Seq(Seq(Pieces)) /\ t = s \o e
  <2>1. k \in 0..Len(script)
    OBVIOUS
  <2> QED
    BY <2>1, EventFacts
<1>2. AsWritten(emitted, s) /\ emitted \in Seq(Seq(Texts))
  BY DEF Handed, Types
<1>3. Handed(k + 1)' <=> AsWritten(emitted', t)
  BY DEF Handed
<1>4. \/ e = << >> /\ UNCHANGED emitted
      \/ \E data \in Seq(Texts) : /\ Len(e) = 1 /\ Reads(data, e[1])
                                  /\ emitted' = Append(emitted, data)
  OBVIOUS
<1> HIDE DEF e, s, t
<1>5. CASE e = << >> /\ UNCHANGED emitted
  <2>1. t = s
    BY <1>1, <1>5, ConcatEmptySeq
  <2> QED
    BY <1>2, <1>3, <1>5, <2>1
<1>6. ASSUME NEW data \in Seq(Texts), Len(e) = 1, Reads(data, e[1]),
             emitted' = Append(emitted, data)
      PROVE  emitted' \in Seq(Seq(Texts)) /\ AsWritten(emitted', t)
  <2> DEFINE S == Seq(Texts)
             T == Seq(Pieces)
  <2>1. /\ emitted \in Seq(S) /\ data \in S /\ s \in Seq(T) /\ e \in Seq(T)
    BY <1>1, <1>2
  <2> HIDE DEF S, T
  <2>2. AsWritten(Append(emitted, data), s \o e)
    BY <1>2, <1>6, <2>1, OneMore
  <2>3. Append(emitted, data) \in Seq(S)
    BY <2>1, AppendProperties
  <2> QED
    BY <1>1, <1>6, <2>2, <2>3 DEF S
<1> QED
  BY <1>3, <1>4, <1>5, <1>6

\* A block is taken off the buffer.
LEMMA ParseBlockKeeps == IInv /\ ParseBlock => IInv'
<1> SUFFICES ASSUME IInv, ParseBlock PROVE IInv'
  OBVIOUS
<1> USE DEF IInv
<1>1. PICK k \in 0..Len(script) : At(k)
  OBVIOUS
<1> DEFINE pos == Min(Separators(buffer))
           block == SubSeq(buffer, 1, pos - 1)
           data == Data(block)
           b == script[k + 1]
<1>2. /\ mode \in {"parse", "last"} /\ Separators(buffer) # {}
      /\ buffer' = After(buffer, pos) /\ UNCHANGED <<script, rest, source>>
  BY DEF ParseBlock
<1>3. \/ data = << >> /\ NothingParsed /\ UNCHANGED emitted
      \/ data # << >> /\ IsEvent(data) /\ emitted' = Append(emitted, data) /\ mode' = "parse"
      \/ data # << >> /\ ~IsEvent(data) /\ mode' = "parse" /\ UNCHANGED emitted
  BY DEF ParseBlock
<1>4. /\ k + 1 \in 0..Len(script) /\ b \in Blocks /\ ReadBlock(block, b)
      /\ buffer' \in Seq(Texts) /\ Buffered(k + 1)'
  <2>1. Buffered(k)
    BY <1>1 DEF At
  <2>2. pos = Min(Separators(buffer))
    OBVIOUS
  <2> HIDE DEF pos
  <2> QED
    BY <1>2, <2>1, <2>2, TakeBlock
<1> HIDE DEF pos, block
<1>5. Understood(block, b)
  <2>1. b \in DOMAIN BlockWire
    BY <1>4, BlockTypes
  <2> HIDE DEF b
  <2> QED
    BY <1>4, <2>1, Understands
<1>6. emitted' \in Seq(Seq(Texts)) /\ Handed(k + 1)'
  <2>1. Handed(k) /\ k \in 0..(Len(script) - 1)
    BY <1>1, <1>4 DEF At
  <2>2. \/ BlockEvents[b] = << >> /\ UNCHANGED emitted
        \/ \E d \in Seq(Texts) : /\ Len(BlockEvents[b]) = 1 /\ Reads(d, BlockEvents[b][1])
                                 /\ emitted' = Append(emitted, d)
    <3> HIDE DEF b
    <3> QED
      BY <1>3, <1>5 DEF Understood
  <2> QED
    BY <1>2, <2>1, <2>2, HandedOn
<1>7. Types' /\ Unread'
  <2>1. mode' \in {"parse", "wait", "ended"}
    BY <1>3 DEF NothingParsed
  <2>2. Types'
    BY <1>2, <1>4, <1>6, <2>1 DEF Types
  <2>3. Unread'
    BY <1>2 DEF Unread, Received
  <2> QED
    BY <2>2, <2>3
<1>8. Looked(k + 1)'
  <2>1. CASE data = << >> /\ NothingParsed
    <3>1. b = "keepalive"
      BY <1>5, <2>1 DEF Understood
    <3>2. k \in Nat /\ k + 1 >= 1 /\ k + 1 - 1 = k
      OBVIOUS
    <3>3. IdleAt(k + 1)'
      BY <1>2, <3>1, <3>2 DEF IdleAt, IsIdle
    <3>4. mode = "last" => IdleAt(k)'
      BY <1>1, <1>2 DEF At, Looked, IdleAt
    <3>5. mode' = "ended" => mode = "last"
      BY <1>2, <2>1 DEF NothingParsed
    <3>6. mode' = "ended" => IdleAt(k + 1 - 1)'
      BY <3>2, <3>4, <3>5
    <3> QED
      BY <3>3, <3>6 DEF Looked
  <2>2. CASE mode' = "parse"
    BY <2>2 DEF Looked
  <2> QED
    BY <1>3, <2>1, <2>2
<1>9. At(k + 1)'
  BY <1>4, <1>6, <1>8 DEF At
<1>10. k + 1 \in 0..Len(script')
  BY <1>2, <1>4
<1> QED
  BY <1>7, <1>9, <1>10

\* There is no blank line in the buffer.
LEMMA NoBlockKeeps == IInv /\ NoBlock => IInv'
<1> SUFFICES ASSUME IInv, NoBlock PROVE IInv'
  OBVIOUS
<1>1. PICK k \in 0..Len(script) : At(k)
  BY DEF IInv
<1>2. /\ Separators(buffer) = {} /\ mode' \in {"wait", "ended"}
      /\ UNCHANGED <<script, rest, source, buffer, emitted>>
  BY DEF NoBlock, NothingParsed
<1>3. Types' /\ Unread'
  BY <1>2 DEF IInv, Types, Unread, Received
<1>4. Separators(buffer)' = {}
  BY <1>2 DEF Separators
<1>5. At(k)'
  BY <1>1, <1>2, <1>4 DEF At, Buffered, Handed, Looked, Off, Received
<1> QED
  BY <1>1, <1>2, <1>3, <1>5 DEF IInv

\* A chunk is text like the bytes it was.
LEMMA LossyFacts ==
  ASSUME NEW chunk \in Seq(Pieces)
  PROVE  /\ Lossy(chunk) \in Seq(Texts) /\ Len(Lossy(chunk)) = Len(chunk)
         /\ \A i \in 1..Len(chunk) : PieceReads(Lossy(chunk)[i], chunk[i])
<1> DEFINE n == Len(chunk)
<1>1. n \in Nat /\ DOMAIN chunk = 1..n /\ \A i \in 1..n : chunk[i] \in Pieces
  OBVIOUS
<1> HIDE DEF n
<1>2. \A i \in 1..n : /\ PieceReads(Lossy(chunk)[i], chunk[i])
                      /\ Lossy(chunk)[i] \in Texts
  BY <1>1 DEF Lossy, PieceReads, Texts
<1>3. Lossy(chunk) \in [1..n -> Texts]
  <2>1. Lossy(chunk) = [i \in 1..n |-> Lossy(chunk)[i]]
    BY <1>1 DEF Lossy
  <2> QED
    BY <1>2, <2>1
<1>4. Lossy(chunk) \in Seq(Texts) /\ Len(Lossy(chunk)) = n
  BY <1>1, <1>3, SeqDef, LenProperties
<1> QED
  BY <1>2, <1>4 DEF n

\* Bytes are read into the buffer.
LEMMA ReadChunkKeeps == IInv /\ ReadChunk => IInv'
<1> SUFFICES ASSUME IInv, ReadChunk PROVE IInv'
  OBVIOUS
<1>1. PICK k \in 0..Len(script) : At(k)
  BY DEF IInv
<1>2. PICK n \in 1..Len(rest) : /\ buffer' = Extend(buffer, SubSeq(rest, 1, n))
                                /\ rest' = SubSeq(rest, n + 1, Len(rest))
  BY DEF ReadChunk
<1>3. mode' = "parse" /\ UNCHANGED <<script, source, emitted>>
  BY DEF ReadChunk
<1> DEFINE W == Wire(script)
           chunk == SubSeq(rest, 1, n)
           r == Len(rest)
           m == Len(buffer)
<1>4. /\ W \in Seq(Pieces) /\ Len(W) \in Nat /\ Off(k) \in Nat
  BY <1>1, WireFacts DEF IInv
<1>5. /\ rest \in Seq(Pieces) /\ r \in Nat /\ r <= Len(W) /\ n \in Nat /\ n <= r /\ n >= 1
      /\ r = Len(rest)
      /\ \A i \in 1..r : rest[i] = W[Received + i]
  BY <1>2 DEF IInv, Unread
<1>6. Received = Len(W) - r
  BY DEF Received
<1>7. buffer \in Seq(Texts) /\ m \in Nat /\ m = Len(buffer)
  BY DEF IInv, Types
<1>8. Off(k) + m = Received /\ \A i \in 1..m : PieceReads(buffer[i], W[Off(k) + i])
  BY <1>1 DEF At, Buffered
<1>9. /\ chunk \in Seq(Pieces) /\ Len(chunk) = n
      /\ \A i \in 1..n : chunk[i] = rest[i]
  <2> HIDE DEF r
  <2> QED
    BY <1>5
<1>10. /\ rest' \in Seq(Pieces) /\ Len(rest') = r - n
       /\ \A i \in 1..(r - n) : rest'[i] = rest[n + i]
  <2>1. n \in 0..r /\ rest' = SubSeq(rest, n + 1, r)
    BY <1>2, <1>5
  <2> HIDE DEF r, W, chunk
  <2> QED
    BY <1>5, <2>1, Behind
<1> DEFINE text == Lossy(chunk)
<1>11. /\ text \in Seq(Texts) /\ Len(text) = n
       /\ \A i \in 1..n : PieceReads(text[i], rest[i])
  <2> HIDE DEF chunk
  <2> QED
    BY <1>9, LossyFacts
<1>12. buffer' = buffer \o text
  BY <1>2 DEF Extend
<1> HIDE DEF text, chunk, W, r, m
<1>13. /\ buffer' \in Seq(Texts) /\ Len(buffer') = m + n
       /\ \A i \in 1..m : buffer'[i] = buffer[i]
       /\ \A i \in 1..n : buffer'[m + i] = text[i]
  <2>1. /\ buffer \o text \in Seq(Texts) /\ Len(buffer \o text) = Len(buffer) + Len(text)
        /\ Extends(buffer \o text, buffer)
        /\ \A j \in 1..Len(text) : (buffer \o text)[Len(buffer) + j] = text[j]
    BY <1>7, <1>11, ConcatExtends
  <2> QED
    BY <1>7, <1>11, <1>12, <2>1 DEF Extends
<1>14. Received' = Received + n
  <2>1. Received' = Len(W) - Len(rest')
    BY <1>3 DEF Received, W
  <2> QED
    BY <1>4, <1>5, <1>6, <1>10, <2>1
<1>15. Unread'
  <2>1. Wire(script)' = W
    BY <1>3 DEF W
  <2>2. Len(rest') <= Len(W)
    BY <1>4, <1>5, <1>10
  <2>3. \A i \in 1..Len(rest') : rest'[i] = W[Received' + i]
    <3> SUFFICES ASSUME NEW i \in 1..(r - n) PROVE rest'[i] = W[Received' + i]
      BY <1>10
    <3>1. n + i \in 1..r /\ Received + (n + i) = Received' + i
      BY <1>4, <1>5, <1>6, <1>14
    <3> QED
      BY <1>5, <1>10, <3>1
  <2> QED
    BY <1>10, <2>1, <2>2, <2>3 DEF Unread
<1>16. Buffered(k)'
  <2>1. Off(k)' = Off(k) /\ Wire(script)' = W
    BY <1>3 DEF Off, W
  <2>2. Off(k) + Len(buffer') = Received'
    BY <1>4, <1>5, <1>7, <1>8, <1>13, <1>14
  <2>3. \A i \in 1..Len(buffer') : PieceReads(buffer'[i], W[Off(k) + i])
    <3> SUFFICES ASSUME NEW i \in 1..(m + n) PROVE PieceReads(buffer'[i], W[Off(k) + i])
      BY <1>13
    <3>1. CASE i <= m
      BY <1>7, <1>8, <1>13, <3>1
    <3>2. CASE ~(i <= m)
      <4> DEFINE j == i - m
      <4>1. j \in 1..n /\ m + j = i /\ Received + j = Off(k) + i /\ j \in 1..r
        <5>1. /\ m \in Nat /\ n \in Nat /\ r \in Nat /\ n <= r
              /\ Off(k) \in Nat /\ Off(k) + m = Received
          BY <1>4, <1>5, <1>7, <1>8
        <5> QED
          BY <3>2, <5>1
      <4> HIDE DEF j
      <4> QED
        BY <1>5, <1>11, <1>13, <4>1
    <3> QED
      BY <3>1, <3>2
  <2> QED
    BY <2>1, <2>2, <2>3 DEF Buffered
<1>17. Handed(k)' /\ Looked(k)'
  BY <1>1, <1>3 DEF At, Handed, Looked
<1>18. Types'
  BY <1>3, <1>13 DEF IInv, Types
<1> QED
  BY <1>3, <1>15, <1>16, <1>17, <1>18 DEF IInv, At

\* A buffer of line ends only is empty.
LEMMA BlankIsEmpty ==
  ASSUME Types, Unread, NEW k \in 0..Len(script), Buffered(k), IsBlank(buffer)
  PROVE  Separators(buffer) = {}
<1> SUFFICES ASSUME Separators(buffer) # {} PROVE FALSE
  OBVIOUS
<1> DEFINE w == BlockWire[script[k + 1]]
<1>1. k \in 0..(Len(script) - 1) /\ Len(w) <= Len(buffer)
  BY FirstBlock
<1>2. w = BlockWire[script[k + 1]]
  OBVIOUS
<1> HIDE DEF w
<1>3. Len(w) \in 3..8 /\ w[1] # "NL"
  BY <1>1, <1>2, WireAt DEF WellFormed
<1>4. 1 \in 1..Len(w) /\ 1 <= Len(buffer)
  <2>1. buffer \in Seq(Texts)
    BY DEF Types
  <2> QED
    BY <1>1, <1>3, <2>1
<1>5. buffer[1] # "NL"
  BY <1>1, <1>2, <1>3, <1>4, LineEnds
<1>6. 1 \in DOMAIN buffer
  BY <1>4 DEF Types
<1> QED
  BY <1>5, <1>6 DEF IsBlank

\* An error of the byte stream is skipped.
LEMMA ReadErrorKeeps == IInv /\ ReadError => IInv'
<1> SUFFICES ASSUME IInv, ReadError PROVE IInv'
  OBVIOUS
<1>1. PICK k \in 0..Len(script) : At(k)
  BY DEF IInv
<1>2. /\ mode' = "parse" /\ source' \in {"open", "expired", "failed", "closed"}
      /\ UNCHANGED <<script, rest, buffer, emitted>>
  BY DEF ReadError, IInv, Types
<1>3. Types' /\ Unread'
  BY <1>2 DEF IInv, Types, Unread, Received
<1>4. At(k)'
  BY <1>1, <1>2 DEF At, Buffered, Handed, Looked, Off, Received
<1> QED
  BY <1>1, <1>2, <1>3, <1>4 DEF IInv

\* The byte stream has ended.
LEMMA ReadEndKeeps == IInv /\ ReadEnd => IInv'
<1> SUFFICES ASSUME IInv, ReadEnd PROVE IInv'
  OBVIOUS
<1>1. PICK k \in 0..Len(script) : At(k)
  BY DEF IInv
<1>2. /\ mode = "wait" /\ source = "closed" /\ mode' \in {"last", "ended"}
      /\ mode' = "ended" => IsBlank(buffer)
      /\ UNCHANGED <<script, rest, source, buffer, emitted>>
  BY DEF ReadEnd
<1>3. Types' /\ Unread'
  BY <1>2 DEF IInv, Types, Unread, Received
<1>4. mode' = "ended" => Separators(buffer) = {}
  BY <1>1, <1>2, BlankIsEmpty DEF IInv, At
<1>5. At(k)'
  <2>1. Separators(buffer)' = Separators(buffer) /\ (IdleAt(k))' = IdleAt(k)
    BY <1>2 DEF Separators, IdleAt
  <2>2. Looked(k)'
    BY <1>1, <1>2, <1>4, <2>1 DEF At, Looked
  <2> QED
    BY <1>1, <1>2, <2>2 DEF At, Buffered, Handed, Off, Received
<1> QED
  BY <1>1, <1>2, <1>3, <1>5 DEF IInv

\* The connection ends, or its time runs out.
LEMMA EndKeeps == IInv /\ (Disconnect \/ Expire) => IInv'
<1> SUFFICES ASSUME IInv, Disconnect \/ Expire PROVE IInv'
  OBVIOUS
<1>1. PICK k \in 0..Len(script) : At(k)
  BY DEF IInv
<1>2. /\ Flowing /\ source' \in {"expired", "failed", "closed"}
      /\ UNCHANGED <<script, rest, buffer, mode, emitted>>
  BY DEF Disconnect, Expire, Flowing, parserVars
<1>3. Types' /\ Unread'
  BY <1>2 DEF IInv, Types, Unread, Received, Flowing
<1>4. At(k)'
  BY <1>1, <1>2 DEF At, Buffered, Handed, Looked, IdleAt, Off, Received
<1> QED
  BY <1>1, <1>2, <1>3, <1>4 DEF IInv

\* Every step keeps the invariant.
LEMMA NextKeeps == IInv /\ [Next]_vars => IInv'
<1> SUFFICES ASSUME IInv, [Next]_vars PROVE IInv'
  OBVIOUS
<1>1. CASE ParseBlock
  BY <1>1, ParseBlockKeeps
<1>2. CASE NoBlock
  BY <1>2, NoBlockKeeps
<1>3. CASE ReadChunk
  BY <1>3, ReadChunkKeeps
<1>4. CASE ReadError
  BY <1>4, ReadErrorKeeps
<1>5. CASE ReadEnd
  BY <1>5, ReadEndKeeps
<1>6. CASE Disconnect \/ Expire
  BY <1>6, EndKeeps
<1>7. CASE UNCHANGED vars
  BY <1>7 DEF vars, parserVars, IInv, Types, Unread, At, Buffered, Handed, Looked, IdleAt, Off,
              Received
<1> QED
  BY <1>1, <1>2, <1>3, <1>4, <1>5, <1>6, <1>7 DEF Next, ParserStep

\* The invariant holds in every state that is reached.
LEMMA Invariant == Spec => []IInv
BY InitIInv, NextKeeps, PTL DEF Spec

-----------------------------------------------------------------------------
(* A wire that is still being written, as RestStream has it.               *)

\* One block more is written and sent.
Written(b) == /\ script' = Append(script, b)
              /\ rest' = rest \o BlockWire[b]
              /\ UNCHANGED <<source, buffer, mode, emitted>>

\* What the blocks come to with one more, and what they came to before.
LEMMA WrittenFacts ==
  ASSUME Types, NEW b \in Blocks
  PROVE  LET more == Append(script, b)
         IN  /\ more \in Seq(Blocks) /\ Len(more) = Len(script) + 1
             /\ Wire(more) = Wire(script) \o BlockWire[b]
             /\ Events(more) = Events(script) \o BlockEvents[b]
             /\ \A k \in 0..Len(script) : Start(more, k) = Start(script, k)
             /\ \A k \in 1..Len(script) : more[k] = script[k]
<1> DEFINE more == Append(script, b)
<1>1. script \in Seq(Blocks)
  BY DEF Types
<1>2. more \in Seq(Blocks) /\ Len(more) = Len(script) + 1
      /\ \A k \in 1..Len(script) : more[k] = script[k]
  BY <1>1
<1>3. Wire(more) = Wire(script) \o BlockWire[b]
  <2> DEFINE of == BlockWire
             T == Pieces
  <2>1. \A x \in Blocks : of[x] \in Seq(T)
    BY BlockTypes
  <2> HIDE DEF of, T
  <2>2. Laid(of, Append(script, b)) = Laid(of, script) \o of[b]
    BY <1>1, <2>1, LaidAppend
  <2> QED
    BY <2>2 DEF Wire, of
<1>4. Events(more) = Events(script) \o BlockEvents[b]
  <2> DEFINE of == BlockEvents
             T == Seq(Pieces)
  <2>1. \A x \in Blocks : of[x] \in Seq(T)
    BY BlockTypes
  <2> HIDE DEF of, T
  <2>2. Laid(of, Append(script, b)) = Laid(of, script) \o of[b]
    BY <1>1, <2>1, LaidAppend
  <2> QED
    BY <2>2 DEF Events, of
<1>5. \A k \in 0..Len(script) : Start(more, k) = Start(script, k)
  <2> SUFFICES ASSUME NEW k \in 0..Len(script) PROVE SubSeq(more, 1, k) = SubSeq(script, 1, k)
    BY DEF Start
  <2> HIDE DEF more
  <2> QED
    BY <1>1, <1>2
<1> QED
  BY <1>2, <1>3, <1>4, <1>5

\* The invariant is kept by that.
LEMMA WriteKeeps ==
  ASSUME IInv, NEW b \in Blocks, Len(script) < MaxBlocks, Written(b)
  PROVE  IInv'
<1>1. PICK k \in 0..Len(script) : At(k)
  BY DEF IInv
<1> DEFINE W == Wire(script)
           w == BlockWire[b]
           V == Wire(script)'
           N == Len(script)
           r == Len(rest)
<1>2. Types /\ Unread
  BY DEF IInv
<1>3. /\ script' \in Seq(Blocks) /\ Len(script') = N + 1 /\ V = W \o w
      /\ \A j \in 0..N : Start(script', j) = Start(script, j)
      /\ \A j \in 1..N : script'[j] = script[j]
  BY <1>2, WrittenFacts DEF Written
<1>4. W \in Seq(Pieces) /\ Len(W) \in Nat /\ N \in Nat /\ Off(k) \in Nat
  BY <1>1, <1>2, WireFacts
<1>5. w \in Seq(Pieces) /\ Len(w) \in Nat
  BY BlockTypes
<1>6. Types'
  <2>1. N + 1 <= MaxBlocks
    BY <1>4, BlocksAssumption
  <2> QED
    BY <1>2, <1>3, <2>1 DEF Types, Written
<1>7. /\ rest \in Seq(Pieces) /\ r \in Nat /\ r <= Len(W)
      /\ \A i \in 1..r : rest[i] = W[Received + i]
  BY <1>2 DEF Unread
<1>8. Received = Len(W) - r
  BY DEF Received
<1>9. rest' = rest \o w
  BY DEF Written
<1> HIDE DEF W, w, V, N, r
<1>10. /\ V \in Seq(Pieces) /\ Len(V) = Len(W) + Len(w)
       /\ \A i \in 1..Len(W) : V[i] = W[i]
       /\ \A j \in 1..Len(w) : V[Len(W) + j] = w[j]
  <2>1. /\ W \o w \in Seq(Pieces) /\ Len(W \o w) = Len(W) + Len(w)
        /\ Extends(W \o w, W)
        /\ \A j \in 1..Len(w) : (W \o w)[Len(W) + j] = w[j]
    BY <1>4, <1>5, ConcatExtends
  <2> QED
    BY <1>3, <2>1 DEF Extends
<1>11. /\ rest' \in Seq(Pieces) /\ Len(rest') = r + Len(w)
       /\ \A i \in 1..r : rest'[i] = rest[i]
       /\ \A j \in 1..Len(w) : rest'[r + j] = w[j]
  <2>1. /\ rest \o w \in Seq(Pieces) /\ Len(rest \o w) = Len(rest) + Len(w)
        /\ Extends(rest \o w, rest)
        /\ \A j \in 1..Len(w) : (rest \o w)[Len(rest) + j] = w[j]
    BY <1>5, <1>7, ConcatExtends
  <2> QED
    BY <1>9, <2>1 DEF Extends, r
<1>12. Received' = Received
  <2>1. Received' = Len(V) - Len(rest')
    BY DEF Received, V
  <2> QED
    BY <1>4, <1>5, <1>7, <1>8, <1>10, <1>11, <2>1
<1>13. Unread'
  <2>1. Len(rest') <= Len(V)
    BY <1>4, <1>5, <1>7, <1>10, <1>11
  <2>2. \A i \in 1..Len(rest') : rest'[i] = V[Received' + i]
    <3> SUFFICES ASSUME NEW i \in 1..(r + Len(w)) PROVE rest'[i] = V[Received + i]
      BY <1>11, <1>12
    <3>1. CASE i <= r
      <4>1. i \in 1..r /\ Received + i \in 1..Len(W)
        <5>1. i \in Nat /\ i >= 1 /\ r \in Nat /\ Len(W) \in Nat /\ r <= Len(W)
          BY <1>4, <1>7
        <5> QED
          BY <1>8, <3>1, <5>1
      <4> QED
        BY <1>7, <1>10, <1>11, <4>1
    <3>2. CASE ~(i <= r)
      <4> DEFINE j == i - r
      <4>1. j \in 1..Len(w) /\ r + j = i /\ Len(W) + j = Received + i
        <5>1. i \in Nat /\ r \in Nat /\ Len(W) \in Nat /\ Len(w) \in Nat /\ i <= r + Len(w)
          BY <1>4, <1>5, <1>7
        <5> QED
          BY <1>8, <3>2, <5>1
      <4> HIDE DEF j
      <4> QED
        BY <1>10, <1>11, <4>1
    <3> QED
      BY <3>1, <3>2
  <2> QED
    BY <1>11, <2>1, <2>2 DEF Unread, V
<1>14. Off(k)' = Off(k) /\ Events(Start(script, k))' = Events(Start(script, k))
  <2>1. Start(script, k)' = Start(script, k)
    BY <1>1, <1>3 DEF N
  <2> QED
    BY <2>1 DEF Off
<1>15. UNCHANGED <<source, buffer, mode, emitted>>
  BY DEF Written
<1>16. Buffered(k)'
  <2>1. /\ Off(k) + Len(buffer) = Received
        /\ \A i \in 1..Len(buffer) : PieceReads(buffer[i], W[Off(k) + i])
    BY <1>1 DEF At, Buffered, W
  <2>2. Len(buffer) \in Nat
    BY <1>2 DEF Types
  <2>3. \A i \in 1..Len(buffer) : PieceReads(buffer[i], V[Off(k) + i])
    <3> SUFFICES ASSUME NEW i \in 1..Len(buffer) PROVE PieceReads(buffer[i], V[Off(k) + i])
      OBVIOUS
    <3>1. Off(k) + i \in 1..Len(W)
      BY <1>4, <1>7, <1>8, <2>1, <2>2
    <3> QED
      BY <1>10, <2>1, <3>1
  <2> QED
    BY <1>12, <1>14, <1>15, <2>1, <2>3 DEF Buffered, V
<1>17. Handed(k)'
  BY <1>1, <1>14, <1>15 DEF At, Handed
<1>18. Looked(k)'
  <2>1. (IdleAt(k) => IdleAt(k)') /\ (IdleAt(k - 1) => IdleAt(k - 1)')
    <3>1. k <= N /\ k \in Nat
      BY <1>1 DEF N
    <3> QED
      BY <1>3, <1>4, <3>1 DEF IdleAt
  <2>2. Separators(buffer)' = Separators(buffer) /\ mode' = mode
    BY <1>15
  <2> QED
    BY <1>1, <2>1, <2>2 DEF At, Looked
<1>19. k \in 0..Len(script')
  BY <1>1, <1>3, <1>4 DEF N
<1> QED
  BY <1>6, <1>13, <1>16, <1>17, <1>18, <1>19 DEF IInv, At

\* The consumer has the first of all the events written so far.
LEMMA EventsOfAll ==
  ASSUME IInv
  PROVE  /\ emitted \in Seq(Seq(Texts)) /\ Events(script) \in Seq(Seq(Pieces))
         /\ Len(emitted) <= Len(Events(script))
         /\ \A e \in 1..Len(emitted) : Reads(emitted[e], Events(script)[e])
<1>1. PICK k \in 0..Len(script) : At(k)
  BY DEF IInv
<1>2. Types
  BY DEF IInv
<1> DEFINE first == Events(Start(script, k))
           all == Events(script)
<1>3. Extends(all, first) /\ all \in Seq(Seq(Pieces))
  <2> DEFINE N == Len(script)
  <2>1. script \in Seq(Blocks)
    BY <1>2 DEF Types
  <2>2. N \in k..N /\ N \in 0..N /\ Start(script, N) = script
    BY <2>1 DEF Start
  <2>3. Extends(Events(Start(script, N)), first) /\ Events(Start(script, N)) \in Seq(Seq(Pieces))
    <3> HIDE DEF first
    <3>1. Events(Start(script, N)) \in Seq(Seq(Pieces))
      BY <1>2, <2>2, EventFacts
    <3>2. Extends(Events(Start(script, N)), Events(Start(script, k)))
      BY <1>2, <2>2, EventFacts
    <3> QED
      BY <3>1, <3>2 DEF first
  <2> QED
    BY <2>2, <2>3
<1>4. AsWritten(emitted, first)
  BY <1>1 DEF At, Handed
<1>5. emitted \in Seq(Seq(Texts)) /\ DOMAIN emitted = 1..Len(emitted)
  BY <1>2 DEF Types
<1> HIDE DEF first, all
<1>6. /\ Len(emitted) <= Len(all)
      /\ \A e \in 1..Len(emitted) : Reads(emitted[e], all[e])
  BY <1>3, <1>4, <1>5 DEF AsWritten, Extends
<1> QED
  BY <1>3, <1>5, <1>6 DEF all

\* When everything is read, every block is complete.
LEMMA AllRead ==
  ASSUME IInv, rest = << >>
  PROVE  Complete = script
<1> DEFINE N == Len(script)
           S == {n \in 0..N : Off(n) <= Received}
           c == Max(S)
<1>1. Complete = Start(script, c)
  BY DEF Complete, Start, Off
<1>2. N \in Nat /\ Off(N) = Len(Wire(script)) /\ Off(N) \in Nat /\ Start(script, N) = script
  <2>1. script \in Seq(Blocks)
    BY DEF IInv, Types
  <2> QED
    BY <2>1, WireFacts DEF IInv, Start
<1>3. Received = Off(N)
  BY <1>2 DEF Received
<1> HIDE DEF N
<1>4. N \in S /\ S \in SUBSET (0..N)
  BY <1>2, <1>3
<1>5. c \in S /\ N <= c
  <2> HIDE DEF S
  <2> QED
    BY <1>2, <1>4, MaxIs
<1>6. c = N
  <2> HIDE DEF c
  <2> QED
    BY <1>2, <1>5
<1> QED
  BY <1>1, <1>2, <1>6

-----------------------------------------------------------------------------
(* The theorems.                                                           *)

\* What the invariant says of types.
LEMMA TypesHold == IInv => TypeOK
<1> SUFFICES ASSUME IInv PROVE TypeOK
  OBVIOUS
<1>1. Types /\ Unread
  BY DEF IInv
<1>2. script \in BoundedSeq(Blocks, MaxBlocks)
  <2> DEFINE n == Len(script)
  <2>1. script \in [1..n -> Blocks] /\ n \in 0..MaxBlocks
    BY <1>1, BlocksAssumption DEF Types
  <2> QED
    BY <2>1 DEF BoundedSeq, SeqOf
<1>3. IsSuffix(rest, Wire(script))
  <2> DEFINE W == Wire(script)
             r == Len(rest)
             L == Len(W)
  <2>1. /\ W \in Seq(Pieces) /\ L \in Nat /\ rest \in Seq(Pieces) /\ r \in Nat /\ r <= L
        /\ \A i \in 1..r : rest[i] = W[L - r + i]
    BY <1>1, WireFacts DEF Unread, Received
  <2> HIDE DEF W, r, L
  <2> DEFINE back == Reverse(rest)
             forth == Reverse(W)
  <2>2. /\ back = [i \in 1..r |-> rest[(r - i) + 1]]
        /\ forth = [i \in 1..L |-> W[(L - i) + 1]]
    BY DEF Reverse, r, L
  <2>3. \A i \in 1..r : i \in 1..L /\ back[i] = forth[i]
    <3> SUFFICES ASSUME NEW i \in 1..r PROVE i \in 1..L /\ back[i] = forth[i]
      OBVIOUS
    <3>1. i \in 1..L /\ (r - i) + 1 \in 1..r /\ L - r + ((r - i) + 1) = (L - i) + 1
      BY <2>1
    <3> QED
      BY <2>1, <2>2, <3>1
  <2>4. back \in Seq(Pieces) /\ Len(back) = r /\ forth \in Seq(Pieces) /\ Len(forth) = L
    <3>1. \A i \in 1..r : rest[(r - i) + 1] \in Pieces
      BY <2>1 DEF r
    <3>2. \A i \in 1..L : W[(L - i) + 1] \in Pieces
      BY <2>1 DEF L
    <3>3. back \in [1..r -> Pieces] /\ forth \in [1..L -> Pieces]
      BY <2>2, <3>1, <3>2
    <3> QED
      BY <2>1, <3>3, SeqDef, LenProperties
  <2> HIDE DEF back, forth
  <2>5. SubSeq(back, 1, r) = SubSeq(forth, 1, r)
    BY <2>1, <2>3, <2>4
  <2> QED
    BY <2>1, <2>4, <2>5 DEF IsSuffix, IsPrefix, back, forth, W
<1> QED
  BY <1>1, <1>2, <1>3 DEF TypeOK, Types

\* The state is well-typed, and what is unread is the end of the wire.
THEOREM TypeCorrect == Spec => []TypeOK
BY Invariant, TypesHold, PTL

\* What follows from the invariant of the events of the complete blocks.
LEMMA DueFacts ==
  ASSUME IInv
  PROVE  \E k \in 0..Len(script) : \E c \in k..Len(script) :
            /\ At(k) /\ Complete = Start(script, c)
            /\ (Separators(buffer) = {} => c = k)
            /\ Extends(Due, Events(Start(script, k))) /\ Due \in Seq(Seq(Pieces))
<1>1. PICK k \in 0..Len(script) : At(k)
  BY DEF IInv
<1>2. Types /\ Unread /\ Buffered(k)
  BY <1>1 DEF IInv, At
<1>3. PICK c \in k..Len(script) :
         Complete = Start(script, c) /\ (Separators(buffer) = {} => c = k)
  BY <1>2, CompleteIs
<1>4. Extends(Events(Start(script, c)), Events(Start(script, k)))
  BY <1>2, EventFacts
<1>5. Events(Start(script, c)) \in Seq(Seq(Pieces))
  <2>1. c \in 0..Len(script)
    BY <1>2 DEF Types
  <2> QED
    BY <1>2, <2>1, EventFacts
<1> QED
  BY <1>1, <1>3, <1>4, <1>5 DEF Due

\* However the bytes are cut into chunks, the consumer gets events of the
\* server, in their order and none twice.
THEOREM Ordered == Spec => []InOrder
<1>1. IInv => InOrder
  <2> SUFFICES ASSUME IInv PROVE InOrder
    OBVIOUS
  <2>1. PICK k \in 0..Len(script) : At(k) /\ Extends(Due, Events(Start(script, k)))
    BY DueFacts
  <2> DEFINE first == Events(Start(script, k))
  <2>2. AsWritten(emitted, first) /\ Extends(Due, first)
    BY <2>1 DEF At, Handed
  <2>3. DOMAIN emitted = 1..Len(emitted)
    BY DEF IInv, Types
  <2> HIDE DEF first
  <2> QED
    BY <2>2, <2>3 DEF InOrder, AsWritten, Extends
<1> QED
  BY Invariant, <1>1, PTL

\* The parser waits for bytes only when it has handed out every event that is
\* complete, unless a keep-alive came.
THEOREM PromptParser == Spec => []Prompt
<1>1. IInv => Prompt
  <2> SUFFICES ASSUME IInv, mode = "wait", \A i \in DOMAIN Complete : ~IsIdle(Complete[i])
               PROVE  AllSeen
    BY DEF Prompt
  <2>0. PICK k \in 0..Len(script) :
          \E c \in k..Len(script) : /\ At(k) /\ Complete = Start(script, c)
                                    /\ Separators(buffer) = {} => c = k
    BY DueFacts
  <2>1. PICK c \in k..Len(script) : /\ At(k) /\ Complete = Start(script, c)
                                    /\ Separators(buffer) = {} => c = k
    BY <2>0
  <2>2. CASE Separators(buffer) = {}
    BY <2>1, <2>2 DEF At, Handed, AsWritten, AllSeen, Due
  <2>3. CASE Separators(buffer) # {}
    <3>1. k >= 1 /\ IsIdle(script[k])
      BY <2>1, <2>3 DEF At, Looked, IdleAt
    <3>2. k \in DOMAIN Complete /\ Complete[k] = script[k]
      <4>1. script \in Seq(Blocks)
        BY DEF IInv, Types
      <4> QED
        BY <2>1, <3>1, <4>1 DEF Start
    <3> QED
      BY <3>1, <3>2
  <2> QED
    BY <2>2, <2>3
<1> QED
  BY Invariant, <1>1, PTL

\* What the invariant says of the end of a stream.
LEMMA EndHolds == IInv => NothingLost
<1> SUFFICES ASSUME IInv, mode = "ended",
                    \A i \in 1..Len(Complete) - 1 :
                      ~(IsIdle(Complete[i]) /\ IsIdle(Complete[i + 1]))
             PROVE  AllSeen
  BY DEF NothingLost
<1>0. PICK k \in 0..Len(script) :
        \E c \in k..Len(script) : /\ At(k) /\ Complete = Start(script, c)
                                  /\ Separators(buffer) = {} => c = k
  BY DueFacts
<1>1. PICK c \in k..Len(script) : /\ At(k) /\ Complete = Start(script, c)
                                  /\ Separators(buffer) = {} => c = k
  BY <1>0
<1>2. CASE Separators(buffer) = {}
  BY <1>1, <1>2 DEF At, Handed, AsWritten, AllSeen, Due
<1>3. CASE Separators(buffer) # {}
  <2>1. k - 1 >= 1 /\ IsIdle(script[k]) /\ IsIdle(script[k - 1])
    BY <1>1, <1>3 DEF At, Looked, IdleAt
  <2> DEFINE i == k - 1
  <2>2. /\ i \in 1..Len(Complete) - 1
        /\ Complete[i] = script[i] /\ Complete[i + 1] = script[i + 1] /\ i + 1 = k
    <3>1. script \in Seq(Blocks)
      BY DEF IInv, Types
    <3> QED
      BY <1>1, <2>1, <3>1 DEF Start
  <2> HIDE DEF i
  <2> QED
    BY <2>1, <2>2 DEF i
<1> QED
  BY <1>2, <1>3

\* A stream of events ends with every event that is complete, unless two
\* keep-alives came one behind the other.
THEOREM NothingIsLost == Spec => []NothingLost
BY Invariant, EndHolds, PTL
=============================================================================
