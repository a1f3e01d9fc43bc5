-------------------------- MODULE XxhStreamProofs --------------------------
(***************************************************************************)
(* The digest of a stream is the hash of the whole message: for pieces of  *)
(* any sizes, as many as the caller likes, and any secret that is accepted.*)
(***************************************************************************)
EXTENDS XxhStream, SequenceTheorems, TLAPS

(***************************************************************************)
(* Sequences by index.                                                     *)
(***************************************************************************)
\* f is a sequence of n elements.
Run(f, n) == n \in Nat /\ f = [i \in 1 .. n |-> f[i]]

LEMMA RunFacts ==
    ASSUME NEW n \in Nat, NEW f, Run(f, n)
    PROVE  /\ n \in Nat
           /\ DOMAIN f = 1 .. n
           /\ f \in Seq({f[i] : i \in 1 .. n})
           /\ Len(f) = n
  <1> DEFINE S == {f[i] : i \in 1 .. n}
  <1>1. n \in Nat /\ f = [i \in 1 .. n |-> f[i]]
    BY DEF Run
  <1>2. \A i \in 1 .. n : f[i] \in S
    OBVIOUS
  <1> HIDE DEF S
  <1>3. f \in [1 .. n -> S]
    BY <1>1, <1>2
  <1>4. f \in Seq(S)
    BY <1>1, <1>3
  <1>5. Len(f) = n
    BY <1>1, <1>3, <1>4
  <1>6. DOMAIN f = 1 .. n
    BY <1>3
  <1> QED
    BY <1>1, <1>4, <1>5, <1>6 DEF S

\* Two sequences are the same if their elements are.
LEMMA RunEqual ==
    ASSUME NEW n \in Nat, NEW f, NEW g, Run(f, n), Run(g, n), \A i \in 1 .. n : f[i] = g[i]
    PROVE  f = g
  BY DEF Run

\* The provers know \o only on Seq; lemmas about Then hold of sequences as above.
Then(f, g) == f \o g

LEMMA RunJoined ==
    ASSUME NEW m \in Nat, NEW n \in Nat, NEW f, NEW g, Run(f, m), Run(g, n)
    PROVE  /\ Run(Then(f, g), m + n)
           /\ \A i \in 1 .. m : Then(f, g)[i] = f[i]
           /\ \A i \in 1 .. n : Then(f, g)[m + i] = g[i]
  <1> DEFINE S == {f[i] : i \in 1 .. m} \cup {g[i] : i \in 1 .. n}
             h == f \o g
  <1>1. /\ m \in Nat /\ Len(f) = m /\ f \in Seq({f[i] : i \in 1 .. m})
        /\ n \in Nat /\ Len(g) = n /\ g \in Seq({g[i] : i \in 1 .. n})
    BY RunFacts
  <1>2. f \in Seq(S)
    <2>1. {f[i] : i \in 1 .. m} \subseteq S
      OBVIOUS
    <2> HIDE DEF S
    <2> QED
      BY <1>1, <2>1, SeqMonotonic
  <1>3. g \in Seq(S)
    <2>1. {g[i] : i \in 1 .. n} \subseteq S
      OBVIOUS
    <2> HIDE DEF S
    <2> QED
      BY <1>1, <2>1, SeqMonotonic
  <1> HIDE DEF S
  <1>4. /\ h \in Seq(S) /\ Len(h) = Len(f) + Len(g)
        /\ \A i \in 1 .. Len(f) : h[i] = f[i]
        /\ \A i \in 1 .. Len(g) : h[Len(f) + i] = g[i]
    BY <1>2, <1>3, ConcatProperties
  <1> HIDE DEF h
  <1>5. DOMAIN h = 1 .. (Len(f) + Len(g)) /\ h = [i \in DOMAIN h |-> h[i]]
    BY <1>4
  <1>6. Run(h, m + n) /\ (\A i \in 1 .. m : h[i] = f[i]) /\ (\A i \in 1 .. n : h[m + i] = g[i])
    BY <1>1, <1>4, <1>5 DEF Run
  <1> QED
    BY <1>6 DEF h, Then

With(f, e) == Append(f, e)

LEMMA RunAppended ==
    ASSUME NEW m \in Nat, NEW f, NEW e, Run(f, m)
    PROVE  /\ Run(With(f, e), m + 1)
           /\ \A i \in 1 .. m : With(f, e)[i] = f[i]
           /\ With(f, e)[m + 1] = e
  <1> DEFINE S == {f[i] : i \in 1 .. m} \cup {e}
             h == Append(f, e)
  <1>1. m \in Nat /\ Len(f) = m /\ f \in Seq({f[i] : i \in 1 .. m})
    BY RunFacts
  <1>2. f \in Seq(S) /\ e \in S
    <2>1. {f[i] : i \in 1 .. m} \subseteq S /\ e \in S
      OBVIOUS
    <2> HIDE DEF S
    <2> QED
      BY <1>1, <2>1, SeqMonotonic
  <1> HIDE DEF S
  <1>4. /\ h \in Seq(S) /\ Len(h) = Len(f) + 1
        /\ \A i \in 1 .. Len(f) : h[i] = f[i]
        /\ h[Len(f) + 1] = e
    BY <1>2, AppendProperties
  <1> HIDE DEF h
  <1>5. DOMAIN h = 1 .. (Len(f) + 1) /\ h = [i \in DOMAIN h |-> h[i]]
    BY <1>4
  <1> QED
    BY <1>1, <1>4, <1>5 DEF Run, With, h

\* The first n elements of E, which has one for every positive number.
Start(E, n) == [i \in 1 .. n |-> E[i]]

LEMMA StartRun ==
    ASSUME NEW E, NEW n \in Nat
    PROVE  Run(Start(E, n), n) /\ \A i \in 1 .. n : Start(E, n)[i] = E[i]
  BY DEF Run, Start

\* The next m elements go on from the first n.
GoesOn(g, m, E, n) == \A i \in 1 .. m : g[i] = E[n + i]

LEMMA StartExtended ==
    ASSUME NEW E, NEW a, NEW k \in Nat, Run(a, k), NEW n \in Nat, NEW m \in Nat,
           NEW g, Run(g, m), GoesOn(g, m, E, n)
    PROVE  Then(Then(a, Start(E, n)), g) = Then(a, Start(E, n + m))
  <1> DEFINE q == n + m
             x == Start(E, n)
             y == Start(E, q)
  <1>1. k \in Nat /\ q \in Nat /\ q = n + m
    BY DEF Run
  <1> HIDE DEF q
  <1>2. /\ Run(x, n) /\ (\A i \in 1 .. n : x[i] = E[i])
        /\ Run(y, q) /\ (\A i \in 1 .. q : y[i] = E[i])
    BY <1>1, StartRun
  <1> HIDE DEF x, y
  <1> DEFINE f == Then(a, x)
             h == Then(a, y)
             r == Then(f, g)
  <1>3. Run(f, k + n) /\ (\A i \in 1 .. k : f[i] = a[i]) /\ (\A i \in 1 .. n : f[k + i] = E[i])
    BY <1>1, <1>2, RunJoined
  <1>4. Run(h, k + q) /\ (\A i \in 1 .. k : h[i] = a[i]) /\ (\A i \in 1 .. q : h[k + i] = E[i])
    BY <1>1, <1>2, RunJoined
  <1> HIDE DEF f, h
  <1>5. /\ Run(r, (k + n) + m) /\ (\A i \in 1 .. k + n : r[i] = f[i])
        /\ (\A i \in 1 .. m : r[(k + n) + i] = g[i])
    BY <1>1, <1>3, RunJoined
  <1> HIDE DEF r
  <1>6. ASSUME NEW i \in 1 .. (k + n) + m PROVE r[i] = h[i]
    <2>1. CASE i <= k
      BY <1>1, <1>3, <1>4, <1>5, <2>1
    <2>2. CASE k < i /\ i <= k + n
      <3>1. i - k \in 1 .. n /\ i - k \in 1 .. q /\ k + (i - k) = i /\ i \in 1 .. k + n
        BY <1>1, <2>2
      <3>2. f[i] = E[i - k] /\ h[i] = E[i - k] /\ r[i] = f[i]
        BY <1>3, <1>4, <1>5, <3>1
      <3> QED
        BY <3>2
    <2>3. CASE k + n < i
      <3>1. /\ i - (k + n) \in 1 .. m /\ i - k \in 1 .. q /\ k + (i - k) = i
            /\ (k + n) + (i - (k + n)) = i /\ n + (i - (k + n)) = i - k
        BY <1>1, <2>3
      <3>2. r[i] = g[i - (k + n)] /\ h[i] = E[i - k] /\ g[i - (k + n)] = E[i - k]
        BY <1>3, <1>4, <1>5, <3>1 DEF GoesOn
      <3> QED
        BY <3>2
    <2> QED
      BY <1>1, <2>1, <2>2, <2>3
  <1>7. Run(r, (k + n) + m) /\ Run(h, (k + n) + m)
    <2>1. k + q = (k + n) + m
      BY <1>1
    <2> QED
      BY <1>4, <1>5, <2>1
  <1>8. r = h
    BY <1>6, <1>7, RunEqual
  <1> QED
    BY <1>1, <1>8 DEF r, f, h, x, y

(***************************************************************************)
(* Quotients and remainders.                                               *)
(***************************************************************************)
LEMMA DivMod ==
    ASSUME NEW a \in Nat, NEW d \in Nat, d > 0
    PROVE  /\ a % d \in Nat
           /\ a \div d \in Nat
           /\ a % d < d
           /\ a = d * (a \div d) + (a % d)
  OBVIOUS

Divided(a, d, q, r) == a = d * q + r

LEMMA OneQuotient ==
    ASSUME NEW d \in Nat, NEW q \in Nat, NEW r \in Nat, NEW a \in Nat, r < d, Divided(a, d, q, r)
    PROVE  a \div d = q /\ a % d = r
  <1> DEFINE p == a \div d
             c == a % d
  <1>1. c \in Nat /\ p \in Nat /\ c < d /\ a = d * p + c
    BY DivMod
  <1> HIDE DEF c, p
  <1>2. d * (q - p) = c - r
    BY <1>1 DEF Divided
  <1>3. ASSUME q - p >= 1 PROVE FALSE
    <2>1. d * (q - p) >= d * 1
      BY <1>1, <1>3
    <2> QED
      BY <1>1, <1>2, <2>1
  <1>4. ASSUME q - p <= -1 PROVE FALSE
    <2>1. d * (q - p) <= d * (-1)
      BY <1>1, <1>4
    <2> QED
      BY <1>1, <1>2, <2>1
  <1>5. q = p
    BY <1>1, <1>3, <1>4
  <1> QED
    BY <1>1, <1>5 DEF p, c, Divided

LEMMA ModSum ==
    ASSUME NEW d \in Nat, d > 0, NEW a \in Nat, NEW b \in Nat
    PROVE  ((a % d) + b) % d = (a + b) % d
  <1> DEFINE q == a \div d
             m == a % d
             c == m + b
  <1>1. a = d * q + m /\ q \in Nat /\ m \in Nat /\ c \in Nat /\ c = m + b
    BY DivMod
  <1> HIDE DEF q, m, c
  <1> DEFINE x == c \div d
             y == c % d
  <1>2. y \in Nat /\ x \in Nat /\ y < d /\ c = d * x + y
    BY <1>1, DivMod
  <1> HIDE DEF x, y
  <1> DEFINE e == a + b
             f == q + x
  <1>3. Divided(e, d, f, y) /\ f \in Nat /\ e \in Nat
    BY <1>1, <1>2 DEF Divided
  <1> HIDE DEF e, f
  <1>4. e % d = y
    BY <1>2, <1>3, OneQuotient
  <1> QED
    BY <1>4 DEF c, m, y, e

(***************************************************************************)
(* Memory.                                                                 *)
(***************************************************************************)
\* The n bytes of the message after the first pos.
Text(pos, n) == [i \in 1 .. n |-> pos + i]

\* At offset `at` of mem are the n bytes of the message after the first pos.
Holds(mem, at, n, pos) ==
    \A i \in 0 .. n - 1 : at + i \in DOMAIN mem /\ mem[at + i] = pos + i + 1

LEMMA BytesHeld ==
    ASSUME NEW mem, NEW at \in Int, NEW n \in Nat, NEW pos \in Int, Holds(mem, at, n, pos)
    PROVE  Bytes(mem, at, n) = Text(pos, n)
  <1> SUFFICES ASSUME NEW i \in 1 .. n
               PROVE  (IF at + i - 1 \in DOMAIN mem THEN mem[at + i - 1] ELSE OutOfBounds) = pos + i
    BY Zenon DEF Bytes, Text
  <1>1. i - 1 \in 0 .. n - 1 /\ at + (i - 1) = at + i - 1 /\ pos + (i - 1) + 1 = pos + i
    OBVIOUS
  <1> QED
    BY <1>1 DEF Holds

LEMMA InputHolds ==
    ASSUME NEW first \in Nat, NEW n \in Nat
    PROVE  Holds(Input(first, n), 0, n, first)
  BY DEF Holds, Input

LEMMA PartHolds ==
    ASSUME NEW mem, NEW at \in Int, NEW n \in Nat, NEW pos \in Int, Holds(mem, at, n, pos),
           NEW k \in Nat, NEW m \in Nat, k + m <= n
    PROVE  Holds(mem, at + k, m, pos + k)
  <1> SUFFICES ASSUME NEW i \in 0 .. m - 1
               PROVE  (at + k) + i \in DOMAIN mem /\ mem[(at + k) + i] = (pos + k) + i + 1
    BY DEF Holds
  <1>1. k + i \in 0 .. n - 1 /\ at + (k + i) = (at + k) + i /\ pos + (k + i) = (pos + k) + i
    OBVIOUS
  <1> QED
    BY <1>1 DEF Holds

LEMMA TwoHold ==
    ASSUME NEW mem, NEW at \in Int, NEW n \in Nat, NEW pos \in Int, Holds(mem, at, n, pos),
           NEW m \in Nat, Holds(mem, at + n, m, pos + n)
    PROVE  Holds(mem, at, n + m, pos)
  <1> SUFFICES ASSUME NEW i \in 0 .. (n + m) - 1
               PROVE  at + i \in DOMAIN mem /\ mem[at + i] = pos + i + 1
    BY DEF Holds
  <1>1. CASE i < n
    BY <1>1 DEF Holds
  <1>2. CASE i >= n
    <2>1. i - n \in 0 .. m - 1 /\ (at + n) + (i - n) = at + i /\ (pos + n) + (i - n) + 1 = pos + i + 1
      BY <1>2
    <2> QED
      BY <2>1 DEF Holds
  <1> QED
    BY <1>1, <1>2

LEMMA Copied ==
    ASSUME NEW dst, NEW to \in Int, NEW src, NEW from \in Int, NEW n \in Nat, NEW pos \in Int,
           Holds(src, from, n, pos)
    PROVE  /\ DOMAIN XXH_memcpy(dst, to, src, from, n) = DOMAIN dst \cup (to .. to + n - 1)
           /\ Holds(XXH_memcpy(dst, to, src, from, n), to, n, pos)
  <1> DEFINE r == XXH_memcpy(dst, to, src, from, n)
  <1>1. /\ DOMAIN r = DOMAIN dst \cup (to .. to + n - 1)
        /\ \A j \in to .. to + n - 1 : r[j] = Bytes(src, from + j - to, 1)[1]
    BY DEF XXH_memcpy
  <1>2. ASSUME NEW i \in 0 .. n - 1 PROVE to + i \in DOMAIN r /\ r[to + i] = pos + i + 1
    <2>1. to + i \in to .. to + n - 1 /\ from + (to + i) - to = from + i
      OBVIOUS
    <2>2. Bytes(src, from + i, 1)[1] = pos + i + 1
      <3>1. from + i + 1 - 1 = from + i /\ 1 \in 1 .. 1
        OBVIOUS
      <3>2. from + i \in DOMAIN src /\ src[from + i] = pos + i + 1
        BY DEF Holds
      <3> QED
        BY <3>1, <3>2 DEF Bytes
    <2> QED
      BY <1>1, <2>1, <2>2
  <1> HIDE DEF r
  <1>3. Holds(r, to, n, pos)
    BY <1>2 DEF Holds
  <1> QED
    BY <1>1, <1>3 DEF r

\* An object of so many bytes, and what stays one.
Sized(mem, size) == DOMAIN mem = 0 .. size - 1

IsCopy(r, dst, to, src, from, n) == r = XXH_memcpy(dst, to, src, from, n)

LEMMA CopiedWithin ==
    ASSUME NEW r, NEW dst, NEW to \in Nat, NEW src, NEW from \in Int, NEW n \in Nat,
           IsCopy(r, dst, to, src, from, n), NEW size \in Nat, Sized(dst, size),
           to + n <= size, NEW pos \in Int, Holds(src, from, n, pos)
    PROVE  Sized(r, size) /\ Holds(r, to, n, pos)
  <1>1. to \in Int
    OBVIOUS
  <1>2. /\ DOMAIN XXH_memcpy(dst, to, src, from, n) = DOMAIN dst \cup (to .. to + n - 1)
        /\ Holds(XXH_memcpy(dst, to, src, from, n), to, n, pos)
    BY <1>1, Copied
  <1>3. (0 .. size - 1) \cup (to .. to + n - 1) = 0 .. size - 1
    OBVIOUS
  <1> QED
    BY <1>2, <1>3 DEF IsCopy, Sized

\* To its beginning.
LEMMA CopiedFirst ==
    ASSUME NEW r, NEW dst, NEW src, NEW from \in Int, NEW n \in Nat,
           IsCopy(r, dst, 0, src, from, n), NEW size \in Nat, Sized(dst, size), n <= size,
           NEW pos \in Int, Holds(src, from, n, pos)
    PROVE  Sized(r, size) /\ Holds(r, 0, n, pos)
  <1> DEFINE o == 0
  <1>1. o \in Nat /\ o + n <= size /\ IsCopy(r, dst, o, src, from, n)
    OBVIOUS
  <1> HIDE DEF o
  <1>2. Sized(r, size) /\ Holds(r, o, n, pos)
    BY <1>1, CopiedWithin
  <1> QED
    BY <1>2 DEF o

LEMMA LeftAlone ==
    ASSUME NEW dst, NEW to \in Int, NEW src, NEW from \in Int, NEW n \in Nat,
           NEW at \in Int, NEW m \in Nat, NEW pos \in Int, Holds(dst, at, m, pos),
           at + m <= to \/ to + n <= at
    PROVE  Holds(XXH_memcpy(dst, to, src, from, n), at, m, pos)
  <1> DEFINE r == XXH_memcpy(dst, to, src, from, n)
  <1>1. /\ DOMAIN dst \subseteq DOMAIN r
        /\ \A j \in DOMAIN dst : j \notin to .. to + n - 1 => r[j] = dst[j]
    BY DEF XXH_memcpy
  <1> HIDE DEF r
  <1>2. ASSUME NEW i \in 0 .. m - 1 PROVE at + i \in DOMAIN r /\ r[at + i] = pos + i + 1
    <2>1. at + i \notin to .. to + n - 1
      OBVIOUS
    <2>2. at + i \in DOMAIN dst /\ dst[at + i] = pos + i + 1
      BY DEF Holds
    <2> QED
      BY <1>1, <2>1, <2>2
  <1>3. Holds(r, at, m, pos)
    BY <1>2 DEF Holds
  <1> QED
    BY <1>3 DEF r

(***************************************************************************)
(* XXH32.                                                                  *)
(***************************************************************************)
LEMMA AtLeastOne ==
    ASSUME NEW k \in Nat, k >= 1
    PROVE  Max({1, k}) = k
  <1>1. \A m \in {1, k} : (\A j \in {1, k} : m >= j) => m = k
    OBVIOUS
  <1>2. k \in {1, k} /\ \A j \in {1, k} : k >= j
    OBVIOUS
  <1> QED
    BY <1>1, <1>2 DEF Max

\* The rounds of the lanes, and the accumulators after k stripes.
Round32 == [i \in Nat \ {0} |-> Mix("round", Text(4 * (i - 1), 4))]
Lanes32(seed, k) == XXH32_initAccs(seed) \o Start(Round32, 4 * k)

LEMMA InitAccs32 == \A seed : Run(XXH32_initAccs(seed), 1)
  BY DEF XXH32_initAccs, Run

LEMMA Consume32 ==
    ASSUME NEW seed, NEW k \in Nat, NEW in, NEW from \in Nat, NEW len \in Nat, len >= 16,
           Holds(in, from, len, 16 * k)
    PROVE  XXH32_consumeLong(Lanes32(seed, k), in, from, len)
             = [acc |-> Lanes32(seed, k + len \div 16), input |-> from + 16 * (len \div 16)]
  <1> DEFINE n == len \div 16
             g == [i \in 1 .. 4 * n |-> XXH32_round(in, from + 4 * (i - 1))]
  <1>1. n \in Nat /\ n >= 1 /\ 16 * n <= len
    OBVIOUS
  <1>2. XXH32_consumeLong(Lanes32(seed, k), in, from, len)
          = [acc |-> Lanes32(seed, k) \o g, input |-> from + 16 * n]
    BY <1>1, AtLeastOne DEF XXH32_consumeLong
  <1> HIDE DEF n
  <1>3. Run(g, 4 * n)
    BY <1>1 DEF Run
  <1>4. ASSUME NEW i \in 1 .. 4 * n PROVE g[i] = Round32[4 * k + i]
    <2> DEFINE d == 4 * (i - 1)
    <2>1. d \in Nat /\ d + 4 <= len /\ 4 * ((4 * k + i) - 1) = 16 * k + d /\ 4 * k + i \in Nat \ {0}
      BY <1>1
    <2> HIDE DEF d
    <2>2. Bytes(in, from + d, 4) = Text(16 * k + d, 4)
      <3> DEFINE pos == 16 * k
      <3>1. pos \in Int /\ from \in Int /\ Holds(in, from, len, pos)
        OBVIOUS
      <3> HIDE DEF pos
      <3>2. Holds(in, from + d, 4, pos + d)
        BY <2>1, <3>1, PartHolds
      <3>3. from + d \in Int /\ pos + d \in Int
        BY <2>1, <3>1
      <3> QED
        BY <3>2, <3>3, BytesHeld DEF pos
    <2>3. g[i] = Mix("round", Bytes(in, from + d, 4))
      BY DEF XXH32_round, XXH_readLE32, d
    <2>4. Round32[4 * k + i] = Mix("round", Text(16 * k + d, 4))
      BY <2>1 DEF Round32
    <2> QED
      BY <2>2, <2>3, <2>4
  <1> HIDE DEF g
  <1>5. Lanes32(seed, k) \o g = Lanes32(seed, k + n)
    <2>1. 4 * k \in Nat /\ 4 * n \in Nat /\ 4 * k + 4 * n = 4 * (k + n)
      BY <1>1
    <2> DEFINE a == XXH32_initAccs(seed)
               x == 4 * k
               y == 4 * n
    <2>2. /\ x \in Nat /\ y \in Nat /\ Run(g, y) /\ Run(a, 1)
          /\ GoesOn(g, y, Round32, x)
      BY <1>3, <1>4, <2>1, InitAccs32 DEF GoesOn
    <2> HIDE DEF a, x, y
    <2>3. Then(Then(a, Start(Round32, x)), g) = Then(a, Start(Round32, x + y))
      BY <2>2, StartExtended
    <2> QED
      BY <2>1, <2>3 DEF Then, Lanes32, a, x, y
  <1> QED
    BY <1>2, <1>5 DEF n

\* The same bytes at the end of the message give the same hash.
LEMMA Finalize32 ==
    ASSUME NEW hash, NEW in, NEW at \in Int, NEW mem, NEW to \in Int, NEW len \in Nat,
           NEW pos \in Int, Holds(in, at, len % 16, pos), Holds(mem, to, len % 16, pos)
    PROVE  XXH32_finalize(hash, in, at, len) = XXH32_finalize(hash, mem, to, len)
  <1> DEFINE n == len % 16
             words == n \div 4
             rest == n % 4
  <1>0. /\ n \in Nat /\ words \in Nat /\ rest \in Nat /\ n = 4 * words + rest
        /\ Holds(in, at, n, pos) /\ Holds(mem, to, n, pos)
    OBVIOUS
  <1> HIDE DEF n, words, rest
  <1>1. ASSUME NEW i \in 1 .. words
        PROVE  XXH_PROCESS4(in, at + 4 * (i - 1)) = XXH_PROCESS4(mem, to + 4 * (i - 1))
    <2> DEFINE d == 4 * (i - 1)
    <2>1. d \in Nat /\ d + 4 <= n
      BY <1>0
    <2> HIDE DEF d
    <2>2. Holds(in, at + d, 4, pos + d) /\ Holds(mem, to + d, 4, pos + d)
      BY <1>0, <2>1, PartHolds
    <2>3. Bytes(in, at + d, 4) = Text(pos + d, 4) /\ Bytes(mem, to + d, 4) = Text(pos + d, 4)
      BY <2>1, <2>2, BytesHeld
    <2> QED
      BY <2>3 DEF XXH_PROCESS4, XXH_readLE32, d
  <1>2. ASSUME NEW i \in 1 .. rest
        PROVE  XXH_PROCESS1(in, at + 4 * words + i - 1) = XXH_PROCESS1(mem, to + 4 * words + i - 1)
    <2> DEFINE d == 4 * words + i - 1
    <2>1. /\ d \in Nat /\ d + 1 <= n
          /\ at + 4 * words + i - 1 = at + d /\ to + 4 * words + i - 1 = to + d
      BY <1>0
    <2> HIDE DEF d
    <2>2. Holds(in, at + d, 1, pos + d) /\ Holds(mem, to + d, 1, pos + d)
      BY <1>0, <2>1, PartHolds
    <2>3. Bytes(in, at + d, 1) = Text(pos + d, 1) /\ Bytes(mem, to + d, 1) = Text(pos + d, 1)
      BY <2>1, <2>2, BytesHeld
    <2> QED
      BY <2>1, <2>3 DEF XXH_PROCESS1
  <1>3. /\ [i \in 1 .. words |-> XXH_PROCESS4(in, at + 4 * (i - 1))]
             = [i \in 1 .. words |-> XXH_PROCESS4(mem, to + 4 * (i - 1))]
        /\ [i \in 1 .. rest |-> XXH_PROCESS1(in, at + 4 * words + i - 1)]
             = [i \in 1 .. rest |-> XXH_PROCESS1(mem, to + 4 * words + i - 1)]
    BY <1>1, <1>2, Zenon
  <1>4. ProcessTail(hash, in, at, words, rest) = ProcessTail(hash, mem, to, words, rest)
    BY <1>3, Zenon DEF ProcessTail
  <1> QED
    BY <1>4 DEF XXH32_finalize, n, words, rest

Is32(r) ==
    r = [total_len_32 |-> r.total_len_32, large_len |-> r.large_len, acc |-> r.acc,
         buffer |-> r.buffer, bufferedSize |-> r.bufferedSize]

\* The accumulators and the buffer after n bytes of the message.
Fed32(r, n, seed) ==
    /\ Is32(r)
    /\ r.acc = Lanes32(seed, n \div 16)
    /\ r.bufferedSize = n % 16
    /\ Sized(r.buffer, 16)
    /\ Holds(r.buffer, 0, n % 16, 16 * (n \div 16))

Stream32(r, n, seed) ==
    /\ Fed32(r, n, seed)
    /\ r.total_len_32 = n % TotalLenMod
    /\ r.large_len = (n >= 16)

LEMMA Reset32 == \A seed : Stream32(XXH32_reset(seed), 0, seed)
  <1> SUFFICES ASSUME NEW seed PROVE Stream32(XXH32_reset(seed), 0, seed)
    OBVIOUS
  <1> DEFINE r == XXH32_reset(seed)
             a == XXH32_initAccs(seed)
  <1>1. /\ Is32(r) /\ r.acc = a /\ r.bufferedSize = 0 /\ r.total_len_32 = 0
        /\ r.large_len = FALSE /\ Sized(r.buffer, 16)
    BY DEF XXH32_reset, Is32, Buffer, Sized
  <1>2. Lanes32(seed, 0) = a
    <2>1. Run(a, 1) /\ Run(Start(Round32, 0), 0)
      BY InitAccs32, StartRun
    <2> DEFINE e == Start(Round32, 0)
    <2> HIDE DEF e, a
    <2>2. Run(Then(a, e), 1 + 0) /\ \A i \in 1 .. 1 : Then(a, e)[i] = a[i]
      BY <2>1, RunJoined DEF e
    <2> DEFINE h == Then(a, e)
    <2> HIDE DEF h
    <2>3. h = a
      BY <2>1, <2>2, RunEqual DEF h
    <2>4. 4 * 0 = 0
      OBVIOUS
    <2> QED
      BY <2>3, <2>4 DEF h, e, a, Then, Lanes32
  <1>3. 0 % TotalLenMod = 0 /\ 0 % 16 = 0 /\ 0 \div 16 = 0 /\ (0 >= 16) = FALSE
    BY Xxh32Assumption
  <1>4. Holds(r.buffer, 0, 0, 16 * 0)
    BY DEF Holds
  <1> HIDE DEF r, a
  <1>5. Fed32(r, 0, seed)
    BY <1>1, <1>2, <1>3, <1>4 DEF Fed32
  <1>6. Stream32(r, 0, seed)
    BY <1>1, <1>3, <1>5 DEF Stream32
  <1> QED
    BY <1>6 DEF r

LEMMA Input32 ==
    ASSUME NEW r, NEW k \in Nat, NEW seed, Is32(r), r.acc = Lanes32(seed, k), r.bufferedSize = 0,
           Sized(r.buffer, 16), NEW in, NEW x \in Nat, NEW len \in Nat, x <= len,
           Holds(in, x, len - x, 16 * k)
    PROVE  /\ Fed32(ConsumeInput32(r, in, x, len), 16 * k + (len - x), seed)
           /\ ConsumeInput32(r, in, x, len).total_len_32 = r.total_len_32
           /\ ConsumeInput32(r, in, x, len).large_len = r.large_len
  <1> DEFINE q == ConsumeInput32(r, in, x, len)
             more == len - x
             rest == more % 16
             end == len - rest
             n == 16 * k + more
             pos == 16 * (n \div 16)
  <1>1. /\ more \in Nat /\ rest \in Nat /\ rest < 16 /\ n \in Nat /\ n % 16 = rest
        /\ n \div 16 = k + more \div 16 /\ end = x + 16 * (more \div 16) /\ end \in Nat
        /\ pos = 16 * k + 16 * (more \div 16) /\ pos \in Nat
        /\ more - rest \in Nat /\ (more - rest) + rest <= more
        /\ x + (more - rest) = end /\ 16 * k + (more - rest) = pos
    OBVIOUS
  <1>2. more < 16 => more \div 16 = 0 /\ end = x /\ rest = more
    OBVIOUS
  <1>3. Holds(in, end, rest, pos)
    <2> DEFINE d == more - rest
               p == 16 * k
    <2>1. /\ x \in Int /\ more \in Nat /\ p \in Int /\ d \in Nat /\ rest \in Nat /\ d + rest <= more
          /\ Holds(in, x, more, p)
      BY <1>1
    <2>2. x + d = end /\ p + d = pos
      BY <1>1
    <2> HIDE DEF d, p, more, rest, end, pos
    <2>3. Holds(in, x + d, rest, p + d)
      BY <2>1, PartHolds
    <2> QED
      BY <2>2, <2>3
  <1>4. q = [r EXCEPT !.acc = Lanes32(seed, n \div 16),
                      !.buffer = XXH_memcpy(r.buffer, 0, in, end, rest), !.bufferedSize = rest]
    <2> DEFINE long == XXH32_consumeLong(r.acc, in, x, more)
               acc == IF more >= 16 THEN long.acc ELSE r.acc
               from == IF more >= 16 THEN long.input ELSE x
               size == IF from < len THEN len - from ELSE r.bufferedSize
    <2>1. q = [r EXCEPT !.acc = acc, !.buffer = XXH_memcpy(r.buffer, 0, in, from, len - from),
                        !.bufferedSize = size]
      BY DEF ConsumeInput32
    <2> HIDE DEF more, end, rest, n, pos, q
    <2>2. /\ more >= 16 => acc = long.acc /\ from = long.input
          /\ more < 16 => acc = r.acc /\ from = x
          /\ from < len => size = len - from
          /\ ~(from < len) => size = 0
      BY <1>1
    <2>3. more >= 16 => long = [acc |-> Lanes32(seed, k + more \div 16), input |-> x + 16 * (more \div 16)]
      BY <1>1, Consume32 DEF more
    <2> HIDE DEF acc, from, size, long
    <2>4. acc = Lanes32(seed, n \div 16) /\ from = end
      <3>1. CASE more >= 16
        <4>1. Lanes32(seed, n \div 16) = Lanes32(seed, k + more \div 16)
          BY <1>1
        <4> QED
          BY <1>1, <2>2, <2>3, <3>1, <4>1
      <3>2. CASE more < 16
        BY <1>1, <1>2, <2>2, <3>2
      <3> QED
        BY <1>1, <3>1, <3>2
    <2>5. len - end = rest /\ len - from = rest /\ size = rest
      BY <1>1, <2>2, <2>4 DEF end
    <2> QED
      BY <2>1, <2>4, <2>5
  <1> DEFINE b == XXH_memcpy(r.buffer, 0, in, end, rest)
  <1>5. Sized(b, 16) /\ Holds(b, 0, rest, pos)
    <2> DEFINE size == 16
    <2>1. /\ size \in Nat /\ Sized(r.buffer, size) /\ end \in Int
          /\ rest \in Nat /\ pos \in Int /\ rest <= size
      BY <1>1
    <2>2. IsCopy(b, r.buffer, 0, in, end, rest)
      BY DEF IsCopy
    <2> HIDE DEF rest, end, pos, size, b
    <2>3. Sized(b, size) /\ Holds(b, 0, rest, pos)
      BY <1>3, <2>1, <2>2, CopiedFirst
    <2> QED
      BY <2>3 DEF size
  <1> HIDE DEF b
  <1>6. /\ q.acc = Lanes32(seed, n \div 16) /\ q.buffer = b /\ q.bufferedSize = rest /\ Is32(q)
        /\ q.total_len_32 = r.total_len_32 /\ q.large_len = r.large_len
    <2> DEFINE lanes == Lanes32(seed, n \div 16)
    <2>1. q = [r EXCEPT !.acc = lanes, !.buffer = b, !.bufferedSize = rest]
      BY <1>4 DEF b
    <2> HIDE DEF lanes, rest, q
    <2> QED
      BY <2>1 DEF Is32, lanes
  <1> HIDE DEF q, n, rest
  <1>7. Fed32(q, n, seed)
    BY <1>1, <1>5, <1>6 DEF Fed32
  <1> QED
    BY <1>6, <1>7 DEF q, n

LEMMA Update32 ==
    ASSUME NEW r, NEW n \in Nat, NEW seed, Stream32(r, n, seed), NEW m \in Nat
    PROVE  Stream32(XXH32_update(r, Input(n, m), m), n + m, seed)
  <1> DEFINE in == Input(n, m)
             u == CountLen(r, m)
             bs == n % 16
             q == n \div 16
  <1>1. /\ bs \in Nat /\ q \in Nat /\ bs < 16 /\ n = 16 * q + bs
        /\ Is32(r) /\ r.acc = Lanes32(seed, q) /\ r.bufferedSize = bs /\ Sized(r.buffer, 16)
        /\ Holds(r.buffer, 0, bs, 16 * q)
        /\ r.total_len_32 = n % TotalLenMod /\ r.large_len = (n >= 16)
    BY DEF Stream32, Fed32
  <1>2. Holds(in, 0, m, n)
    BY InputHolds
  <1> HIDE DEF in, bs, q
  <1>3. /\ Is32(u) /\ u.acc = r.acc /\ u.bufferedSize = r.bufferedSize /\ u.buffer = r.buffer
        /\ u.total_len_32 = (n + m) % TotalLenMod /\ u.large_len = (n + m >= 16)
    <2> DEFINE total_len == (r.total_len_32 + m) % TotalLenMod
               large == r.large_len \/ m >= 16 \/ total_len >= 16
    <2>1. total_len = (n + m) % TotalLenMod
      <3>1. TotalLenMod \in Nat /\ TotalLenMod > 0
        BY Xxh32Assumption
      <3>2. ((n % TotalLenMod) + m) % TotalLenMod = (n + m) % TotalLenMod
        BY <3>1, ModSum
      <3> QED
        BY <1>1, <3>2
    <2>2. large <=> n + m >= 16
      <3>0. large <=> n >= 16 \/ m >= 16 \/ total_len >= 16
        BY <1>1
      <3> HIDE DEF total_len, large
      <3>1. CASE n + m < 16
        <4>1. (n + m) % TotalLenMod = n + m
          BY <3>1, Xxh32Assumption
        <4> QED
          BY <2>1, <3>0, <3>1, <4>1
      <3>2. CASE n < 16 /\ m < 16 /\ n + m >= 16
        <4>1. n + m \in Nat /\ n + m < TotalLenMod /\ TotalLenMod \in Nat
          BY <3>2, Xxh32Assumption
        <4>2. Divided(n + m, TotalLenMod, 0, n + m)
          BY <4>1 DEF Divided
        <4>3. (n + m) % TotalLenMod = n + m
          BY <4>1, <4>2, OneQuotient
        <4> QED
          BY <2>1, <3>0, <3>2, <4>3
      <3>3. CASE n >= 16 \/ m >= 16
        BY <3>0, <3>3
      <3> QED
        BY <3>1, <3>2, <3>3
    <2>3. u = [r EXCEPT !.total_len_32 = total_len, !.large_len = large]
      BY DEF CountLen
    <2>4. large = (n + m >= 16)
      BY <2>2
    <2> HIDE DEF total_len, large, u
    <2> QED
      BY <1>1, <2>1, <2>3, <2>4 DEF Is32
  <1> HIDE DEF u
  <1> DEFINE z == XXH32_update(r, in, m)
  <1>4. /\ Fed32(z, n + m, seed)
        /\ z.total_len_32 = u.total_len_32
        /\ z.large_len = u.large_len
    <2>1. CASE m < 16 - bs
      <3> DEFINE b == XXH_memcpy(r.buffer, bs, in, 0, m)
      <3>1. z = [u EXCEPT !.buffer = b, !.bufferedSize = bs + m]
        BY <1>1, <1>3, <2>1 DEF XXH32_update, u
      <3>2. /\ Is32(z) /\ z.acc = u.acc /\ z.buffer = b /\ z.bufferedSize = bs + m
            /\ z.total_len_32 = u.total_len_32 /\ z.large_len = u.large_len
        <4> HIDE DEF z, b
        <4> QED
          BY <1>3, <3>1 DEF Is32
      <3>3. Sized(b, 16) /\ Holds(b, bs, m, n)
        <4> DEFINE size == 16
                   o == 0
        <4>1. /\ size \in Nat /\ Sized(r.buffer, size) /\ o \in Int /\ n \in Int
              /\ bs + m <= size /\ Holds(in, o, m, n) /\ size = 16
          BY <1>1, <1>2, <2>1
        <4>2. IsCopy(b, r.buffer, bs, in, o, m)
          BY DEF IsCopy
        <4> HIDE DEF size, o, b
        <4>3. Sized(b, size) /\ Holds(b, bs, m, n)
          BY <1>1, <4>1, <4>2, CopiedWithin
        <4> QED
          BY <4>1, <4>3
      <3>4. Holds(b, 0, bs, 16 * q)
        <4> DEFINE o == 0
                   p == 16 * q
        <4>1. /\ o \in Int /\ p \in Int /\ Holds(r.buffer, o, bs, p) /\ o + bs <= bs /\ bs \in Int
          BY <1>1
        <4> HIDE DEF o, p
        <4>2. Holds(XXH_memcpy(r.buffer, bs, in, o, m), o, bs, p)
          BY <1>1, <4>1, LeftAlone
        <4> QED
          BY <4>2 DEF o, p
      <3>5. Holds(b, 0, bs + m, 16 * q)
        <4> DEFINE o == 0
                   p == 16 * q
        <4>1. /\ o \in Int /\ p \in Int /\ Holds(b, o, bs, p) /\ Holds(b, o + bs, m, p + bs)
          BY <1>1, <3>3, <3>4
        <4> HIDE DEF o, p, b
        <4>2. Holds(b, o, bs + m, p)
          BY <1>1, <4>1, TwoHold
        <4> QED
          BY <4>2 DEF o, p
      <3>6. (n + m) % 16 = bs + m /\ (n + m) \div 16 = q
        BY <1>1, <2>1
      <3> HIDE DEF z, b
      <3> QED
        BY <1>1, <1>3, <3>2, <3>3, <3>5, <3>6 DEF Fed32
    <2>2. CASE m >= 16 - bs /\ bs > 0
      <3> DEFINE w == ConsumeBuffer32(u, in)
                 b == XXH_memcpy(r.buffer, bs, in, 0, 16 - bs)
                 x == 16 - bs
      <3>1. z = ConsumeInput32(w, in, x, m)
        BY <1>1, <1>3, <2>2 DEF XXH32_update, u
      <3>2. x \in Nat /\ bs + x = 16 /\ x <= m
        BY <1>1, <2>2
      <3>3. Sized(b, 16) /\ Holds(b, bs, x, n)
        <4> DEFINE size == 16
                   o == 0
        <4>1. Holds(in, o, x, n)
          <5> DEFINE y == 0
          <5>1. o \in Int /\ n \in Int /\ y \in Nat /\ y + x <= m /\ Holds(in, o, m, n)
                /\ o + y = o /\ n + y = n
            BY <1>2, <3>2
          <5> HIDE DEF o, x, y
          <5>2. Holds(in, o + y, x, n + y)
            BY <3>2, <5>1, PartHolds
          <5> QED
            BY <5>1, <5>2
        <4>2. /\ size \in Nat /\ Sized(r.buffer, size) /\ o \in Int /\ n \in Int
              /\ bs + x <= size /\ size = 16
          BY <1>1, <2>2
        <4>3. IsCopy(b, r.buffer, bs, in, o, x)
          BY DEF IsCopy
        <4> HIDE DEF size, o, x, b
        <4>4. Sized(b, size) /\ Holds(b, bs, x, n)
          BY <1>1, <3>2, <4>1, <4>2, <4>3, CopiedWithin
        <4> QED
          BY <4>2, <4>4
      <3>4. Holds(b, 0, bs, 16 * q)
        <4> DEFINE o == 0
                   p == 16 * q
        <4>1. /\ o \in Int /\ p \in Int /\ Holds(r.buffer, o, bs, p) /\ o + bs <= bs /\ bs \in Int
          BY <1>1
        <4> HIDE DEF o, p, x
        <4>2. Holds(XXH_memcpy(r.buffer, bs, in, o, x), o, bs, p)
          BY <1>1, <3>2, <4>1, LeftAlone
        <4> QED
          BY <4>2 DEF o, p, x
      <3>5. Holds(b, 0, 16, 16 * q)
        <4> DEFINE o == 0
                   p == 16 * q
        <4>1. /\ o \in Int /\ p \in Int /\ Holds(b, o, bs, p) /\ Holds(b, o + bs, x, p + bs)
          BY <1>1, <3>3, <3>4
        <4> HIDE DEF o, p, b, x
        <4>2. Holds(b, o, bs + x, p)
          BY <1>1, <3>2, <4>1, TwoHold
        <4> QED
          BY <3>2, <4>2 DEF o, p
      <3> HIDE DEF b
      <3>6. XXH32_consumeLong(r.acc, b, 0, 16) = [acc |-> Lanes32(seed, q + 16 \div 16), input |-> 0 + 16 * (16 \div 16)]
        <4> DEFINE size == 16
                   o == 0
        <4>1. size \in Nat /\ size >= 16 /\ o \in Nat /\ Holds(b, o, size, 16 * q)
          BY <3>5
        <4> HIDE DEF size, o
        <4>2. XXH32_consumeLong(Lanes32(seed, q), b, o, size)
                = [acc |-> Lanes32(seed, q + size \div 16), input |-> o + 16 * (size \div 16)]
          BY <1>1, <4>1, Consume32
        <4> QED
          BY <1>1, <4>2 DEF size, o
      <3>7. /\ Is32(w) /\ w.acc = Lanes32(seed, q + 1) /\ w.bufferedSize = 0 /\ w.buffer = b
            /\ w.total_len_32 = u.total_len_32 /\ w.large_len = u.large_len
        <4> DEFINE long == XXH32_consumeLong(r.acc, b, 0, 16)
        <4>1. w = [u EXCEPT !.buffer = b, !.bufferedSize = 0, !.acc = long.acc]
          BY <1>1, <1>3 DEF ConsumeBuffer32, b
        <4>2. long.acc = Lanes32(seed, q + 1)
          <5>1. 16 \div 16 = 1
            OBVIOUS
          <5> QED
            BY <3>6, <5>1
        <4> HIDE DEF long, w
        <4> QED
          BY <1>3, <4>1, <4>2 DEF Is32
      <3>8. Holds(in, x, m - x, 16 * (q + 1))
        <4> DEFINE o == 0
                   y == m - x
        <4>1. /\ o \in Int /\ n \in Int /\ x + y <= m /\ y \in Nat /\ Holds(in, o, m, n)
              /\ o + x = x /\ n + x = 16 * (q + 1)
          BY <1>1, <1>2, <3>2
        <4> HIDE DEF o, x, y
        <4>2. Holds(in, o + x, y, n + x)
          BY <3>2, <4>1, PartHolds
        <4> QED
          BY <4>1, <4>2 DEF y
      <3>9. 16 * (q + 1) + (m - x) = n + m /\ q + 1 \in Nat
        BY <1>1, <3>2
      <3> DEFINE k == q + 1
      <3> HIDE DEF x, w, k, z
      <3>10. /\ Fed32(ConsumeInput32(w, in, x, m), 16 * k + (m - x), seed)
             /\ ConsumeInput32(w, in, x, m).total_len_32 = w.total_len_32
             /\ ConsumeInput32(w, in, x, m).large_len = w.large_len
        BY <3>2, <3>3, <3>7, <3>8, <3>9, Input32 DEF k
      <3> QED
        BY <3>1, <3>7, <3>9, <3>10 DEF k
    <2>3. CASE m >= 16 - bs /\ bs = 0
      <3> DEFINE x == 0
      <3>1. z = ConsumeInput32(u, in, x, m)
        BY <1>1, <1>3, <2>3 DEF XXH32_update, u
      <3>2. /\ x \in Nat /\ x <= m /\ Holds(in, x, m - x, 16 * q) /\ 16 * q + (m - x) = n + m
        BY <1>1, <1>2, <2>3
      <3> HIDE DEF x, z
      <3>3. /\ Fed32(ConsumeInput32(u, in, x, m), 16 * q + (m - x), seed)
            /\ ConsumeInput32(u, in, x, m).total_len_32 = u.total_len_32
            /\ ConsumeInput32(u, in, x, m).large_len = u.large_len
        BY <1>1, <1>3, <2>3, <3>2, Input32
      <3> QED
        BY <3>1, <3>2, <3>3
    <2> QED
      BY <1>1, <2>1, <2>2, <2>3
  <1> HIDE DEF z
  <1>5. Stream32(z, n + m, seed)
    BY <1>3, <1>4 DEF Stream32
  <1> QED
    BY <1>5 DEF z, in

\* The digest is the hash of the message in one call.
LEMMA Digest32 ==
    ASSUME NEW r, NEW n \in Nat, NEW seed, Stream32(r, n, seed)
    PROVE  XXH32_digest(r) = XXH32(Input(0, n), n, seed)
  <1> DEFINE in == Input(0, n)
             q == n \div 16
             bs == n % 16
             long == XXH32_consumeLong(XXH32_initAccs(seed), in, 0, n)
             hash == IF n >= 16 THEN XXH32_mergeAccs(Lanes32(seed, q)) ELSE XXH32_short(seed)
             lenHash == XXH32_addLen(hash, n % TotalLenMod)
  <1>1. /\ bs \in Nat /\ q \in Nat /\ bs < 16 /\ n = 16 * q + bs /\ bs % 16 = bs
        /\ r.acc = Lanes32(seed, q) /\ r.bufferedSize = bs /\ Holds(r.buffer, 0, bs, 16 * q)
        /\ r.total_len_32 = n % TotalLenMod /\ r.large_len = (n >= 16)
    BY DEF Stream32, Fed32
  <1>2. Lanes32(seed, 0) = XXH32_initAccs(seed)
    BY Reset32 DEF Stream32, Fed32, XXH32_reset
  <1>3. Holds(in, 0, n, 0)
    BY InputHolds
  <1> HIDE DEF in
  <1>4. n >= 16 => long = [acc |-> Lanes32(seed, q), input |-> 16 * q]
    <2> DEFINE o == 0
    <2> SUFFICES ASSUME n >= 16 PROVE long = [acc |-> Lanes32(seed, q), input |-> 16 * q]
      OBVIOUS
    <2>1. o \in Nat /\ Holds(in, o, n, 16 * o) /\ o + q = q /\ o + 16 * q = 16 * q
      BY <1>1, <1>3
    <2> HIDE DEF o
    <2>2. XXH32_consumeLong(Lanes32(seed, o), in, o, n)
            = [acc |-> Lanes32(seed, o + n \div 16), input |-> o + 16 * (n \div 16)]
      BY <2>1, Consume32
    <2> HIDE DEF q
    <2>3. XXH32_consumeLong(Lanes32(seed, o), in, o, n) = [acc |-> Lanes32(seed, q), input |-> 16 * q]
      BY <2>1, <2>2 DEF q
    <2> QED
      BY <1>2, <2>3 DEF o
  <1>5. XXH32(in, n, seed) = XXH32_finalize(lenHash, in, 16 * q, bs)
    <2>1. CASE n >= 16
      BY <1>4, <2>1 DEF XXH32
    <2>2. CASE n < 16
      <3>1. 16 * q = 0
        BY <1>1, <2>2
      <3> HIDE DEF q
      <3> QED
        BY <2>2, <3>1 DEF XXH32
    <2> QED
      BY <2>1, <2>2
  <1>6. XXH32_digest(r) = XXH32_finalize(lenHash, r.buffer, 0, bs)
    <2>1. CASE n >= 16
      BY <1>1, <2>1 DEF XXH32_digest
    <2>2. CASE n < 16
      <3>1. q = 0
        BY <2>2
      <3>2. XXH32_lane2(r.acc) = seed
        BY <1>1, <1>2, <3>1 DEF XXH32_lane2, XXH32_initAccs, Step
      <3> QED
        BY <1>1, <2>2, <3>2 DEF XXH32_digest
    <2> QED
      BY <2>1, <2>2
  <1>7. XXH32_finalize(lenHash, in, 16 * q, bs) = XXH32_finalize(lenHash, r.buffer, 0, bs)
    <2> DEFINE o == 0
               p == 16 * q
    <2>1. p \in Nat /\ p + bs <= n /\ o + p = p
      BY <1>1
    <2>2. o \in Int /\ p \in Int /\ Holds(in, o, n, o) /\ Holds(r.buffer, o, bs, p)
      BY <1>1, <1>3
    <2> HIDE DEF o, p, bs, lenHash
    <2>3. Holds(in, o + p, bs, o + p)
      BY <1>1, <2>1, <2>2, PartHolds
    <2>4. Holds(in, p, bs % 16, p) /\ Holds(r.buffer, o, bs % 16, p)
      BY <1>1, <2>1, <2>2, <2>3
    <2>5. XXH32_finalize(lenHash, in, p, bs) = XXH32_finalize(lenHash, r.buffer, o, bs)
      BY <1>1, <2>2, <2>4, Finalize32
    <2> QED
      BY <2>5 DEF o, p
  <1> QED
    BY <1>5, <1>6, <1>7 DEF in

(***************************************************************************)
(* XXH64, likewise.                                                        *)
(***************************************************************************)
\* The rounds of the lanes, and the accumulators after k stripes.
Round64 == [i \in Nat \ {0} |-> Mix("round", Text(8 * (i - 1), 8))]
Lanes64(seed, k) == XXH64_initAccs(seed) \o Start(Round64, 4 * k)

LEMMA InitAccs64 == \A seed : Run(XXH64_initAccs(seed), 1)
  BY DEF XXH64_initAccs, Run

LEMMA Consume64 ==
    ASSUME NEW seed, NEW k \in Nat, NEW in, NEW from \in Nat, NEW len \in Nat, len >= 32,
           Holds(in, from, len, 32 * k)
    PROVE  XXH64_consumeLong(Lanes64(seed, k), in, from, len)
             = [acc |-> Lanes64(seed, k + len \div 32), input |-> from + 32 * (len \div 32)]
  <1> DEFINE n == len \div 32
             g == [i \in 1 .. 4 * n |-> XXH64_round(in, from + 8 * (i - 1))]
  <1>1. n \in Nat /\ n >= 1 /\ 32 * n <= len
    OBVIOUS
  <1>2. XXH64_consumeLong(Lanes64(seed, k), in, from, len)
          = [acc |-> Lanes64(seed, k) \o g, input |-> from + 32 * n]
    BY <1>1, AtLeastOne DEF XXH64_consumeLong
  <1> HIDE DEF n
  <1>3. Run(g, 4 * n)
    BY <1>1 DEF Run
  <1>4. ASSUME NEW i \in 1 .. 4 * n PROVE g[i] = Round64[4 * k + i]
    <2> DEFINE d == 8 * (i - 1)
    <2>1. d \in Nat /\ d + 8 <= len /\ 8 * ((4 * k + i) - 1) = 32 * k + d /\ 4 * k + i \in Nat \ {0}
      BY <1>1
    <2> HIDE DEF d
    <2>2. Bytes(in, from + d, 8) = Text(32 * k + d, 8)
      <3> DEFINE pos == 32 * k
      <3>1. pos \in Int /\ from \in Int /\ Holds(in, from, len, pos)
        OBVIOUS
      <3> HIDE DEF pos
      <3>2. Holds(in, from + d, 8, pos + d)
        BY <2>1, <3>1, PartHolds
      <3>3. from + d \in Int /\ pos + d \in Int
        BY <2>1, <3>1
      <3> QED
        BY <3>2, <3>3, BytesHeld DEF pos
    <2>3. g[i] = Mix("round", Bytes(in, from + d, 8))
      BY DEF XXH64_round, XXH_readLE64, d
    <2>4. Round64[4 * k + i] = Mix("round", Text(32 * k + d, 8))
      BY <2>1 DEF Round64
    <2> QED
      BY <2>2, <2>3, <2>4
  <1> HIDE DEF g
  <1>5. Lanes64(seed, k) \o g = Lanes64(seed, k + n)
    <2>1. 4 * k \in Nat /\ 4 * n \in Nat /\ 4 * k + 4 * n = 4 * (k + n)
      BY <1>1
    <2> DEFINE a == XXH64_initAccs(seed)
               x == 4 * k
               y == 4 * n
    <2>2. /\ x \in Nat /\ y \in Nat /\ Run(g, y) /\ Run(a, 1)
          /\ GoesOn(g, y, Round64, x)
      BY <1>3, <1>4, <2>1, InitAccs64 DEF GoesOn
    <2> HIDE DEF a, x, y
    <2>3. Then(Then(a, Start(Round64, x)), g) = Then(a, Start(Round64, x + y))
      BY <2>2, StartExtended
    <2> QED
      BY <2>1, <2>3 DEF Then, Lanes64, a, x, y
  <1> QED
    BY <1>2, <1>5 DEF n

\* The same bytes at the end of the message give the same hash.
LEMMA Finalize64 ==
    ASSUME NEW hash, NEW in, NEW at \in Int, NEW mem, NEW to \in Int, NEW len \in Nat,
           NEW pos \in Int, Holds(in, at, len % 32, pos), Holds(mem, to, len % 32, pos)
    PROVE  XXH64_finalize(hash, in, at, len) = XXH64_finalize(hash, mem, to, len)
  <1> DEFINE n == len % 32
             words == n \div 8
             half == (n % 8) \div 4
             rest == (n % 8) % 4
  <1>0. /\ n \in Nat /\ words \in Nat /\ half \in Nat /\ half <= 1 /\ rest \in Nat
        /\ n = 8 * words + 4 * half + rest
        /\ Holds(in, at, n, pos) /\ Holds(mem, to, n, pos)
    OBVIOUS
  <1> HIDE DEF n, words, half, rest
  \* The d-th bytes on, in both.
  <1>1. ASSUME NEW d \in Nat, NEW k \in Nat, d + k <= n
        PROVE  Bytes(in, at + d, k) = Bytes(mem, to + d, k)
    <2>1. Holds(in, at + d, k, pos + d) /\ Holds(mem, to + d, k, pos + d)
      BY <1>0, <1>1, PartHolds
    <2>2. at + d \in Int /\ to + d \in Int /\ pos + d \in Int
      OBVIOUS
    <2>3. Bytes(in, at + d, k) = Text(pos + d, k) /\ Bytes(mem, to + d, k) = Text(pos + d, k)
      BY <1>1, <2>1, <2>2, BytesHeld
    <2> QED
      BY <2>3
  <1>2. ASSUME NEW i \in 1 .. words
        PROVE  Mix("process8", XXH_readLE64(in, at + 8 * (i - 1)))
                 = Mix("process8", XXH_readLE64(mem, to + 8 * (i - 1)))
    <2> DEFINE d == 8 * (i - 1)
    <2>1. d \in Nat /\ d + 8 <= n
      BY <1>0
    <2> HIDE DEF d
    <2>2. Bytes(in, at + d, 8) = Bytes(mem, to + d, 8)
      BY <1>1, <2>1
    <2> QED
      BY <2>2 DEF XXH_readLE64, d
  <1>3. ASSUME NEW i \in 1 .. half
        PROVE  Mix("process4", XXH_readLE32(in, at + 8 * words))
                 = Mix("process4", XXH_readLE32(mem, to + 8 * words))
    <2> DEFINE d == 8 * words
    <2>1. d \in Nat /\ d + 4 <= n
      BY <1>0
    <2> HIDE DEF d
    <2>2. Bytes(in, at + d, 4) = Bytes(mem, to + d, 4)
      BY <1>1, <2>1
    <2> QED
      BY <2>2 DEF XXH_readLE32, d
  <1>4. ASSUME NEW i \in 1 .. rest
        PROVE  Mix("process1", Bytes(in, (at + 8 * words + 4 * half) + i - 1, 1))
                 = Mix("process1", Bytes(mem, (to + 8 * words + 4 * half) + i - 1, 1))
    <2> DEFINE d == 8 * words + 4 * half + i - 1
    <2>1. /\ d \in Nat /\ d + 1 <= n /\ (at + 8 * words + 4 * half) + i - 1 = at + d
          /\ (to + 8 * words + 4 * half) + i - 1 = to + d
      BY <1>0
    <2> HIDE DEF d
    <2>2. Bytes(in, at + d, 1) = Bytes(mem, to + d, 1)
      BY <1>1, <2>1
    <2> QED
      BY <2>1, <2>2
  <1>5. /\ [i \in 1 .. words |-> Mix("process8", XXH_readLE64(in, at + 8 * (i - 1)))]
             = [i \in 1 .. words |-> Mix("process8", XXH_readLE64(mem, to + 8 * (i - 1)))]
        /\ [i \in 1 .. half |-> Mix("process4", XXH_readLE32(in, at + 8 * words))]
             = [i \in 1 .. half |-> Mix("process4", XXH_readLE32(mem, to + 8 * words))]
        /\ [i \in 1 .. rest |-> Mix("process1", Bytes(in, (at + 8 * words + 4 * half) + i - 1, 1))]
             = [i \in 1 .. rest |-> Mix("process1", Bytes(mem, (to + 8 * words + 4 * half) + i - 1, 1))]
    BY <1>2, <1>3, <1>4, Zenon
  <1> DEFINE End(a, b, c) == XXH64_avalanche(((hash \o a) \o b) \o c)
  <1>6. /\ XXH64_finalize(hash, in, at, len)
             = End([i \in 1 .. words |-> Mix("process8", XXH_readLE64(in, at + 8 * (i - 1)))],
                   [i \in 1 .. half |-> Mix("process4", XXH_readLE32(in, at + 8 * words))],
                   [i \in 1 .. rest |-> Mix("process1", Bytes(in, (at + 8 * words + 4 * half) + i - 1, 1))])
        /\ XXH64_finalize(hash, mem, to, len)
             = End([i \in 1 .. words |-> Mix("process8", XXH_readLE64(mem, to + 8 * (i - 1)))],
                   [i \in 1 .. half |-> Mix("process4", XXH_readLE32(mem, to + 8 * words))],
                   [i \in 1 .. rest |-> Mix("process1", Bytes(mem, (to + 8 * words + 4 * half) + i - 1, 1))])
    BY Zenon DEF XXH64_finalize, n, words, half, rest
  <1> HIDE DEF End
  <1> QED
    BY <1>5, <1>6, Zenon

Is64(r) ==
    r = [total_len |-> r.total_len, acc |-> r.acc, buffer |-> r.buffer,
         bufferedSize |-> r.bufferedSize]

\* The accumulators and the buffer after n bytes of the message.
Fed64(r, n, seed) ==
    /\ Is64(r)
    /\ r.acc = Lanes64(seed, n \div 32)
    /\ r.bufferedSize = n % 32
    /\ Sized(r.buffer, 32)
    /\ Holds(r.buffer, 0, n % 32, 32 * (n \div 32))

Stream64(r, n, seed) ==
    /\ Fed64(r, n, seed)
    /\ r.total_len = n

LEMMA Reset64 == \A seed : Stream64(XXH64_reset(seed), 0, seed)
  <1> SUFFICES ASSUME NEW seed PROVE Stream64(XXH64_reset(seed), 0, seed)
    OBVIOUS
  <1> DEFINE r == XXH64_reset(seed)
             a == XXH64_initAccs(seed)
  <1>1. /\ Is64(r) /\ r.acc = a /\ r.bufferedSize = 0 /\ r.total_len = 0
        /\ Sized(r.buffer, 32)
    BY DEF XXH64_reset, Is64, Buffer, Sized
  <1>2. Lanes64(seed, 0) = a
    <2>1. Run(a, 1) /\ Run(Start(Round64, 0), 0)
      BY InitAccs64, StartRun
    <2> DEFINE e == Start(Round64, 0)
    <2> HIDE DEF e, a
    <2>2. Run(Then(a, e), 1 + 0) /\ \A i \in 1 .. 1 : Then(a, e)[i] = a[i]
      BY <2>1, RunJoined DEF e
    <2> DEFINE h == Then(a, e)
    <2> HIDE DEF h
    <2>3. h = a
      BY <2>1, <2>2, RunEqual DEF h
    <2>4. 4 * 0 = 0
      OBVIOUS
    <2> QED
      BY <2>3, <2>4 DEF h, e, a, Then, Lanes64
  <1>3. 0 % 32 = 0 /\ 0 \div 32 = 0
    OBVIOUS
  <1>4. Holds(r.buffer, 0, 0, 32 * 0)
    BY DEF Holds
  <1> HIDE DEF r, a
  <1>5. Fed64(r, 0, seed)
    BY <1>1, <1>2, <1>3, <1>4 DEF Fed64
  <1>6. Stream64(r, 0, seed)
    BY <1>1, <1>3, <1>5 DEF Stream64
  <1> QED
    BY <1>6 DEF r

LEMMA Input64 ==
    ASSUME NEW r, NEW k \in Nat, NEW seed, Is64(r), r.acc = Lanes64(seed, k), r.bufferedSize = 0,
           Sized(r.buffer, 32), NEW in, NEW x \in Nat, NEW len \in Nat, x <= len,
           Holds(in, x, len - x, 32 * k)
    PROVE  /\ Fed64(ConsumeInput64(r, in, x, len), 32 * k + (len - x), seed)
           /\ ConsumeInput64(r, in, x, len).total_len = r.total_len
  <1> DEFINE q == ConsumeInput64(r, in, x, len)
             more == len - x
             rest == more % 32
             end == len - rest
             n == 32 * k + more
             pos == 32 * (n \div 32)
  <1>1. /\ more \in Nat /\ rest \in Nat /\ rest < 32 /\ n \in Nat /\ n % 32 = rest
        /\ n \div 32 = k + more \div 32 /\ end = x + 32 * (more \div 32) /\ end \in Nat
        /\ pos = 32 * k + 32 * (more \div 32) /\ pos \in Nat
        /\ more - rest \in Nat /\ (more - rest) + rest <= more
        /\ x + (more - rest) = end /\ 32 * k + (more - rest) = pos
    OBVIOUS
  <1>2. more < 32 => more \div 32 = 0 /\ end = x /\ rest = more
    OBVIOUS
  <1>3. Holds(in, end, rest, pos)
    <2> DEFINE d == more - rest
               p == 32 * k
    <2>1. /\ x \in Int /\ more \in Nat /\ p \in Int /\ d \in Nat /\ rest \in Nat /\ d + rest <= more
          /\ Holds(in, x, more, p)
      BY <1>1
    <2>2. x + d = end /\ p + d = pos
      BY <1>1
    <2> HIDE DEF d, p, more, rest, end, pos
    <2>3. Holds(in, x + d, rest, p + d)
      BY <2>1, PartHolds
    <2> QED
      BY <2>2, <2>3
  <1>4. q = [r EXCEPT !.acc = Lanes64(seed, n \div 32),
                      !.buffer = XXH_memcpy(r.buffer, 0, in, end, rest), !.bufferedSize = rest]
    <2> DEFINE long == XXH64_consumeLong(r.acc, in, x, more)
               acc == IF more >= 32 THEN long.acc ELSE r.acc
               from == IF more >= 32 THEN long.input ELSE x
               size == IF from < len THEN len - from ELSE r.bufferedSize
    <2>1. q = [r EXCEPT !.acc = acc, !.buffer = XXH_memcpy(r.buffer, 0, in, from, len - from),
                        !.bufferedSize = size]
      BY DEF ConsumeInput64
    <2> HIDE DEF more, end, rest, n, pos, q
    <2>2. /\ more >= 32 => acc = long.acc /\ from = long.input
          /\ more < 32 => acc = r.acc /\ from = x
          /\ from < len => size = len - from
          /\ ~(from < len) => size = 0
      BY <1>1
    <2>3. more >= 32 => long = [acc |-> Lanes64(seed, k + more \div 32), input |-> x + 32 * (more \div 32)]
      BY <1>1, Consume64 DEF more
    <2> HIDE DEF acc, from, size, long
    <2>4. acc = Lanes64(seed, n \div 32) /\ from = end
      <3>1. CASE more >= 32
        <4>1. Lanes64(seed, n \div 32) = Lanes64(seed, k + more \div 32)
          BY <1>1
        <4> QED
          BY <1>1, <2>2, <2>3, <3>1, <4>1
      <3>2. CASE more < 32
        BY <1>1, <1>2, <2>2, <3>2
      <3> QED
        BY <1>1, <3>1, <3>2
    <2>5. len - end = rest /\ len - from = rest /\ size = rest
      BY <1>1, <2>2, <2>4 DEF end
    <2> QED
      BY <2>1, <2>4, <2>5
  <1> DEFINE b == XXH_memcpy(r.buffer, 0, in, end, rest)
  <1>5. Sized(b, 32) /\ Holds(b, 0, rest, pos)
    <2> DEFINE size == 32
    <2>1. /\ size \in Nat /\ Sized(r.buffer, size) /\ end \in Int
          /\ rest \in Nat /\ pos \in Int /\ rest <= size
      BY <1>1
    <2>2. IsCopy(b, r.buffer, 0, in, end, rest)
      BY DEF IsCopy
    <2> HIDE DEF rest, end, pos, size, b
    <2>3. Sized(b, size) /\ Holds(b, 0, rest, pos)
      BY <1>3, <2>1, <2>2, CopiedFirst
    <2> QED
      BY <2>3 DEF size
  <1> HIDE DEF b
  <1>6. /\ q.acc = Lanes64(seed, n \div 32) /\ q.buffer = b /\ q.bufferedSize = rest /\ Is64(q)
        /\ q.total_len = r.total_len
    <2> DEFINE lanes == Lanes64(seed, n \div 32)
    <2>1. q = [r EXCEPT !.acc = lanes, !.buffer = b, !.bufferedSize = rest]
      BY <1>4 DEF b
    <2> HIDE DEF lanes, rest, q
    <2> QED
      BY <2>1 DEF Is64, lanes
  <1> HIDE DEF q, n, rest
  <1>7. Fed64(q, n, seed)
    BY <1>1, <1>5, <1>6 DEF Fed64
  <1> QED
    BY <1>6, <1>7 DEF q, n

LEMMA Update64 ==
    ASSUME NEW r, NEW n \in Nat, NEW seed, Stream64(r, n, seed), NEW m \in Nat
    PROVE  Stream64(XXH64_update(r, Input(n, m), m), n + m, seed)
  <1> DEFINE in == Input(n, m)
             u == [r EXCEPT !.total_len = @ + m]
             bs == n % 32
             q == n \div 32
  <1>1. /\ bs \in Nat /\ q \in Nat /\ bs < 32 /\ n = 32 * q + bs
        /\ Is64(r) /\ r.acc = Lanes64(seed, q) /\ r.bufferedSize = bs /\ Sized(r.buffer, 32)
        /\ Holds(r.buffer, 0, bs, 32 * q)
        /\ r.total_len = n
    BY DEF Stream64, Fed64
  <1>2. Holds(in, 0, m, n)
    BY InputHolds
  <1> HIDE DEF in, bs, q
  <1>3. /\ Is64(u) /\ u.acc = r.acc /\ u.bufferedSize = r.bufferedSize /\ u.buffer = r.buffer
        /\ u.total_len = n + m
    BY <1>1 DEF Is64
  <1> HIDE DEF u
  <1> DEFINE z == XXH64_update(r, in, m)
  <1>4. /\ Fed64(z, n + m, seed)
        /\ z.total_len = u.total_len
    <2>1. CASE m < 32 - bs
      <3> DEFINE b == XXH_memcpy(r.buffer, bs, in, 0, m)
      <3>1. z = [u EXCEPT !.buffer = b, !.bufferedSize = bs + m]
        BY <1>1, <1>3, <2>1 DEF XXH64_update, u
      <3>2. /\ Is64(z) /\ z.acc = u.acc /\ z.buffer = b /\ z.bufferedSize = bs + m
            /\ z.total_len = u.total_len
        <4> HIDE DEF z, b
        <4> QED
          BY <1>3, <3>1 DEF Is64
      <3>3. Sized(b, 32) /\ Holds(b, bs, m, n)
        <4> DEFINE size == 32
                   o == 0
        <4>1. /\ size \in Nat /\ Sized(r.buffer, size) /\ o \in Int /\ n \in Int
              /\ bs + m <= size /\ Holds(in, o, m, n) /\ size = 32
          BY <1>1, <1>2, <2>1
        <4>2. IsCopy(b, r.buffer, bs, in, o, m)
          BY DEF IsCopy
        <4> HIDE DEF size, o, b
        <4>3. Sized(b, size) /\ Holds(b, bs, m, n)
          BY <1>1, <4>1, <4>2, CopiedWithin
        <4> QED
          BY <4>1, <4>3
      <3>4. Holds(b, 0, bs, 32 * q)
        <4> DEFINE o == 0
                   p == 32 * q
        <4>1. /\ o \in Int /\ p \in Int /\ Holds(r.buffer, o, bs, p) /\ o + bs <= bs /\ bs \in Int
          BY <1>1
        <4> HIDE DEF o, p
        <4>2. Holds(XXH_memcpy(r.buffer, bs, in, o, m), o, bs, p)
          BY <1>1, <4>1, LeftAlone
        <4> QED
          BY <4>2 DEF o, p
      <3>5. Holds(b, 0, bs + m, 32 * q)
        <4> DEFINE o == 0
                   p == 32 * q
        <4>1. /\ o \in Int /\ p \in Int /\ Holds(b, o, bs, p) /\ Holds(b, o + bs, m, p + bs)
          BY <1>1, <3>3, <3>4
        <4> HIDE DEF o, p, b
        <4>2. Holds(b, o, bs + m, p)
          BY <1>1, <4>1, TwoHold
        <4> QED
          BY <4>2 DEF o, p
      <3>6. (n + m) % 32 = bs + m /\ (n + m) \div 32 = q
        BY <1>1, <2>1
      <3> HIDE DEF z, b
      <3> QED
        BY <1>1, <1>3, <3>2, <3>3, <3>5, <3>6 DEF Fed64
    <2>2. CASE m >= 32 - bs /\ bs > 0
      <3> DEFINE w == ConsumeBuffer64(u, in)
                 b == XXH_memcpy(r.buffer, bs, in, 0, 32 - bs)
                 x == 32 - bs
      <3>1. z = ConsumeInput64(w, in, x, m)
        BY <1>1, <1>3, <2>2 DEF XXH64_update, u
      <3>2. x \in Nat /\ bs + x = 32 /\ x <= m
        BY <1>1, <2>2
      <3>3. Sized(b, 32) /\ Holds(b, bs, x, n)
        <4> DEFINE size == 32
                   o == 0
        <4>1. Holds(in, o, x, n)
          <5> DEFINE y == 0
          <5>1. o \in Int /\ n \in Int /\ y \in Nat /\ y + x <= m /\ Holds(in, o, m, n)
                /\ o + y = o /\ n + y = n
            BY <1>2, <3>2
          <5> HIDE DEF o, x, y
          <5>2. Holds(in, o + y, x, n + y)
            BY <3>2, <5>1, PartHolds
          <5> QED
            BY <5>1, <5>2
        <4>2. /\ size \in Nat /\ Sized(r.buffer, size) /\ o \in Int /\ n \in Int
              /\ bs + x <= size /\ size = 32
          BY <1>1, <2>2
        <4>3. IsCopy(b, r.buffer, bs, in, o, x)
          BY DEF IsCopy
        <4> HIDE DEF size, o, x, b
        <4>4. Sized(b, size) /\ Holds(b, bs, x, n)
          BY <1>1, <3>2, <4>1, <4>2, <4>3, CopiedWithin
        <4> QED
          BY <4>2, <4>4
      <3>4. Holds(b, 0, bs, 32 * q)
        <4> DEFINE o == 0
                   p == 32 * q
        <4>1. /\ o \in Int /\ p \in Int /\ Holds(r.buffer, o, bs, p) /\ o + bs <= bs /\ bs \in Int
          BY <1>1
        <4> HIDE DEF o, p, x
        <4>2. Holds(XXH_memcpy(r.buffer, bs, in, o, x), o, bs, p)
          BY <1>1, <3>2, <4>1, LeftAlone
        <4> QED
          BY <4>2 DEF o, p, x
      <3>5. Holds(b, 0, 32, 32 * q)
        <4> DEFINE o == 0
                   p == 32 * q
        <4>1. /\ o \in Int /\ p \in Int /\ Holds(b, o, bs, p) /\ Holds(b, o + bs, x, p + bs)
          BY <1>1, <3>3, <3>4
        <4> HIDE DEF o, p, b, x
        <4>2. Holds(b, o, bs + x, p)
          BY <1>1, <3>2, <4>1, TwoHold
        <4> QED
          BY <3>2, <4>2 DEF o, p
      <3> HIDE DEF b
      <3>6. XXH64_consumeLong(r.acc, b, 0, 32) = [acc |-> Lanes64(seed, q + 32 \div 32), input |-> 0 + 32 * (32 \div 32)]
        <4> DEFINE size == 32
                   o == 0
        <4>1. size \in Nat /\ size >= 32 /\ o \in Nat /\ Holds(b, o, size, 32 * q)
          BY <3>5
        <4> HIDE DEF size, o
        <4>2. XXH64_consumeLong(Lanes64(seed, q), b, o, size)
                = [acc |-> Lanes64(seed, q + size \div 32), input |-> o + 32 * (size \div 32)]
          BY <1>1, <4>1, Consume64
        <4> QED
          BY <1>1, <4>2 DEF size, o
      <3>7. /\ Is64(w) /\ w.acc = Lanes64(seed, q + 1) /\ w.bufferedSize = 0 /\ w.buffer = b
            /\ w.total_len = u.total_len
        <4> DEFINE long == XXH64_consumeLong(r.acc, b, 0, 32)
        <4>1. w = [u EXCEPT !.buffer = b, !.bufferedSize = 0, !.acc = long.acc]
          BY <1>1, <1>3 DEF ConsumeBuffer64, b
        <4>2. long.acc = Lanes64(seed, q + 1)
          <5>1. 32 \div 32 = 1
            OBVIOUS
          <5> QED
            BY <3>6, <5>1
        <4> HIDE DEF long, w
        <4> QED
          BY <1>3, <4>1, <4>2 DEF Is64
      <3>8. Holds(in, x, m - x, 32 * (q + 1))
        <4> DEFINE o == 0
                   y == m - x
        <4>1. /\ o \in Int /\ n \in Int /\ x + y <= m /\ y \in Nat /\ Holds(in, o, m, n)
              /\ o + x = x /\ n + x = 32 * (q + 1)
          BY <1>1, <1>2, <3>2
        <4> HIDE DEF o, x, y
        <4>2. Holds(in, o + x, y, n + x)
          BY <3>2, <4>1, PartHolds
        <4> QED
          BY <4>1, <4>2 DEF y
      <3>9. 32 * (q + 1) + (m - x) = n + m /\ q + 1 \in Nat
        BY <1>1, <3>2
      <3> DEFINE k == q + 1
      <3> HIDE DEF x, w, k, z
      <3>10. /\ Fed64(ConsumeInput64(w, in, x, m), 32 * k + (m - x), seed)
             /\ ConsumeInput64(w, in, x, m).total_len = w.total_len
        BY <3>2, <3>3, <3>7, <3>8, <3>9, Input64 DEF k
      <3> QED
        BY <3>1, <3>7, <3>9, <3>10 DEF k
    <2>3. CASE m >= 32 - bs /\ bs = 0
      <3> DEFINE x == 0
      <3>1. z = ConsumeInput64(u, in, x, m)
        BY <1>1, <1>3, <2>3 DEF XXH64_update, u
      <3>2. /\ x \in Nat /\ x <= m /\ Holds(in, x, m - x, 32 * q) /\ 32 * q + (m - x) = n + m
        BY <1>1, <1>2, <2>3
      <3> HIDE DEF x, z
      <3>3. /\ Fed64(ConsumeInput64(u, in, x, m), 32 * q + (m - x), seed)
            /\ ConsumeInput64(u, in, x, m).total_len = u.total_len
        BY <1>1, <1>3, <2>3, <3>2, Input64
      <3> QED
        BY <3>1, <3>2, <3>3
    <2> QED
      BY <1>1, <2>1, <2>2, <2>3
  <1> HIDE DEF z
  <1>5. Stream64(z, n + m, seed)
    BY <1>3, <1>4 DEF Stream64
  <1> QED
    BY <1>5 DEF z, in

\* The digest is the hash of the message in one call.
LEMMA Digest64 ==
    ASSUME NEW r, NEW n \in Nat, NEW seed, Stream64(r, n, seed)
    PROVE  XXH64_digest(r) = XXH64(Input(0, n), n, seed)
  <1> DEFINE in == Input(0, n)
             q == n \div 32
             bs == n % 32
             long == XXH64_consumeLong(XXH64_initAccs(seed), in, 0, n)
             hash == IF n >= 32 THEN XXH64_mergeAccs(Lanes64(seed, q)) ELSE XXH64_short(seed)
             lenHash == XXH64_addLen(hash, n)
  <1>1. /\ bs \in Nat /\ q \in Nat /\ bs < 32 /\ n = 32 * q + bs
        /\ r.acc = Lanes64(seed, q) /\ r.bufferedSize = bs /\ Holds(r.buffer, 0, bs, 32 * q)
        /\ r.total_len = n
    BY DEF Stream64, Fed64
  <1>2. Lanes64(seed, 0) = XXH64_initAccs(seed)
    BY Reset64 DEF Stream64, Fed64, XXH64_reset
  <1>3. Holds(in, 0, n, 0)
    BY InputHolds
  <1> HIDE DEF in
  <1>4. n >= 32 => long = [acc |-> Lanes64(seed, q), input |-> 32 * q]
    <2> DEFINE o == 0
    <2> SUFFICES ASSUME n >= 32 PROVE long = [acc |-> Lanes64(seed, q), input |-> 32 * q]
      OBVIOUS
    <2>1. o \in Nat /\ Holds(in, o, n, 32 * o) /\ o + q = q /\ o + 32 * q = 32 * q
      BY <1>1, <1>3
    <2> HIDE DEF o
    <2>2. XXH64_consumeLong(Lanes64(seed, o), in, o, n)
            = [acc |-> Lanes64(seed, o + n \div 32), input |-> o + 32 * (n \div 32)]
      BY <2>1, Consume64
    <2> HIDE DEF q
    <2>3. XXH64_consumeLong(Lanes64(seed, o), in, o, n) = [acc |-> Lanes64(seed, q), input |-> 32 * q]
      BY <2>1, <2>2 DEF q
    <2> QED
      BY <1>2, <2>3 DEF o
  <1>5. XXH64(in, n, seed) = XXH64_finalize(lenHash, in, 32 * q, n)
    <2>1. CASE n >= 32
      BY <1>4, <2>1 DEF XXH64
    <2>2. CASE n < 32
      <3>1. 32 * q = 0
        BY <1>1, <2>2
      <3> HIDE DEF q
      <3> QED
        BY <2>2, <3>1 DEF XXH64
    <2> QED
      BY <2>1, <2>2
  <1>6. XXH64_digest(r) = XXH64_finalize(lenHash, r.buffer, 0, n)
    <2>1. CASE n >= 32
      BY <1>1, <2>1 DEF XXH64_digest
    <2>2. CASE n < 32
      <3>1. q = 0
        BY <2>2
      <3>2. XXH64_lane2(r.acc) = seed
        BY <1>1, <1>2, <3>1 DEF XXH64_lane2, XXH64_initAccs, Step
      <3> QED
        BY <1>1, <2>2, <3>2 DEF XXH64_digest
    <2> QED
      BY <2>1, <2>2
  <1>7. XXH64_finalize(lenHash, in, 32 * q, n) = XXH64_finalize(lenHash, r.buffer, 0, n)
    <2> DEFINE o == 0
               p == 32 * q
    <2>1. p \in Nat /\ p + bs <= n /\ o + p = p
      BY <1>1
    <2>2. o \in Int /\ p \in Int /\ Holds(in, o, n, o) /\ Holds(r.buffer, o, bs, p)
      BY <1>1, <1>3
    <2> HIDE DEF o, p, bs, lenHash
    <2>3. Holds(in, o + p, bs, o + p)
      BY <1>1, <2>1, <2>2, PartHolds
    <2>4. Holds(in, p, n % 32, p) /\ Holds(r.buffer, o, n % 32, p)
      BY <1>1, <2>1, <2>2, <2>3 DEF bs
    <2>5. XXH64_finalize(lenHash, in, p, n) = XXH64_finalize(lenHash, r.buffer, o, n)
      BY <1>1, <2>2, <2>4, Finalize64
    <2> QED
      BY <2>5 DEF o, p
  <1> QED
    BY <1>5, <1>6, <1>7 DEF in

(***************************************************************************)
(* XXH3: blocks of P stripes and a scramble.                               *)
(***************************************************************************)
Accumulate(pos, secret, key) == Step("accumulate", Text(pos, 64), secret, key, 64, 0)
Scramble3(secret, limit) == Step("scramble", <<>>, secret, limit, 64, 0)

\* The i-th step of a message of whole stripes, and the accumulators after n
\* stripes: every block that they complete has been scrambled.
Program(secret, limit, P) ==
    [i \in Nat \ {0} |->
        IF (i - 1) % (P + 1) = P THEN Scramble3(secret, limit)
        ELSE Accumulate(64 * ((i - 1) - ((i - 1) \div (P + 1))), secret, 8 * ((i - 1) % (P + 1)))]
Steps3(secret, limit, P, m) == Then(XXH3_INIT_ACC, Start(Program(secret, limit, P), m))
Accs3(secret, limit, P, n) == Steps3(secret, limit, P, n + (n \div P))

LEMMA InitAcc3 == Run(XXH3_INIT_ACC, 1)
  BY DEF XXH3_INIT_ACC, Run

LEMMA StartAppended ==
    ASSUME NEW E, NEW a, NEW k \in Nat, Run(a, k), NEW n \in Nat
    PROVE  With(Then(a, Start(E, n)), E[n + 1]) = Then(a, Start(E, n + 1))
  <1> DEFINE q == n + 1
             x == Start(E, n)
             y == Start(E, q)
             e == E[q]
  <1>1. q \in Nat /\ q = n + 1
    OBVIOUS
  <1> HIDE DEF q
  <1>2. Run(x, n) /\ (\A i \in 1 .. n : x[i] = E[i]) /\ Run(y, q) /\ (\A i \in 1 .. q : y[i] = E[i])
    BY <1>1, StartRun
  <1> HIDE DEF x, y
  <1> DEFINE f == Then(a, x)
             h == Then(a, y)
             r == With(f, e)
  <1>3. Run(f, k + n) /\ (\A i \in 1 .. k : f[i] = a[i]) /\ (\A i \in 1 .. n : f[k + i] = E[i])
    BY <1>2, RunJoined
  <1>4. Run(h, k + q) /\ (\A i \in 1 .. k : h[i] = a[i]) /\ (\A i \in 1 .. q : h[k + i] = E[i])
    BY <1>1, <1>2, RunJoined
  <1> HIDE DEF f, h, e
  <1> DEFINE m == k + n
  <1>5. m \in Nat /\ m = k + n /\ Run(f, m)
    BY <1>3
  <1> HIDE DEF m
  <1>6. Run(r, m + 1) /\ (\A i \in 1 .. m : r[i] = f[i]) /\ r[m + 1] = e
    BY <1>5, RunAppended
  <1> HIDE DEF r
  <1>7. ASSUME NEW i \in 1 .. m + 1 PROVE r[i] = h[i]
    <2>1. CASE i <= k
      BY <1>3, <1>4, <1>5, <1>6, <2>1
    <2>2. CASE k < i /\ i <= m
      <3>1. i - k \in 1 .. n /\ i - k \in 1 .. q /\ k + (i - k) = i /\ i \in 1 .. m
        BY <1>1, <1>5, <2>2
      <3>2. f[i] = E[i - k] /\ h[i] = E[i - k] /\ r[i] = f[i]
        BY <1>3, <1>4, <1>6, <3>1
      <3> QED
        BY <3>2
    <2>3. CASE i = m + 1
      <3>1. q \in 1 .. q /\ k + q = i
        BY <1>1, <1>5, <2>3
      <3>2. h[i] = E[q] /\ r[i] = e
        BY <1>4, <1>6, <2>3, <3>1
      <3> QED
        BY <3>2 DEF e
    <2> QED
      BY <1>5, <2>1, <2>2, <2>3
  <1>8. m + 1 \in Nat /\ Run(h, m + 1)
    <2>1. k + q = m + 1
      BY <1>1, <1>5
    <2> QED
      BY <1>4, <1>5, <2>1
  <1>9. r = h
    BY <1>6, <1>7, <1>8, RunEqual
  <1> QED
    BY <1>1, <1>9 DEF r, f, h, x, y, e

\* Where the steps are: after q blocks of P + 1, and c more.
After3(i, P, q, c) == i = (P + 1) * q + c + 1

LEMMA ProgramSteps ==
    ASSUME NEW secret, NEW limit, NEW P \in Nat, P > 0, NEW q \in Nat, NEW c \in Nat, c <= P,
           NEW i, After3(i, P, q, c)
    PROVE  Program(secret, limit, P)[i]
             = IF c = P THEN Scramble3(secret, limit)
               ELSE Accumulate(64 * (P * q + c), secret, 8 * c)
  <1> DEFINE j == (P + 1) * q + c
             d == P + 1
  <1>1. d \in Nat /\ d > 0 /\ c < d /\ Divided(j, d, q, c)
    BY DEF Divided
  <1>2. j \in Nat
    OBVIOUS
  <1>3. j - q = P * q + c
    OBVIOUS
  <1> HIDE DEF j, d
  <1>4. j \div d = q /\ j % d = c
    BY <1>1, <1>2, OneQuotient
  <1>5. j + 1 \in Nat \ {0} /\ (j + 1) - 1 = j
    BY <1>2
  <1>6. Program(secret, limit, P)[j + 1]
          = IF j % d = P THEN Scramble3(secret, limit)
            ELSE Accumulate(64 * (j - (j \div d)), secret, 8 * (j % d))
    BY <1>5 DEF Program, d
  <1> QED
    BY <1>3, <1>4, <1>6 DEF j, After3

\* One stripe, where it belongs in the program.
LEMMA OneStripe ==
    ASSUME NEW secret, NEW limit, NEW P \in Nat, P > 0, NEW q \in Nat, NEW c \in Nat, c < P,
           NEW i, After3(i, P, q, c), NEW in, NEW at \in Int,
           NEW size \in Nat, size = 64, NEW pos \in Int, pos = 64 * (P * q + c),
           Holds(in, at, size, pos), NEW key, key = 8 * c
    PROVE  XXH3_scalarRounds(in, at, secret, key) = Program(secret, limit, P)[i]
  <1>1. Bytes(in, at, size) = Text(pos, size)
    BY BytesHeld
  <1>2. Program(secret, limit, P)[i]
          = IF c = P THEN Scramble3(secret, limit) ELSE Accumulate(64 * (P * q + c), secret, 8 * c)
    BY ProgramSteps
  <1>3. Program(secret, limit, P)[i] = Accumulate(pos, secret, key)
    BY <1>2
  <1>4. XXH3_scalarRounds(in, at, secret, key)
          = Step("accumulate", Bytes(in, at, size), secret, key, size, 0)
    BY DEF XXH3_scalarRounds, XXH_STRIPE_LEN
  <1>5. Accumulate(pos, secret, key) = Step("accumulate", Text(pos, size), secret, key, size, 0)
    BY DEF Accumulate
  <1> QED
    BY <1>1, <1>3, <1>4, <1>5

\* The accumulators after q blocks and c stripes, before a scramble that may follow.
Done3(m, P, q, c) == m = (P + 1) * q + c

\* The position of that stripe.
AtStripe(pos, P, q, c) == pos = 64 * (P * q + c)

\* Stripes that do not go past the end of their block.
LEMMA Accumulated ==
    ASSUME NEW secret, NEW limit, NEW P \in Nat, P > 0, NEW q \in Nat, NEW c \in Nat,
           NEW cnt \in Nat, c + cnt <= P, NEW m, Done3(m, P, q, c), NEW M, M = m + cnt,
           NEW key, key = c * 8, NEW in, NEW at \in Int, NEW size \in Nat, size = 64 * cnt,
           NEW pos \in Int, AtStripe(pos, P, q, c), Holds(in, at, size, pos)
    PROVE  XXH3_accumulate(Steps3(secret, limit, P, m), in, at, secret, key, cnt)
             = Steps3(secret, limit, P, M)
  <1> DEFINE E == Program(secret, limit, P)
             g == [i \in 1 .. cnt |-> XXH3_scalarRounds(in, at + (i - 1) * 64, secret, key + (i - 1) * 8)]
             a == XXH3_INIT_ACC
  <1>1. m \in Nat /\ m = (P + 1) * q + c
    BY DEF Done3
  <1>2. Run(g, cnt)
    BY DEF Run
  <1>3. ASSUME NEW i \in 1 .. cnt PROVE g[i] = E[m + i]
    <2> DEFINE k == c + (i - 1)
               d == (i - 1) * 64
               x == m + i
               y == at + d
               z == 64
               p == pos + d
               e == key + (i - 1) * 8
    <2>1. k \in Nat /\ k < P /\ x = (P + 1) * q + k + 1 /\ e = 8 * k
      BY <1>1
    <2>2. d \in Nat /\ d + 64 <= size
      OBVIOUS
    <2>3. y \in Int /\ z \in Nat /\ z = 64 /\ p \in Int /\ p = 64 * (P * q + k)
      BY <2>2 DEF AtStripe
    <2>4. After3(x, P, q, k)
      BY <2>1 DEF After3
    <2>5. Holds(in, y, z, p)
      <3> HIDE DEF d, z
      <3> QED
        BY <2>2, <2>3, PartHolds
    <2>6. g[i] = XXH3_scalarRounds(in, y, secret, e)
      OBVIOUS
    <2> HIDE DEF k, d, x, y, z, p, e, g
    <2>7. XXH3_scalarRounds(in, y, secret, e) = Program(secret, limit, P)[x]
      BY <2>1, <2>3, <2>4, <2>5, OneStripe
    <2> QED
      BY <2>6, <2>7 DEF x
  <1>4. XXH3_accumulate(Steps3(secret, limit, P, m), in, at, secret, key, cnt)
          = Then(Steps3(secret, limit, P, m), g)
    BY Zenon DEF Then, XXH3_accumulate, XXH_STRIPE_LEN, XXH_SECRET_CONSUME_RATE
  <1>0. Run(a, 1)
    BY InitAcc3
  <1> HIDE DEF g, E, a
  <1>5. Then(Then(a, Start(E, m)), g) = Then(a, Start(E, m + cnt))
    <2>1. GoesOn(g, cnt, E, m)
      BY <1>3 DEF GoesOn
    <2> DEFINE one == 1
    <2>2. one \in Nat /\ Run(a, one)
      BY <1>0
    <2> HIDE DEF one
    <2> QED
      BY <1>1, <1>2, <2>1, <2>2, StartExtended
  <1> QED
    BY <1>4, <1>5 DEF Steps3, E, a

\* A block is completed.
LEMMA Scrambled ==
    ASSUME NEW secret, NEW limit, NEW P \in Nat, P > 0, NEW q \in Nat,
           NEW m, Done3(m, P, q, P), NEW M, M = m + 1
    PROVE  XXH3_scrambleAcc(Steps3(secret, limit, P, m), secret, limit)
             = Steps3(secret, limit, P, M)
  <1> DEFINE E == Program(secret, limit, P)
             a == XXH3_INIT_ACC
  <1>1. m \in Nat
    BY DEF Done3
  <1>2. E[M] = Scramble3(secret, limit)
    <2>1. After3(M, P, q, P)
      BY DEF After3, Done3
    <2> QED
      BY <2>1, ProgramSteps
  <1>0. Run(a, 1)
    BY InitAcc3
  <1> HIDE DEF E, a
  <1>3. With(Then(a, Start(E, m)), E[m + 1]) = Then(a, Start(E, m + 1))
    BY <1>0, <1>1, StartAppended
  <1>4. XXH3_scrambleAcc(Steps3(secret, limit, P, m), secret, limit)
          = With(Then(a, Start(E, m)), Scramble3(secret, limit))
    BY DEF With, XXH3_scrambleAcc, Steps3, Scramble3, XXH_STRIPE_LEN, E, a
  <1> QED
    BY <1>2, <1>3, <1>4 DEF Steps3, E, a

\* The steps of a whole block, from nothing.
WholeBlock(in, at, secret, limit, P) ==
    XXH3_scrambleAcc(XXH3_accumulate(<<>>, in, at, secret, 0, P), secret, limit)

\* So many bytes are the input of n blocks.
BlockBytes(size, P, n) == size = 64 * (P * n)

LEMMA BlockSteps ==
    ASSUME NEW secret, NEW limit, NEW P \in Nat, P > 0, NEW q \in Nat, NEW in, NEW at \in Int,
           NEW size \in Nat, size = 64 * P, NEW pos \in Int, BlockBytes(pos, P, q),
           Holds(in, at, size, pos), NEW i \in 1 .. P + 1
    PROVE  WholeBlock(in, at, secret, limit, P)[i] = Program(secret, limit, P)[(P + 1) * q + i]
  <1> DEFINE g == [n \in 1 .. P |-> XXH3_scalarRounds(in, at + (n - 1) * 64, secret, 0 + (n - 1) * 8)]
             e == Scramble3(secret, limit)
             none == << >>
             w == With(Then(none, g), e)
             E == Program(secret, limit, P)
             x == (P + 1) * q + i
  <1>1. WholeBlock(in, at, secret, limit, P) = w
    BY Zenon DEF WholeBlock, XXH3_scrambleAcc, XXH3_accumulate, XXH_STRIPE_LEN, XXH_SECRET_CONSUME_RATE,
                 With, Then, Scramble3
  <1>2. Run(none, 0) /\ Run(g, P)
    BY DEF Run
  <1>3. ASSUME i <= P PROVE g[i] = E[x]
    <2> DEFINE c == i - 1
               d == c * 64
               y == at + d
               z == 64
               p == pos + d
               key == 8 * c
    <2>1. c \in Nat /\ c < P /\ d \in Nat /\ d + 64 <= size /\ x = (P + 1) * q + c + 1
      BY <1>3
    <2>2. y \in Int /\ z \in Nat /\ z = 64 /\ p \in Int /\ p = 64 * (P * q + c)
      BY <2>1 DEF BlockBytes
    <2>3. After3(x, P, q, c)
      BY <2>1 DEF After3
    <2>4. Holds(in, y, z, p)
      <3> HIDE DEF d, c, z
      <3> QED
        BY <2>1, <2>2, PartHolds
    <2>5. g[i] = XXH3_scalarRounds(in, y, secret, key)
      <3>1. i \in 1 .. P /\ 0 + (i - 1) * 8 = key
        BY <1>3
      <3> HIDE DEF key
      <3> QED
        BY <3>1
    <2>6. key = 8 * c
      OBVIOUS
    <2> HIDE DEF c, d, y, z, p, key, x, g
    <2> QED
      BY <2>1, <2>2, <2>3, <2>4, <2>5, <2>6, OneStripe
  <1>4. ASSUME i = P + 1 PROVE e = E[x]
    <2>1. After3(x, P, q, P)
      BY <1>4 DEF After3
    <2> HIDE DEF x
    <2> QED
      BY <2>1, ProgramSteps
  <1>5. w[i] = E[x]
    <2> HIDE DEF x, E, e
    <2> DEFINE z == 0
    <2>1. z \in Nat /\ Run(none, z) /\ z + P = P /\ \A j \in 1 .. P : z + j = j
      BY <1>2
    <2> HIDE DEF g, z, none
    <2>2. /\ Run(Then(none, g), z + P)
          /\ \A j \in 1 .. P : Then(none, g)[z + j] = g[j]
      BY <1>2, <2>1, RunJoined
    <2> DEFINE t == Then(none, g)
    <2>3. Run(t, P) /\ \A j \in 1 .. P : t[j] = g[j]
      BY <2>1, <2>2
    <2> HIDE DEF t
    <2>4. (\A j \in 1 .. P : With(t, e)[j] = t[j]) /\ With(t, e)[P + 1] = e
      BY <2>3, RunAppended
    <2>5. With(t, e)[i] = E[x]
      BY <1>3, <1>4, <2>3, <2>4
    <2> QED
      BY <2>5 DEF t
  <1> QED
    BY <1>1, <1>5

\* Runs one after the other, each of them a part of E.
PartsOf(f, c, d, E, n) == \A b \in 1 .. c : \A i \in 1 .. d : f[b][i] = E[(n + d * (b - 1)) + i]

LEMMA Chained ==
    ASSUME NEW E, NEW a, NEW k \in Nat, Run(a, k), NEW n \in Nat, NEW d \in Nat, d > 0,
           NEW c \in Nat, NEW f, Run(f, c), PartsOf(f, c, d, E, n), NEW m, m = d * c
    PROVE  Then(Then(a, Start(E, n)), Chain(f, d)) = Then(a, Start(E, n + m))
  <1> DEFINE g == Chain(f, d)
  <1>1. m \in Nat /\ m = d * c
    OBVIOUS
  <1>2. Len(f) = c
    BY RunFacts
  <1>3. g = [i \in 1 .. m |-> f[1 + ((i - 1) \div d)][1 + ((i - 1) % d)]]
    BY <1>1, <1>2 DEF Chain
  <1>4. Run(g, m)
    BY <1>1, <1>3 DEF Run
  <1>5. ASSUME NEW i \in 1 .. m PROVE g[i] = E[n + i]
    <2> DEFINE j == i - 1
               q == j \div d
               r == j % d
    <2>0. j \in Nat /\ i = j + 1
      BY <1>1
    <2>1. g[i] = f[1 + q][1 + r]
      BY <1>3
    <2> HIDE DEF j
    <2>2. q \in Nat /\ r \in Nat /\ r < d /\ j = d * q + r
      BY <2>0, DivMod
    <2> HIDE DEF q, r
    <2>3. q < c
      <3> SUFFICES ASSUME q >= c PROVE FALSE
        BY <2>2
      <3>1. d * q >= d * c
        BY <2>2
      <3> QED
        BY <1>1, <2>0, <2>2, <3>1
    <2>4. 1 + q \in 1 .. c /\ 1 + r \in 1 .. d /\ (n + d * ((1 + q) - 1)) + (1 + r) = n + i
      BY <2>0, <2>2, <2>3
    <2> DEFINE b == 1 + q
               x == 1 + r
    <2> HIDE DEF b, x
    <2>5. f[b][x] = E[(n + d * (b - 1)) + x]
      BY <2>4 DEF b, x, PartsOf
    <2> QED
      BY <2>1, <2>4, <2>5 DEF b, x
  <1> HIDE DEF g
  <1>6. Then(Then(a, Start(E, n)), g) = Then(a, Start(E, n + m))
    <2>1. GoesOn(g, m, E, n)
      BY <1>5 DEF GoesOn
    <2> QED
      BY <1>1, <1>4, <2>1, StartExtended
  <1> QED
    BY <1>6 DEF g

BlocksOf(f, k, in, at, secret, limit, P) ==
    \A b \in 1 .. k : f[b] = WholeBlock(in, at + (b - 1) * (64 * P), secret, limit, P)

LEMMA Blocks ==
    ASSUME NEW secret, NEW limit, NEW P \in Nat, P > 0, NEW q \in Nat, NEW k \in Nat,
           NEW in, NEW at \in Int, NEW size \in Nat, BlockBytes(size, P, k),
           NEW pos \in Int, BlockBytes(pos, P, q), Holds(in, at, size, pos), NEW f, Run(f, k),
           BlocksOf(f, k, in, at, secret, limit, P), NEW d, d = P + 1,
           NEW n, Done3(n, P, q, 0), NEW M, Done3(M, P, q + k, 0)
    PROVE  Then(Steps3(secret, limit, P, n), Chain(f, d)) = Steps3(secret, limit, P, M)
  <1> DEFINE E == Program(secret, limit, P)
             a == XXH3_INIT_ACC
             one == 1
             m == d * k
  <1>1. /\ d \in Nat /\ d > 0 /\ n \in Nat /\ one \in Nat /\ Run(a, one)
        /\ m = d * k /\ n = (P + 1) * q /\ M = n + m
        /\ size = 64 * (P * k) /\ pos = 64 * (P * q)
    BY InitAcc3 DEF Done3, BlockBytes
  <1>2. ASSUME NEW b \in 1 .. k, NEW i \in 1 .. d PROVE f[b][i] = E[(n + d * (b - 1)) + i]
    <2> DEFINE p == q + (b - 1)
               e == (b - 1) * (64 * P)
               z == 64 * P
               x == at + e
               y == pos + e
    <2>1. /\ p \in Nat /\ e \in Nat /\ z \in Nat /\ z = 64 * P
          /\ x \in Int /\ y \in Int
      BY <1>1
    <2>2. y = 64 * (P * p) /\ (P + 1) * p = n + d * (b - 1)
      BY <1>1
    <2>3. e + z <= size
      <3>1. e + z = b * (64 * P)
        OBVIOUS
      <3>2. b * (64 * P) <= k * (64 * P)
        OBVIOUS
      <3> HIDE DEF e, z
      <3> QED
        BY <1>1, <2>1, <3>1, <3>2
    <2>4. Holds(in, x, z, y)
      <3> HIDE DEF e, z
      <3> QED
        BY <2>1, <2>3, PartHolds
    <2>5. f[b] = WholeBlock(in, x, secret, limit, P)
      BY DEF BlocksOf
    <2>6. i \in 1 .. P + 1
      BY <1>1
    <2> HIDE DEF p, e, z, x, y, E
    <2>7. WholeBlock(in, x, secret, limit, P)[i] = Program(secret, limit, P)[(P + 1) * p + i]
      <3>1. BlockBytes(y, P, p) /\ p \in Nat /\ z \in Nat /\ z = 64 * P /\ x \in Int /\ y \in Int
        BY <2>1, <2>2 DEF BlockBytes
      <3> QED
        BY <2>4, <2>6, <3>1, BlockSteps
    <2> QED
      BY <2>2, <2>5, <2>7 DEF E
  <1>3. PartsOf(f, k, d, E, n)
    BY <1>2 DEF PartsOf
  <1> HIDE DEF a, E, one, m
  <1>4. Then(Then(a, Start(E, n)), Chain(f, d)) = Then(a, Start(E, n + m))
    BY <1>1, <1>3, Chained
  <1> QED
    BY <1>1, <1>4 DEF Steps3, a, E

(***************************************************************************)
(* The stripes of the message are consumed, wherever the block begun       *)
(* before stands: the accumulators are those of the stripes up to there.   *)
(***************************************************************************)
LEMMA ConsumeStripes ==
    ASSUME NEW secret, NEW limit, NEW P \in Nat, P > 0, NEW n \in Nat, NEW nb \in Nat,
           NEW s3, s3.nbStripesPerBlock = P, s3.secretLimit = limit,
           NEW in, NEW at \in Int, NEW size \in Nat, size = 64 * nb, NEW pos \in Int, pos = 64 * n,
           Holds(in, at, size, pos)
    PROVE  XXH3_consumeStripes(Accs3(secret, limit, P, n), n % P, s3, in, at, nb, secret)
             = [acc |-> Accs3(secret, limit, P, n + nb),
                nbStripesSoFar |-> (n + nb) % P, input |-> at + nb * 64]
  <1> DEFINE q == n \div P
             c == n % P
             first == P - c
             accs == Accs3(secret, limit, P, n)
             N == n + nb
             y == at + nb * 64
             result == XXH3_consumeStripes(accs, c, s3, in, at, nb, secret)
  <1>1. q \in Nat /\ c \in Nat /\ c < P /\ n = P * q + c
    BY DivMod
  <1> HIDE DEF q, c
  <1>2. /\ first \in Nat /\ first > 0 /\ c + first = P /\ N \in Nat
        /\ n + q = (P + 1) * q + c
    BY <1>1
  <1>3. accs = Steps3(secret, limit, P, (P + 1) * q + c)
    BY <1>2 DEF Accs3, q
  <1>4. CASE nb < first
    <2>1. N \div P = q /\ N % P = c + nb
      <3> DEFINE r == c + nb
      <3>1. r \in Nat /\ r < P /\ Divided(N, P, q, r)
        BY <1>1, <1>4 DEF Divided
      <3> HIDE DEF r, N
      <3>2. N \div P = q /\ N % P = r
        BY <1>1, <1>2, <3>1, OneQuotient
      <3> QED
        BY <3>2 DEF r
    <2>2. result = [acc |-> XXH3_accumulate(accs, in, at, secret, c * 8, nb),
                    nbStripesSoFar |-> c + nb, input |-> y]
      <3> HIDE DEF accs, c
      <3> QED
        BY <1>4, Zenon DEF XXH3_consumeStripes, XXH_SECRET_CONSUME_RATE, XXH_STRIPE_LEN
    <2>3. XXH3_accumulate(Steps3(secret, limit, P, (P + 1) * q + c), in, at, secret, c * 8, nb)
            = Steps3(secret, limit, P, ((P + 1) * q + c) + nb)
      <3> DEFINE m == (P + 1) * q + c
                 M == m + nb
                 key == c * 8
      <3>1. c + nb <= P /\ AtStripe(pos, P, q, c) /\ M = m + nb /\ key = c * 8
        BY <1>1, <1>4 DEF AtStripe
      <3>2. Done3(m, P, q, c)
        BY DEF Done3
      <3> HIDE DEF m, M, key
      <3>3. XXH3_accumulate(Steps3(secret, limit, P, m), in, at, secret, key, nb)
              = Steps3(secret, limit, P, M)
        BY <1>1, <3>1, <3>2, Accumulated
      <3> QED
        BY <3>3 DEF m, M, key
    <2>4. Steps3(secret, limit, P, ((P + 1) * q + c) + nb) = Accs3(secret, limit, P, N)
      <3>1. ((P + 1) * q + c) + nb = N + q
        BY <1>1
      <3> HIDE DEF N
      <3> QED
        BY <2>1, <3>1 DEF Accs3
    <2> HIDE DEF accs, N, y, result
    <2>5. result = [acc |-> Accs3(secret, limit, P, N), nbStripesSoFar |-> N % P, input |-> y]
      BY <1>3, <2>1, <2>2, <2>3, <2>4
    <2> QED
      BY <2>5 DEF result, N, y, accs, c
  <1>5. CASE nb >= first
    <2> DEFINE k == (nb - first) \div P
               r == (nb - first) % P
               left == nb - first
               B1 == XXH3_scrambleAcc(XXH3_accumulate(accs, in, at + 0 * 64, secret, c * 8, first), secret, limit)
               f == [b \in 1 .. k |-> XXH3_scrambleAcc(XXH3_accumulate(<<>>, in,
                              at + (first + (b - 1) * P) * 64, secret, 0 * 8, P), secret, limit)]
               whole == Then(B1, Chain(f, P + 1))
               last == XXH3_accumulate(whole, in, at + (nb - r) * 64, secret, 0, r)
    <2>1. k \in Nat /\ r \in Nat /\ r < P /\ left = P * k + r /\ nb = first + P * k + r
      <3>1. left \in Nat
        BY <1>2, <1>5
      <3> DEFINE kk == left \div P
                 rr == left % P
      <3>2. kk \in Nat /\ rr \in Nat /\ rr < P /\ left = P * kk + rr
        <4> HIDE DEF left
        <4> QED
          BY <3>1, DivMod
      <3> HIDE DEF kk, rr
      <3>3. left = nb - first /\ first \in Nat
        BY <1>2
      <3>4. nb = first + P * kk + rr
        <4> HIDE DEF left, first
        <4> QED
          BY <3>1, <3>2, <3>3
      <3> QED
        BY <3>2, <3>4 DEF kk, rr
    <2>2. result = [acc |-> last, nbStripesSoFar |-> r, input |-> y]
      <3>1. ~(nb < first)
        BY <1>2, <1>5
      <3> HIDE DEF accs, c
      <3> QED
        BY <3>1, Zenon DEF XXH3_consumeStripes, XXH_SECRET_CONSUME_RATE, XXH_STRIPE_LEN, Then
    <2> HIDE DEF k, r
    <2>3. B1 = Steps3(secret, limit, P, (P + 1) * (q + 1))
      <3>1. XXH3_accumulate(Steps3(secret, limit, P, (P + 1) * q + c), in, at, secret, c * 8, first)
              = Steps3(secret, limit, P, ((P + 1) * q + c) + first)
        <4> DEFINE z == 64 * first
                   o == 0
                   p == 64 * (P * q + c)
                   m == (P + 1) * q + c
                   M == m + first
                   key == c * 8
        <4>1. /\ z \in Nat /\ o \in Nat /\ p \in Int /\ o + z <= size /\ at + o = at /\ pos + o = pos /\ pos = p
          BY <1>1, <1>2, <1>5
        <4>2. Holds(in, at, z, p)
          <5> HIDE DEF z, o, p
          <5>1. Holds(in, at + o, z, pos + o)
            BY <4>1, PartHolds
          <5> QED
            BY <4>1, <5>1
        <4>3. c + first <= P /\ first \in Nat /\ z = 64 * first /\ M = m + first /\ key = c * 8
          BY <1>2
        <4>4. Done3(m, P, q, c) /\ AtStripe(p, P, q, c)
          BY DEF Done3, AtStripe
        <4> HIDE DEF first, m, M, key, z, p
        <4>5. XXH3_accumulate(Steps3(secret, limit, P, m), in, at, secret, key, first)
                = Steps3(secret, limit, P, M)
          BY <1>1, <4>1, <4>2, <4>3, <4>4, Accumulated
        <4> QED
          BY <4>5 DEF m, M, key
      <3>2. ((P + 1) * q + c) + first = (P + 1) * q + P
        BY <1>1
      <3>3. at + 0 * 64 = at
        OBVIOUS
      <3>4. XXH3_scrambleAcc(Steps3(secret, limit, P, (P + 1) * q + P), secret, limit)
              = Steps3(secret, limit, P, (P + 1) * (q + 1))
        <4> DEFINE m == (P + 1) * q + P
                   M == (P + 1) * (q + 1)
        <4>1. Done3(m, P, q, P) /\ M = m + 1
          BY <1>1 DEF Done3
        <4> HIDE DEF m, M
        <4>2. XXH3_scrambleAcc(Steps3(secret, limit, P, m), secret, limit) = Steps3(secret, limit, P, M)
          BY <1>1, <4>1, Scrambled
        <4> QED
          BY <4>2 DEF m, M
      <3> HIDE DEF accs, c, first
      <3> QED
        BY <1>3, <3>1, <3>2, <3>3, <3>4
    <2> HIDE DEF B1
    <2>4. whole = Steps3(secret, limit, P, (P + 1) * ((q + 1) + k))
      <3> DEFINE q1 == q + 1
                 e == 64 * first
                 x == at + e
                 z == 64 * (P * k)
                 p == pos + e
      <3>1. /\ q1 \in Nat /\ e \in Nat /\ x \in Int /\ z \in Nat /\ z = 64 * (P * k)
            /\ p \in Int /\ p = 64 * (P * q1)
        BY <1>1, <1>2, <2>1
      <3>2. e + z <= size
        BY <1>2, <2>1
      <3>3. Holds(in, x, z, p)
        <4> HIDE DEF e, z
        <4> QED
          BY <3>1, <3>2, PartHolds
      <3>4. ASSUME NEW b \in 1 .. k PROVE f[b] = WholeBlock(in, x + (b - 1) * (64 * P), secret, limit, P)
        <4>1. at + (first + (b - 1) * P) * 64 = x + (b - 1) * (64 * P) /\ 0 * 8 = 0
          BY <1>2
        <4>2. f[b] = XXH3_scrambleAcc(XXH3_accumulate(<<>>, in,
                              at + (first + (b - 1) * P) * 64, secret, 0 * 8, P), secret, limit)
          OBVIOUS
        <4> HIDE DEF x, f, first
        <4> QED
          BY <4>1, <4>2 DEF WholeBlock
      <3>5. Run(f, k) /\ BlocksOf(f, k, in, x, secret, limit, P)
        BY <2>1, <3>4 DEF Run, BlocksOf
      <3> DEFINE d == P + 1
                 m == (P + 1) * q1
                 M == (P + 1) * (q1 + k)
      <3>6. d = P + 1 /\ Done3(M, P, q1 + k, 0) /\ Done3(m, P, q1, 0)
        BY <2>1, <3>1 DEF Done3
      <3> HIDE DEF q1, e, x, z, p, f, d, m, M
      <3>7. Then(Steps3(secret, limit, P, m), Chain(f, d)) = Steps3(secret, limit, P, M)
        <4>1. /\ k \in Nat /\ q1 \in Nat /\ x \in Int /\ z \in Nat /\ BlockBytes(z, P, k)
              /\ p \in Int /\ BlockBytes(p, P, q1)
          BY <2>1, <3>1 DEF BlockBytes
        <4> QED
          BY <3>3, <3>5, <3>6, <4>1, Blocks
      <3> QED
        BY <2>3, <3>7 DEF q1, m, M, d
    <2> HIDE DEF f, whole
    <2>5. last = Steps3(secret, limit, P, ((P + 1) * ((q + 1) + k) + 0) + r)
      <3> DEFINE q2 == (q + 1) + k
                 o == 0
                 e == (nb - r) * 64
                 x == at + e
                 z == 64 * r
                 p == 64 * (P * q2 + o)
      <3>1. /\ q2 \in Nat /\ o \in Nat /\ o + r <= P /\ e \in Nat /\ x \in Int /\ z \in Nat
            /\ p \in Int /\ p = pos + e /\ e + z <= size
        BY <1>1, <1>2, <2>1
      <3>2. Holds(in, x, z, p)
        <4> HIDE DEF e, z, p
        <4> QED
          BY <3>1, PartHolds
      <3>3. (P + 1) * q2 + o = (P + 1) * q2 /\ o * 8 = 0
        BY <3>1
      <3> DEFINE m == (P + 1) * q2 + o
                 M == m + r
                 key == o * 8
      <3>4. z = 64 * r /\ AtStripe(p, P, q2, o) /\ Done3(m, P, q2, o) /\ M = m + r /\ key = o * 8
        BY DEF Done3, AtStripe
      <3> HIDE DEF q2, o, x, e, z, p, m, M, key
      <3>5. XXH3_accumulate(Steps3(secret, limit, P, m), in, x, secret, key, r)
              = Steps3(secret, limit, P, M)
        <4>1. q2 \in Nat /\ o \in Nat /\ o + r <= P /\ r \in Nat /\ x \in Int /\ z \in Nat /\ p \in Int
          BY <2>1, <3>1
        <4> QED
          BY <3>2, <3>4, <4>1, Accumulated
      <3> QED
        BY <2>4, <3>3, <3>5 DEF q2, x, o, e, m, M, key
    <2>6. N \div P = (q + 1) + k /\ N % P = r
      <3> DEFINE q2 == (q + 1) + k
      <3>1. q2 \in Nat /\ Divided(N, P, q2, r)
        BY <1>1, <1>2, <2>1 DEF Divided
      <3> HIDE DEF q2, N
      <3>2. N \div P = q2 /\ N % P = r
        BY <1>2, <2>1, <3>1, OneQuotient
      <3> QED
        BY <3>2 DEF q2
    <2>7. last = Accs3(secret, limit, P, N)
      <3>1. ((P + 1) * ((q + 1) + k) + 0) + r = N + ((q + 1) + k)
        BY <1>1, <1>2, <2>1
      <3> HIDE DEF N, last
      <3> QED
        BY <2>5, <2>6, <3>1 DEF Accs3
    <2> HIDE DEF accs, N, y, result, last
    <2>8. result = [acc |-> Accs3(secret, limit, P, N), nbStripesSoFar |-> N % P, input |-> y]
      BY <2>2, <2>6, <2>7
    <2> QED
      BY <2>8 DEF result, N, y, accs, c
  <1> QED
    BY <1>2, <1>4, <1>5

(***************************************************************************)
(* The XXH3 stream after n stripes consumed and bs bytes buffered: when    *)
(* less than a stripe is buffered, the end of the buffer still has the     *)
(* stripe consumed last.                                                   *)
(***************************************************************************)
Is3(r) ==
    r = [acc |-> r.acc, customSecret |-> r.customSecret, buffer |-> r.buffer,
         bufferedSize |-> r.bufferedSize, useSeed |-> r.useSeed, nbStripesSoFar |-> r.nbStripesSoFar,
         totalLen |-> r.totalLen, nbStripesPerBlock |-> r.nbStripesPerBlock,
         secretLimit |-> r.secretLimit, seed |-> r.seed, extSecret |-> r.extSecret]

\* What an update leaves alone.
Same3(z, r) ==
    /\ z.customSecret = r.customSecret /\ z.useSeed = r.useSeed /\ z.totalLen = r.totalLen
    /\ z.nbStripesPerBlock = r.nbStripesPerBlock /\ z.secretLimit = r.secretLimit
    /\ z.seed = r.seed /\ z.extSecret = r.extSecret

Kept(b, n, bs) == n > 0 /\ bs < 64 => Holds(b, 192, 64, 64 * (n - 1))

Core3(r, n, bs, secret, limit, P) ==
    /\ Is3(r)
    /\ SecretOf(r) = secret /\ r.secretLimit = limit /\ r.nbStripesPerBlock = P
    /\ r.acc = Accs3(secret, limit, P, n) /\ r.nbStripesSoFar = n % P
    /\ r.bufferedSize = bs /\ bs \in Nat /\ n \in Nat
    /\ Sized(r.buffer, 256) /\ Holds(r.buffer, 0, bs, 64 * n) /\ Kept(r.buffer, n, bs)

\* The piece fits into the buffer.
LEMMA Filled3 ==
    ASSUME NEW r, NEW n, NEW bs, NEW secret, NEW limit, NEW P, Core3(r, n, bs, secret, limit, P),
           NEW in, NEW len \in Nat, bs + len <= 256, Holds(in, 0, len, 64 * n + bs)
    PROVE  /\ Core3(FillBuffer(r, in, len), n, bs + len, secret, limit, P)
           /\ Same3(FillBuffer(r, in, len), r)
  <1> DEFINE z == FillBuffer(r, in, len)
             b == XXH_memcpy(r.buffer, bs, in, 0, len)
  <1>1. /\ Is3(r) /\ SecretOf(r) = secret /\ r.secretLimit = limit /\ r.nbStripesPerBlock = P
        /\ r.acc = Accs3(secret, limit, P, n) /\ r.nbStripesSoFar = n % P
        /\ r.bufferedSize = bs /\ bs \in Nat /\ n \in Nat
        /\ Sized(r.buffer, 256) /\ Holds(r.buffer, 0, bs, 64 * n) /\ Kept(r.buffer, n, bs)
    BY DEF Core3
  <1>2. z = [r EXCEPT !.buffer = b, !.bufferedSize = bs + len]
    BY <1>1 DEF FillBuffer
  <1>3. /\ Is3(z) /\ Same3(z, r) /\ z.buffer = b /\ z.bufferedSize = bs + len
        /\ z.acc = r.acc /\ z.nbStripesSoFar = r.nbStripesSoFar
    <2> HIDE DEF z, b
    <2> QED
      BY <1>1, <1>2 DEF Is3, Same3
  <1>4. SecretOf(z) = SecretOf(r)
    BY <1>3 DEF Same3, SecretOf
  <1>5. Sized(b, 256) /\ Holds(b, bs, len, 64 * n + bs)
    <2> DEFINE size == 256
               o == 0
               p == 64 * n + bs
    <2>1. /\ size \in Nat /\ Sized(r.buffer, size) /\ o \in Int /\ p \in Int
          /\ bs + len <= size /\ Holds(in, o, len, p) /\ size = 256
      BY <1>1
    <2>2. IsCopy(b, r.buffer, bs, in, o, len)
      BY DEF IsCopy
    <2> HIDE DEF size, o, b, p
    <2>3. Sized(b, size) /\ Holds(b, bs, len, p)
      BY <1>1, <2>1, <2>2, CopiedWithin
    <2> QED
      BY <2>1, <2>3 DEF p
  <1>6. Holds(b, 0, bs, 64 * n)
    <2> DEFINE o == 0
               p == 64 * n
    <2>1. o \in Int /\ p \in Int /\ Holds(r.buffer, o, bs, p) /\ o + bs <= bs /\ bs \in Int
      BY <1>1
    <2> HIDE DEF o, p
    <2>2. Holds(XXH_memcpy(r.buffer, bs, in, o, len), o, bs, p)
      BY <1>1, <2>1, LeftAlone
    <2> QED
      BY <2>2 DEF o, p
  <1>7. Holds(b, 0, bs + len, 64 * n)
    <2> DEFINE o == 0
               p == 64 * n
    <2>1. o \in Int /\ p \in Int /\ Holds(b, o, bs, p) /\ Holds(b, o + bs, len, p + bs)
      BY <1>1, <1>5, <1>6
    <2> HIDE DEF o, p, b
    <2>2. Holds(b, o, bs + len, p)
      BY <1>1, <2>1, TwoHold
    <2> QED
      BY <2>2 DEF o, p
  <1>8. Kept(b, n, bs + len)
    <2> SUFFICES ASSUME n > 0, bs + len < 64 PROVE Holds(b, 192, 64, 64 * (n - 1))
      BY DEF Kept
    <2> DEFINE at == 192
               m == 64
               p == 64 * (n - 1)
               o == 0
    <2>1. /\ at \in Int /\ bs \in Int /\ bs + len <= at /\ m \in Nat /\ o \in Int /\ p \in Int
          /\ Holds(r.buffer, at, m, p)
      BY <1>1 DEF Kept
    <2> HIDE DEF at, m, p, o
    <2>2. Holds(XXH_memcpy(r.buffer, bs, in, o, len), at, m, p)
      BY <2>1, LeftAlone
    <2> QED
      BY <2>2 DEF at, m, p, o
  <1>9. bs + len \in Nat
    BY <1>1
  <1> HIDE DEF z, b
  <1>10. Core3(z, n, bs + len, secret, limit, P)
    <2>1. z.secretLimit = limit /\ z.nbStripesPerBlock = P
      BY <1>1, <1>3 DEF Same3
    <2> DEFINE k == bs + len
    <2>2. k \in Nat /\ Holds(b, 0, k, 64 * n) /\ Kept(b, n, k) /\ z.bufferedSize = k
      BY <1>3, <1>7, <1>8, <1>9
    <2> HIDE DEF k
    <2>3. Core3(z, n, k, secret, limit, P)
      BY <1>1, <1>3, <1>4, <1>5, <2>1, <2>2 DEF Core3
    <2> QED
      BY <2>3 DEF k
  <1> QED
    BY <1>3, <1>10 DEF z

\* The buffer is filled and consumed: four stripes, the last of which stays in it.
LEMMA BufferConsumed3 ==
    ASSUME NEW r, NEW n, NEW bs, NEW secret, NEW limit, NEW P \in Nat, P > 0,
           Core3(r, n, bs, secret, limit, P), bs <= 256,
           NEW in, Holds(in, 0, 256 - bs, 64 * n + bs)
    PROVE  /\ Core3(ConsumeBuffer(r, in), n + 4, 0, secret, limit, P)
           /\ Same3(ConsumeBuffer(r, in), r)
  <1> DEFINE z == ConsumeBuffer(r, in)
             x == 256 - bs
             full == FillBuffer(r, in, x)
             c == XXH3_consumeStripes(r.acc, r.nbStripesSoFar, r, full.buffer, 0, 4, SecretOf(r))
             m == n + 4
  <1>1. /\ r.bufferedSize = bs /\ bs \in Nat /\ n \in Nat /\ x \in Nat /\ bs + x = 256 /\ m \in Nat
        /\ SecretOf(r) = secret /\ r.secretLimit = limit /\ r.nbStripesPerBlock = P
        /\ r.acc = Accs3(secret, limit, P, n) /\ r.nbStripesSoFar = n % P
    BY DEF Core3
  <1>2. z = [full EXCEPT !.acc = c.acc, !.nbStripesSoFar = c.nbStripesSoFar, !.bufferedSize = 0]
    <2>1. XXH3_INTERNALBUFFER_STRIPES = 4 /\ XXH3_INTERNALBUFFER_SIZE = 256
      BY DEF XXH3_INTERNALBUFFER_STRIPES, XXH3_INTERNALBUFFER_SIZE, XXH_STRIPE_LEN
    <2> QED
      BY <1>1, <2>1, Zenon DEF ConsumeBuffer
  <1>3. Core3(full, n, 256, secret, limit, P) /\ Same3(full, r)
    <2>1. Holds(in, 0, x, 64 * n + bs) /\ bs + x <= 256
      BY <1>1
    <2> HIDE DEF x
    <2>2. /\ Core3(FillBuffer(r, in, x), n, bs + x, secret, limit, P)
          /\ Same3(FillBuffer(r, in, x), r)
      BY <1>1, <2>1, Filled3
    <2> QED
      BY <1>1, <2>2
  <1> HIDE DEF full, z, x
  <1>4. /\ Is3(full) /\ Sized(full.buffer, 256) /\ Holds(full.buffer, 0, 256, 64 * n)
        /\ SecretOf(full) = secret /\ full.secretLimit = limit /\ full.nbStripesPerBlock = P
    BY <1>3 DEF Core3
  <1>5. c.acc = Accs3(secret, limit, P, m) /\ c.nbStripesSoFar = m % P
    <2> DEFINE at == 0
               nb == 4
               size == 256
               pos == 64 * n
               b == full.buffer
    <2>1. /\ at \in Int /\ nb \in Nat /\ size \in Nat /\ size = 64 * nb /\ pos \in Int /\ pos = 64 * n
          /\ Holds(b, at, size, pos) /\ n + nb = m
      BY <1>1, <1>4
    <2> HIDE DEF at, nb, size, pos, b, m, c
    <2>2. XXH3_consumeStripes(Accs3(secret, limit, P, n), n % P, r, b, at, nb, secret)
            = [acc |-> Accs3(secret, limit, P, n + nb),
               nbStripesSoFar |-> (n + nb) % P, input |-> at + nb * 64]
      BY <1>1, <2>1, ConsumeStripes
    <2>3. c = XXH3_consumeStripes(Accs3(secret, limit, P, n), n % P, r, b, at, nb, secret)
      BY <1>1 DEF c, at, nb, b
    <2> QED
      BY <2>1, <2>2, <2>3
  <1> HIDE DEF c
  <1>6. /\ Is3(z) /\ Same3(z, full) /\ z.buffer = full.buffer /\ z.bufferedSize = 0
        /\ z.acc = Accs3(secret, limit, P, m) /\ z.nbStripesSoFar = m % P
    <2> DEFINE a == Accs3(secret, limit, P, m)
               k == m % P
    <2>1. z = [full EXCEPT !.acc = a, !.nbStripesSoFar = k, !.bufferedSize = 0]
      BY <1>2, <1>5
    <2> HIDE DEF a, k
    <2>2. /\ Is3(z) /\ Same3(z, full) /\ z.buffer = full.buffer /\ z.bufferedSize = 0
          /\ z.acc = a /\ z.nbStripesSoFar = k
      BY <1>4, <2>1 DEF Is3, Same3
    <2> QED
      BY <2>2 DEF a, k
  <1>7. SecretOf(z) = secret /\ z.secretLimit = limit /\ z.nbStripesPerBlock = P /\ Same3(z, r)
    <2>1. SecretOf(z) = SecretOf(full)
      BY <1>6 DEF Same3, SecretOf
    <2>2. Same3(z, r)
      BY <1>3, <1>6 DEF Same3
    <2> QED
      BY <1>1, <1>4, <2>1, <2>2 DEF Same3
  <1>8. Holds(z.buffer, 0, 0, 64 * m)
    BY DEF Holds
  <1>9. Kept(z.buffer, m, 0)
    <2> DEFINE at == 0
               size == 256
               pos == 64 * n
               k == 192
               w == 64
               b == full.buffer
    <2>1. /\ at \in Int /\ size \in Nat /\ pos \in Int /\ k \in Nat /\ w \in Nat /\ k + w <= size
          /\ at + k = k /\ pos + k = 64 * (m - 1) /\ Holds(b, at, size, pos)
      BY <1>1, <1>4
    <2> HIDE DEF at, size, pos, k, w, b, m
    <2>2. Holds(b, at + k, w, pos + k)
      BY <2>1, PartHolds
    <2>3. Holds(b, k, w, 64 * (m - 1))
      BY <2>1, <2>2
    <2> QED
      BY <1>6, <2>3 DEF Kept, k, w, b
  <1> HIDE DEF m
  <1>10. Core3(z, m, 0, secret, limit, P)
    <2> DEFINE o == 0
    <2>1. o \in Nat /\ z.bufferedSize = o /\ Holds(z.buffer, 0, o, 64 * m) /\ Kept(z.buffer, m, o)
          /\ Sized(z.buffer, 256)
      BY <1>4, <1>6, <1>8, <1>9
    <2> HIDE DEF o
    <2>2. Core3(z, m, o, secret, limit, P)
      BY <1>1, <1>6, <1>7, <2>1 DEF Core3
    <2> QED
      BY <2>2 DEF o
  <1> QED
    BY <1>7, <1>10 DEF z, m

\* The rest of the piece, with the buffer empty: what cannot be held is consumed.
Fed3(r, T, secret, limit, P) ==
    \E n \in Nat, bs \in Nat :
        /\ Core3(r, n, bs, secret, limit, P)
        /\ T = 64 * n + bs /\ bs <= 256
        /\ n > 0 => bs > 0 /\ T > 256

LEMMA InputBuffered3 ==
    ASSUME NEW r, NEW n, NEW secret, NEW limit, NEW P \in Nat, P > 0,
           Core3(r, n, 0, secret, limit, P),
           NEW in, NEW x \in Nat, NEW len \in Nat, x < len, len - x <= 256,
           Holds(in, x, len - x, 64 * n)
    PROVE  /\ Core3(ConsumeInput(r, in, x, len), n, len - x, secret, limit, P)
           /\ Same3(ConsumeInput(r, in, x, len), r)
  <1> DEFINE z == ConsumeInput(r, in, x, len)
             k == len - x
             b == XXH_memcpy(r.buffer, 0, in, x, k)
  <1>1. /\ Is3(r) /\ SecretOf(r) = secret /\ r.secretLimit = limit /\ r.nbStripesPerBlock = P
        /\ r.acc = Accs3(secret, limit, P, n) /\ r.nbStripesSoFar = n % P /\ n \in Nat
        /\ Sized(r.buffer, 256) /\ Kept(r.buffer, n, 0) /\ k \in Nat /\ k <= 256
    BY DEF Core3
  <1>2. z = [r EXCEPT !.buffer = b, !.bufferedSize = k]
    BY <1>1, Zenon DEF ConsumeInput, XXH3_INTERNALBUFFER_SIZE
  <1> HIDE DEF z
  <1>3. /\ Is3(z) /\ Same3(z, r) /\ z.buffer = b /\ z.bufferedSize = k
        /\ z.acc = r.acc /\ z.nbStripesSoFar = r.nbStripesSoFar
    <2> HIDE DEF b, k
    <2> QED
      BY <1>1, <1>2 DEF Is3, Same3
  <1>4. SecretOf(z) = SecretOf(r)
    BY <1>3 DEF Same3, SecretOf
  <1>5. Sized(b, 256) /\ Holds(b, 0, k, 64 * n)
    <2> DEFINE size == 256
               p == 64 * n
    <2>1. /\ size \in Nat /\ Sized(r.buffer, size) /\ x \in Int /\ p \in Int
          /\ k <= size /\ Holds(in, x, k, p) /\ size = 256
      BY <1>1
    <2>2. IsCopy(b, r.buffer, 0, in, x, k)
      BY DEF IsCopy
    <2> HIDE DEF size, b, p, k
    <2>3. Sized(b, size) /\ Holds(b, 0, k, p)
      BY <1>1, <2>1, <2>2, CopiedFirst
    <2> QED
      BY <2>1, <2>3 DEF p
  <1>6. Kept(b, n, k)
    <2> SUFFICES ASSUME n > 0, k < 64 PROVE Holds(b, 192, 64, 64 * (n - 1))
      BY DEF Kept
    <2> DEFINE at == 192
               m == 64
               p == 64 * (n - 1)
               o == 0
    <2>1. /\ at \in Int /\ o \in Int /\ o + k <= at /\ m \in Nat /\ x \in Int /\ p \in Int
          /\ Holds(r.buffer, at, m, p)
      BY <1>1 DEF Kept
    <2> HIDE DEF at, m, p, o, k
    <2>2. Holds(XXH_memcpy(r.buffer, o, in, x, k), at, m, p)
      BY <1>1, <2>1, LeftAlone
    <2> QED
      BY <2>2 DEF at, m, p, o
  <1>7. z.secretLimit = limit /\ z.nbStripesPerBlock = P
    BY <1>1, <1>3 DEF Same3
  <1> HIDE DEF b, k
  <1>8. Core3(z, n, k, secret, limit, P)
    BY <1>1, <1>3, <1>4, <1>5, <1>6, <1>7 DEF Core3
  <1> QED
    BY <1>3, <1>8 DEF z, k

LEMMA InputConsumed3 ==
    ASSUME NEW r, NEW n, NEW secret, NEW limit, NEW P \in Nat, P > 0,
           Core3(r, n, 0, secret, limit, P),
           NEW in, NEW x \in Nat, NEW len \in Nat, len - x > 256,
           Holds(in, x, len - x, 64 * n),
           NEW nb, nb = (len - 1 - x) \div 64, NEW y, y = x + 64 * nb
    PROVE  /\ Core3(ConsumeInput(r, in, x, len), n + nb, len - y, secret, limit, P)
           /\ Same3(ConsumeInput(r, in, x, len), r)
  <1> DEFINE z == ConsumeInput(r, in, x, len)
             more == len - x
             pos == 64 * n
             k == len - y
             m == n + nb
             w == y - 64
             c == XXH3_consumeStripes(r.acc, r.nbStripesSoFar, r, in, x, nb, SecretOf(r))
             kept == XXH_memcpy(r.buffer, 192, in, c.input - 64, 64)
             a == XXH_memcpy(r.buffer, 192, in, w, 64)
             b == XXH_memcpy(a, 0, in, y, k)
  <1>1. /\ Is3(r) /\ SecretOf(r) = secret /\ r.secretLimit = limit /\ r.nbStripesPerBlock = P
        /\ r.acc = Accs3(secret, limit, P, n) /\ r.nbStripesSoFar = n % P /\ n \in Nat
        /\ Sized(r.buffer, 256)
    BY DEF Core3
  <1>2. /\ more \in Nat /\ nb \in Nat /\ nb > 0 /\ y \in Nat /\ k \in Nat /\ k > 0 /\ k <= 64
        /\ more = 64 * nb + k /\ m \in Nat /\ pos \in Nat /\ w \in Nat /\ w = x + 64 * (nb - 1)
        /\ y = x + 64 * nb
    <2> DEFINE d == len - 1 - x
    <2>1. d \in Nat /\ d >= 256 /\ nb = d \div 64
      OBVIOUS
    <2>2. nb \in Nat /\ d = 64 * nb + (d % 64) /\ d % 64 \in Nat /\ d % 64 < 64
      BY <2>1
    <2>3. nb > 0
      BY <2>1, <2>2
    <2> QED
      BY <1>1, <2>2, <2>3
  <1>3. z = [r EXCEPT !.acc = c.acc, !.nbStripesSoFar = c.nbStripesSoFar,
                      !.buffer = XXH_memcpy(kept, 0, in, c.input, len - c.input),
                      !.bufferedSize = len - c.input]
    <2>1. ~(len - x <= 256) /\ 256 - 64 = 192
      OBVIOUS
    <2> QED
      BY <2>1, Zenon DEF ConsumeInput, XXH3_INTERNALBUFFER_SIZE, XXH_STRIPE_LEN
  <1> HIDE DEF z
  <1>4. c = [acc |-> Accs3(secret, limit, P, m), nbStripesSoFar |-> m % P, input |-> y]
    <2> DEFINE size == 64 * nb
               o == 0
    <2>1. /\ x \in Int /\ size \in Nat /\ size = 64 * nb /\ pos \in Int /\ pos = 64 * n
          /\ o \in Nat /\ o + size <= more /\ x + o = x /\ pos + o = pos /\ x + nb * 64 = y
          /\ Holds(in, x, more, pos)
      BY <1>2
    <2> HIDE DEF size, o, pos, more, c
    <2>2. Holds(in, x, size, pos)
      <3>1. Holds(in, x + o, size, pos + o)
        BY <1>2, <2>1, PartHolds
      <3> QED
        BY <2>1, <3>1
    <2>3. XXH3_consumeStripes(Accs3(secret, limit, P, n), n % P, r, in, x, nb, secret)
            = [acc |-> Accs3(secret, limit, P, n + nb),
               nbStripesSoFar |-> (n + nb) % P, input |-> x + nb * 64]
      BY <1>1, <1>2, <2>1, <2>2, ConsumeStripes
    <2>4. c = XXH3_consumeStripes(Accs3(secret, limit, P, n), n % P, r, in, x, nb, secret)
      BY <1>1 DEF c
    <2> QED
      BY <2>1, <2>3, <2>4
  <1> HIDE DEF c
  <1>5. z = [r EXCEPT !.acc = Accs3(secret, limit, P, m), !.nbStripesSoFar = m % P,
                      !.buffer = b, !.bufferedSize = k]
    <2> HIDE DEF m
    <2>1. c.acc = Accs3(secret, limit, P, m) /\ c.nbStripesSoFar = m % P /\ c.input = y
      BY <1>4
    <2>2. kept = a /\ XXH_memcpy(kept, 0, in, c.input, len - c.input) = b
      BY <2>1
    <2> HIDE DEF kept, b
    <2> QED
      BY <1>3, <2>1, <2>2
  <1>6. /\ Is3(z) /\ Same3(z, r) /\ z.buffer = b /\ z.bufferedSize = k
        /\ z.acc = Accs3(secret, limit, P, m) /\ z.nbStripesSoFar = m % P
    <2> DEFINE e == Accs3(secret, limit, P, m)
               f == m % P
    <2> HIDE DEF b, k, e, f
    <2>1. z = [r EXCEPT !.acc = e, !.nbStripesSoFar = f, !.buffer = b, !.bufferedSize = k]
      BY <1>5 DEF e, f
    <2>2. /\ Is3(z) /\ Same3(z, r) /\ z.buffer = b /\ z.bufferedSize = k
          /\ z.acc = e /\ z.nbStripesSoFar = f
      BY <1>1, <2>1 DEF Is3, Same3
    <2> QED
      BY <2>2 DEF e, f
  <1>7. SecretOf(z) = secret /\ z.secretLimit = limit /\ z.nbStripesPerBlock = P
    <2>1. SecretOf(z) = SecretOf(r)
      BY <1>6 DEF Same3, SecretOf
    <2> QED
      BY <1>1, <1>6, <2>1 DEF Same3
  <1>8. Sized(a, 256) /\ Holds(a, 192, 64, 64 * (m - 1))
    <2> DEFINE size == 256
               at == 192
               l == 64
               p == 64 * (m - 1)
               e == 64 * (nb - 1)
    <2>1. /\ size \in Nat /\ Sized(r.buffer, size) /\ at \in Nat /\ l \in Nat /\ at + l <= size
          /\ w \in Int /\ p \in Int /\ size = 256 /\ x \in Int /\ pos \in Int /\ e \in Nat
          /\ e + l <= more /\ x + e = w /\ pos + e = p /\ Holds(in, x, more, pos)
      BY <1>1, <1>2
    <2>2. IsCopy(a, r.buffer, at, in, w, l)
      BY DEF IsCopy
    <2> HIDE DEF size, at, l, p, e, a, w, more, pos
    <2>3. Holds(in, w, l, p)
      <3>1. Holds(in, x + e, l, pos + e)
        BY <1>2, <2>1, PartHolds
      <3> QED
        BY <2>1, <3>1
    <2>4. Sized(a, size) /\ Holds(a, at, l, p)
      BY <2>1, <2>2, <2>3, CopiedWithin
    <2> QED
      BY <2>1, <2>4 DEF at, l, p
  <1> HIDE DEF a
  <1>9. Sized(b, 256) /\ Holds(b, 0, k, 64 * m)
    <2> DEFINE size == 256
               p == 64 * m
               e == 64 * nb
    <2>1. /\ size \in Nat /\ Sized(a, size) /\ y \in Int /\ p \in Int /\ k \in Nat
          /\ k <= size /\ size = 256 /\ x \in Int /\ pos \in Int /\ e \in Nat
          /\ e + k <= more /\ x + e = y /\ pos + e = p /\ Holds(in, x, more, pos)
      <3>1. Sized(a, size) /\ size \in Nat /\ size = 256
        BY <1>8
      <3>2. m \in Nat /\ e \in Nat /\ x + e = y /\ pos + e = p /\ y \in Int
        BY <1>1, <1>2
      <3>3. k \in Nat /\ k <= size /\ e + k <= more
        BY <1>2
      <3>4. Holds(in, x, more, pos) /\ pos \in Int /\ p \in Int /\ x \in Int
        BY <1>2
      <3> HIDE DEF size, e, k, m, more, pos, p
      <3> QED
        BY <3>1, <3>2, <3>3, <3>4
    <2>2. IsCopy(b, a, 0, in, y, k)
      BY DEF IsCopy
    <2> HIDE DEF size, p, e, b, k, more, pos
    <2>3. Holds(in, y, k, p)
      <3>1. Holds(in, x + e, k, pos + e)
        BY <1>2, <2>1, PartHolds
      <3> QED
        BY <2>1, <3>1
    <2>4. Sized(b, size) /\ Holds(b, 0, k, p)
      BY <2>1, <2>2, <2>3, CopiedFirst
    <2> QED
      BY <2>1, <2>4 DEF p
  <1>10. Kept(b, m, k)
    <2> DEFINE at == 192
               l == 64
               p == 64 * (m - 1)
               o == 0
    <2>1. /\ at \in Int /\ o \in Int /\ o + k <= at /\ l \in Nat /\ y \in Int /\ p \in Int
          /\ k \in Nat /\ Holds(a, at, l, p)
      BY <1>2, <1>8
    <2> HIDE DEF at, l, p, o, k
    <2>2. Holds(XXH_memcpy(a, o, in, y, k), at, l, p)
      BY <2>1, LeftAlone
    <2> QED
      BY <2>2 DEF at, l, p, o, Kept
  <1> HIDE DEF b, k, m
  <1>11. Core3(z, m, k, secret, limit, P)
    BY <1>1, <1>2, <1>6, <1>7, <1>9, <1>10 DEF Core3
  <1> QED
    BY <1>6, <1>11 DEF z, k, m

LEMMA Input3 ==
    ASSUME NEW r, NEW n, NEW secret, NEW limit, NEW P \in Nat, P > 0,
           Core3(r, n, 0, secret, limit, P),
           NEW in, NEW x \in Nat, NEW len \in Nat, x < len,
           Holds(in, x, len - x, 64 * n), NEW T, T = 64 * n + (len - x), T > 256
    PROVE  /\ Fed3(ConsumeInput(r, in, x, len), T, secret, limit, P)
           /\ Same3(ConsumeInput(r, in, x, len), r)
  <1> DEFINE z == ConsumeInput(r, in, x, len)
             k == len - x
  <1>0. n \in Nat /\ k \in Nat /\ k > 0 /\ T = 64 * n + k
    BY DEF Core3
  <1>1. CASE k <= 256
    <2>1. Core3(z, n, k, secret, limit, P) /\ Same3(z, r)
      BY <1>1, InputBuffered3
    <2> HIDE DEF z, k
    <2>2. Fed3(z, T, secret, limit, P)
      BY <1>0, <1>1, <2>1 DEF Fed3
    <2> QED
      BY <2>1, <2>2 DEF z
  <1>2. CASE k > 256
    <2> DEFINE nb == (len - 1 - x) \div 64
               y == x + 64 * nb
               m == n + nb
               bs == len - y
    <2>1. nb = (len - 1 - x) \div 64 /\ y = x + 64 * nb
      OBVIOUS
    <2>2. nb \in Nat /\ bs \in Nat /\ bs > 0 /\ bs <= 64 /\ m \in Nat /\ T = 64 * m + bs
      <3> DEFINE d == len - 1 - x
      <3>1. d \in Nat /\ d >= 256
        BY <1>2
      <3>2. nb \in Nat /\ d = 64 * nb + (d % 64) /\ d % 64 \in Nat /\ d % 64 < 64
        BY <3>1
      <3> QED
        BY <1>0, <3>2
    <2> HIDE DEF nb
    <2>3. Core3(z, m, bs, secret, limit, P) /\ Same3(z, r)
      <3> HIDE DEF y
      <3> QED
        BY <1>2, <2>1, InputConsumed3
    <2> HIDE DEF z, m, bs, y
    <2>4. Fed3(z, T, secret, limit, P)
      <3>1. bs <= 256 /\ bs \in Nat /\ m \in Nat /\ (m > 0 => bs > 0 /\ T > 256) /\ T = 64 * m + bs
        BY <2>2
      <3> QED
        BY <2>3, <3>1, Zenon DEF Fed3
    <2> QED
      BY <2>3, <2>4 DEF z
  <1> QED
    BY <1>0, <1>1, <1>2

SameConfig(z, r) ==
    /\ z.customSecret = r.customSecret /\ z.useSeed = r.useSeed
    /\ z.nbStripesPerBlock = r.nbStripesPerBlock /\ z.secretLimit = r.secretLimit
    /\ z.seed = r.seed /\ z.extSecret = r.extSecret

\* A piece of any length, whatever has been given before.
LEMMA Update3 ==
    ASSUME NEW r, NEW T \in Nat, NEW secret, NEW limit, NEW P \in Nat, P > 0,
           Fed3(r, T, secret, limit, P), r.totalLen = T, NEW len \in Nat, NEW U, U = T + len
    PROVE  /\ Fed3(XXH3_update(r, Input(T, len), len), U, secret, limit, P)
           /\ XXH3_update(r, Input(T, len), len).totalLen = U
           /\ SameConfig(XXH3_update(r, Input(T, len), len), r)
  <1> DEFINE in == Input(T, len)
             v == [r EXCEPT !.totalLen = @ + len]
             z == XXH3_update(r, in, len)
  <1>1. Holds(in, 0, len, T)
    BY InputHolds
  <1> HIDE DEF in
  <1>2. PICK n \in Nat, bs \in Nat :
             /\ Core3(r, n, bs, secret, limit, P)
             /\ T = 64 * n + bs /\ bs <= 256
             /\ n > 0 => bs > 0 /\ T > 256
    BY Zenon DEF Fed3
  <1>3. Core3(v, n, bs, secret, limit, P) /\ v.totalLen = U /\ SameConfig(v, r)
    <2>1. Is3(r)
      BY <1>2 DEF Core3
    <2> HIDE DEF v
    <2>2. /\ Is3(v) /\ SameConfig(v, r) /\ v.totalLen = U /\ v.buffer = r.buffer /\ v.acc = r.acc
          /\ v.bufferedSize = r.bufferedSize /\ v.nbStripesSoFar = r.nbStripesSoFar
      BY <2>1 DEF Is3, SameConfig, v
    <2>3. SecretOf(v) = SecretOf(r)
      BY <2>2 DEF SameConfig, SecretOf
    <2> QED
      BY <1>2, <2>2, <2>3 DEF SameConfig, Core3
  <1> HIDE DEF v
  <1>4. v.bufferedSize = bs
    BY <1>3 DEF Core3
  <1>5. Fed3(z, U, secret, limit, P) /\ Same3(z, v)
    <2>1. CASE len <= 256 - bs
      <3> DEFINE k == bs + len
      <3>1. z = FillBuffer(v, in, len)
        BY <1>4, <2>1, Zenon DEF XXH3_update, v, XXH3_INTERNALBUFFER_SIZE
      <3> HIDE DEF z
      <3>2. Core3(z, n, k, secret, limit, P) /\ Same3(z, v)
        <4>1. bs + len <= 256 /\ T = 64 * n + bs /\ Holds(in, 0, len, T)
          BY <1>1, <1>2, <2>1
        <4> QED
          BY <1>3, <3>1, <4>1, Filled3
      <3>3. k \in Nat /\ k <= 256 /\ U = 64 * n + k /\ (n > 0 => k > 0 /\ U > 256)
        BY <1>2, <2>1
      <3> HIDE DEF k
      <3>4. Fed3(z, U, secret, limit, P)
        BY <3>2, <3>3, Zenon DEF Fed3
      <3> QED
        BY <3>2, <3>4
    <2>2. CASE ~(len <= 256 - bs) /\ bs > 0
      <3> DEFINE w == ConsumeBuffer(v, in)
                 x == 256 - bs
                 m == n + 4
      <3>1. z = ConsumeInput(w, in, x, len)
        BY <1>4, <2>2, Zenon DEF XXH3_update, v, XXH3_INTERNALBUFFER_SIZE
      <3>2. /\ x \in Nat /\ x < len /\ bs <= 256 /\ m \in Nat /\ U = 64 * m + (len - x) /\ U > 256
            /\ 64 * n + bs = T
        BY <1>2, <2>2
      <3>3. Holds(in, 0, x, 64 * n + bs) /\ Holds(in, x, len - x, 64 * m)
        <4> DEFINE o == 0
                   y == len - x
        <4>1. /\ o \in Int /\ o \in Nat /\ x \in Nat /\ y \in Nat /\ o + x = x /\ x + y <= len
              /\ T + o = T /\ T + x = 64 * m /\ T \in Int /\ Holds(in, o, len, T) /\ o + x <= len
              /\ o + o = o
          BY <1>1, <1>2, <3>2
        <4> HIDE DEF o, x, y, m
        <4>2. Holds(in, o + o, x, T + o) /\ Holds(in, o + x, y, T + x)
          BY <4>1, PartHolds
        <4>3. Holds(in, o, x, T) /\ Holds(in, x, y, 64 * m)
          BY <4>1, <4>2
        <4> QED
          BY <3>2, <4>3 DEF o, y
      <3>4. Core3(w, m, 0, secret, limit, P) /\ Same3(w, v)
        BY <1>3, <3>2, <3>3, BufferConsumed3
      <3> HIDE DEF w, x, m, z
      <3>5. /\ Fed3(ConsumeInput(w, in, x, len), U, secret, limit, P)
            /\ Same3(ConsumeInput(w, in, x, len), w)
        BY <3>2, <3>3, <3>4, Input3
      <3> QED
        BY <3>1, <3>4, <3>5 DEF Same3
    <2>3. CASE ~(len <= 256 - bs) /\ bs = 0
      <3> DEFINE x == 0
      <3>0. ~(bs > 0)
        BY <2>3
      <3>1. z = ConsumeInput(v, in, x, len)
        BY <1>4, <2>3, <3>0, Zenon DEF XXH3_update, v, XXH3_INTERNALBUFFER_SIZE
      <3>2. /\ x \in Nat /\ x < len /\ U = 64 * n + (len - x) /\ U > 256
            /\ Holds(in, x, len - x, 64 * n) /\ Core3(v, n, x, secret, limit, P) /\ x = 0
        BY <1>1, <1>2, <1>3, <2>3
      <3> HIDE DEF x, z
      <3>3. /\ Fed3(ConsumeInput(v, in, x, len), U, secret, limit, P)
            /\ Same3(ConsumeInput(v, in, x, len), v)
        BY <3>2, Input3
      <3> QED
        BY <3>1, <3>3
    <2> QED
      BY <1>2, <2>1, <2>2, <2>3
  <1> HIDE DEF z
  <1>6. Fed3(z, U, secret, limit, P) /\ z.totalLen = U /\ SameConfig(z, r)
    BY <1>3, <1>5 DEF Same3, SameConfig
  <1> QED
    BY <1>6 DEF z, in

\* No steps but the first.
LEMMA Steps0 == \A secret, limit, P : Steps3(secret, limit, P, 0) = XXH3_INIT_ACC
  <1> SUFFICES ASSUME NEW secret, NEW limit, NEW P PROVE Steps3(secret, limit, P, 0) = XXH3_INIT_ACC
    OBVIOUS
  <1> DEFINE E == Program(secret, limit, P)
             a == XXH3_INIT_ACC
             o == 0
             one == 1
             x == Start(E, o)
  <1>1. o \in Nat /\ one \in Nat /\ Run(a, one) /\ one + o = one
    BY InitAcc3
  <1> HIDE DEF E, a, o, one
  <1>2. Run(x, o)
    BY <1>1, StartRun
  <1> HIDE DEF x
  <1>3. Run(Then(a, x), one + o) /\ \A i \in 1 .. one : Then(a, x)[i] = a[i]
    BY <1>1, <1>2, RunJoined
  <1>4. Then(a, x) = a
    BY <1>1, <1>3, RunEqual
  <1> QED
    BY <1>4 DEF Steps3, a, x, E, o

\* The message in one call: its whole stripes but the last, and the last 64 bytes.
LEMMA HashLong ==
    ASSUME NEW secret, NEW secretSize, NEW P \in Nat, P > 0, P = StripesPerBlock(secretSize),
           NEW limit, limit = secretSize - 64,
           NEW in, NEW len \in Nat, len > 0, Holds(in, 0, len, 0), NEW N, N = (len - 1) \div 64
    PROVE  XXH3_hashLong_internal_loop(in, len, secret, secretSize)
             = XXH3_accumulate_512(Accs3(secret, limit, P, N), in, len - 64, secret, limit - 7)
  <1> DEFINE block_len == 64 * P
             d == len - 1
             K == d \div block_len
             c == (d - block_len * K) \div 64
             f == [n \in 1 .. K |-> WholeBlock(in, (n - 1) * block_len, secret, limit, P)]
             blocks == Then(XXH3_INIT_ACC, Chain(f, P + 1))
             partial == XXH3_accumulate(blocks, in, K * block_len, secret, 0, c)
  <1>1. /\ d \in Nat /\ block_len \in Nat /\ block_len > 0 /\ K \in Nat /\ c \in Nat /\ c < P
        /\ N \in Nat /\ N = P * K + c /\ 64 * N <= d
    <2> DEFINE R == d % block_len
               e == R % 64
    <2>1. d \in Nat /\ block_len \in Nat /\ block_len > 0
      OBVIOUS
    <2>2. K \in Nat /\ R \in Nat /\ R < block_len /\ d = block_len * K + R
      <3> HIDE DEF d, block_len
      <3> QED
        BY <2>1, DivMod
    <2> HIDE DEF K, R
    <2>3. d - block_len * K = R
      BY <2>2
    <2>4. c = R \div 64
      BY <2>3
    <2> HIDE DEF c
    <2>5. c \in Nat /\ e \in Nat /\ e < 64 /\ R = 64 * c + e
      BY <2>2, <2>4
    <2> HIDE DEF e
    <2>6. c < P
      BY <2>2, <2>5
    <2>7. N = P * K + c
      <3> DEFINE q == P * K + c
                 s4 == 64
      <3>1. q \in Nat /\ Divided(d, s4, q, e) /\ s4 \in Nat /\ e < s4
        BY <2>2, <2>5 DEF Divided
      <3>2. d \div s4 = N
        OBVIOUS
      <3> HIDE DEF q, s4, d
      <3>3. d \div s4 = q
        BY <2>1, <2>5, <3>1, OneQuotient
      <3> QED
        BY <3>2, <3>3 DEF q
    <2>8. N \in Nat /\ 64 * N <= d
      BY <2>1, <2>2, <2>5, <2>7
    <2> QED
      BY <2>1, <2>2, <2>5, <2>6, <2>7, <2>8
  <1>2. XXH3_hashLong_internal_loop(in, len, secret, secretSize)
          = XXH3_accumulate_512(partial, in, len - 64, secret, limit - 7)
    BY Zenon DEF XXH3_hashLong_internal_loop, XXH_STRIPE_LEN, XXH_SECRET_LASTACC_START, WholeBlock, Then
  <1> HIDE DEF K, c, d
  <1>3. blocks = Steps3(secret, limit, P, (P + 1) * K)
    <2> DEFINE q == 0
               at == 0
               size == block_len * K
               m == 0
               M == (P + 1) * K
               g == P + 1
    <2>1. /\ q \in Nat /\ at \in Int /\ size \in Nat /\ BlockBytes(size, P, K) /\ at \in Nat
          /\ BlockBytes(at, P, q) /\ Done3(m, P, q, 0) /\ g = P + 1 /\ Done3(M, P, q + K, 0)
      BY <1>1 DEF BlockBytes, Done3
    <2>2. size <= len
      <3>1. size <= 64 * N
        BY <1>1
      <3>2. 64 * N <= len
        BY <1>1 DEF d
      <3> HIDE DEF size
      <3> QED
        BY <1>1, <2>1, <3>1, <3>2
    <2>3. Holds(in, at, size, at)
      <3>1. at + at = at /\ at + size <= len /\ Holds(in, at, len, at)
        BY <2>1, <2>2
      <3> HIDE DEF at, size
      <3>2. Holds(in, at + at, size, at + at)
        BY <2>1, <3>1, PartHolds
      <3> QED
        BY <3>1, <3>2
    <2>4. Run(f, K)
      BY <1>1 DEF Run
    <2>5. BlocksOf(f, K, in, at, secret, limit, P)
      <3> SUFFICES ASSUME NEW b \in 1 .. K
                   PROVE  f[b] = WholeBlock(in, at + (b - 1) * (64 * P), secret, limit, P)
        BY DEF BlocksOf
      <3>1. at + (b - 1) * (64 * P) = (b - 1) * block_len
        BY <1>1
      <3> HIDE DEF at, block_len
      <3> QED
        BY <3>1
    <2> HIDE DEF q, at, size, m, M, g, f
    <2>6. Then(Steps3(secret, limit, P, m), Chain(f, g)) = Steps3(secret, limit, P, M)
      BY <1>1, <2>1, <2>3, <2>4, <2>5, Blocks
    <2>7. Steps3(secret, limit, P, m) = XXH3_INIT_ACC
      BY Steps0 DEF m
    <2> QED
      BY <2>6, <2>7 DEF M, g
  <1> HIDE DEF blocks
  <1>4. partial = Accs3(secret, limit, P, N)
    <2> DEFINE q == K
               o == 0
               m == (P + 1) * K
               M == m + c
               at == K * block_len
               p == 64 * (P * K + o)
               key == o * 8
               size == 64 * c
    <2>1. /\ o \in Nat /\ o + c <= P /\ Done3(m, P, K, o) /\ M = m + c /\ o = o * 8
          /\ at \in Int /\ size \in Nat /\ size = 64 * c /\ AtStripe(p, P, K, o)
          /\ p \in Int /\ at = p /\ key = o * 8 /\ key = 0
      BY <1>1 DEF Done3, AtStripe
    <2>2. Holds(in, at, size, at)
      <3>1. /\ o \in Int /\ at \in Nat /\ o + at = at /\ Holds(in, o, len, o)
        BY <1>1, <2>1
      <3>2. at + size <= len
        <4>0. K \in Nat /\ c \in Nat /\ N = P * K + c
          BY <1>1
        <4>1. at + size = 64 * N
          <5> DEFINE u == P * K
          <5>1. at = 64 * u
            BY <4>0
          <5>2. u \in Nat /\ N = u + c
            BY <4>0
          <5> HIDE DEF u, at
          <5> QED
            BY <4>0, <5>1, <5>2
        <4>2. 64 * N <= len
          BY <1>1 DEF d
        <4> HIDE DEF at, size
        <4> QED
          BY <4>1, <4>2
      <3> HIDE DEF o, at, size
      <3>3. Holds(in, o + at, size, o + at)
        BY <2>1, <3>1, <3>2, PartHolds
      <3> QED
        BY <3>1, <3>3
    <2> HIDE DEF o, m, M, at, size, p, key
    <2>3. XXH3_accumulate(Steps3(secret, limit, P, m), in, at, secret, key, c) = Steps3(secret, limit, P, M)
      <3>1. K \in Nat /\ c \in Nat /\ Holds(in, at, size, p)
        BY <1>1, <2>1, <2>2
      <3> QED
        BY <2>1, <3>1, Accumulated
    <2>4. M = N + K
      BY <1>1 DEF M, m
    <2>5. N \div P = K
      <3>1. Divided(N, P, K, c)
        BY <1>1 DEF Divided
      <3> QED
        BY <1>1, <3>1, OneQuotient
    <2> QED
      BY <1>3, <2>1, <2>3, <2>4, <2>5 DEF Accs3, m, o, at
  <1> HIDE DEF partial
  <1> QED
    BY <1>2, <1>4

\* The 64 bytes of the last stripe are wherever the message is.
LEMMA LastStripe ==
    ASSUME NEW acc, NEW secret, NEW key, NEW mem, NEW at \in Int, NEW in, NEW from \in Int,
           NEW pos \in Int, NEW size \in Nat, size = 64, Holds(mem, at, size, pos),
           Holds(in, from, size, pos)
    PROVE  XXH3_accumulate_512(acc, mem, at, secret, key)
             = XXH3_accumulate_512(acc, in, from, secret, key)
  <1>1. Bytes(mem, at, size) = Text(pos, size) /\ Bytes(in, from, size) = Text(pos, size)
    BY BytesHeld
  <1>2. Bytes(mem, at, 64) = Bytes(in, from, 64)
    BY <1>1
  <1> QED
    BY <1>2, Zenon DEF XXH3_accumulate_512, XXH3_scalarRounds, XXH_STRIPE_LEN

(***************************************************************************)
(* The digest of a long message: the stripes left in the buffer are        *)
(* consumed, and the last stripe is found, in one piece or in two.         *)
(***************************************************************************)
LEMMA DigestLong ==
    ASSUME NEW r, NEW T \in Nat, T > 240, NEW secret, NEW secretSize,
           NEW P \in Nat, P > 0, P = StripesPerBlock(secretSize), NEW limit, limit = secretSize - 64,
           Fed3(r, T, secret, limit, P)
    PROVE  XXH3_digest_long(r, secret)
             = XXH3_hashLong_internal_loop(Input(0, T), T, secret, secretSize)
  <1> DEFINE in == Input(0, T)
             N == (T - 1) \div 64
             from == T - 64
             key == limit - 7
             width == 64
             hash == XXH3_accumulate_512(Accs3(secret, limit, P, N), in, from, secret, key)
  <1>1. Holds(in, 0, T, 0)
    BY InputHolds
  <1> HIDE DEF in
  <1>2. XXH3_hashLong_internal_loop(in, T, secret, secretSize) = hash
    BY <1>1, HashLong
  <1>3. PICK n \in Nat, bs \in Nat :
             /\ Core3(r, n, bs, secret, limit, P)
             /\ T = 64 * n + bs /\ bs <= 256
             /\ n > 0 => bs > 0 /\ T > 256
    BY Zenon DEF Fed3
  <1>4. /\ r.acc = Accs3(secret, limit, P, n) /\ r.nbStripesSoFar = n % P /\ r.bufferedSize = bs
        /\ Sized(r.buffer, 256) /\ Holds(r.buffer, 0, bs, 64 * n) /\ Kept(r.buffer, n, bs)
        /\ r.secretLimit = limit /\ r.nbStripesPerBlock = P
    BY <1>3 DEF Core3
  <1>5. from \in Nat /\ from + 64 = T /\ width \in Nat /\ width = 64 /\ Holds(in, from, width, from)
    <2> DEFINE o == 0
    <2>1. o \in Int /\ from \in Nat /\ width \in Nat /\ from + width <= T /\ o + from = from
          /\ Holds(in, o, T, o)
      BY <1>1
    <2> HIDE DEF o, from, width
    <2>2. Holds(in, o + from, width, o + from)
      BY <2>1, PartHolds
    <2>3. Holds(in, from, width, from)
      BY <2>1, <2>2
    <2> QED
      BY <2>1, <2>3 DEF from, width
  <1> HIDE DEF N, from, width
  <1>6. CASE bs >= 64
    <2> DEFINE nb == (bs - 1) \div 64
               c == XXH3_consumeStripes(r.acc, r.nbStripesSoFar, r, r.buffer, 0, nb, secret)
               at == bs - 64
    <2>1. XXH3_digest_long(r, secret) = XXH3_accumulate_512(c.acc, r.buffer, at, secret, key)
      BY <1>4, <1>6, Zenon DEF XXH3_digest_long, XXH_STRIPE_LEN, XXH_SECRET_LASTACC_START
    <2>2. nb \in Nat /\ 64 * nb <= bs /\ n + nb = N
      BY <1>3, <1>6 DEF N
    <2>3. c.acc = Accs3(secret, limit, P, N)
      <3> DEFINE o == 0
                 size == 64 * nb
                 pos == 64 * n
      <3>1. /\ o \in Int /\ o \in Nat /\ size \in Nat /\ size = 64 * nb /\ pos \in Int /\ pos = 64 * n
            /\ o + size <= bs /\ o + o = o /\ pos + o = pos /\ Holds(r.buffer, o, bs, pos)
        BY <1>4, <2>2
      <3> HIDE DEF o, size, pos, nb, c
      <3>2. Holds(r.buffer, o, size, pos)
        <4>1. Holds(r.buffer, o + o, size, pos + o)
          BY <3>1, PartHolds
        <4> QED
          BY <3>1, <4>1
      <3>3. XXH3_consumeStripes(Accs3(secret, limit, P, n), n % P, r, r.buffer, o, nb, secret)
              = [acc |-> Accs3(secret, limit, P, n + nb),
                 nbStripesSoFar |-> (n + nb) % P, input |-> o + nb * 64]
        BY <1>4, <2>2, <3>1, <3>2, ConsumeStripes
      <3>4. c = XXH3_consumeStripes(Accs3(secret, limit, P, n), n % P, r, r.buffer, o, nb, secret)
        BY <1>4 DEF c, o
      <3> QED
        BY <2>2, <3>3, <3>4
    <2>4. at \in Int /\ Holds(r.buffer, at, width, from)
      <3> DEFINE o == 0
                 pos == 64 * n
      <3>1. /\ o \in Int /\ at \in Nat /\ pos \in Int /\ at + width <= bs /\ o + at = at
            /\ pos + at = from /\ Holds(r.buffer, o, bs, pos)
        BY <1>3, <1>4, <1>5, <1>6
      <3> HIDE DEF o, pos, at
      <3>2. Holds(r.buffer, o + at, width, pos + at)
        BY <1>5, <3>1, PartHolds
      <3> QED
        BY <3>1, <3>2
    <2> HIDE DEF c, at, key
    <2>5. XXH3_accumulate_512(c.acc, r.buffer, at, secret, key)
            = XXH3_accumulate_512(c.acc, in, from, secret, key)
      <3> DEFINE mem == r.buffer
                 acc == c.acc
      <3>1. Holds(mem, at, width, from) /\ from \in Int
        BY <1>5, <2>4
      <3> HIDE DEF mem, acc
      <3>2. XXH3_accumulate_512(acc, mem, at, secret, key)
              = XXH3_accumulate_512(acc, in, from, secret, key)
        BY <1>5, <2>4, <3>1, LastStripe
      <3> QED
        BY <3>2 DEF mem, acc
    <2> QED
      BY <1>2, <2>1, <2>3, <2>5 DEF in
  <1>7. CASE bs < 64
    <2> DEFINE catchup == 64 - bs
               b1 == XXH_memcpy(Buffer(64), 0, r.buffer, 256 - catchup, catchup)
               b2 == XXH_memcpy(b1, catchup, r.buffer, 0, bs)
    <2>1. XXH3_digest_long(r, secret)
            = XXH3_accumulate_512(Accs3(secret, limit, P, n), b2, 0, secret, key)
      <3>1. ~(bs >= 64)
        BY <1>7
      <3> QED
        BY <1>4, <3>1, Zenon DEF XXH3_digest_long, XXH_STRIPE_LEN, XXH_SECRET_LASTACC_START,
                                 XXH3_INTERNALBUFFER_SIZE
    <2>2. n > 0 /\ bs > 0 /\ n = N /\ catchup \in Nat /\ bs + catchup = 64
          /\ from = 64 * (n - 1) + bs /\ from + catchup = 64 * n
      BY <1>3, <1>5, <1>7 DEF N
    <2>3. Sized(b1, 64) /\ Holds(b1, 0, catchup, from)
      <3> DEFINE at == 192
                 pos == 64 * (n - 1)
                 y == 256 - catchup
                 w == 64
                 mem == r.buffer
      <3>1. /\ at \in Int /\ w \in Nat /\ pos \in Int /\ bs + catchup <= w /\ at + bs = y /\ y \in Int
            /\ pos + bs = from /\ Holds(mem, at, w, pos) /\ catchup <= w
        BY <1>4, <1>7, <2>2 DEF Kept
      <3>2. Sized(Buffer(64), w)
        BY DEF Sized, Buffer
      <3>3. IsCopy(b1, Buffer(64), 0, mem, y, catchup)
        BY DEF IsCopy
      <3> HIDE DEF at, pos, y, w, mem, b1, catchup
      <3>4. Holds(mem, y, catchup, from)
        <4>1. Holds(mem, at + bs, catchup, pos + bs)
          BY <2>2, <3>1, PartHolds
        <4> QED
          BY <3>1, <4>1
      <3> DEFINE dst == Buffer(64)
      <3>5. Sized(dst, w) /\ IsCopy(b1, dst, 0, mem, y, catchup) /\ from \in Int
        BY <1>5, <3>2, <3>3
      <3> HIDE DEF dst
      <3>6. Sized(b1, w) /\ Holds(b1, 0, catchup, from)
        BY <2>2, <3>1, <3>4, <3>5, CopiedFirst
      <3> QED
        BY <3>6 DEF w
    <2> HIDE DEF b1
    <2>4. Holds(b2, 0, 64, from)
      <3> DEFINE o == 0
                 pos == 64 * n
                 w == 64
                 mem == r.buffer
      <3>1. /\ o \in Int /\ pos \in Int /\ w \in Nat /\ catchup + bs <= w /\ catchup + bs = w
            /\ Sized(b1, w) /\ Holds(mem, o, bs, pos) /\ Holds(b1, o, catchup, from)
            /\ from \in Int /\ o + catchup = catchup /\ catchup \in Int /\ o + catchup <= catchup
        BY <1>4, <1>5, <2>2, <2>3
      <3>2. IsCopy(b2, b1, catchup, mem, o, bs)
        BY DEF IsCopy
      <3>3. b2 = XXH_memcpy(b1, catchup, mem, o, bs)
        OBVIOUS
      <3> HIDE DEF o, pos, w, mem, b2, catchup
      <3>4. Holds(b2, catchup, bs, pos)
        BY <2>2, <3>1, <3>2, CopiedWithin
      <3>5. Holds(b2, o, catchup, from)
        <4>1. Holds(XXH_memcpy(b1, catchup, mem, o, bs), o, catchup, from)
          BY <2>2, <3>1, LeftAlone
        <4> QED
          BY <3>3, <4>1
      <3>6. Holds(b2, o + catchup, bs, from + catchup)
        BY <2>2, <3>1, <3>4 DEF pos
      <3>7. Holds(b2, o, catchup + bs, from)
        BY <2>2, <3>1, <3>5, <3>6, TwoHold
      <3>8. Holds(b2, o, w, from)
        BY <3>1, <3>7
      <3> QED
        BY <3>8 DEF o, w
    <2> HIDE DEF b2, key
    <2>5. XXH3_accumulate_512(Accs3(secret, limit, P, n), b2, 0, secret, key)
            = XXH3_accumulate_512(Accs3(secret, limit, P, n), in, from, secret, key)
      <3> DEFINE o == 0
                 acc == Accs3(secret, limit, P, n)
      <3>1. Holds(b2, o, width, from) /\ from \in Int /\ o \in Int
        BY <1>5, <2>4
      <3> HIDE DEF o, acc
      <3>2. XXH3_accumulate_512(acc, b2, o, secret, key)
              = XXH3_accumulate_512(acc, in, from, secret, key)
        BY <1>5, <3>1, LastStripe
      <3> QED
        BY <3>2 DEF o, acc
    <2> QED
      BY <1>2, <2>1, <2>2, <2>5 DEF in
  <1> QED
    BY <1>3, <1>6, <1>7

(***************************************************************************)
(* Short messages: the functions read the first len bytes and no others.   *)
(***************************************************************************)
Alike(a, b, len) == \A at \in Nat, n \in Nat : at + n <= len => Bytes(a, at, n) = Bytes(b, at, n)

LEMMA HeldAlike ==
    ASSUME NEW a, NEW b, NEW len \in Nat, Holds(a, 0, len, 0), Holds(b, 0, len, 0)
    PROVE  Alike(a, b, len)
  <1> SUFFICES ASSUME NEW at \in Nat, NEW n \in Nat, at + n <= len
               PROVE  Bytes(a, at, n) = Bytes(b, at, n)
    BY DEF Alike
  <1> DEFINE o == 0
  <1>1. o \in Int /\ o + at = at /\ Holds(a, o, len, o) /\ Holds(b, o, len, o) /\ at \in Int
    OBVIOUS
  <1> HIDE DEF o
  <1>2. Holds(a, o + at, n, o + at) /\ Holds(b, o + at, n, o + at)
    BY <1>1, PartHolds
  <1>3. Holds(a, at, n, at) /\ Holds(b, at, n, at)
    BY <1>1, <1>2
  <1> QED
    BY <1>1, <1>3, BytesHeld

LEMMA Mix16Alike ==
    ASSUME NEW a, NEW b, NEW len \in Nat, Alike(a, b, len), NEW at \in Int, at >= 0, at + 16 <= len,
           NEW secret, NEW key, NEW seed
    PROVE  XXH3_mix16B(a, at, secret, key, seed) = XXH3_mix16B(b, at, secret, key, seed)
  <1>1. Bytes(a, at, 8) = Bytes(b, at, 8) /\ Bytes(a, at + 8, 8) = Bytes(b, at + 8, 8)
    BY DEF Alike
  <1> QED
    BY <1>1, Zenon DEF XXH3_mix16B, XXH_readLE64

LEMMA PairAlike ==
    ASSUME NEW a, NEW b, NEW len \in Nat, Alike(a, b, len), NEW i \in Nat, 16 * (i + 1) <= len,
           NEW secret, NEW seed
    PROVE  MixPair(a, len, secret, seed, i) = MixPair(b, len, secret, seed, i)
  <1> DEFINE x == 16 * i
             y == len - 16 * (i + 1)
             k == 32 * i
             l == 32 * i + 16
  <1>1. x \in Int /\ x >= 0 /\ x + 16 <= len /\ y \in Int /\ y >= 0 /\ y + 16 <= len
    OBVIOUS
  <1> HIDE DEF x, y, k, l
  <1>2. /\ XXH3_mix16B(a, x, secret, k, seed) = XXH3_mix16B(b, x, secret, k, seed)
        /\ XXH3_mix16B(a, y, secret, l, seed) = XXH3_mix16B(b, y, secret, l, seed)
    BY <1>1, Mix16Alike
  <1> QED
    BY <1>2, Zenon DEF MixPair, x, y, k, l

LEMMA Mix32Alike ==
    ASSUME NEW a, NEW b, NEW len \in Nat, Alike(a, b, len), NEW x \in Int, x >= 0, x + 16 <= len,
           NEW y \in Int, y >= 0, y + 16 <= len, NEW secret, NEW key, NEW seed
    PROVE  XXH128_mix32B(a, x, y, secret, key, seed) = XXH128_mix32B(b, x, y, secret, key, seed)
  <1> DEFINE l == key + 16
  <1> HIDE DEF l
  <1>1. /\ XXH3_mix16B(a, x, secret, key, seed) = XXH3_mix16B(b, x, secret, key, seed)
        /\ XXH3_mix16B(a, y, secret, l, seed) = XXH3_mix16B(b, y, secret, l, seed)
    BY Mix16Alike
  <1>2. Bytes(a, x, 16) = Bytes(b, x, 16) /\ Bytes(a, y, 16) = Bytes(b, y, 16)
    BY DEF Alike
  <1> QED
    BY <1>1, <1>2, Zenon DEF XXH128_mix32B, l

LEMMA Pair32Alike ==
    ASSUME NEW a, NEW b, NEW len \in Nat, Alike(a, b, len), NEW i \in Nat, 16 * (i + 1) <= len,
           NEW secret, NEW seed
    PROVE  Mix32Pair(a, len, secret, seed, i) = Mix32Pair(b, len, secret, seed, i)
  <1> DEFINE x == 16 * i
             y == len - 16 * (i + 1)
             k == 32 * i
  <1>1. x \in Int /\ x >= 0 /\ x + 16 <= len /\ y \in Int /\ y >= 0 /\ y + 16 <= len
    OBVIOUS
  <1> HIDE DEF x, y, k
  <1>2. XXH128_mix32B(a, x, y, secret, k, seed) = XXH128_mix32B(b, x, y, secret, k, seed)
    BY <1>1, Mix32Alike
  <1> QED
    BY <1>2, Zenon DEF Mix32Pair, x, y, k

LEMMA Up16Alike ==
    ASSUME NEW a, NEW b, NEW len \in Nat, Alike(a, b, len), len <= 16, NEW secret, NEW seed
    PROVE  /\ XXH3_len_0to16_64b(a, len, secret, seed) = XXH3_len_0to16_64b(b, len, secret, seed)
           /\ XXH3_len_0to16_128b(a, len, secret, seed) = XXH3_len_0to16_128b(b, len, secret, seed)
  <1>1. CASE len > 8
    <2>1. /\ len > 8 /\ ~(len \in 4 .. 8) /\ ~(len \in 1 .. 3) /\ ~(len = 0)
      BY <1>1
    <2>2. /\ Bytes(a, 0, 8) = Bytes(b, 0, 8) /\ Bytes(a, len - 8, 8) = Bytes(b, len - 8, 8)
      BY <1>1 DEF Alike
    <2>3. /\ XXH3_len_9to16_64b(a, len, secret, seed) = XXH3_len_9to16_64b(b, len, secret, seed)
          /\ XXH3_len_9to16_128b(a, len, secret, seed) = XXH3_len_9to16_128b(b, len, secret, seed)
      BY <2>2, Zenon DEF XXH3_len_9to16_64b, XXH3_len_9to16_128b, XXH_readLE64, Keyed
    <2> QED
      BY <2>1, <2>3 DEF XXH3_len_0to16_64b, XXH3_len_0to16_128b
  <1>2. CASE len \in 4 .. 8
    <2>1. /\ ~(len > 8) /\ len \in 4 .. 8 /\ ~(len \in 1 .. 3) /\ ~(len = 0)
      BY <1>2
    <2>2. /\ Bytes(a, 0, 4) = Bytes(b, 0, 4) /\ Bytes(a, len - 4, 4) = Bytes(b, len - 4, 4)
      BY <1>2 DEF Alike
    <2>3. /\ XXH3_len_4to8_64b(a, len, secret, seed) = XXH3_len_4to8_64b(b, len, secret, seed)
          /\ XXH3_len_4to8_128b(a, len, secret, seed) = XXH3_len_4to8_128b(b, len, secret, seed)
      BY <2>2, Zenon DEF XXH3_len_4to8_64b, XXH3_len_4to8_128b, Keyed
    <2> QED
      BY <2>1, <2>3 DEF XXH3_len_0to16_64b, XXH3_len_0to16_128b
  <1>3. CASE len \in 1 .. 3
    <2>1. /\ ~(len > 8) /\ ~(len \in 4 .. 8) /\ len \in 1 .. 3 /\ ~(len = 0)
      BY <1>3
    <2>2. len \div 2 \in Nat /\ (len \div 2) + 1 <= len /\ len - 1 \in Nat /\ (len - 1) + 1 <= len /\ 0 + 1 <= len
      BY <1>3
    <2>3. /\ Bytes(a, 0, 1) = Bytes(b, 0, 1) /\ Bytes(a, len - 1, 1) = Bytes(b, len - 1, 1)
          /\ Bytes(a, len \div 2, 1) = Bytes(b, len \div 2, 1)
      BY <2>2 DEF Alike
    <2>4. /\ XXH3_len_1to3_64b(a, len, secret, seed) = XXH3_len_1to3_64b(b, len, secret, seed)
          /\ XXH3_len_1to3_128b(a, len, secret, seed) = XXH3_len_1to3_128b(b, len, secret, seed)
      BY <2>3, Zenon DEF XXH3_len_1to3_64b, XXH3_len_1to3_128b, Combined
    <2> QED
      BY <2>1, <2>4 DEF XXH3_len_0to16_64b, XXH3_len_0to16_128b
  <1>4. CASE len = 0
    <2>1. /\ ~(len > 8) /\ ~(len \in 4 .. 8) /\ ~(len \in 1 .. 3) /\ len = 0
      BY <1>4
    <2> QED
      BY <2>1 DEF XXH3_len_0to16_64b, XXH3_len_0to16_128b
  <1> QED
    BY <1>1, <1>2, <1>3, <1>4

LEMMA Up128Alike ==
    ASSUME NEW a, NEW b, NEW len \in Nat, Alike(a, b, len), len \in 17 .. 128, NEW secret, NEW seed
    PROVE  /\ XXH3_len_17to128_64b(a, len, secret, seed) = XXH3_len_17to128_64b(b, len, secret, seed)
           /\ XXH3_len_17to128_128b(a, len, secret, seed) = XXH3_len_17to128_128b(b, len, secret, seed)
  <1>1. ASSUME NEW i \in Nat, i <= 3, 32 * i < len
        PROVE  /\ MixPair(a, len, secret, seed, i) = MixPair(b, len, secret, seed, i)
               /\ Mix32Pair(a, len, secret, seed, i) = Mix32Pair(b, len, secret, seed, i)
    <2>1. 16 * (i + 1) <= len
      BY <1>1
    <2> QED
      BY <2>1, PairAlike, Pair32Alike
  <1>2. /\ MixPair(a, len, secret, seed, 0) = MixPair(b, len, secret, seed, 0)
        /\ Mix32Pair(a, len, secret, seed, 0) = Mix32Pair(b, len, secret, seed, 0)
    BY <1>1
  <1>3. len > 32 => /\ MixPair(a, len, secret, seed, 1) = MixPair(b, len, secret, seed, 1)
                    /\ Mix32Pair(a, len, secret, seed, 1) = Mix32Pair(b, len, secret, seed, 1)
    BY <1>1
  <1>4. len > 64 => /\ MixPair(a, len, secret, seed, 2) = MixPair(b, len, secret, seed, 2)
                    /\ Mix32Pair(a, len, secret, seed, 2) = Mix32Pair(b, len, secret, seed, 2)
    BY <1>1
  <1>5. len > 96 => /\ MixPair(a, len, secret, seed, 3) = MixPair(b, len, secret, seed, 3)
                    /\ Mix32Pair(a, len, secret, seed, 3) = Mix32Pair(b, len, secret, seed, 3)
    BY <1>1
  <1>6. XXH3_len_17to128_64b(a, len, secret, seed) = XXH3_len_17to128_64b(b, len, secret, seed)
    BY <1>2, <1>3, <1>4, <1>5, Zenon DEF XXH3_len_17to128_64b
  <1>7. XXH3_len_17to128_128b(a, len, secret, seed) = XXH3_len_17to128_128b(b, len, secret, seed)
    BY <1>2, <1>3, <1>4, <1>5, Zenon DEF XXH3_len_17to128_128b
  <1> QED
    BY <1>6, <1>7

LEMMA Up240Alike ==
    ASSUME NEW a, NEW b, NEW len \in Nat, Alike(a, b, len), len \in 129 .. 240,
           NEW secret, NEW seed
    PROVE  XXH3_len_129to240_64b(a, len, secret, seed) = XXH3_len_129to240_64b(b, len, secret, seed)
  <1> DEFINE first(mem) ==
                 [i \in 1 .. 8 |-> XXH3_mix16B(mem, 16 * (i - 1), secret, 16 * (i - 1), seed)]
             last(mem) == XXH3_mix16B(mem, len - 16, secret, 136 - 17, seed)
             rounds == (len \div 16) - 8
             more(mem) ==
                 [i \in 1 .. rounds |->
                    XXH3_mix16B(mem, 16 * (i + 7), secret, 16 * (i - 1) + 3, seed)]
  <1>1. first(a) = first(b)
    <2> SUFFICES ASSUME NEW i \in 1 .. 8
                 PROVE  XXH3_mix16B(a, 16 * (i - 1), secret, 16 * (i - 1), seed)
                          = XXH3_mix16B(b, 16 * (i - 1), secret, 16 * (i - 1), seed)
      OBVIOUS
    <2> DEFINE x == 16 * (i - 1)
    <2>1. x \in Int /\ x >= 0 /\ x + 16 <= len
      OBVIOUS
    <2> HIDE DEF x
    <2>2. XXH3_mix16B(a, x, secret, x, seed) = XXH3_mix16B(b, x, secret, x, seed)
      BY <2>1, Mix16Alike
    <2> QED
      BY <2>2 DEF x
  <1>2. last(a) = last(b)
    <2> DEFINE x == len - 16
               key == 136 - 17
    <2>1. x \in Int /\ x >= 0 /\ x + 16 <= len
      OBVIOUS
    <2> HIDE DEF x, key
    <2>2. XXH3_mix16B(a, x, secret, key, seed) = XXH3_mix16B(b, x, secret, key, seed)
      BY <2>1, Mix16Alike
    <2> QED
      BY <2>2, Zenon DEF x, key
  <1>3. more(a) = more(b)
    <2> SUFFICES ASSUME NEW i \in 1 .. rounds
                 PROVE  XXH3_mix16B(a, 16 * (i + 7), secret, 16 * (i - 1) + 3, seed)
                          = XXH3_mix16B(b, 16 * (i + 7), secret, 16 * (i - 1) + 3, seed)
      OBVIOUS
    <2> DEFINE x == 16 * (i + 7)
               key == 16 * (i - 1) + 3
    <2>1. x \in Int /\ x >= 0 /\ x + 16 <= len
      <3>1. len \div 16 \in Nat /\ 16 * (len \div 16) <= len
        OBVIOUS
      <3> DEFINE q == len \div 16
      <3>2. q \in Nat /\ 16 * q <= len /\ i \in Int /\ i >= 1 /\ i + 8 <= q
        BY <3>1
      <3> HIDE DEF q, rounds
      <3> QED
        BY <3>2
    <2> HIDE DEF x, key
    <2>2. XXH3_mix16B(a, x, secret, key, seed) = XXH3_mix16B(b, x, secret, key, seed)
      BY <2>1, Mix16Alike
    <2> QED
      BY <2>2, Zenon DEF x, key
  <1>4. ASSUME NEW mem
        PROVE  XXH3_len_129to240_64b(mem, len, secret, seed)
                 = XXH3_avalanche(XXH3_avalanche(<<Len3(len)>> \o first(mem)) \o <<last(mem)>> \o more(mem))
    BY Zenon DEF XXH3_len_129to240_64b, XXH3_SECRET_SIZE_MIN, XXH3_MIDSIZE_LASTOFFSET,
                 XXH3_MIDSIZE_STARTOFFSET
  <1> HIDE DEF first, last, more
  <1> QED
    BY <1>1, <1>2, <1>3, <1>4

LEMMA Up240Alike128 ==
    ASSUME NEW a, NEW b, NEW len \in Nat, Alike(a, b, len), len \in 129 .. 240,
           NEW secret, NEW seed
    PROVE  XXH3_len_129to240_128b(a, len, secret, seed) = XXH3_len_129to240_128b(b, len, secret, seed)
  <1> DEFINE Round(mem, i, key) == XXH128_mix32B(mem, i - 32, i - 16, secret, key, seed)
             first(mem) == [j \in 1 .. 4 |-> Round(mem, 32 * j, 32 * (j - 1))]
             rounds == (len - 128) \div 32
             more(mem) == [j \in 1 .. rounds |-> Round(mem, 128 + 32 * j, 3 + 32 * (j - 1))]
             last(mem) == XXH128_mix32B(mem, len - 16, len - 32, secret, 136 - 17 - 16, -seed)
  <1>1. ASSUME NEW i \in Int, i >= 32, i <= len, NEW key PROVE Round(a, i, key) = Round(b, i, key)
    <2> DEFINE x == i - 32
               y == i - 16
    <2>1. x \in Int /\ x >= 0 /\ x + 16 <= len /\ y \in Int /\ y >= 0 /\ y + 16 <= len
      BY <1>1
    <2> HIDE DEF x, y
    <2>2. XXH128_mix32B(a, x, y, secret, key, seed) = XXH128_mix32B(b, x, y, secret, key, seed)
      BY <2>1, Mix32Alike
    <2> QED
      BY <2>2, Zenon DEF x, y
  <1>2. last(a) = last(b)
    <2> DEFINE x == len - 16
               y == len - 32
               key == 136 - 17 - 16
               minus == -seed
    <2>1. x \in Int /\ x >= 0 /\ x + 16 <= len /\ y \in Int /\ y >= 0 /\ y + 16 <= len
      OBVIOUS
    <2> HIDE DEF x, y, key, minus
    <2>2. XXH128_mix32B(a, x, y, secret, key, minus) = XXH128_mix32B(b, x, y, secret, key, minus)
      BY <2>1, Mix32Alike
    <2> QED
      BY <2>2, Zenon DEF x, y, key, minus
  <1> HIDE DEF Round
  <1>3. first(a) = first(b)
    <2> SUFFICES ASSUME NEW j \in 1 .. 4
                 PROVE  Round(a, 32 * j, 32 * (j - 1)) = Round(b, 32 * j, 32 * (j - 1))
      OBVIOUS
    <2>1. 32 * j \in Int /\ 32 * j >= 32 /\ 32 * j <= len
      OBVIOUS
    <2> QED
      BY <1>1, <2>1
  <1>4. more(a) = more(b)
    <2> SUFFICES ASSUME NEW j \in 1 .. rounds
                 PROVE  Round(a, 128 + 32 * j, 3 + 32 * (j - 1)) = Round(b, 128 + 32 * j, 3 + 32 * (j - 1))
      OBVIOUS
    <2> DEFINE x == 128 + 32 * j
               key == 3 + 32 * (j - 1)
    <2>1. x \in Int /\ x >= 32 /\ x <= len
      <3> DEFINE d == len - 128
      <3>1. d \in Nat /\ rounds \in Nat /\ 32 * rounds <= d
        OBVIOUS
      <3> HIDE DEF rounds
      <3> QED
        BY <3>1
    <2> HIDE DEF x, key
    <2>2. Round(a, x, key) = Round(b, x, key)
      BY <1>1, <2>1
    <2> QED
      BY <2>2 DEF x, key
  <1>5. ASSUME NEW mem
        PROVE  XXH3_len_129to240_128b(mem, len, secret, seed)
                 = Finish128(XXH3_avalanche(<<Len3(len)>> \o Chain(first(mem), 4))
                               \o Chain(more(mem), 4) \o last(mem), len, seed)
    BY Zenon DEF XXH3_len_129to240_128b, XXH3_SECRET_SIZE_MIN, XXH3_MIDSIZE_LASTOFFSET,
                 XXH3_MIDSIZE_STARTOFFSET, Round
  <1> HIDE DEF first, last, more
  <1> QED
    BY <1>2, <1>3, <1>4, <1>5

\* The hash of a short message does not ask for the function of the long ones.
LEMMA ShortAlike ==
    ASSUME NEW a, NEW b, NEW len \in Nat, Alike(a, b, len), len <= 240,
           NEW secret, NEW seed, NEW long1, NEW long2
    PROVE  /\ XXH3_64bits_internal(a, len, seed, secret, long1)
                = XXH3_64bits_internal(b, len, seed, secret, long2)
           /\ XXH3_128bits_internal(a, len, seed, secret, long1)
                = XXH3_128bits_internal(b, len, seed, secret, long2)
  <1>0. XXH3_MIDSIZE_MAX = 240
    BY DEF XXH3_MIDSIZE_MAX
  <1>1. CASE len <= 16
    <2>1. len <= 16 /\ ~(len \in 17 .. 128) /\ ~(len \in 129 .. 240) /\ ~(len > 240)
      BY <1>1
    <2>2. /\ XXH3_len_0to16_64b(a, len, secret, seed) = XXH3_len_0to16_64b(b, len, secret, seed)
          /\ XXH3_len_0to16_128b(a, len, secret, seed) = XXH3_len_0to16_128b(b, len, secret, seed)
      BY <1>1, Up16Alike
    <2> QED
      BY <1>0, <2>1, <2>2 DEF XXH3_64bits_internal, XXH3_128bits_internal
  <1>2. CASE len \in 17 .. 128
    <2>1. ~(len <= 16) /\ len \in 17 .. 128 /\ ~(len \in 129 .. 240) /\ ~(len > 240)
      BY <1>2
    <2>2. /\ XXH3_len_17to128_64b(a, len, secret, seed) = XXH3_len_17to128_64b(b, len, secret, seed)
          /\ XXH3_len_17to128_128b(a, len, secret, seed) = XXH3_len_17to128_128b(b, len, secret, seed)
      BY <1>2, Up128Alike
    <2> QED
      BY <1>0, <2>1, <2>2 DEF XXH3_64bits_internal, XXH3_128bits_internal
  <1>3. CASE len \in 129 .. 240
    <2>1. ~(len <= 16) /\ ~(len \in 17 .. 128) /\ len \in 129 .. 240 /\ ~(len > 240)
      BY <1>3
    <2>2. /\ XXH3_len_129to240_64b(a, len, secret, seed) = XXH3_len_129to240_64b(b, len, secret, seed)
          /\ XXH3_len_129to240_128b(a, len, secret, seed) = XXH3_len_129to240_128b(b, len, secret, seed)
      BY <1>3, Up240Alike, Up240Alike128
    <2> QED
      BY <1>0, <2>1, <2>2 DEF XXH3_64bits_internal, XXH3_128bits_internal
  <1> QED
    BY <1>1, <1>2, <1>3

(***************************************************************************)
(* The modes.  Without a secret of the caller the secret is the one        *)
(* derived from the seed; the seed of the default mode is 0.               *)
(***************************************************************************)
SecretIn(m) == IF m.api \in {"default", "seed"} THEN XXH3_initCustomSecret(m.seed) ELSE m.secret
SizeIn(m) == IF m.api \in {"default", "seed"} THEN XXH_SECRET_DEFAULT_SIZE ELSE UserSecretSize
UseSeedIn(m) == m.api = "both" \/ (m.api = "seed" /\ m.seed # 0)

Modes == {"default", "seed", "secret", "both"}

\* Short messages are hashed with the seed or with the secret, never with both.
Hash64(in, len, m) ==
    IF len <= 240
    THEN XXH3_64bits_internal(in, len, IF UseSeedIn(m) THEN m.seed ELSE 0,
                              IF UseSeedIn(m) THEN XXH3_kSecret ELSE SecretIn(m), NullFunction)
    ELSE XXH3_hashLong_64b_internal(in, len, SecretIn(m), SizeIn(m))
Hash128(in, len, m) ==
    IF len <= 240
    THEN XXH3_128bits_internal(in, len, IF UseSeedIn(m) THEN m.seed ELSE 0,
                               IF UseSeedIn(m) THEN XXH3_kSecret ELSE SecretIn(m), NullFunction)
    ELSE XXH3_hashLong_128b_internal(in, len, SecretIn(m), SizeIn(m))

Stream3(r, T, m) ==
    /\ Fed3(r, T, SecretIn(m), SizeIn(m) - 64, StripesPerBlock(SizeIn(m)))
    /\ r.totalLen = T
    /\ r.useSeed = UseSeedIn(m)
    /\ r.seed = m.seed

LEMMA Blocks3 ==
    ASSUME NEW m
    PROVE  /\ SizeIn(m) \in Nat /\ SizeIn(m) >= 136
           /\ StripesPerBlock(SizeIn(m)) \in Nat /\ StripesPerBlock(SizeIn(m)) > 0
  <1> DEFINE size == SizeIn(m)
  <1>1. size \in Nat /\ size >= 136
    BY Xxh3Assumption DEF SizeIn, XXH_SECRET_DEFAULT_SIZE, XXH3_SECRET_SIZE_MIN
  <1> HIDE DEF size
  <1>2. StripesPerBlock(size) \in Nat /\ StripesPerBlock(size) > 0
    BY <1>1 DEF StripesPerBlock, XXH_STRIPE_LEN, XXH_SECRET_CONSUME_RATE
  <1> QED
    BY <1>1, <1>2 DEF size

LEMMA LongInternal ==
    ASSUME NEW in, NEW len \in Nat, len > 240, NEW seed, NEW secret, NEW long
    PROVE  /\ XXH3_64bits_internal(in, len, seed, secret, long) = long
           /\ XXH3_128bits_internal(in, len, seed, secret, long) = long
  <1>1. ~(len <= 16) /\ ~(len \in 17 .. 128) /\ ~(len \in 129 .. 240) /\ len > 240
    OBVIOUS
  <1> QED
    BY <1>1 DEF XXH3_64bits_internal, XXH3_128bits_internal, XXH3_MIDSIZE_MAX

LEMMA Digest3 ==
    ASSUME NEW r, NEW T \in Nat, NEW m, Stream3(r, T, m)
    PROVE  /\ XXH3_64bits_digest(r) = Hash64(Input(0, T), T, m)
           /\ XXH3_128bits_digest(r) = Hash128(Input(0, T), T, m)
  <1> DEFINE in == Input(0, T)
             secret == SecretIn(m)
             size == SizeIn(m)
             limit == size - 64
             P == StripesPerBlock(size)
             use == UseSeedIn(m)
             seed == m.seed
  <1>1. Holds(in, 0, T, 0)
    BY InputHolds
  <1> HIDE DEF in
  <1>2. /\ size \in Nat /\ P \in Nat /\ P > 0 /\ P = StripesPerBlock(size) /\ limit = size - 64
        /\ limit + 64 = size
    BY Blocks3
  <1>3. /\ Fed3(r, T, secret, limit, P) /\ r.totalLen = T /\ r.useSeed = use /\ r.seed = seed
    BY DEF Stream3
  <1>4. /\ Hash64(in, T, m)
             = IF T <= 240
               THEN XXH3_64bits_internal(in, T, IF use THEN seed ELSE 0,
                                         IF use THEN XXH3_kSecret ELSE secret, NullFunction)
               ELSE XXH3_hashLong_64b_internal(in, T, secret, size)
        /\ Hash128(in, T, m)
             = IF T <= 240
               THEN XXH3_128bits_internal(in, T, IF use THEN seed ELSE 0,
                                          IF use THEN XXH3_kSecret ELSE secret, NullFunction)
               ELSE XXH3_hashLong_128b_internal(in, T, secret, size)
    BY DEF Hash64, Hash128
  <1> HIDE DEF secret, size, limit, P, use, seed
  <1>5. PICK n \in Nat, bs \in Nat :
             /\ Core3(r, n, bs, secret, limit, P)
             /\ T = 64 * n + bs /\ bs <= 256
             /\ n > 0 => bs > 0 /\ T > 256
    BY <1>3, Zenon DEF Fed3
  <1>6. /\ SecretOf(r) = secret /\ r.secretLimit = limit /\ Holds(r.buffer, 0, bs, 64 * n)
    BY <1>5 DEF Core3
  <1>7. CASE T > 240
    <2>1. XXH3_digest_long(r, secret) = XXH3_hashLong_internal_loop(in, T, secret, size)
      BY <1>2, <1>3, <1>7, DigestLong DEF in
    <2>2. XXH3_64bits_digest(r) = XXH3_hashLong_64b_internal(in, T, secret, size)
      BY <1>3, <1>6, <1>7, <2>1, Zenon DEF XXH3_64bits_digest, XXH3_hashLong_64b_internal, XXH3_MIDSIZE_MAX
    <2>3. XXH3_128bits_digest(r) = XXH3_hashLong_128b_internal(in, T, secret, size)
      BY <1>2, <1>3, <1>6, <1>7, <2>1, Zenon
         DEF XXH3_128bits_digest, XXH3_hashLong_128b_internal, XXH3_MIDSIZE_MAX, XXH_STRIPE_LEN
    <2>4. ~(T <= 240)
      BY <1>7
    <2> QED
      BY <1>4, <2>2, <2>3, <2>4 DEF in
  <1>8. CASE T <= 240
    <2> DEFINE b == r.buffer
    <2>1. n = 0 /\ bs = T
      BY <1>5, <1>8
    <2>2. Holds(b, 0, T, 0)
      BY <1>6, <2>1
    <2> HIDE DEF b
    <2>3. Alike(b, in, T)
      BY <1>1, <2>2, HeldAlike
    <2>4. ~(T > 240)
      BY <1>8
    <2>5. CASE use
      <3> DEFINE l1 == XXH3_hashLong_64b_withSeed(b, T, seed)
                 l2 == XXH3_hashLong_128b_withSeed(b, T, seed)
                 k == XXH3_kSecret
      <3>1. /\ XXH3_64bits_digest(r) = XXH3_64bits_internal(b, T, seed, k, l1)
            /\ XXH3_128bits_digest(r) = XXH3_128bits_internal(b, T, seed, k, l2)
        BY <1>3, <1>6, <2>4, <2>5, Zenon DEF XXH3_64bits_digest, XXH3_128bits_digest,
           XXH3_64bits_withSeed, XXH3_128bits_withSeed, XXH3_MIDSIZE_MAX, b
      <3> HIDE DEF l1, l2, k
      <3>2. /\ XXH3_64bits_internal(b, T, seed, k, l1) = XXH3_64bits_internal(in, T, seed, k, NullFunction)
            /\ XXH3_128bits_internal(b, T, seed, k, l2) = XXH3_128bits_internal(in, T, seed, k, NullFunction)
        BY <1>8, <2>3, ShortAlike
      <3> QED
        BY <1>4, <1>8, <2>5, <3>1, <3>2, Zenon DEF in, k
    <2>6. CASE ~use
      <3> DEFINE l1 == XXH3_hashLong_64b_withSecret(b, T, secret, limit + 64)
                 l2 == XXH3_hashLong_128b_withSecret(b, T, secret, limit + 64)
                 zero == 0
      <3>1. /\ XXH3_64bits_digest(r) = XXH3_64bits_internal(b, T, zero, secret, l1)
            /\ XXH3_128bits_digest(r) = XXH3_128bits_internal(b, T, zero, secret, l2)
        BY <1>3, <1>6, <2>4, <2>6, Zenon DEF XXH3_64bits_digest, XXH3_128bits_digest,
           XXH3_64bits_withSecret, XXH3_128bits_withSecret, XXH3_MIDSIZE_MAX, XXH_STRIPE_LEN, b
      <3> HIDE DEF l1, l2, zero
      <3>2. /\ XXH3_64bits_internal(b, T, zero, secret, l1)
                 = XXH3_64bits_internal(in, T, zero, secret, NullFunction)
            /\ XXH3_128bits_internal(b, T, zero, secret, l2)
                 = XXH3_128bits_internal(in, T, zero, secret, NullFunction)
        BY <1>8, <2>3, ShortAlike
      <3> QED
        BY <1>4, <1>8, <2>6, <3>1, <3>2, Zenon DEF in, zero
    <2> QED
      BY <2>5, <2>6
  <1> QED
    BY <1>7, <1>8

\* The entry points of one call, in the same terms.
LEMMA OneCall ==
    ASSUME NEW in, NEW len \in Nat, NEW m, m.api \in Modes, m.api = "default" => m.seed = 0
    PROVE  /\ m.api = "default" => /\ XXH3_64bits(in, len) = Hash64(in, len, m)
                                   /\ XXH3_128bits(in, len) = Hash128(in, len, m)
           /\ m.api = "seed" => /\ XXH3_64bits_withSeed(in, len, m.seed) = Hash64(in, len, m)
                                /\ XXH3_128bits_withSeed(in, len, m.seed) = Hash128(in, len, m)
           /\ m.api = "secret" =>
                /\ XXH3_64bits_withSecret(in, len, m.secret, UserSecretSize) = Hash64(in, len, m)
                /\ XXH3_128bits_withSecret(in, len, m.secret, UserSecretSize) = Hash128(in, len, m)
           /\ m.api = "both" =>
                /\ XXH3_64bits_withSecretandSeed(in, len, m.secret, UserSecretSize, m.seed)
                     = Hash64(in, len, m)
                /\ XXH3_128bits_withSecretandSeed(in, len, m.secret, UserSecretSize, m.seed)
                     = Hash128(in, len, m)
  <1> DEFINE seed == IF UseSeedIn(m) THEN m.seed ELSE 0
             key == IF UseSeedIn(m) THEN XXH3_kSecret ELSE SecretIn(m)
             long == XXH3_hashLong_64b_internal(in, len, SecretIn(m), SizeIn(m))
             long128 == XXH3_hashLong_128b_internal(in, len, SecretIn(m), SizeIn(m))
  <1>1. ASSUME NEW l1, NEW l2, len > 240 => l1 = long, len > 240 => l2 = long128
        PROVE  /\ XXH3_64bits_internal(in, len, seed, key, l1) = Hash64(in, len, m)
               /\ XXH3_128bits_internal(in, len, seed, key, l2) = Hash128(in, len, m)
    <2>1. CASE len > 240
      <3>1. ~(len <= 240)
        BY <2>1
      <3>2. Hash64(in, len, m) = long /\ Hash128(in, len, m) = long128
        BY <3>1, Zenon DEF Hash64, Hash128
      <3> HIDE DEF seed, key, long, long128
      <3> QED
        BY <1>1, <2>1, <3>2, LongInternal
    <2>2. CASE len <= 240
      <3>1. Alike(in, in, len)
        BY DEF Alike
      <3>2. /\ Hash64(in, len, m) = XXH3_64bits_internal(in, len, seed, key, NullFunction)
            /\ Hash128(in, len, m) = XXH3_128bits_internal(in, len, seed, key, NullFunction)
        BY <2>2, Zenon DEF Hash64, Hash128
      <3> HIDE DEF seed, key, long, long128
      <3> QED
        BY <2>2, <3>1, <3>2, ShortAlike
    <2> QED
      BY <2>1, <2>2
  <1>2. CASE m.api = "default"
    <2>1. seed = 0 /\ key = XXH3_kSecret /\ SecretIn(m) = XXH3_kSecret
          /\ SizeIn(m) = XXH_SECRET_DEFAULT_SIZE
      BY <1>2 DEF UseSeedIn, SecretIn, SizeIn, XXH3_kSecret
    <2> DEFINE l1 == XXH3_hashLong_64b_default(in, len)
               l2 == XXH3_hashLong_128b_default(in, len)
    <2>2. l1 = long /\ l2 = long128
      BY <2>1, Zenon DEF XXH3_hashLong_64b_default, XXH3_hashLong_128b_default
    <2>3. /\ XXH3_64bits(in, len) = XXH3_64bits_internal(in, len, seed, key, l1)
          /\ XXH3_128bits(in, len) = XXH3_128bits_internal(in, len, seed, key, l2)
      BY <2>1, Zenon DEF XXH3_64bits, XXH3_128bits
    <2> HIDE DEF seed, key, long, long128, l1, l2
    <2> QED
      BY <1>1, <1>2, <2>2, <2>3
  <1>3. CASE m.api = "seed"
    <2>1. seed = m.seed /\ key = XXH3_kSecret /\ SecretIn(m) = XXH3_initCustomSecret(m.seed)
          /\ SizeIn(m) = XXH_SECRET_DEFAULT_SIZE
      BY <1>3 DEF UseSeedIn, SecretIn, SizeIn, XXH3_kSecret
    <2> DEFINE l1 == XXH3_hashLong_64b_withSeed(in, len, m.seed)
               l2 == XXH3_hashLong_128b_withSeed(in, len, m.seed)
    <2>2. l1 = long /\ l2 = long128
      BY <2>1, Zenon DEF XXH3_hashLong_64b_withSeed, XXH3_hashLong_128b_withSeed
    <2>3. /\ XXH3_64bits_withSeed(in, len, m.seed) = XXH3_64bits_internal(in, len, seed, key, l1)
          /\ XXH3_128bits_withSeed(in, len, m.seed) = XXH3_128bits_internal(in, len, seed, key, l2)
      BY <2>1, Zenon DEF XXH3_64bits_withSeed, XXH3_128bits_withSeed
    <2> HIDE DEF seed, key, long, long128, l1, l2
    <2> QED
      BY <1>1, <1>3, <2>2, <2>3
  <1>4. CASE m.api = "secret"
    <2>1. seed = 0 /\ key = m.secret /\ SecretIn(m) = m.secret /\ SizeIn(m) = UserSecretSize
      BY <1>4 DEF UseSeedIn, SecretIn, SizeIn
    <2> DEFINE l1 == XXH3_hashLong_64b_withSecret(in, len, m.secret, UserSecretSize)
               l2 == XXH3_hashLong_128b_withSecret(in, len, m.secret, UserSecretSize)
    <2>2. l1 = long /\ l2 = long128
      BY <2>1, Zenon DEF XXH3_hashLong_64b_withSecret, XXH3_hashLong_128b_withSecret
    <2>3. /\ XXH3_64bits_withSecret(in, len, m.secret, UserSecretSize)
               = XXH3_64bits_internal(in, len, seed, key, l1)
          /\ XXH3_128bits_withSecret(in, len, m.secret, UserSecretSize)
               = XXH3_128bits_internal(in, len, seed, key, l2)
      BY <2>1, Zenon DEF XXH3_64bits_withSecret, XXH3_128bits_withSecret
    <2> HIDE DEF seed, key, long, long128, l1, l2
    <2> QED
      BY <1>1, <1>4, <2>2, <2>3
  <1>5. CASE m.api = "both"
    <2>1. seed = m.seed /\ key = XXH3_kSecret /\ SecretIn(m) = m.secret /\ SizeIn(m) = UserSecretSize
      BY <1>5 DEF UseSeedIn, SecretIn, SizeIn
    <2>2. CASE len <= 240
      <3> DEFINE l == NullFunction
      <3>1. /\ XXH3_64bits_withSecretandSeed(in, len, m.secret, UserSecretSize, m.seed)
                 = XXH3_64bits_internal(in, len, seed, key, l)
            /\ XXH3_128bits_withSecretandSeed(in, len, m.secret, UserSecretSize, m.seed)
                 = XXH3_128bits_internal(in, len, seed, key, l)
        BY <2>1, <2>2, Zenon DEF XXH3_64bits_withSecretandSeed, XXH3_128bits_withSecretandSeed,
                                 XXH3_MIDSIZE_MAX
      <3> HIDE DEF seed, key, long, long128, l
      <3>2. /\ XXH3_64bits_internal(in, len, seed, key, l) = Hash64(in, len, m)
            /\ XXH3_128bits_internal(in, len, seed, key, l) = Hash128(in, len, m)
        BY <1>1, <2>2
      <3> QED
        BY <1>5, <3>1, <3>2
    <2>3. CASE len > 240
      <3>1. ~(len <= 240)
        BY <2>3
      <3>2. /\ XXH3_64bits_withSecretandSeed(in, len, m.secret, UserSecretSize, m.seed) = long
            /\ XXH3_128bits_withSecretandSeed(in, len, m.secret, UserSecretSize, m.seed) = long128
        BY <2>1, <3>1, Zenon DEF XXH3_64bits_withSecretandSeed, XXH3_128bits_withSecretandSeed,
             XXH3_MIDSIZE_MAX, XXH3_hashLong_64b_withSecret, XXH3_hashLong_128b_withSecret
      <3>3. Hash64(in, len, m) = long /\ Hash128(in, len, m) = long128
        BY <3>1, Zenon DEF Hash64, Hash128
      <3> QED
        BY <1>5, <3>2, <3>3
    <2> QED
      BY <2>2, <2>3
  <1> QED
    BY <1>2, <1>3, <1>4, <1>5 DEF Modes

(***************************************************************************)
(* The resets of XXH3, of a state that may have been used before.  A       *)
(* secret that is not external was derived from the seed.                  *)
(***************************************************************************)
Cached(r) ==
    r.extSecret = NULL /\ r.seed # 0 => r.customSecret = XXH3_initCustomSecret(r.seed)

LEMMA ResetInternal ==
    ASSUME NEW r, Is3(r), NEW seed, NEW secret, NEW size,
           NEW z, z = XXH3_reset_internal(r, seed, secret, size)
    PROVE  /\ Is3(z) /\ z.extSecret = secret /\ z.customSecret = r.customSecret
           /\ z.seed = seed /\ z.useSeed = (seed # 0) /\ z.totalLen = 0
           /\ z.acc = XXH3_INIT_ACC /\ z.bufferedSize = 0 /\ z.nbStripesSoFar = 0
           /\ z.buffer = Buffer(256) /\ z.secretLimit = size - 64
           /\ z.nbStripesPerBlock = StripesPerBlock(size)
  <1> DEFINE a == XXH3_INIT_ACC
             b == Buffer(256)
             limit == size - 64
             P == StripesPerBlock(size)
             use == (seed # 0)
  <1>1. z = [r EXCEPT !.bufferedSize = 0, !.nbStripesSoFar = 0, !.totalLen = 0, !.buffer = b,
                      !.acc = a, !.seed = seed, !.useSeed = use, !.extSecret = secret,
                      !.secretLimit = limit, !.nbStripesPerBlock = P]
    BY Zenon DEF XXH3_reset_internal, XXH3_INTERNALBUFFER_SIZE, XXH_STRIPE_LEN
  <1> HIDE DEF a, b, limit, P, use
  <1>2. /\ Is3(z) /\ z.extSecret = secret /\ z.customSecret = r.customSecret
        /\ z.seed = seed /\ z.totalLen = 0
        /\ z.acc = a /\ z.bufferedSize = 0 /\ z.nbStripesSoFar = 0
        /\ z.buffer = b /\ z.secretLimit = limit /\ z.nbStripesPerBlock = P
    BY <1>1 DEF Is3
  <1>3. z.useSeed = use
    BY <1>1, Zenon DEF Is3
  <1> QED
    BY <1>2, <1>3, Zenon DEF a, b, limit, P, use

\* A state without input, for whatever secret it will use.
LEMMA Fed3Empty ==
    ASSUME NEW z, Is3(z), NEW secret, NEW limit, NEW P \in Nat, P > 0,
           SecretOf(z) = secret, z.secretLimit = limit, z.nbStripesPerBlock = P,
           z.acc = XXH3_INIT_ACC, z.bufferedSize = 0, z.nbStripesSoFar = 0, z.buffer = Buffer(256)
    PROVE  Fed3(z, 0, secret, limit, P)
  <1>1. Accs3(secret, limit, P, 0) = XXH3_INIT_ACC
    <2>1. 0 + (0 \div P) = 0
      OBVIOUS
    <2> QED
      BY <2>1, Steps0 DEF Accs3
  <1>2. Sized(Buffer(256), 256) /\ Holds(Buffer(256), 0, 0, 64 * 0) /\ Kept(Buffer(256), 0, 0)
    BY DEF Sized, Buffer, Holds, Kept
  <1>3. 0 % P = 0
    OBVIOUS
  <1>4. Core3(z, 0, 0, secret, limit, P)
    BY <1>1, <1>2, <1>3 DEF Core3
  <1>5. 0 \in Nat /\ 0 = 64 * 0 + 0 /\ 0 <= 256 /\ ~(0 > 0)
    OBVIOUS
  <1> QED
    BY <1>4, <1>5, Zenon DEF Fed3

LEMMA Reset3 ==
    ASSUME NEW m, NEW z, Is3(z), SecretOf(z) = SecretIn(m), z.seed = m.seed,
           z.useSeed = UseSeedIn(m), z.totalLen = 0,
           z.acc = XXH3_INIT_ACC, z.bufferedSize = 0, z.nbStripesSoFar = 0,
           z.buffer = Buffer(256), z.secretLimit = SizeIn(m) - 64,
           z.nbStripesPerBlock = StripesPerBlock(SizeIn(m))
    PROVE  Stream3(z, 0, m)
  <1> DEFINE key == SecretIn(m)
             limit == SizeIn(m) - 64
             P == StripesPerBlock(SizeIn(m))
  <1>1. P \in Nat /\ P > 0 /\ SecretOf(z) = key /\ z.secretLimit = limit /\ z.nbStripesPerBlock = P
    BY Blocks3
  <1> HIDE DEF key, limit, P
  <1>2. Fed3(z, 0, key, limit, P)
    BY <1>1, Fed3Empty
  <1> QED
    BY <1>2 DEF Stream3, key, limit, P

LEMMA ResetDefault3 ==
    ASSUME NEW r, Is3(r), NEW z, z = XXH3_64bits_reset(r)
    PROVE  /\ Is3(z) /\ Cached(z)
           /\ \A m : (m.api = "default" \/ m.api = "seed") /\ m.seed = 0 => Stream3(z, 0, m)
  <1> DEFINE zero == 0
             k == XXH3_kSecret
             size == XXH_SECRET_DEFAULT_SIZE
  <1>1. z = XXH3_reset_internal(r, zero, k, size)
    BY DEF XXH3_64bits_reset
  <1> HIDE DEF zero, k, size
  <1>2. /\ Is3(z) /\ z.extSecret = k /\ z.customSecret = r.customSecret
        /\ z.seed = zero /\ z.useSeed = (zero # 0) /\ z.totalLen = 0
        /\ z.acc = XXH3_INIT_ACC /\ z.bufferedSize = 0 /\ z.nbStripesSoFar = 0
        /\ z.buffer = Buffer(256) /\ z.secretLimit = size - 64
        /\ z.nbStripesPerBlock = StripesPerBlock(size)
    BY <1>1, ResetInternal
  <1>3. k # NULL
    BY DEF k, XXH3_kSecret, XXH3_initCustomSecret, NULL
  <1>4. Cached(z)
    BY <1>2, <1>3 DEF Cached
  <1>5. SecretOf(z) = k
    BY <1>2, <1>3 DEF SecretOf
  <1>6. ASSUME NEW m, m.api = "default" \/ m.api = "seed", m.seed = 0 PROVE Stream3(z, 0, m)
    <2>1. SecretIn(m) = k /\ SizeIn(m) = size /\ ~UseSeedIn(m)
      BY <1>6 DEF SecretIn, SizeIn, UseSeedIn, k, size, XXH3_kSecret
    <2>2. z.useSeed = FALSE /\ z.seed = m.seed
      BY <1>2, <1>6 DEF zero
    <2>3. z.useSeed = UseSeedIn(m)
      BY <2>1, <2>2, Zenon DEF UseSeedIn
    <2> QED
      BY <1>2, <1>5, <2>1, <2>2, <2>3, Reset3
  <1> QED
    BY <1>2, <1>4, <1>6

LEMMA ResetSeed3 ==
    ASSUME NEW r, Is3(r), Cached(r), NEW seed, NEW z, z = XXH3_64bits_reset_withSeed(r, seed),
           NEW m, m.api = "seed", m.seed = seed
    PROVE  Is3(z) /\ Cached(z) /\ Stream3(z, 0, m)
  <1>1. CASE seed = 0
    BY <1>1, ResetDefault3 DEF XXH3_64bits_reset_withSeed
  <1>2. CASE seed # 0
    <2> DEFINE custom == XXH3_initCustomSecret(seed)
               fresh == [r EXCEPT !.customSecret = custom]
               w == IF seed # r.seed \/ r.extSecret # NULL THEN fresh ELSE r
               null == NULL
               size == XXH_SECRET_DEFAULT_SIZE
    <2>1. z = XXH3_reset_internal(w, seed, null, size)
      BY <1>2, Zenon DEF XXH3_64bits_reset_withSeed
    <2>2. Is3(w) /\ w.customSecret = custom
      <3>1. CASE seed # r.seed \/ r.extSecret # NULL
        <4>1. w = fresh
          BY <3>1
        <4> HIDE DEF w, custom
        <4>2. Is3(fresh) /\ fresh.customSecret = custom
          BY DEF Is3
        <4> HIDE DEF fresh
        <4> QED
          BY <4>1, <4>2
      <3>2. CASE ~(seed # r.seed \/ r.extSecret # NULL)
        BY <1>2, <3>2 DEF Cached
      <3> QED
        BY <3>1, <3>2
    <2> HIDE DEF w, null, size, custom
    <2>3. /\ Is3(z) /\ z.extSecret = null /\ z.customSecret = w.customSecret
          /\ z.seed = seed /\ z.useSeed = (seed # 0) /\ z.totalLen = 0
          /\ z.acc = XXH3_INIT_ACC /\ z.bufferedSize = 0 /\ z.nbStripesSoFar = 0
          /\ z.buffer = Buffer(256) /\ z.secretLimit = size - 64
          /\ z.nbStripesPerBlock = StripesPerBlock(size)
      BY <2>1, <2>2, ResetInternal
    <2>4. SecretOf(z) = custom
      BY <2>2, <2>3 DEF SecretOf, null
    <2>5. Cached(z)
      BY <2>2, <2>3 DEF Cached, custom
    <2>6. SecretIn(m) = custom /\ SizeIn(m) = size /\ UseSeedIn(m)
      BY <1>2 DEF SecretIn, SizeIn, UseSeedIn, custom, size
    <2>7. z.useSeed = UseSeedIn(m)
      <3>1. z.useSeed = TRUE
        BY <1>2, <2>3
      <3> QED
        BY <2>6, <3>1, Zenon DEF UseSeedIn
    <2>8. Stream3(z, 0, m)
      BY <2>3, <2>4, <2>6, <2>7, Reset3
    <2> QED
      BY <2>3, <2>5, <2>8
  <1> QED
    BY <1>1, <1>2

LEMMA ResetSecret3 ==
    ASSUME NEW r, Is3(r), Cached(r), NEW secret, NEW size, size \in {XXH3_SECRET_SIZE_MIN - 1, UserSecretSize},
           NEW z, z = XXH3_64bits_reset_withSecret(r, secret, size),
           NEW m, m.api = "secret", m.secret = secret, m.seed = 0
    PROVE  Is3(z.state) /\ Cached(z.state) /\ (z.result = "XXH_OK" => Stream3(z.state, 0, m))
  <1> DEFINE zero == 0
             y == XXH3_reset_internal(r, zero, secret, size)
  <1>1. /\ z.state = y
        /\ z.result = "XXH_OK" => secret # NULL /\ ~(size < XXH3_SECRET_SIZE_MIN)
    BY DEF XXH3_64bits_reset_withSecret
  <1> HIDE DEF zero
  <1>2. /\ Is3(y) /\ y.extSecret = secret /\ y.customSecret = r.customSecret
        /\ y.seed = zero /\ y.useSeed = (zero # 0) /\ y.totalLen = 0
        /\ y.acc = XXH3_INIT_ACC /\ y.bufferedSize = 0 /\ y.nbStripesSoFar = 0
        /\ y.buffer = Buffer(256) /\ y.secretLimit = size - 64
        /\ y.nbStripesPerBlock = StripesPerBlock(size)
    BY ResetInternal
  <1> HIDE DEF y
  <1>3. Cached(y)
    BY <1>2 DEF Cached, zero
  <1>4. ASSUME z.result = "XXH_OK" PROVE Stream3(y, 0, m)
    <2>1. secret # NULL /\ size = UserSecretSize
      BY <1>1, <1>4 DEF XXH3_SECRET_SIZE_MIN
    <2>2. SecretOf(y) = secret
      BY <1>2, <2>1 DEF SecretOf
    <2>3. SecretIn(m) = secret /\ SizeIn(m) = size /\ ~UseSeedIn(m)
      BY <2>1 DEF SecretIn, SizeIn, UseSeedIn
    <2>4. y.useSeed = FALSE /\ y.seed = m.seed
      BY <1>2 DEF zero
    <2>5. y.useSeed = UseSeedIn(m)
      BY <2>3, <2>4, Zenon DEF UseSeedIn
    <2> QED
      BY <1>2, <2>2, <2>3, <2>4, <2>5, Reset3
  <1> QED
    BY <1>1, <1>2, <1>3, <1>4

LEMMA ResetBoth3 ==
    ASSUME NEW r, Is3(r), Cached(r), NEW secret, NEW size, size \in {XXH3_SECRET_SIZE_MIN - 1, UserSecretSize},
           NEW seed, NEW z, z = XXH3_64bits_reset_withSecretandSeed(r, secret, size, seed),
           NEW m, m.api = "both", m.secret = secret, m.seed = seed
    PROVE  Is3(z.state) /\ Cached(z.state) /\ (z.result = "XXH_OK" => Stream3(z.state, 0, m))
  <1>1. CASE secret = NULL \/ size < XXH3_SECRET_SIZE_MIN
    <2>1. z.state = r /\ z.result = "XXH_ERROR"
      BY <1>1 DEF XXH3_64bits_reset_withSecretandSeed
    <2> QED
      BY <2>1
  <1>2. CASE ~(secret = NULL \/ size < XXH3_SECRET_SIZE_MIN)
    <2> DEFINE w == XXH3_reset_internal(r, seed, secret, size)
               y == [w EXCEPT !.useSeed = TRUE]
    <2>1. z.state = y
      BY <1>2, Zenon DEF XXH3_64bits_reset_withSecretandSeed
    <2>2. /\ Is3(w) /\ w.extSecret = secret /\ w.customSecret = r.customSecret
          /\ w.seed = seed /\ w.useSeed = (seed # 0) /\ w.totalLen = 0
          /\ w.acc = XXH3_INIT_ACC /\ w.bufferedSize = 0 /\ w.nbStripesSoFar = 0
          /\ w.buffer = Buffer(256) /\ w.secretLimit = size - 64
          /\ w.nbStripesPerBlock = StripesPerBlock(size)
      BY ResetInternal
    <2> HIDE DEF w
    <2>3. /\ Is3(y) /\ y.extSecret = w.extSecret /\ y.customSecret = w.customSecret
          /\ y.seed = w.seed /\ y.useSeed = TRUE /\ y.totalLen = w.totalLen
          /\ y.acc = w.acc /\ y.bufferedSize = w.bufferedSize /\ y.nbStripesSoFar = w.nbStripesSoFar
          /\ y.buffer = w.buffer /\ y.secretLimit = w.secretLimit
          /\ y.nbStripesPerBlock = w.nbStripesPerBlock
      <3>1. Is3(w) /\ y = [w EXCEPT !.useSeed = TRUE]
        BY <2>2
      <3> HIDE DEF y
      <3> QED
        BY <3>1 DEF Is3
    <2> HIDE DEF y
    <2>4. secret # NULL /\ size = UserSecretSize
      BY <1>2 DEF XXH3_SECRET_SIZE_MIN
    <2>5. SecretOf(y) = secret /\ Cached(y)
      BY <2>2, <2>3, <2>4 DEF SecretOf, Cached
    <2>6. SecretIn(m) = secret /\ SizeIn(m) = size /\ UseSeedIn(m)
      BY <2>4 DEF SecretIn, SizeIn, UseSeedIn
    <2>7. y.useSeed = UseSeedIn(m)
      BY <2>3, <2>6, Zenon DEF UseSeedIn
    <2>8. Stream3(y, 0, m)
      BY <2>2, <2>3, <2>5, <2>6, <2>7, Reset3
    <2> QED
      BY <2>1, <2>3, <2>5, <2>8
  <1> QED
    BY <1>1, <1>2

(***************************************************************************)
(* The invariant: what has been given since the last successful reset is   *)
(* in the accumulators and in the buffer, in the form that the mode of     *)
(* that reset asks for; and what a failed reset leaves of a state can      *)
(* still be reset.                                                         *)
(***************************************************************************)
Streaming ==
    \/ alg = "XXH32" /\ Stream32(s, total, mode.seed)
    \/ alg = "XXH64" /\ Stream64(s, total, mode.seed)
    \/ /\ alg = "XXH3" /\ mode.api \in Modes /\ (mode.api = "default" => mode.seed = 0)
       /\ Stream3(s, total, mode)

StreamInv ==
    /\ alg \in {"XXH32", "XXH64", "XXH3"}
    /\ total \in Nat
    /\ alg = "XXH3" => Is3(s) /\ Cached(s)
    /\ ok => Streaming

LEMMA StreamInit == Init => StreamInv
  <1> SUFFICES ASSUME Init PROVE StreamInv
    OBVIOUS
  <1>1. alg \in {"XXH32", "XXH64", "XXH3"} /\ total = 0 /\ ok = FALSE
        /\ (alg = "XXH3" => s = XXH3_createState)
    BY DEF Init
  <1>2. Is3(XXH3_createState) /\ Cached(XXH3_createState)
    BY DEF XXH3_createState, Is3, Cached
  <1> QED
    BY <1>1, <1>2 DEF StreamInv

\* A reset of the state, with what it comes to.
LEMMA Restarted ==
    ASSUME StreamInv, NEW z, NEW m, NEW result, Restart(z, m, result),
           alg = "XXH3" => Is3(z) /\ Cached(z),
           result = "XXH_OK" =>
             \/ alg = "XXH32" /\ Stream32(z, 0, m.seed)
             \/ alg = "XXH64" /\ Stream64(z, 0, m.seed)
             \/ /\ alg = "XXH3" /\ m.api \in Modes /\ (m.api = "default" => m.seed = 0)
                /\ Stream3(z, 0, m)
    PROVE  StreamInv'
  <1>1. s' = z /\ mode' = m /\ ok' = (result = "XXH_OK") /\ total' = 0 /\ alg' = alg
    BY DEF Restart
  <1>2. ok' => Streaming'
    <2> SUFFICES ASSUME ok' PROVE Streaming'
      OBVIOUS
    <2>1. result = "XXH_OK"
      BY <1>1
    <2> QED
      BY <1>1, <2>1 DEF Streaming
  <1>3. alg' = "XXH3" => (Is3(s) /\ Cached(s))'
    BY <1>1 DEF Is3, Cached
  <1> QED
    BY <1>1, <1>2, <1>3 DEF StreamInv

LEMMA ModeFields ==
    ASSUME NEW api, NEW secret, NEW seed
    PROVE  /\ Mode(api, secret, seed).api = api
           /\ Mode(api, secret, seed).secret = secret
           /\ Mode(api, secret, seed).seed = seed
  BY DEF Mode

LEMMA StreamReset == StreamInv /\ Reset => StreamInv'
  <1> SUFFICES ASSUME StreamInv, Reset PROVE StreamInv'
    OBVIOUS
  <1>0. alg = "XXH3" => Is3(s) /\ Cached(s)
    BY DEF StreamInv
  <1>1. ASSUME NEW seed \in Seeds, ResetSmall(seed) PROVE StreamInv'
    <2> DEFINE m == Mode("seed", NULL, seed)
    <2>1. m.seed = seed
      BY ModeFields
    <2> HIDE DEF m
    <2>2. CASE alg = "XXH32" /\ Restart(XXH32_reset(seed), m, "XXH_OK")
      <3>1. Stream32(XXH32_reset(seed), 0, m.seed)
        BY <2>1, Reset32
      <3> QED
        BY <2>2, <3>1, Restarted
    <2>3. CASE alg = "XXH64" /\ Restart(XXH64_reset(seed), m, "XXH_OK")
      <3>1. Stream64(XXH64_reset(seed), 0, m.seed)
        BY <2>1, Reset64
      <3> QED
        BY <2>3, <3>1, Restarted
    <2> QED
      BY <1>1, <2>2, <2>3 DEF ResetSmall, m
  <1>2. CASE ResetDefault
    <2> DEFINE m == Mode("default", NULL, 0)
               z == XXH3_64bits_reset(s)
    <2>1. m.seed = 0 /\ m.api = "default" /\ m.api \in Modes
      BY ModeFields DEF Modes
    <2>2. alg = "XXH3" /\ Restart(z, m, "XXH_OK")
      BY <1>2 DEF ResetDefault
    <2> HIDE DEF m
    <2>3. Is3(z) /\ Cached(z) /\ Stream3(z, 0, m)
      BY <1>0, <2>1, <2>2, ResetDefault3
    <2> HIDE DEF z
    <2> QED
      BY <2>1, <2>2, <2>3, Restarted
  <1>3. ASSUME NEW seed \in Seeds, ResetWithSeed(seed) PROVE StreamInv'
    <2> DEFINE m == Mode("seed", NULL, seed)
               z == XXH3_64bits_reset_withSeed(s, seed)
    <2>1. m.seed = seed /\ m.api = "seed" /\ m.api \in Modes /\ m.api # "default"
      BY ModeFields DEF Modes
    <2>2. alg = "XXH3" /\ Restart(z, m, "XXH_OK")
      BY <1>3 DEF ResetWithSeed
    <2> HIDE DEF m
    <2>3. Is3(z) /\ Cached(z) /\ Stream3(z, 0, m)
      BY <1>0, <2>1, <2>2, ResetSeed3
    <2> HIDE DEF z
    <2> QED
      BY <2>1, <2>2, <2>3, Restarted
  <1>4. ASSUME NEW secret \in {NULL, UserSecret},
               NEW size \in {XXH3_SECRET_SIZE_MIN - 1, UserSecretSize}, ResetWithSecret(secret, size)
        PROVE  StreamInv'
    <2> DEFINE m == Mode("secret", secret, 0)
               z == XXH3_64bits_reset_withSecret(s, secret, size)
    <2>1. m.seed = 0 /\ m.api = "secret" /\ m.secret = secret /\ m.api \in Modes /\ m.api # "default"
      BY ModeFields DEF Modes
    <2>2. alg = "XXH3" /\ Restart(z.state, m, z.result)
      BY <1>4 DEF ResetWithSecret
    <2> HIDE DEF m
    <2>3. Is3(z.state) /\ Cached(z.state) /\ (z.result = "XXH_OK" => Stream3(z.state, 0, m))
      BY <1>0, <2>1, <2>2, ResetSecret3
    <2> HIDE DEF z
    <2> QED
      BY <2>1, <2>2, <2>3, Restarted
  <1>5. ASSUME NEW secret \in {NULL, UserSecret},
               NEW size \in {XXH3_SECRET_SIZE_MIN - 1, UserSecretSize}, NEW seed \in Seeds,
               ResetWithSecretandSeed(secret, size, seed)
        PROVE  StreamInv'
    <2> DEFINE m == Mode("both", secret, seed)
               z == XXH3_64bits_reset_withSecretandSeed(s, secret, size, seed)
    <2>1. m.seed = seed /\ m.api = "both" /\ m.secret = secret /\ m.api \in Modes /\ m.api # "default"
      BY ModeFields DEF Modes
    <2>2. alg = "XXH3" /\ Restart(z.state, m, z.result)
      BY <1>5 DEF ResetWithSecretandSeed
    <2> HIDE DEF m
    <2>3. Is3(z.state) /\ Cached(z.state) /\ (z.result = "XXH_OK" => Stream3(z.state, 0, m))
      BY <1>0, <2>1, <2>2, ResetBoth3
    <2> HIDE DEF z
    <2> QED
      BY <2>1, <2>2, <2>3, Restarted
  <1> QED
    BY <1>1, <1>2, <1>3, <1>4, <1>5 DEF Reset

\* A piece of n bytes, for any n.
LEMMA StreamFed ==
    ASSUME StreamInv, NEW n \in Nat, Feed(n)
    PROVE  StreamInv'
  <1>1. /\ ok /\ ok' = ok /\ alg' = alg /\ mode' = mode /\ total' = total + n
        /\ total \in Nat /\ total' \in Nat /\ Streaming
        /\ alg \in {"XXH32", "XXH64", "XXH3"} /\ (alg = "XXH3" => Is3(s) /\ Cached(s))
    BY DEF Feed, StreamInv
  <1>2. CASE alg = "XXH32"
    <2>1. s' = XXH32_update(s, Input(total, n), n)
      BY <1>2 DEF Feed
    <2>2. Stream32(s, total, mode.seed)
      BY <1>1, <1>2 DEF Streaming
    <2> DEFINE seed == mode.seed
    <2> HIDE DEF seed
    <2>3. Stream32(s', total', seed)
      BY <1>1, <2>1, <2>2, Update32 DEF seed
    <2>4. Streaming'
      BY <1>1, <1>2, <2>3 DEF Streaming, seed
    <2> QED
      BY <1>1, <1>2, <2>4 DEF StreamInv
  <1>3. CASE alg = "XXH64"
    <2>1. s' = XXH64_update(s, Input(total, n), n)
      BY <1>3 DEF Feed
    <2>2. Stream64(s, total, mode.seed)
      BY <1>1, <1>3 DEF Streaming
    <2> DEFINE seed == mode.seed
    <2> HIDE DEF seed
    <2>3. Stream64(s', total', seed)
      BY <1>1, <2>1, <2>2, Update64 DEF seed
    <2>4. Streaming'
      BY <1>1, <1>3, <2>3 DEF Streaming, seed
    <2> QED
      BY <1>1, <1>3, <2>4 DEF StreamInv
  <1>4. CASE alg = "XXH3"
    <2> DEFINE z == XXH3_update(s, Input(total, n), n)
               U == total + n
               secret == SecretIn(mode)
               limit == SizeIn(mode) - 64
               P == StripesPerBlock(SizeIn(mode))
    <2>1. s' = z
      BY <1>4 DEF Feed
    <2>2. mode.api \in Modes /\ (mode.api = "default" => mode.seed = 0) /\ Stream3(s, total, mode)
      BY <1>1, <1>4 DEF Streaming
    <2>3. /\ Fed3(s, total, secret, limit, P) /\ s.totalLen = total
          /\ s.useSeed = UseSeedIn(mode) /\ s.seed = mode.seed /\ P \in Nat /\ P > 0 /\ U = total + n
      BY <2>2, Blocks3 DEF Stream3
    <2> HIDE DEF U, secret, limit, P
    <2>4. Fed3(z, U, secret, limit, P) /\ z.totalLen = U /\ SameConfig(z, s)
      BY <1>1, <2>3, Update3
    <2> HIDE DEF z
    <2>5. Stream3(z, U, mode)
      BY <2>3, <2>4 DEF Stream3, SameConfig, secret, limit, P
    <2>6. Is3(z) /\ Cached(z)
      <3>1. Is3(z)
        BY <2>4 DEF Fed3, Core3
      <3>2. Cached(z)
        BY <1>1, <1>4, <2>4 DEF Cached, SameConfig
      <3> QED
        BY <3>1, <3>2
    <2>7. Streaming'
      <3>1. total' = U
        BY <1>1 DEF U
      <3> QED
        BY <1>1, <1>4, <2>1, <2>2, <2>5, <3>1 DEF Streaming
    <2>8. (Is3(s) /\ Cached(s))'
      BY <2>1, <2>6 DEF Is3, Cached
    <2> QED
      BY <1>1, <1>4, <2>7, <2>8 DEF StreamInv
  <1> QED
    BY <1>1, <1>2, <1>3, <1>4

LEMMA StreamNext == StreamInv /\ [Next]_vars => StreamInv'
  <1> SUFFICES ASSUME StreamInv, [Next]_vars PROVE StreamInv'
    OBVIOUS
  <1>1. CASE Reset
    BY <1>1, StreamReset
  <1>2. ASSUME NEW n \in SmallSizes \cup Sizes, Update(n) PROVE StreamInv'
    <2>1. n \in Nat /\ Feed(n)
      BY <1>2, XxhStreamAssumption DEF Update
    <2> QED
      BY <2>1, StreamFed
  <1>3. ASSUME NEW n \in 0 .. MaxWhole, UpdateWhole(n) PROVE StreamInv'
    <2>1. n \in Nat /\ Feed(n)
      BY <1>3 DEF UpdateWhole
    <2> QED
      BY <2>1, StreamFed
  <1>4. CASE UNCHANGED vars
    BY <1>4 DEF vars, StreamInv, Streaming, Is3, Cached
  <1> QED
    BY <1>1, <1>2, <1>3, <1>4 DEF Next

\* From the invariant, without regard to how the state was reached.
LEMMA StreamDigests == StreamInv => StreamEqualsOneShot
  <1> SUFFICES ASSUME StreamInv, ok PROVE Digests = OneShot(Input(0, total), total)
    BY DEF StreamEqualsOneShot
  <1> DEFINE in == Input(0, total)
  <1>1. total \in Nat /\ Streaming
    BY DEF StreamInv
  <1>2. CASE alg = "XXH32"
    <2> DEFINE seed == mode.seed
    <2>1. Stream32(s, total, seed)
      BY <1>1, <1>2 DEF Streaming
    <2> HIDE DEF seed
    <2>2. XXH32_digest(s) = XXH32(Input(0, total), total, seed)
      BY <1>1, <2>1, Digest32
    <2> QED
      BY <1>2, <2>2 DEF Digests, OneShot, seed
  <1>3. CASE alg = "XXH64"
    <2> DEFINE seed == mode.seed
    <2>1. Stream64(s, total, seed)
      BY <1>1, <1>3 DEF Streaming
    <2> HIDE DEF seed
    <2>2. XXH64_digest(s) = XXH64(Input(0, total), total, seed)
      BY <1>1, <2>1, Digest64
    <2> QED
      BY <1>3, <2>2 DEF Digests, OneShot, seed
  <1>4. CASE alg = "XXH3"
    <2>1. mode.api \in Modes /\ (mode.api = "default" => mode.seed = 0) /\ Stream3(s, total, mode)
      BY <1>1, <1>4 DEF Streaming
    <2>2. /\ XXH3_64bits_digest(s) = Hash64(in, total, mode)
          /\ XXH3_128bits_digest(s) = Hash128(in, total, mode)
      BY <1>1, <2>1, Digest3
    <2> HIDE DEF in
    <2>3. Digests = <<Hash64(in, total, mode), Hash128(in, total, mode)>>
      BY <1>4, <2>2 DEF Digests
    <2>4. CASE mode.api = "default"
      <3>1. /\ XXH3_64bits(in, total) = Hash64(in, total, mode)
            /\ XXH3_128bits(in, total) = Hash128(in, total, mode)
        BY <1>1, <2>1, <2>4, OneCall
      <3> QED
        BY <1>4, <2>3, <2>4, <3>1 DEF OneShot, in
    <2>5. CASE mode.api = "seed"
      <3>1. /\ XXH3_64bits_withSeed(in, total, mode.seed) = Hash64(in, total, mode)
            /\ XXH3_128bits_withSeed(in, total, mode.seed) = Hash128(in, total, mode)
        BY <1>1, <2>1, <2>5, OneCall
      <3> QED
        BY <1>4, <2>3, <2>5, <3>1 DEF OneShot, in
    <2>6. CASE mode.api = "secret"
      <3>1. /\ XXH3_64bits_withSecret(in, total, mode.secret, UserSecretSize) = Hash64(in, total, mode)
            /\ XXH3_128bits_withSecret(in, total, mode.secret, UserSecretSize) = Hash128(in, total, mode)
        BY <1>1, <2>1, <2>6, OneCall
      <3> QED
        BY <1>4, <2>3, <2>6, <3>1 DEF OneShot, in
    <2>7. CASE mode.api = "both"
      <3>1. /\ XXH3_64bits_withSecretandSeed(in, total, mode.secret, UserSecretSize, mode.seed)
                 = Hash64(in, total, mode)
            /\ XXH3_128bits_withSecretandSeed(in, total, mode.secret, UserSecretSize, mode.seed)
                 = Hash128(in, total, mode)
        BY <1>1, <2>1, <2>7, OneCall
      <3> QED
        BY <1>4, <2>3, <2>7, <3>1 DEF OneShot, in
    <2> QED
      BY <2>1, <2>4, <2>5, <2>6, <2>7 DEF Modes
  <1> QED
    BY <1>1, <1>2, <1>3, <1>4 DEF Streaming

(***************************************************************************)
(* However the message is cut, however long it is, and whatever the state  *)
(* was used for before, the digest of the stream is the hash of the whole  *)
(* message in one call: for XXH32, XXH64 and XXH3 of both widths in its    *)
(* four modes, and for any size of the caller's secret that is accepted.   *)
(***************************************************************************)
THEOREM StreamIsWhole == Spec => []StreamEqualsOneShot
  <1>1. Spec => []StreamInv
    BY StreamInit, StreamNext, PTL DEF Spec
  <1> QED
    BY <1>1, StreamDigests, PTL
=============================================================================
