------------------------- MODULE XxhCoverageProofs -------------------------
(***************************************************************************)
(* The hashes of a message use all of it and nothing else, and read their  *)
(* secrets within bounds: for messages of any length, in one call and as   *)
(* streams.  The variants of the build agree, and a generated secret is    *)
(* whole.                                                                  *)
(***************************************************************************)
EXTENDS XxhStreamProofs

(***************************************************************************)
(* What a sequence of steps uses.                                          *)
(***************************************************************************)
\* A step keyed with the secret reads a window within it.
Keeps(w) == w.n > 0 => /\ w.secret \notin {NULL, Garbage}
                       /\ w.at >= 0 /\ w.at + w.n <= SecretSize(w.secret)

\* Step e feeds the bytes B to the hash.
Uses(e, B) == ToSet(e.bytes) = B /\ Keeps(e)

\* The steps f feed it the bytes B and no others.
Covers(f, B) ==
    \E n \in Nat : /\ Run(f, n)
                   /\ \A i \in 1 .. n : Keeps(f[i]) /\ ToSet(f[i].bytes) \subseteq B
                   /\ \A x \in B : \E i \in 1 .. n : x \in ToSet(f[i].bytes)

LEMMA Covering ==
    ASSUME NEW f, NEW B, Covers(f, B)
    PROVE  /\ BytesOf(f) = B
           /\ \A w \in Windows(f) : /\ w.secret \notin {NULL, Garbage}
                                    /\ w.at >= 0 /\ w.at + w.n <= SecretSize(w.secret)
  <1>1. PICK n \in Nat : /\ Run(f, n)
                         /\ \A i \in 1 .. n : Keeps(f[i]) /\ ToSet(f[i].bytes) \subseteq B
                         /\ \A x \in B : \E i \in 1 .. n : x \in ToSet(f[i].bytes)
    BY DEF Covers
  <1>2. DOMAIN f = 1 .. n
    BY <1>1, RunFacts
  <1>3. BytesOf(f) = B
    <2>1. BytesOf(f) = UNION {ToSet(f[i].bytes) : i \in 1 .. n}
      BY <1>2 DEF BytesOf
    <2> QED
      BY <1>1, <2>1
  <1>4. \A w \in Windows(f) : \E i \in 1 .. n : w = f[i] /\ w.n > 0
    BY <1>2 DEF Windows
  <1> QED
    BY <1>1, <1>3, <1>4 DEF Keeps

LEMMA CoversEach ==
    ASSUME NEW f, NEW n \in Nat, Run(f, n), NEW B,
           \A i \in 1 .. n : Keeps(f[i]) /\ ToSet(f[i].bytes) \subseteq B,
           \A x \in B : \E i \in 1 .. n : x \in ToSet(f[i].bytes)
    PROVE  Covers(f, B)
  BY DEF Covers

LEMMA CoversNothing == Covers(<<>>, {})
  <1> DEFINE n == 0
  <1>1. n \in Nat /\ Run(<<>>, n)
    BY DEF Run
  <1>2. \A i \in 1 .. n : FALSE
    OBVIOUS
  <1> HIDE DEF n
  <1> QED
    BY <1>1, <1>2, CoversEach

LEMMA CoversOne ==
    ASSUME NEW e, NEW B, Uses(e, B)
    PROVE  Covers(<<e>>, B)
  <1> DEFINE n == 1
             f == <<e>>
  <1>1. n \in Nat /\ Run(f, n) /\ f[1] = e /\ \A i \in 1 .. n : i = 1
    BY DEF Run
  <1>2. 1 \in 1 .. n
    OBVIOUS
  <1> HIDE DEF n, f
  <1>3. Covers(f, B)
    BY <1>1, <1>2, CoversEach DEF Uses
  <1> QED
    BY <1>3 DEF f

LEMMA CoversJoined ==
    ASSUME NEW f, NEW g, NEW A, NEW B, Covers(f, A), Covers(g, B)
    PROVE  Covers(Then(f, g), A \cup B)
  <1>1. PICK m \in Nat : /\ Run(f, m)
                         /\ \A i \in 1 .. m : Keeps(f[i]) /\ ToSet(f[i].bytes) \subseteq A
                         /\ \A x \in A : \E i \in 1 .. m : x \in ToSet(f[i].bytes)
    BY DEF Covers
  <1>2. PICK n \in Nat : /\ Run(g, n)
                         /\ \A i \in 1 .. n : Keeps(g[i]) /\ ToSet(g[i].bytes) \subseteq B
                         /\ \A x \in B : \E i \in 1 .. n : x \in ToSet(g[i].bytes)
    BY DEF Covers
  <1> DEFINE h == Then(f, g)
             k == m + n
  <1>3. /\ Run(h, k)
        /\ \A i \in 1 .. m : h[i] = f[i]
        /\ \A i \in 1 .. n : h[m + i] = g[i]
    BY <1>1, <1>2, RunJoined
  <1>4. k \in Nat /\ k = m + n
    OBVIOUS
  <1> HIDE DEF h, k
  <1>5. ASSUME NEW i \in 1 .. k PROVE Keeps(h[i]) /\ ToSet(h[i].bytes) \subseteq A \cup B
    <2>1. CASE i <= m
      BY <1>1, <1>3, <1>4, <2>1
    <2>2. CASE i > m
      <3>1. i - m \in 1 .. n /\ m + (i - m) = i
        BY <1>4, <2>2
      <3>2. h[i] = g[i - m]
        BY <1>3, <3>1
      <3> QED
        BY <1>2, <3>1, <3>2
    <2> QED
      BY <1>4, <2>1, <2>2
  <1>6. ASSUME NEW x \in A \cup B PROVE \E i \in 1 .. k : x \in ToSet(h[i].bytes)
    <2>1. CASE x \in A
      <3>1. PICK i \in 1 .. m : x \in ToSet(f[i].bytes)
        BY <1>1, <2>1
      <3>2. i \in 1 .. k /\ h[i] = f[i]
        BY <1>3, <1>4, <3>1
      <3> QED
        BY <3>1, <3>2
    <2>2. CASE x \in B
      <3>1. PICK i \in 1 .. n : x \in ToSet(g[i].bytes)
        BY <1>2, <2>2
      <3>2. m + i \in 1 .. k /\ h[m + i] = g[i]
        BY <1>3, <1>4, <3>1
      <3> QED
        BY <3>1, <3>2
    <2> QED
      BY <2>1, <2>2
  <1>7. Covers(h, A \cup B)
    BY <1>3, <1>4, <1>5, <1>6, CoversEach
  <1> QED
    BY <1>7 DEF h

LEMMA CoversAppended ==
    ASSUME NEW f, NEW e, NEW A, NEW B, Covers(f, A), Uses(e, B)
    PROVE  Covers(With(f, e), A \cup B)
  <1>1. PICK m \in Nat : /\ Run(f, m)
                         /\ \A i \in 1 .. m : Keeps(f[i]) /\ ToSet(f[i].bytes) \subseteq A
                         /\ \A x \in A : \E i \in 1 .. m : x \in ToSet(f[i].bytes)
    BY DEF Covers
  <1> DEFINE h == With(f, e)
             k == m + 1
  <1>3. Run(h, k) /\ (\A i \in 1 .. m : h[i] = f[i]) /\ h[m + 1] = e
    BY <1>1, RunAppended
  <1>4. k \in Nat /\ k = m + 1
    OBVIOUS
  <1> HIDE DEF h, k
  <1>5. ASSUME NEW i \in 1 .. k PROVE Keeps(h[i]) /\ ToSet(h[i].bytes) \subseteq A \cup B
    <2>1. CASE i <= m
      BY <1>1, <1>3, <1>4, <2>1
    <2>2. CASE i = m + 1
      BY <1>3, <2>2 DEF Uses
    <2> QED
      BY <1>4, <2>1, <2>2
  <1>6. ASSUME NEW x \in A \cup B PROVE \E i \in 1 .. k : x \in ToSet(h[i].bytes)
    <2>1. CASE x \in A
      <3>1. PICK i \in 1 .. m : x \in ToSet(f[i].bytes)
        BY <1>1, <2>1
      <3>2. i \in 1 .. k /\ h[i] = f[i]
        BY <1>3, <1>4, <3>1
      <3> QED
        BY <3>1, <3>2
    <2>2. CASE x \in B
      <3>1. m + 1 \in 1 .. k /\ x \in ToSet(h[m + 1].bytes)
        BY <1>3, <1>4, <2>2 DEF Uses
      <3> QED
        BY <3>1
    <2> QED
      BY <2>1, <2>2
  <1>7. Covers(h, A \cup B)
    BY <1>3, <1>4, <1>5, <1>6, CoversEach
  <1> QED
    BY <1>7 DEF h

LEMMA CoversRun ==
    ASSUME NEW f, NEW B, Covers(f, B), NEW n \in Nat, Run(f, n)
    PROVE  /\ \A i \in 1 .. n : Keeps(f[i]) /\ ToSet(f[i].bytes) \subseteq B
           /\ \A x \in B : \E i \in 1 .. n : x \in ToSet(f[i].bytes)
  <1>1. PICK m \in Nat : /\ Run(f, m)
                         /\ \A i \in 1 .. m : Keeps(f[i]) /\ ToSet(f[i].bytes) \subseteq B
                         /\ \A x \in B : \E i \in 1 .. m : x \in ToSet(f[i].bytes)
    BY DEF Covers
  <1>2. DOMAIN f = 1 .. m /\ DOMAIN f = 1 .. n
    BY <1>1, RunFacts
  <1> QED
    BY <1>1, <1>2

LEMMA CoversChain ==
    ASSUME NEW f, NEW k \in Nat, Run(f, k), NEW d \in Nat, d > 0, NEW R,
           \A b \in 1 .. k : Run(f[b], d) /\ Covers(f[b], R[b])
    PROVE  Covers(Chain(f, d), UNION {R[b] : b \in 1 .. k})
  <1> DEFINE g == Chain(f, d)
             m == d * k
             B == UNION {R[b] : b \in 1 .. k}
  <1>1. m \in Nat /\ m = d * k
    OBVIOUS
  <1>2. Len(f) = k
    BY RunFacts
  <1>3. g = [i \in 1 .. m |-> f[1 + ((i - 1) \div d)][1 + ((i - 1) % d)]]
    BY <1>2 DEF Chain
  <1>4. Run(g, m)
    BY <1>1, <1>3 DEF Run
  <1>5. \A b \in 1 .. k : /\ \A i \in 1 .. d : Keeps(f[b][i]) /\ ToSet(f[b][i].bytes) \subseteq R[b]
                          /\ \A x \in R[b] : \E i \in 1 .. d : x \in ToSet(f[b][i].bytes)
    BY CoversRun
  <1> HIDE DEF g, m
  <1>6. ASSUME NEW i \in 1 .. m PROVE Keeps(g[i]) /\ ToSet(g[i].bytes) \subseteq B
    <2> DEFINE j == i - 1
               q == j \div d
               r == j % d
    <2>0. j \in Nat /\ j < m
      BY <1>1
    <2>1. g[i] = f[1 + q][1 + r]
      BY <1>3
    <2> HIDE DEF j
    <2>2. q \in Nat /\ r \in Nat /\ r < d /\ j = d * q + r
      BY <2>0, DivMod
    <2> HIDE DEF q, r
    <2>3. q < k
      <3> SUFFICES ASSUME q >= k PROVE FALSE
        BY <2>2
      <3>1. d * q >= d * k
        BY <2>2
      <3> QED
        BY <1>1, <2>0, <2>2, <3>1
    <2>4. 1 + q \in 1 .. k /\ 1 + r \in 1 .. d
      BY <2>2, <2>3
    <2>5. Keeps(f[1 + q][1 + r]) /\ ToSet(f[1 + q][1 + r].bytes) \subseteq R[1 + q]
      BY <1>5, <2>4
    <2> QED
      BY <2>1, <2>4, <2>5
  <1>7. ASSUME NEW x \in B PROVE \E i \in 1 .. m : x \in ToSet(g[i].bytes)
    <2>1. PICK b \in 1 .. k : x \in R[b]
      OBVIOUS
    <2>2. PICK c \in 1 .. d : x \in ToSet(f[b][c].bytes)
      BY <1>5, <2>1
    <2> DEFINE q == b - 1
               r == c - 1
               j == d * q + r
    <2>3. q \in Nat /\ r \in Nat /\ r < d /\ 1 + q = b /\ 1 + r = c /\ q <= k - 1
      OBVIOUS
    <2> HIDE DEF q, r
    <2>4. j \in Nat /\ Divided(j, d, q, r)
      BY <2>3 DEF Divided
    <2>5. j < m
      <3>1. d * q <= d * (k - 1)
        BY <2>3
      <3> QED
        BY <1>1, <2>3, <3>1
    <2> HIDE DEF j
    <2>6. j \div d = q /\ j % d = r
      BY <2>3, <2>4, OneQuotient
    <2>7. j + 1 \in 1 .. m /\ (j + 1) - 1 = j
      BY <1>1, <2>4, <2>5
    <2>8. g[j + 1] = f[b][c]
      BY <1>3, <2>3, <2>6, <2>7
    <2> QED
      BY <2>2, <2>7, <2>8
  <1> HIDE DEF B
  <1>8. Covers(g, B)
    BY <1>1, <1>4, <1>6, <1>7, CoversEach
  <1> QED
    BY <1>8 DEF g, B

(***************************************************************************)
(* What a step uses.                                                       *)
(***************************************************************************)
LEMMA StepFields ==
    ASSUME NEW op, NEW bytes, NEW secret, NEW at, NEW n, NEW seed
    PROVE  /\ Step(op, bytes, secret, at, n, seed).bytes = bytes
           /\ Step(op, bytes, secret, at, n, seed).secret = secret
           /\ Step(op, bytes, secret, at, n, seed).at = at
           /\ Step(op, bytes, secret, at, n, seed).n = n
  BY DEF Step

\* Windows up to `size` bytes into the secret are within it.
Usable(secret, size) == secret \notin {NULL, Garbage} /\ size <= SecretSize(secret)

LEMMA UsesKeyed ==
    ASSUME NEW op, NEW bytes, NEW secret, NEW size \in Int, Usable(secret, size),
           SecretSize(secret) \in Int, NEW at \in Nat, NEW n \in Nat, at + n <= size, NEW seed
    PROVE  Uses(Step(op, bytes, secret, at, n, seed), ToSet(bytes))
  BY StepFields DEF Uses, Keeps, Usable

LEMMA UsesUnkeyed ==
    ASSUME NEW op, NEW bytes, NEW at, NEW seed
    PROVE  /\ Uses(Step(op, bytes, NULL, at, 0, seed), ToSet(bytes))
           /\ Uses(Mix(op, bytes), ToSet(bytes))
  BY StepFields DEF Uses, Keeps, Mix

LEMMA NoBytes == ToSet(<<>>) = {}
  BY DEF ToSet

LEMMA JoinedSet ==
    ASSUME NEW m \in Nat, NEW n \in Nat, NEW f, NEW g, Run(f, m), Run(g, n)
    PROVE  ToSet(f \o g) = ToSet(f) \cup ToSet(g) /\ Run(f \o g, m + n)
  <1> DEFINE h == Then(f, g)
             k == m + n
  <1>1. k \in Nat /\ k = m + n
    OBVIOUS
  <1>2. Run(h, k) /\ (\A i \in 1 .. m : h[i] = f[i]) /\ (\A i \in 1 .. n : h[m + i] = g[i])
    BY RunJoined
  <1> HIDE DEF h
  <1>3. DOMAIN h = 1 .. k /\ DOMAIN f = 1 .. m /\ DOMAIN g = 1 .. n
    BY <1>1, <1>2, RunFacts
  <1>4. ASSUME NEW i \in 1 .. k PROVE h[i] \in ToSet(f) \cup ToSet(g)
    <2>1. CASE i <= m
      BY <1>1, <1>2, <1>3, <2>1 DEF ToSet
    <2>2. CASE i > m
      <3>1. i - m \in 1 .. n /\ m + (i - m) = i
        BY <1>1, <2>2
      <3> QED
        BY <1>2, <1>3, <3>1 DEF ToSet
    <2> QED
      BY <1>1, <2>1, <2>2
  <1>5. \A i \in 1 .. m : i \in 1 .. k /\ h[i] = f[i]
    BY <1>1, <1>2
  <1>6. \A i \in 1 .. n : m + i \in 1 .. k /\ h[m + i] = g[i]
    BY <1>1, <1>2
  <1>7. ToSet(h) = ToSet(f) \cup ToSet(g)
    <2>1. ToSet(h) = {h[i] : i \in 1 .. k}
      BY <1>3 DEF ToSet
    <2>2. ToSet(f) = {f[i] : i \in 1 .. m} /\ ToSet(g) = {g[i] : i \in 1 .. n}
      BY <1>3 DEF ToSet
    <2>3. ToSet(h) \subseteq ToSet(f) \cup ToSet(g)
      BY <1>4, <2>1
    <2>4. ToSet(f) \subseteq ToSet(h)
      BY <1>5, <2>1, <2>2
    <2>5. ToSet(g) \subseteq ToSet(h)
      BY <1>6, <2>1, <2>2
    <2> QED
      BY <2>3, <2>4, <2>5
  <1> QED
    BY <1>1, <1>2, <1>7 DEF h, Then

\* A whole message, and the part of it that a read finds.
Whole(in, len) == Holds(in, 0, len, 0)

LEMMA ReadsPart ==
    ASSUME NEW len \in Nat, NEW in, Whole(in, len), NEW at \in Nat, NEW n \in Nat, at + n <= len
    PROVE  Bytes(in, at, n) = Text(at, n) /\ Run(Bytes(in, at, n), n)
           /\ ToSet(Bytes(in, at, n)) = (at + 1) .. (at + n)
  <1> DEFINE o == 0
  <1>1. o \in Int /\ o + at = at /\ Holds(in, o, len, o)
    BY DEF Whole
  <1> HIDE DEF o
  <1>2. Holds(in, o + at, n, o + at)
    BY <1>1, PartHolds
  <1>3. Bytes(in, at, n) = Text(at, n)
    BY <1>1, <1>2, BytesHeld
  <1>4. Run(Text(at, n), n)
    BY DEF Run, Text
  <1>5. \A x \in (at + 1) .. (at + n) : x - at \in 1 .. n /\ at + (x - at) = x
    OBVIOUS
  <1>6. ToSet(Text(at, n)) = (at + 1) .. (at + n)
    BY <1>5 DEF ToSet, Text
  <1> QED
    BY <1>3, <1>4, <1>6

LEMMA WholeInput == \A len \in Nat : Whole(Input(0, len), len)
  BY InputHolds DEF Whole

\* n steps, each of which reads the next w bytes.
Pieces(f, n, at, w) ==
    \A i \in 1 .. n : Uses(f[i], (at + w * (i - 1) + 1) .. (at + w * (i - 1) + w))

LEMMA CoversPieces ==
    ASSUME NEW f, NEW n \in Nat, Run(f, n), NEW at \in Nat, NEW w \in Nat, w > 0, Pieces(f, n, at, w)
    PROVE  Covers(f, (at + 1) .. (at + w * n))
  <1> DEFINE m == w * n
             B == (at + 1) .. (at + m)
  <1>1. m \in Nat /\ m = w * n
    OBVIOUS
  <1> HIDE DEF m
  <1>2. ASSUME NEW i \in 1 .. n PROVE Keeps(f[i]) /\ ToSet(f[i].bytes) \subseteq B
    <2> DEFINE k == w * (i - 1)
    <2>1. k \in Nat /\ k + w <= m
      <3>1. w * i <= w * n /\ w * i = w * (i - 1) + w /\ w * (i - 1) >= 0
        OBVIOUS
      <3> QED
        BY <1>1, <3>1
    <2>2. Uses(f[i], (at + k + 1) .. (at + k + w))
      BY DEF Pieces
    <2> HIDE DEF k
    <2>3. (at + k + 1) .. (at + k + w) \subseteq B
      BY <1>1, <2>1
    <2> QED
      BY <2>2, <2>3 DEF Uses
  <1>3. ASSUME NEW x \in B PROVE \E i \in 1 .. n : x \in ToSet(f[i].bytes)
    <2> DEFINE j == x - at - 1
               q == j \div w
               r == j % w
    <2>1. j \in Nat /\ j < m /\ x = at + j + 1
      BY <1>1
    <2> HIDE DEF j
    <2>2. q \in Nat /\ r \in Nat /\ r < w /\ j = w * q + r
      BY <2>1, DivMod
    <2> HIDE DEF q, r
    <2>3. q < n
      <3> SUFFICES ASSUME q >= n PROVE FALSE
        BY <2>2
      <3>1. w * q >= w * n
        BY <2>2
      <3> QED
        BY <1>1, <2>1, <2>2, <3>1
    <2>4. q + 1 \in 1 .. n /\ (q + 1) - 1 = q
      BY <2>2, <2>3
    <2>5. Uses(f[q + 1], (at + w * q + 1) .. (at + w * q + w))
      BY <2>4 DEF Pieces
    <2>6. x \in (at + w * q + 1) .. (at + w * q + w)
      BY <2>1, <2>2
    <2> QED
      BY <2>4, <2>5, <2>6 DEF Uses
  <1> HIDE DEF B
  <1>4. Covers(f, B)
    BY <1>2, <1>3, CoversEach
  <1> QED
    BY <1>4 DEF B, m

\* The same for steps without a key, made of bytes of the message.
LEMMA UnkeyedPieces ==
    ASSUME NEW in, NEW len \in Nat, Whole(in, len), NEW n \in Nat, NEW at \in Nat, NEW w \in Nat,
           w > 0, at + w * n <= len, NEW op, NEW f,
           f = [i \in 1 .. n |-> Mix(op, Bytes(in, at + w * (i - 1), w))]
    PROVE  Covers(f, (at + 1) .. (at + w * n))
  <1>1. Run(f, n)
    BY DEF Run
  <1>2. ASSUME NEW i \in 1 .. n
        PROVE  Uses(f[i], (at + w * (i - 1) + 1) .. (at + w * (i - 1) + w))
    <2> DEFINE k == at + w * (i - 1)
    <2>1. k \in Nat /\ k + w <= len
      <3>1. w * i <= w * n /\ w * i = w * (i - 1) + w /\ w * (i - 1) >= 0
        OBVIOUS
      <3> QED
        BY <3>1
    <2>2. f[i] = Mix(op, Bytes(in, k, w))
      OBVIOUS
    <2> HIDE DEF k
    <2>3. ToSet(Bytes(in, k, w)) = (k + 1) .. (k + w)
      BY <2>1, ReadsPart
    <2>4. Uses(f[i], (k + 1) .. (k + w))
      BY <2>2, <2>3, UsesUnkeyed
    <2> QED
      BY <2>4 DEF k
  <1>3. Pieces(f, n, at, w)
    BY <1>2 DEF Pieces
  <1> QED
    BY <1>1, <1>3, CoversPieces

LEMMA CoversUnread ==
    ASSUME NEW f, NEW A, Covers(f, A), NEW e, Uses(e, {})
    PROVE  Covers(With(f, e), A)
  <1>1. Covers(With(f, e), A \cup {})
    BY CoversAppended
  <1>2. A \cup {} = A
    OBVIOUS
  <1> QED
    BY <1>1, <1>2

LEMMA CoversMore ==
    ASSUME NEW f, NEW g, NEW a \in Nat, NEW b \in Nat, NEW c \in Nat, a <= b, b <= c,
           Covers(f, (a + 1) .. b), Covers(g, (b + 1) .. c)
    PROVE  Covers(Then(f, g), (a + 1) .. c)
  <1>1. Covers(Then(f, g), ((a + 1) .. b) \cup ((b + 1) .. c))
    BY CoversJoined
  <1>2. ((a + 1) .. b) \cup ((b + 1) .. c) = (a + 1) .. c
    OBVIOUS
  <1> QED
    BY <1>1, <1>2

LEMMA CoversFrom0 ==
    ASSUME NEW f, NEW n \in Int
    PROVE  Covers(f, 1 .. n) <=> Covers(f, (0 + 1) .. n)
  OBVIOUS

(***************************************************************************)
(* XXH32 and XXH64.                                                        *)
(***************************************************************************)
LEMMA Tail32 ==
    ASSUME NEW in, NEW len \in Nat, Whole(in, len), NEW hash, NEW at \in Nat, NEW n \in Nat,
           n < 16, at + n = len, Covers(hash, 1 .. at)
    PROVE  Covers(XXH32_finalize(hash, in, at, n), 1 .. len)
  <1> DEFINE words == (n % 16) \div 4
             rest == (n % 16) % 4
             b == at + 4 * words
             f == [i \in 1 .. words |-> XXH_PROCESS4(in, at + 4 * (i - 1))]
             g == [i \in 1 .. rest |-> XXH_PROCESS1(in, at + 4 * words + i - 1)]
  <1>1. words \in Nat /\ rest \in Nat /\ b + 1 * rest = len /\ b \in Nat /\ at <= b /\ b <= len
    OBVIOUS
  <1>2. f = [i \in 1 .. words |-> Mix("process4", Bytes(in, at + 4 * (i - 1), 4))]
    BY DEF XXH_PROCESS4, XXH_readLE32
  <1>3. g = [i \in 1 .. rest |-> Mix("process1", Bytes(in, b + 1 * (i - 1), 1))]
    <2> HIDE DEF words
    <2>1. \A i \in 1 .. rest : at + 4 * words + i - 1 = b + 1 * (i - 1)
      BY <1>1
    <2> QED
      BY <2>1 DEF XXH_PROCESS1
  <1>4. XXH32_finalize(hash, in, at, n) = With(Then(Then(hash, f), g), Mix("avalanche", <<>>))
    BY DEF XXH32_finalize, ProcessTail, XXH32_avalanche, With, Then
  <1> HIDE DEF f, g
  <1>5. Covers(f, (at + 1) .. (at + 4 * words))
    <2> DEFINE w == 4
               op == "process4"
    <2>1. /\ w \in Nat /\ w > 0 /\ at + w * words <= len /\ words \in Nat
          /\ f = [i \in 1 .. words |-> Mix(op, Bytes(in, at + w * (i - 1), w))]
      BY <1>1, <1>2
    <2> HIDE DEF words, w, op
    <2>2. Covers(f, (at + 1) .. (at + w * words))
      BY <2>1, UnkeyedPieces
    <2> QED
      BY <2>2 DEF w
  <1>6. Covers(g, (b + 1) .. (b + 1 * rest))
    <2> DEFINE w == 1
               op == "process1"
    <2>1. /\ w \in Nat /\ w > 0 /\ b + w * rest <= len /\ rest \in Nat /\ b \in Nat
          /\ g = [i \in 1 .. rest |-> Mix(op, Bytes(in, b + w * (i - 1), w))]
      BY <1>1, <1>3
    <2> HIDE DEF rest, b, w, op
    <2>2. Covers(g, (b + 1) .. (b + w * rest))
      BY <2>1, UnkeyedPieces
    <2> QED
      BY <2>2 DEF w
  <1> DEFINE o == 0
  <1>7. o \in Nat /\ o + 1 = 1 /\ o <= at
    OBVIOUS
  <1> HIDE DEF words, rest, o
  <1>8. Covers(Then(hash, f), (o + 1) .. b)
    BY <1>1, <1>5, <1>7, CoversMore DEF b
  <1> HIDE DEF b
  <1>9. Covers(Then(Then(hash, f), g), (o + 1) .. len)
    <2>1. o <= b /\ Covers(g, (b + 1) .. len)
      BY <1>1, <1>6, <1>7
    <2> QED
      BY <1>1, <1>7, <1>8, <2>1, CoversMore
  <1> QED
    BY <1>4, <1>7, <1>9, CoversUnread, UsesUnkeyed, NoBytes

LEMMA Digest32Covers ==
    ASSUME NEW in, NEW len \in Nat, Whole(in, len), NEW seed
    PROVE  Covers(XXH32(in, len, seed), 1 .. len)
  <1> DEFINE n == len % 16
             k == len \div 16
             at == 16 * k
             a == XXH32_initAccs(seed)
             f == [i \in 1 .. 4 * k |-> XXH32_round(in, 0 + 4 * (i - 1))]
             l == Step("len", <<>>, NULL, len % TotalLenMod, 0, 0)
             long == With(With(Then(a, f), Mix("mergeAccs", <<>>)), l)
             short == With(XXH32_short(seed), l)
  <1>1. n \in Nat /\ n < 16 /\ k \in Nat /\ at \in Nat /\ at + n = len /\ (len >= 16 <=> k >= 1)
        /\ 4 * (4 * k) = at /\ 4 * k \in Nat
    OBVIOUS
  <1>2. Uses(l, {}) /\ Uses(Mix("mergeAccs", <<>>), {})
    BY UsesUnkeyed, NoBytes
  <1>3. Covers(a, {}) /\ Covers(XXH32_short(seed), {})
    BY UsesUnkeyed, NoBytes, CoversOne DEF XXH32_initAccs, XXH32_short
  <1>4. CASE len >= 16
    <2>1. XXH32(in, len, seed) = XXH32_finalize(long, in, at, n)
      <3>1. XXH32_consumeLong(a, in, 0, len) = [acc |-> Then(a, f), input |-> 0 + at]
        <4>1. Max({1, k}) = k
          BY <1>1, <1>4, AtLeastOne
        <4> QED
          BY <4>1 DEF XXH32_consumeLong, Then
      <3>2. 0 + at = at
        BY <1>1
      <3> HIDE DEF f, a, at, n
      <3> QED
        BY <1>4, <3>1, <3>2 DEF XXH32, XXH32_mergeAccs, XXH32_addLen, With, a, n
    <2>2. Covers(f, 1 .. at)
      <3> DEFINE o == 0
                 m == 4 * k
                 w == 4
      <3>1. f = [i \in 1 .. m |-> Mix("round", Bytes(in, o + w * (i - 1), w))]
        BY DEF XXH32_round, XXH_readLE32
      <3>2. o \in Nat /\ m \in Nat /\ w \in Nat /\ w > 0 /\ o + w * m <= len /\ o + 1 = 1 /\ o + w * m = at
        BY <1>1
      <3> HIDE DEF o, m, w, f, at
      <3>3. Covers(f, (o + 1) .. (o + w * m))
        BY <3>1, <3>2, UnkeyedPieces
      <3> QED
        BY <3>2, <3>3
    <2> HIDE DEF f, a, l, at, n
    <2>3. Covers(Then(a, f), {} \cup 1 .. at)
      BY <1>3, <2>2, CoversJoined
    <2>4. Covers(Then(a, f), 1 .. at)
      BY <2>3
    <2>5. Covers(long, 1 .. at)
      BY <1>2, <2>4, CoversUnread
    <2> HIDE DEF long
    <2> QED
      BY <1>1, <2>1, <2>5, Tail32
  <1>5. CASE len < 16
    <2> DEFINE o == 0
    <2>1. XXH32(in, len, seed) = XXH32_finalize(short, in, o, n)
      BY <1>5 DEF XXH32, XXH32_addLen, With
    <2>2. Covers(short, 1 .. o)
      <3> HIDE DEF l
      <3>1. 1 .. o = {}
        OBVIOUS
      <3> QED
        BY <1>2, <1>3, <3>1, CoversUnread
    <2>3. o \in Nat /\ o + n = len
      BY <1>1, <1>5
    <2> HIDE DEF short, o, n
    <2> QED
      BY <1>1, <2>1, <2>2, <2>3, Tail32
  <1> QED
    BY <1>4, <1>5

LEMMA Tail64 ==
    ASSUME NEW in, NEW len \in Nat, Whole(in, len), NEW hash, NEW at \in Nat,
           at = 32 * (len \div 32), Covers(hash, 1 .. at)
    PROVE  Covers(XXH64_finalize(hash, in, at, len), 1 .. len)
  <1> DEFINE words == (len % 32) \div 8
             half == ((len % 32) % 8) \div 4
             rest == ((len % 32) % 8) % 4
             b == at + 8 * words
             c == b + 4 * half
             f == [i \in 1 .. words |-> Mix("process8", XXH_readLE64(in, at + 8 * (i - 1)))]
             h == [i \in 1 .. half |-> Mix("process4", XXH_readLE32(in, b))]
             g == [i \in 1 .. rest |-> Mix("process1", Bytes(in, c + i - 1, 1))]
  <1>1. /\ words \in Nat /\ half \in {0, 1} /\ rest \in Nat /\ b \in Nat /\ c \in Nat
        /\ at <= b /\ b <= c /\ c <= len /\ c + 1 * rest = len
    OBVIOUS
  <1>2. f = [i \in 1 .. words |-> Mix("process8", Bytes(in, at + 8 * (i - 1), 8))]
    BY DEF XXH_readLE64
  <1>3. h = [i \in 1 .. half |-> Mix("process4", Bytes(in, b + 4 * (i - 1), 4))]
    <2> HIDE DEF half, b
    <2>1. \A i \in 1 .. half : b + 4 * (i - 1) = b
      BY <1>1
    <2> QED
      BY <2>1 DEF XXH_readLE32
  <1>4. g = [i \in 1 .. rest |-> Mix("process1", Bytes(in, c + 1 * (i - 1), 1))]
    <2> HIDE DEF c, rest
    <2>1. \A i \in 1 .. rest : c + i - 1 = c + 1 * (i - 1)
      BY <1>1
    <2> QED
      BY <2>1
  <1>5. XXH64_finalize(hash, in, at, len)
          = With(Then(Then(Then(hash, f), h), g), Mix("avalanche", <<>>))
    BY DEF XXH64_finalize, XXH64_avalanche, With, Then
  <1> HIDE DEF f, h, g
  <1>6. Covers(f, (at + 1) .. b)
    <2> DEFINE w == 8
               op == "process8"
    <2>1. /\ w \in Nat /\ w > 0 /\ at + w * words <= len /\ words \in Nat /\ at + w * words = b
          /\ f = [i \in 1 .. words |-> Mix(op, Bytes(in, at + w * (i - 1), w))]
      BY <1>1, <1>2
    <2> DEFINE p == at
    <2>2. /\ w \in Nat /\ w > 0 /\ p + w * words <= len /\ words \in Nat /\ p + w * words = b
          /\ p \in Nat /\ len \in Nat /\ Whole(in, len)
          /\ f = [i \in 1 .. words |-> Mix(op, Bytes(in, p + w * (i - 1), w))]
      BY <2>1
    <2> HIDE DEF words, w, op, b, p
    <2>3. Covers(f, (p + 1) .. (p + w * words))
      BY ONLY <2>2, UnkeyedPieces, Zenon
    <2> QED
      BY <2>2, <2>3 DEF p
  <1>7. Covers(h, (b + 1) .. c)
    <2> DEFINE w == 4
               op == "process4"
    <2>1. /\ w \in Nat /\ w > 0 /\ b + w * half <= len /\ half \in Nat /\ b + w * half = c /\ b \in Nat
          /\ h = [i \in 1 .. half |-> Mix(op, Bytes(in, b + w * (i - 1), w))]
      BY <1>1, <1>3
    <2> HIDE DEF half, w, op, b, c
    <2>2. Covers(h, (b + 1) .. (b + w * half))
      <3>1. len \in Nat /\ Whole(in, len)
        OBVIOUS
      <3> QED
        BY ONLY <2>1, <3>1, UnkeyedPieces, Zenon
    <2> QED
      BY <2>1, <2>2
  <1>8. Covers(g, (c + 1) .. len)
    <2> DEFINE w == 1
               op == "process1"
    <2>1. /\ w \in Nat /\ w > 0 /\ c + w * rest <= len /\ rest \in Nat /\ c + w * rest = len /\ c \in Nat
          /\ g = [i \in 1 .. rest |-> Mix(op, Bytes(in, c + w * (i - 1), w))]
      BY <1>1, <1>4
    <2> HIDE DEF rest, w, op, c
    <2>2. Covers(g, (c + 1) .. (c + w * rest))
      <3>1. len \in Nat /\ Whole(in, len)
        OBVIOUS
      <3> QED
        BY ONLY <2>1, <3>1, UnkeyedPieces, Zenon
    <2> QED
      BY <2>1, <2>2
  <1> DEFINE o == 0
  <1>9. o \in Nat /\ o + 1 = 1 /\ o <= at
    OBVIOUS
  <1> HIDE DEF words, half, rest, o, b, c
  <1>10. Covers(Then(hash, f), (o + 1) .. b)
    BY <1>1, <1>6, <1>9, CoversMore
  <1>11. Covers(Then(Then(hash, f), h), (o + 1) .. c)
    <2>1. o <= b
      BY <1>1, <1>9
    <2> QED
      BY <1>1, <1>7, <1>9, <1>10, <2>1, CoversMore
  <1>12. Covers(Then(Then(Then(hash, f), h), g), (o + 1) .. len)
    <2>1. o <= c
      BY <1>1, <1>9
    <2> QED
      BY <1>1, <1>8, <1>9, <1>11, <2>1, CoversMore
  <1> QED
    BY <1>5, <1>9, <1>12, CoversUnread, UsesUnkeyed, NoBytes

LEMMA Merged64 ==
    ASSUME NEW acc, NEW A, Covers(acc, A)
    PROVE  Covers(XXH64_mergeAccs(acc), A)
  <1> DEFINE f == [i \in 1 .. 4 |-> XXH64_mergeRound(i - 1)]
             n == 4
             a == With(acc, Mix("rotate", <<>>))
  <1>1. Covers(f, {})
    <2>1. \A i \in 1 .. n : Uses(f[i], {})
      BY UsesUnkeyed, NoBytes DEF XXH64_mergeRound
    <2>2. n \in Nat /\ Run(f, n)
      BY DEF Run
    <2> HIDE DEF f, n
    <2> QED
      BY <2>1, <2>2, CoversEach DEF Uses
  <1>2. Covers(a, A)
    BY CoversUnread, UsesUnkeyed, NoBytes
  <1>3. XXH64_mergeAccs(acc) = Then(a, f)
    BY DEF XXH64_mergeAccs, Then, With
  <1> HIDE DEF f, a
  <1>4. Covers(Then(a, f), A \cup {})
    BY <1>1, <1>2, CoversJoined
  <1>5. A \cup {} = A
    OBVIOUS
  <1> QED
    BY <1>3, <1>4, <1>5

LEMMA Digest64Covers ==
    ASSUME NEW in, NEW len \in Nat, Whole(in, len), NEW seed
    PROVE  Covers(XXH64(in, len, seed), 1 .. len)
  <1> DEFINE k == len \div 32
             at == 32 * k
             a == XXH64_initAccs(seed)
             f == [i \in 1 .. 4 * k |-> XXH64_round(in, 0 + 8 * (i - 1))]
             l == Step("len", <<>>, NULL, len, 0, 0)
             long == With(XXH64_mergeAccs(Then(a, f)), l)
             short == With(XXH64_short(seed), l)
  <1>1. k \in Nat /\ at \in Nat /\ at <= len /\ (len >= 32 <=> k >= 1) /\ 8 * (4 * k) = at /\ 4 * k \in Nat
    OBVIOUS
  <1>2. Uses(l, {})
    BY UsesUnkeyed, NoBytes
  <1>3. Covers(a, {}) /\ Covers(XXH64_short(seed), {})
    BY UsesUnkeyed, NoBytes, CoversOne DEF XXH64_initAccs, XXH64_short
  <1>4. CASE len >= 32
    <2>1. XXH64(in, len, seed) = XXH64_finalize(long, in, at, len)
      <3>1. XXH64_consumeLong(a, in, 0, len) = [acc |-> Then(a, f), input |-> 0 + at]
        <4>1. Max({1, k}) = k
          BY <1>1, <1>4, AtLeastOne
        <4> QED
          BY <4>1 DEF XXH64_consumeLong, Then
      <3>2. 0 + at = at
        BY <1>1
      <3> HIDE DEF f, a, at
      <3> QED
        BY <1>4, <3>1, <3>2 DEF XXH64, XXH64_addLen, With, a
    <2>2. Covers(f, 1 .. at)
      <3> DEFINE o == 0
                 m == 4 * k
                 w == 8
      <3>1. f = [i \in 1 .. m |-> Mix("round", Bytes(in, o + w * (i - 1), w))]
        BY DEF XXH64_round, XXH_readLE64
      <3>2. o \in Nat /\ m \in Nat /\ w \in Nat /\ w > 0 /\ o + w * m <= len /\ o + 1 = 1 /\ o + w * m = at
        BY <1>1
      <3> HIDE DEF o, m, w, f, at
      <3>3. Covers(f, (o + 1) .. (o + w * m))
        BY <3>1, <3>2, UnkeyedPieces
      <3> QED
        BY <3>2, <3>3
    <2>3. at = 32 * (len \div 32)
      OBVIOUS
    <2> HIDE DEF f, a, l, at
    <2>4. Covers(Then(a, f), {} \cup 1 .. at)
      BY <1>3, <2>2, CoversJoined
    <2>5. Covers(Then(a, f), 1 .. at)
      BY <2>4
    <2>6. Covers(long, 1 .. at)
      BY <1>2, <2>5, CoversUnread, Merged64
    <2> HIDE DEF long
    <2> QED
      BY <1>1, <2>1, <2>3, <2>6, Tail64
  <1>5. CASE len < 32
    <2> DEFINE o == 0
    <2>1. XXH64(in, len, seed) = XXH64_finalize(short, in, o, len)
      BY <1>5 DEF XXH64, XXH64_addLen, With
    <2>2. Covers(short, 1 .. o)
      <3> HIDE DEF l
      <3>1. 1 .. o = {}
        OBVIOUS
      <3> QED
        BY <1>2, <1>3, <3>1, CoversUnread
    <2>3. o \in Nat /\ o = 32 * (len \div 32)
      BY <1>1, <1>5
    <2> HIDE DEF short, o
    <2> QED
      BY <1>1, <2>1, <2>2, <2>3, Tail64
  <1> QED
    BY <1>4, <1>5

(***************************************************************************)
(* XXH3 of short messages.  Their windows end within the first 136 bytes   *)
(* of the secret.                                                          *)
(***************************************************************************)
\* The secret is one that a reset accepts.
Key(secret) == Usable(secret, 136) /\ SecretSize(secret) \in Int

LEMMA KeyedUse ==
    ASSUME NEW secret, Key(secret), NEW op, NEW bytes, NEW at \in Nat, NEW n \in Nat,
           at + n <= 136, NEW seed
    PROVE  Uses(Step(op, bytes, secret, at, n, seed), ToSet(bytes))
  <1> DEFINE size == 136
  <1>1. size \in Int /\ at + n <= size /\ Usable(secret, size)
    BY DEF Key
  <1> HIDE DEF size
  <1> QED
    BY <1>1, UsesKeyed DEF Key

LEMMA LenUse == \A len : Uses(Len3(len), {}) /\ Covers(<<Len3(len)>>, {})
  BY UsesUnkeyed, NoBytes, CoversOne DEF Len3

LEMMA CoversTwo ==
    ASSUME NEW d, NEW e,
           NEW A, NEW B,
           Uses(d, A), Uses(e, B)
    PROVE  Covers(<<d, e>>, A \cup B)
  <1> DEFINE n == 2
             f == <<d, e>>
             U == A \cup B
  <1>1. /\ n \in Nat /\ Run(f, n) /\ (\A i \in 1 .. n : i \in {1, 2})
        /\ 1 \in 1 .. n /\ f[1] = d /\ 2 \in 1 .. n /\ f[2] = e
    BY DEF Run
  <1>2. \A x \in U : x \in A \/ x \in B
    OBVIOUS
  <1>3. A \subseteq U /\ B \subseteq U
    OBVIOUS
  <1> HIDE DEF n, f, U
  <1>4. Covers(f, U)
    <2>1. \A i \in 1 .. n : Keeps(f[i]) /\ ToSet(f[i].bytes) \subseteq U
      BY <1>1, <1>3 DEF Uses
    <2>2. \A x \in U : \E i \in 1 .. n : x \in ToSet(f[i].bytes)
      BY <1>1, <1>2 DEF Uses
    <2> QED
      BY <1>1, <2>1, <2>2, CoversEach
  <1> QED
    BY <1>4 DEF f, U

LEMMA CoversThree ==
    ASSUME NEW c, NEW d, NEW e,
           NEW A, NEW B, NEW C,
           Uses(c, A), Uses(d, B), Uses(e, C)
    PROVE  Covers(<<c, d, e>>, A \cup B \cup C)
  <1> DEFINE n == 3
             f == <<c, d, e>>
             U == A \cup B \cup C
  <1>1. /\ n \in Nat /\ Run(f, n) /\ (\A i \in 1 .. n : i \in {1, 2, 3})
        /\ 1 \in 1 .. n /\ f[1] = c /\ 2 \in 1 .. n /\ f[2] = d /\ 3 \in 1 .. n /\ f[3] = e
    BY DEF Run
  <1>2. \A x \in U : x \in A \/ x \in B \/ x \in C
    OBVIOUS
  <1>3. A \subseteq U /\ B \subseteq U /\ C \subseteq U
    OBVIOUS
  <1> HIDE DEF n, f, U
  <1>4. Covers(f, U)
    <2>1. \A i \in 1 .. n : Keeps(f[i]) /\ ToSet(f[i].bytes) \subseteq U
      BY <1>1, <1>3 DEF Uses
    <2>2. \A x \in U : \E i \in 1 .. n : x \in ToSet(f[i].bytes)
      BY <1>1, <1>2 DEF Uses
    <2> QED
      BY <1>1, <2>1, <2>2, CoversEach
  <1> QED
    BY <1>4 DEF f, U

LEMMA CoversFour ==
    ASSUME NEW b, NEW c, NEW d, NEW e,
           NEW A, NEW B, NEW C, NEW D,
           Uses(b, A), Uses(c, B), Uses(d, C), Uses(e, D)
    PROVE  Covers(<<b, c, d, e>>, A \cup B \cup C \cup D)
  <1> DEFINE n == 4
             f == <<b, c, d, e>>
             U == A \cup B \cup C \cup D
  <1>1. /\ n \in Nat /\ Run(f, n) /\ (\A i \in 1 .. n : i \in {1, 2, 3, 4})
        /\ 1 \in 1 .. n /\ f[1] = b /\ 2 \in 1 .. n /\ f[2] = c /\ 3 \in 1 .. n /\ f[3] = d /\ 4 \in 1 .. n /\ f[4] = e
    BY DEF Run
  <1>2. \A x \in U : x \in A \/ x \in B \/ x \in C \/ x \in D
    OBVIOUS
  <1>3. A \subseteq U /\ B \subseteq U /\ C \subseteq U /\ D \subseteq U
    OBVIOUS
  <1> HIDE DEF n, f, U
  <1>4. Covers(f, U)
    <2>1. \A i \in 1 .. n : Keeps(f[i]) /\ ToSet(f[i].bytes) \subseteq U
      BY <1>1, <1>3 DEF Uses
    <2>2. \A x \in U : \E i \in 1 .. n : x \in ToSet(f[i].bytes)
      BY <1>1, <1>2 DEF Uses
    <2> QED
      BY <1>1, <2>1, <2>2, CoversEach
  <1> QED
    BY <1>4 DEF f, U

LEMMA TwoRead ==
    ASSUME NEW in, NEW len \in Nat, Whole(in, len), NEW i \in Nat, NEW j \in Nat, NEW n \in Nat,
           i + n <= len, j + n <= len
    PROVE  /\ ToSet(Bytes(in, i, n) \o Bytes(in, j, n)) = ((i + 1) .. (i + n)) \cup ((j + 1) .. (j + n))
           /\ Run(Bytes(in, i, n) \o Bytes(in, j, n), n + n)
  <1> DEFINE a == Bytes(in, i, n)
             b == Bytes(in, j, n)
  <1>1. ToSet(a) = (i + 1) .. (i + n) /\ Run(a, n)
    BY ReadsPart
  <1>2. ToSet(b) = (j + 1) .. (j + n) /\ Run(b, n)
    BY ReadsPart
  <1> HIDE DEF a, b
  <1>3. ToSet(a \o b) = ToSet(a) \cup ToSet(b) /\ Run(a \o b, n + n)
    BY <1>1, <1>2, JoinedSet
  <1> QED
    BY <1>1, <1>2, <1>3 DEF a, b

LEMMA CombinedUse ==
    ASSUME NEW in, NEW len \in 1 .. 3, Whole(in, len)
    PROVE  ToSet(Combined(in, len)) = 1 .. len
  <1> DEFINE o == 0
             h == len \div 2
             e == len - 1
             n == 1
             a == Bytes(in, o, n) \o Bytes(in, h, n)
             b == Bytes(in, e, n)
  <1>1. /\ len \in Nat /\ o \in Nat /\ h \in Nat /\ e \in Nat /\ n \in Nat
        /\ o + n <= len /\ h + n <= len /\ e + n <= len /\ n + n \in Nat
    OBVIOUS
  <1>2. ((o + 1) .. (o + n)) \cup ((h + 1) .. (h + n)) \cup ((e + 1) .. (e + n)) = 1 .. len
    <2>1. len = 1 \/ len = 2 \/ len = 3
      OBVIOUS
    <2>2. (len = 1 => h = 0) /\ (len = 2 => h = 1) /\ (len = 3 => h = 1)
      OBVIOUS
    <2> HIDE DEF h
    <2> QED
      BY <2>1, <2>2
  <1> HIDE DEF o, h, e, n
  <1>3. ToSet(a) = ((o + 1) .. (o + n)) \cup ((h + 1) .. (h + n)) /\ Run(a, n + n)
    BY <1>1, TwoRead
  <1>4. ToSet(b) = (e + 1) .. (e + n) /\ Run(b, n)
    BY <1>1, ReadsPart
  <1> HIDE DEF a, b
  <1>5. ToSet(a \o b) = ToSet(a) \cup ToSet(b)
    BY <1>1, <1>3, <1>4, JoinedSet
  <1>6. Combined(in, len) = a \o b
    BY DEF Combined, a, b, o, h, e, n
  <1> QED
    BY <1>2, <1>3, <1>4, <1>5, <1>6

LEMMA Covers1to3 ==
    ASSUME NEW in, NEW len \in 1 .. 3, Whole(in, len), NEW secret, Key(secret), NEW seed
    PROVE  /\ Covers(XXH3_len_1to3_64b(in, len, secret, seed), 1 .. len)
           /\ Covers(XXH3_len_1to3_128b(in, len, secret, seed), 1 .. len)
  <1> DEFINE all == Combined(in, len)
  <1>1. ToSet(all) = 1 .. len
    BY CombinedUse
  <1> HIDE DEF all
  <1>2. /\ Uses(Step("combined", all, secret, 0, 8, seed), ToSet(all))
        /\ Uses(Step("combinedl", all, secret, 0, 8, seed), ToSet(all))
        /\ Uses(Step("combinedh", all, secret, 8, 8, -seed), ToSet(all))
    <2>1. 0 \in Nat /\ 8 \in Nat /\ 0 + 8 <= 136 /\ 8 + 8 <= 136
      OBVIOUS
    <2> QED
      BY <2>1, KeyedUse
  <1>3. Covers(<<Len3(len), Step("combined", all, secret, 0, 8, seed)>>, {} \cup ToSet(all))
    BY <1>2, LenUse, CoversTwo
  <1>4. Covers(<<Len3(len), Step("combinedl", all, secret, 0, 8, seed),
                 Step("combinedh", all, secret, 8, 8, -seed)>>, {} \cup ToSet(all) \cup ToSet(all))
    BY <1>2, LenUse, CoversThree
  <1>5. {} \cup ToSet(all) = 1 .. len /\ {} \cup ToSet(all) \cup ToSet(all) = 1 .. len
    BY <1>1
  <1> QED
    BY <1>3, <1>4, <1>5 DEF XXH3_len_1to3_64b, XXH3_len_1to3_128b, all

\* Two words, at the beginning and at the end, meet or overlap.
LEMMA EndsUse ==
    ASSUME NEW in, NEW len \in Nat, Whole(in, len), NEW n \in Nat, n <= len, len <= n + n
    PROVE  /\ ToSet(Bytes(in, 0, n) \o Bytes(in, len - n, n)) = 1 .. len
           /\ ToSet(Bytes(in, 0, n)) \cup ToSet(Bytes(in, len - n, n)) = 1 .. len
  <1> DEFINE o == 0
             e == len - n
  <1>1. /\ o \in Nat /\ e \in Nat /\ o + n <= len /\ e + n <= len
        /\ ((o + 1) .. (o + n)) \cup ((e + 1) .. (e + n)) = 1 .. len
    OBVIOUS
  <1> HIDE DEF o, e
  <1>2. ToSet(Bytes(in, o, n) \o Bytes(in, e, n)) = ((o + 1) .. (o + n)) \cup ((e + 1) .. (e + n))
    BY <1>1, TwoRead
  <1>3. ToSet(Bytes(in, o, n)) \cup ToSet(Bytes(in, e, n))
          = ((o + 1) .. (o + n)) \cup ((e + 1) .. (e + n))
    <2>1. ToSet(Bytes(in, o, n)) = (o + 1) .. (o + n)
      BY <1>1, ReadsPart
    <2>2. ToSet(Bytes(in, e, n)) = (e + 1) .. (e + n)
      BY <1>1, ReadsPart
    <2> QED
      BY <2>1, <2>2
  <1> QED
    BY <1>1, <1>2, <1>3 DEF o, e

LEMMA Covers4to8 ==
    ASSUME NEW in, NEW len \in 4 .. 8, Whole(in, len), NEW secret, Key(secret), NEW seed
    PROVE  /\ Covers(XXH3_len_4to8_64b(in, len, secret, seed), 1 .. len)
           /\ Covers(XXH3_len_4to8_128b(in, len, secret, seed), 1 .. len)
  <1> DEFINE all == Bytes(in, 0, 4) \o Bytes(in, len - 4, 4)
             d == Step("keyed", all, secret, 8, 16, -seed)
             e == Step("keyed", all, secret, 16, 16, seed)
  <1>1. ToSet(all) = 1 .. len
    <2> DEFINE n == 4
    <2>1. n \in Nat /\ len \in Nat /\ n <= len /\ len <= n + n
      OBVIOUS
    <2> HIDE DEF n
    <2>2. ToSet(Bytes(in, 0, n) \o Bytes(in, len - n, n)) = 1 .. len
      BY <2>1, EndsUse
    <2> QED
      BY <2>2 DEF n
  <1>2. /\ XXH3_len_4to8_64b(in, len, secret, seed) = <<d, Len3(len), Mix("rrmxmx", <<>>)>>
        /\ XXH3_len_4to8_128b(in, len, secret, seed) = <<e, Len3(len), Mix("m128", <<>>)>>
    BY DEF XXH3_len_4to8_64b, XXH3_len_4to8_128b, Keyed
  <1> HIDE DEF all
  <1>3. Uses(d, 1 .. len) /\ Uses(e, 1 .. len)
    <2>1. 8 \in Nat /\ 16 \in Nat /\ 8 + 16 <= 136 /\ 16 + 16 <= 136
      OBVIOUS
    <2> QED
      BY <1>1, <2>1, KeyedUse
  <1> HIDE DEF d, e
  <1>4. /\ Covers(<<d, Len3(len), Mix("rrmxmx", <<>>)>>, (1 .. len) \cup {} \cup {})
        /\ Covers(<<e, Len3(len), Mix("m128", <<>>)>>, (1 .. len) \cup {} \cup {})
    <2>1. Uses(Mix("rrmxmx", <<>>), {}) /\ Uses(Mix("m128", <<>>), {}) /\ Uses(Len3(len), {})
      BY UsesUnkeyed, NoBytes, LenUse
    <2> QED
      BY <1>3, <2>1, CoversThree
  <1>5. (1 .. len) \cup {} \cup {} = 1 .. len
    OBVIOUS
  <1> QED
    BY <1>2, <1>4, <1>5

LEMMA Covers9to16 ==
    ASSUME NEW in, NEW len \in 9 .. 16, Whole(in, len), NEW secret, Key(secret), NEW seed
    PROVE  /\ Covers(XXH3_len_9to16_64b(in, len, secret, seed), 1 .. len)
           /\ Covers(XXH3_len_9to16_128b(in, len, secret, seed), 1 .. len)
  <1> DEFINE lo == Bytes(in, 0, 8)
             hi == Bytes(in, len - 8, 8)
             all == lo \o hi
             a == Step("lo", lo, secret, 24, 16, seed)
             b == Step("hi", hi, secret, 40, 16, -seed)
             c == Step("keyed", all, secret, 32, 16, -seed)
             d == Step("hi", hi, secret, 48, 16, seed)
  <1>1. ToSet(all) = 1 .. len /\ ToSet(lo) \cup ToSet(hi) = 1 .. len
    <2> DEFINE n == 8
    <2>1. n \in Nat /\ len \in Nat /\ n <= len /\ len <= n + n
      OBVIOUS
    <2> HIDE DEF n
    <2>2. /\ ToSet(Bytes(in, 0, n) \o Bytes(in, len - n, n)) = 1 .. len
          /\ ToSet(Bytes(in, 0, n)) \cup ToSet(Bytes(in, len - n, n)) = 1 .. len
      BY <2>1, EndsUse
    <2> QED
      BY <2>2 DEF n
  <1>2. /\ XXH3_len_9to16_64b(in, len, secret, seed)
             = With(<<Len3(len), a, b>>, Mix("XXH3_avalanche", <<>>))
        /\ XXH3_len_9to16_128b(in, len, secret, seed) = <<c, Len3(len), d, Mix("h128", <<>>)>>
    BY DEF XXH3_len_9to16_64b, XXH3_len_9to16_128b, Keyed, XXH3_avalanche, With, XXH_readLE64
  <1> HIDE DEF lo, hi, all
  <1>3. Uses(a, ToSet(lo)) /\ Uses(b, ToSet(hi)) /\ Uses(c, 1 .. len) /\ Uses(d, ToSet(hi))
    <2>1. /\ 24 \in Nat /\ 16 \in Nat /\ 40 \in Nat /\ 32 \in Nat /\ 48 \in Nat
          /\ 24 + 16 <= 136 /\ 40 + 16 <= 136 /\ 32 + 16 <= 136 /\ 48 + 16 <= 136
      OBVIOUS
    <2> QED
      BY <1>1, <2>1, KeyedUse
  <1>4. Uses(Mix("XXH3_avalanche", <<>>), {}) /\ Uses(Mix("h128", <<>>), {}) /\ Uses(Len3(len), {})
    BY UsesUnkeyed, NoBytes, LenUse
  <1> HIDE DEF a, b, c, d
  <1>5. Covers(<<Len3(len), a, b>>, {} \cup ToSet(lo) \cup ToSet(hi))
    BY <1>3, <1>4, CoversThree
  <1>6. Covers(<<c, Len3(len), d, Mix("h128", <<>>)>>, (1 .. len) \cup {} \cup ToSet(hi) \cup {})
    BY <1>3, <1>4, CoversFour
  <1>7. {} \cup ToSet(lo) \cup ToSet(hi) = 1 .. len /\ (1 .. len) \cup {} \cup ToSet(hi) \cup {} = 1 .. len
    BY <1>1
  <1>8. Covers(<<Len3(len), a, b>>, 1 .. len) /\ Covers(<<c, Len3(len), d, Mix("h128", <<>>)>>, 1 .. len)
    BY ONLY <1>5, <1>6, <1>7
  <1>9. Covers(With(<<Len3(len), a, b>>, Mix("XXH3_avalanche", <<>>)), 1 .. len)
    BY ONLY <1>4, <1>8, CoversUnread, Zenon
  <1> QED
    BY ONLY <1>2, <1>8, <1>9

LEMMA Covers0to16 ==
    ASSUME NEW in, NEW len \in 0 .. 16, Whole(in, len), NEW secret, Key(secret), NEW seed
    PROVE  /\ Covers(XXH3_len_0to16_64b(in, len, secret, seed), 1 .. len)
           /\ Covers(XXH3_len_0to16_128b(in, len, secret, seed), 1 .. len)
  <1>1. CASE len > 8
    <2>1. len \in 9 .. 16 /\ ~(len \in 4 .. 8) /\ ~(len \in 1 .. 3) /\ len # 0
      BY <1>1
    <2> QED
      BY <1>1, <2>1, Covers9to16 DEF XXH3_len_0to16_64b, XXH3_len_0to16_128b
  <1>2. CASE len \in 4 .. 8
    <2>1. ~(len > 8) /\ ~(len \in 1 .. 3) /\ len # 0
      BY <1>2
    <2> QED
      BY <1>2, <2>1, Covers4to8 DEF XXH3_len_0to16_64b, XXH3_len_0to16_128b
  <1>3. CASE len \in 1 .. 3
    <2>1. ~(len > 8) /\ ~(len \in 4 .. 8) /\ len # 0
      BY <1>3
    <2> QED
      BY <1>3, <2>1, Covers1to3 DEF XXH3_len_0to16_64b, XXH3_len_0to16_128b
  <1>4. CASE len = 0
    <2>1. ~(len > 8) /\ ~(len \in 4 .. 8) /\ ~(len \in 1 .. 3) /\ 1 .. len = {}
      BY <1>4
    <2> DEFINE a == Step("empty", <<>>, secret, 56, 16, seed)
               b == Step("low", <<>>, secret, 64, 16, seed)
               c == Step("high", <<>>, secret, 80, 16, seed)
    <2>2. /\ XXH3_len_0to16_64b(in, len, secret, seed) = <<a>>
          /\ XXH3_len_0to16_128b(in, len, secret, seed) = <<b, c>>
      BY <1>4, <2>1 DEF XXH3_len_0to16_64b, XXH3_len_0to16_128b
    <2>3. Uses(a, {}) /\ Uses(b, {}) /\ Uses(c, {})
      <3>1. /\ 56 \in Nat /\ 16 \in Nat /\ 64 \in Nat /\ 80 \in Nat
            /\ 56 + 16 <= 136 /\ 64 + 16 <= 136 /\ 80 + 16 <= 136
        OBVIOUS
      <3> DEFINE bytes == <<>>
      <3> HIDE DEF bytes
      <3>2. Uses(Step("empty", bytes, secret, 56, 16, seed), ToSet(bytes))
        BY <3>1, KeyedUse
      <3>3. Uses(Step("low", bytes, secret, 64, 16, seed), ToSet(bytes))
        BY <3>1, KeyedUse
      <3>4. Uses(Step("high", bytes, secret, 80, 16, seed), ToSet(bytes))
        BY <3>1, KeyedUse
      <3>5. ToSet(bytes) = {}
        BY NoBytes DEF bytes
      <3> QED
        BY ONLY <3>2, <3>3, <3>4, <3>5 DEF bytes
    <2> HIDE DEF a, b, c
    <2>4. Covers(<<a>>, {}) /\ Covers(<<b, c>>, {} \cup {})
      BY <2>3, CoversOne, CoversTwo
    <2>5. {} \cup {} = {}
      OBVIOUS
    <2> QED
      BY <2>1, <2>2, <2>4, <2>5
  <1> QED
    BY <1>1, <1>2, <1>3, <1>4

LEMMA Mix16Use ==
    ASSUME NEW in, NEW len \in Nat, Whole(in, len), NEW secret, Key(secret), NEW seed,
           NEW at \in Nat, at + 16 <= len, NEW key \in Nat, key + 16 <= 136
    PROVE  /\ Uses(XXH3_mix16B(in, at, secret, key, seed), (at + 1) .. (at + 16))
           /\ \A op : Uses(Mix(op, Bytes(in, at, 16)), (at + 1) .. (at + 16))
  <1> DEFINE n == 8
             h == at + n
             all == Bytes(in, at, n) \o Bytes(in, h, n)
  <1>1. /\ n \in Nat /\ h \in Nat /\ at + n <= len /\ h + n <= len
        /\ ((at + 1) .. (at + n)) \cup ((h + 1) .. (h + n)) = (at + 1) .. (at + 16)
    OBVIOUS
  <1>2. XXH3_mix16B(in, at, secret, key, seed) = Step("mix16B", all, secret, key, 16, seed)
    BY DEF XXH3_mix16B, XXH_readLE64
  <1> HIDE DEF n, h
  <1>3. ToSet(all) = (at + 1) .. (at + 16)
    <2>1. ToSet(all) = ((at + 1) .. (at + n)) \cup ((h + 1) .. (h + n))
      BY <1>1, TwoRead
    <2> QED
      BY <1>1, <2>1
  <1> HIDE DEF all
  <1>4. Uses(Step("mix16B", all, secret, key, 16, seed), ToSet(all))
    <2>1. 16 \in Nat
      OBVIOUS
    <2> QED
      BY <2>1, KeyedUse
  <1>5. \A op : Uses(Mix(op, Bytes(in, at, 16)), (at + 1) .. (at + 16))
    <2> DEFINE m == 16
    <2>1. m \in Nat /\ at + m <= len
      OBVIOUS
    <2> HIDE DEF m
    <2>2. ToSet(Bytes(in, at, m)) = (at + 1) .. (at + m)
      BY <2>1, ReadsPart
    <2>3. \A op : Uses(Mix(op, Bytes(in, at, m)), (at + 1) .. (at + m))
      BY <2>2, UsesUnkeyed
    <2> QED
      BY <2>3 DEF m
  <1> QED
    BY <1>2, <1>3, <1>4, <1>5

\* The i-th 16 bytes from the front and from the back.
Ends(len, i) == ((16 * i + 1) .. (16 * i + 16)) \cup ((len - 16 * i - 15) .. (len - 16 * i))

LEMMA Mix32Covers ==
    ASSUME NEW in, NEW len \in Nat, Whole(in, len), NEW secret, Key(secret), NEW seed,
           NEW at1 \in Nat, at1 + 16 <= len, NEW at2 \in Nat, at2 + 16 <= len,
           NEW key \in Nat, key + 32 <= 136
    PROVE  /\ Covers(XXH128_mix32B(in, at1, at2, secret, key, seed),
                     ((at1 + 1) .. (at1 + 16)) \cup ((at2 + 1) .. (at2 + 16)))
           /\ Run(XXH128_mix32B(in, at1, at2, secret, key, seed), 4)
  <1> DEFINE A == (at1 + 1) .. (at1 + 16)
             B == (at2 + 1) .. (at2 + 16)
             k2 == key + 16
             a == XXH3_mix16B(in, at1, secret, key, seed)
             b == Mix("low64", Bytes(in, at2, 16))
             c == XXH3_mix16B(in, at2, secret, k2, seed)
             d == Mix("high64", Bytes(in, at1, 16))
  <1>1. key + 16 <= 136 /\ k2 \in Nat /\ k2 + 16 <= 136
    OBVIOUS
  <1>2. XXH128_mix32B(in, at1, at2, secret, key, seed) = <<a, b, c, d>>
    BY DEF XXH128_mix32B
  <1> HIDE DEF k2
  <1>3. Uses(a, A) /\ Uses(d, A)
    BY <1>1, Mix16Use
  <1>4. Uses(c, B) /\ Uses(b, B)
    BY <1>1, Mix16Use
  <1> HIDE DEF a, b, c, d
  <1>5. Covers(<<a, b, c, d>>, A \cup B \cup B \cup A)
    BY <1>3, <1>4, CoversFour
  <1>6. A \cup B \cup B \cup A = A \cup B
    OBVIOUS
  <1>7. Run(<<a, b, c, d>>, 4)
    BY DEF Run
  <1> QED
    BY <1>2, <1>5, <1>6, <1>7

LEMMA PairCovers ==
    ASSUME NEW in, NEW len \in Nat, Whole(in, len), NEW secret, Key(secret), NEW seed,
           NEW i \in 0 .. 3, 16 * (i + 1) <= len
    PROVE  /\ Covers(MixPair(in, len, secret, seed, i), Ends(len, i))
           /\ Covers(Mix32Pair(in, len, secret, seed, i), Ends(len, i))
  <1> DEFINE p == 16 * i
             q == len - 16 * (i + 1)
             k == 32 * i
             l == 32 * i + 16
  <1>1. /\ p \in Nat /\ q \in Nat /\ k \in Nat /\ l \in Nat /\ p + 16 <= len /\ q + 16 <= len
        /\ k + 16 <= 136 /\ l + 16 <= 136 /\ k + 32 <= 136
        /\ Ends(len, i) = ((p + 1) .. (p + 16)) \cup ((q + 1) .. (q + 16))
    <2>1. (q + 1) .. (q + 16) = (len - 16 * i - 15) .. (len - 16 * i)
      OBVIOUS
    <2> QED
      BY <2>1 DEF Ends
  <1>2. /\ MixPair(in, len, secret, seed, i)
             = <<XXH3_mix16B(in, p, secret, k, seed), XXH3_mix16B(in, q, secret, l, seed)>>
        /\ Mix32Pair(in, len, secret, seed, i) = XXH128_mix32B(in, p, q, secret, k, seed)
    BY DEF MixPair, Mix32Pair
  <1> HIDE DEF p, q, k, l
  <1>3. /\ Uses(XXH3_mix16B(in, p, secret, k, seed), (p + 1) .. (p + 16))
        /\ Uses(XXH3_mix16B(in, q, secret, l, seed), (q + 1) .. (q + 16))
    BY <1>1, Mix16Use
  <1>4. Covers(XXH128_mix32B(in, p, q, secret, k, seed),
               ((p + 1) .. (p + 16)) \cup ((q + 1) .. (q + 16)))
    BY <1>1, Mix32Covers
  <1>5. Covers(<<XXH3_mix16B(in, p, secret, k, seed), XXH3_mix16B(in, q, secret, l, seed)>>,
               ((p + 1) .. (p + 16)) \cup ((q + 1) .. (q + 16)))
    BY <1>3, CoversTwo
  <1> QED
    BY <1>1, <1>2, <1>4, <1>5

\* The pairs that a message is long enough for.
Optional(c, f) == IF c THEN f ELSE <<>>

LEMMA CoversOptional ==
    ASSUME NEW c \in BOOLEAN, NEW f, NEW A, c => Covers(f, A)
    PROVE  Covers(Optional(c, f), IF c THEN A ELSE {})
  BY CoversNothing DEF Optional

LEMMA EndsMeet ==
    ASSUME NEW len \in 17 .. 128
    PROVE  {} \cup (IF len > 96 THEN Ends(len, 3) ELSE {}) \cup (IF len > 64 THEN Ends(len, 2) ELSE {})
             \cup (IF len > 32 THEN Ends(len, 1) ELSE {}) \cup Ends(len, 0) = 1 .. len
  <1>1. CASE len > 96
    BY <1>1 DEF Ends
  <1>2. CASE len <= 96 /\ len > 64
    BY <1>2 DEF Ends
  <1>3. CASE len <= 64 /\ len > 32
    BY <1>3 DEF Ends
  <1>4. CASE len <= 32
    BY <1>4 DEF Ends
  <1> QED
    BY <1>1, <1>2, <1>3, <1>4

LEMMA Covers17to128 ==
    ASSUME NEW in, NEW len \in 17 .. 128, Whole(in, len), NEW secret, Key(secret), NEW seed
    PROVE  /\ Covers(XXH3_len_17to128_64b(in, len, secret, seed), 1 .. len)
           /\ Covers(XXH3_len_17to128_128b(in, len, secret, seed), 1 .. len)
  <1> DEFINE A3 == IF len > 96 THEN Ends(len, 3) ELSE {}
             A2 == IF len > 64 THEN Ends(len, 2) ELSE {}
             A1 == IF len > 32 THEN Ends(len, 1) ELSE {}
             A0 == Ends(len, 0)
             all == {} \cup A3 \cup A2 \cup A1 \cup A0
  <1>1. all = 1 .. len
    BY EndsMeet
  <1>2. Uses(Mix("XXH3_avalanche", <<>>), {}) /\ Uses(Step("h128", <<>>, NULL, len, 0, seed), {})
        /\ Covers(<<Len3(len)>>, {})
    BY UsesUnkeyed, NoBytes, LenUse
  <1>3. /\ len \in Nat /\ 0 \in 0 .. 3 /\ 1 \in 0 .. 3 /\ 2 \in 0 .. 3 /\ 3 \in 0 .. 3
        /\ 16 * (0 + 1) <= len /\ (len > 32 => 16 * (1 + 1) <= len)
        /\ (len > 64 => 16 * (2 + 1) <= len) /\ (len > 96 => 16 * (3 + 1) <= len)
    OBVIOUS
  <1>4. Covers(XXH3_len_17to128_64b(in, len, secret, seed), 1 .. len)
    <2> DEFINE P(i) == MixPair(in, len, secret, seed, i)
               f3 == Optional(len > 96, P(3))
               f2 == Optional(len > 64, P(2))
               f1 == Optional(len > 32, P(1))
               f0 == P(0)
               f == Then(Then(Then(Then(<<Len3(len)>>, f3), f2), f1), f0)
    <2>1. XXH3_len_17to128_64b(in, len, secret, seed) = With(f, Mix("XXH3_avalanche", <<>>))
      BY DEF XXH3_len_17to128_64b, XXH3_avalanche, With, Then, Optional
    <2>2. /\ Covers(P(0), Ends(len, 0)) /\ (len > 32 => Covers(P(1), Ends(len, 1)))
          /\ (len > 64 => Covers(P(2), Ends(len, 2))) /\ (len > 96 => Covers(P(3), Ends(len, 3)))
      BY <1>3, PairCovers
    <2> HIDE DEF P
    <2>3. Covers(f3, A3) /\ Covers(f2, A2) /\ Covers(f1, A1) /\ Covers(f0, A0)
      <3>1. (len > 96) \in BOOLEAN /\ (len > 64) \in BOOLEAN /\ (len > 32) \in BOOLEAN
        OBVIOUS
      <3>2. Covers(f3, A3)
        BY ONLY <2>2, <3>1, CoversOptional
      <3>3. Covers(f2, A2)
        BY ONLY <2>2, <3>1, CoversOptional
      <3>4. Covers(f1, A1)
        BY ONLY <2>2, <3>1, CoversOptional
      <3> QED
        BY ONLY <2>2, <3>2, <3>3, <3>4
    <2> HIDE DEF f3, f2, f1, f0, A3, A2, A1, A0
    <2>4. Covers(f, all)
      <3>1. Covers(Then(<<Len3(len)>>, f3), {} \cup A3)
        BY <1>2, <2>3, CoversJoined
      <3>2. Covers(Then(Then(<<Len3(len)>>, f3), f2), {} \cup A3 \cup A2)
        BY <2>3, <3>1, CoversJoined
      <3>3. Covers(Then(Then(Then(<<Len3(len)>>, f3), f2), f1), {} \cup A3 \cup A2 \cup A1)
        BY <2>3, <3>2, CoversJoined
      <3> QED
        BY <2>3, <3>3, CoversJoined
    <2> HIDE DEF f, all
    <2>5. Covers(With(f, Mix("XXH3_avalanche", <<>>)), all)
      BY ONLY <1>2, <2>4, CoversUnread, Zenon
    <2> QED
      BY ONLY <1>1, <2>1, <2>5
  <1>5. Covers(XXH3_len_17to128_128b(in, len, secret, seed), 1 .. len)
    <2> DEFINE P(i) == Mix32Pair(in, len, secret, seed, i)
               f3 == Optional(len > 96, P(3))
               f2 == Optional(len > 64, P(2))
               f1 == Optional(len > 32, P(1))
               f0 == P(0)
               f == Then(Then(Then(Then(<<Len3(len)>>, f3), f2), f1), f0)
    <2>1. XXH3_len_17to128_128b(in, len, secret, seed)
            = With(f, Step("h128", <<>>, NULL, len, 0, seed))
      BY DEF XXH3_len_17to128_128b, Finish128, With, Then, Optional
    <2>2. /\ Covers(P(0), Ends(len, 0)) /\ (len > 32 => Covers(P(1), Ends(len, 1)))
          /\ (len > 64 => Covers(P(2), Ends(len, 2))) /\ (len > 96 => Covers(P(3), Ends(len, 3)))
      BY <1>3, PairCovers
    <2> HIDE DEF P
    <2>3. Covers(f3, A3) /\ Covers(f2, A2) /\ Covers(f1, A1) /\ Covers(f0, A0)
      <3>1. (len > 96) \in BOOLEAN /\ (len > 64) \in BOOLEAN /\ (len > 32) \in BOOLEAN
        OBVIOUS
      <3>2. Covers(f3, A3)
        BY ONLY <2>2, <3>1, CoversOptional
      <3>3. Covers(f2, A2)
        BY ONLY <2>2, <3>1, CoversOptional
      <3>4. Covers(f1, A1)
        BY ONLY <2>2, <3>1, CoversOptional
      <3> QED
        BY ONLY <2>2, <3>2, <3>3, <3>4
    <2> HIDE DEF f3, f2, f1, f0, A3, A2, A1, A0
    <2>4. Covers(f, all)
      <3>1. Covers(Then(<<Len3(len)>>, f3), {} \cup A3)
        BY <1>2, <2>3, CoversJoined
      <3>2. Covers(Then(Then(<<Len3(len)>>, f3), f2), {} \cup A3 \cup A2)
        BY <2>3, <3>1, CoversJoined
      <3>3. Covers(Then(Then(Then(<<Len3(len)>>, f3), f2), f1), {} \cup A3 \cup A2 \cup A1)
        BY <2>3, <3>2, CoversJoined
      <3> QED
        BY <2>3, <3>3, CoversJoined
    <2> HIDE DEF f, all
    <2>5. Covers(With(f, Step("h128", <<>>, NULL, len, 0, seed)), all)
      BY ONLY <1>2, <2>4, CoversUnread, Zenon
    <2> QED
      BY ONLY <1>1, <2>1, <2>5
  <1> QED
    BY <1>4, <1>5

LEMMA CoversAlso ==
    ASSUME NEW f, NEW g, NEW A, NEW B, Covers(f, A), Covers(g, B), NEW C, C = A \cup B
    PROVE  Covers(Then(f, g), C)
  BY CoversJoined

\* n rounds of 16 bytes each.
Mixes(f, n, in, at, secret, key, seed) ==
    f = [i \in 1 .. n |-> XXH3_mix16B(in, at + 16 * (i - 1), secret, key + 16 * (i - 1), seed)]

MixesIn(f, from, to, in, len, secret, seed) ==
    \E at \in Nat, n \in 0 .. 8, key \in Nat :
        /\ at + 16 * n <= len /\ key + 16 * n <= 136
        /\ from = at + 1 /\ to = at + 16 * n
        /\ Mixes(f, n, in, at, secret, key, seed)

LEMMA MixesCover ==
    ASSUME NEW in, NEW len \in Nat, Whole(in, len), NEW secret, Key(secret), NEW seed,
           NEW f, NEW from, NEW to, MixesIn(f, from, to, in, len, secret, seed)
    PROVE  Covers(f, from .. to)
  <1>0. PICK at \in Nat, n \in 0 .. 8, key \in Nat :
           /\ at + 16 * n <= len /\ key + 16 * n <= 136
           /\ from = at + 1 /\ to = at + 16 * n
           /\ Mixes(f, n, in, at, secret, key, seed)
    BY DEF MixesIn
  <1> DEFINE w == 16
  <1>1. Run(f, n) /\ n \in Nat /\ w \in Nat /\ w > 0
    BY <1>0 DEF Run, Mixes
  <1>2. ASSUME NEW i \in 1 .. n
        PROVE  Uses(f[i], (at + w * (i - 1) + 1) .. (at + w * (i - 1) + w))
    <2> DEFINE p == at + 16 * (i - 1)
               k == key + 16 * (i - 1)
    <2>1. p \in Nat /\ p + 16 <= len /\ k \in Nat /\ k + 16 <= 136
      BY <1>0
    <2>2. f[i] = XXH3_mix16B(in, p, secret, k, seed)
      BY <1>0 DEF Mixes
    <2> HIDE DEF p, k
    <2>3. Uses(f[i], (p + 1) .. (p + 16))
      BY <2>1, <2>2, Mix16Use
    <2> QED
      BY <2>3 DEF p
  <1>3. Pieces(f, n, at, w)
    BY <1>2 DEF Pieces
  <1> HIDE DEF w
  <1>4. Covers(f, (at + 1) .. (at + w * n))
    BY <1>1, <1>3, CoversPieces
  <1> QED
    BY <1>0, <1>4 DEF w

LEMMA Covers129to240 ==
    ASSUME NEW in, NEW len \in 129 .. 240, Whole(in, len), NEW secret, Key(secret), NEW seed
    PROVE  Covers(XXH3_len_129to240_64b(in, len, secret, seed), 1 .. len)
  <1> DEFINE n == len \div 16 - 8
             av == Mix("XXH3_avalanche", <<>>)
             f == [i \in 1 .. 8 |-> XXH3_mix16B(in, 16 * (i - 1), secret, 16 * (i - 1), seed)]
             last == XXH3_mix16B(in, len - 16, secret, 136 - 17, seed)
             g == [i \in 1 .. n |-> XXH3_mix16B(in, 16 * (i + 7), secret, 16 * (i - 1) + 3, seed)]
             b == 128 + 16 * n
             e == len - 16
  <1>1. /\ len \in Nat /\ n \in 0 .. 7 /\ b \in Nat /\ b <= len /\ len < b + 16
        /\ e \in Nat /\ e + 16 = len
    OBVIOUS
  <1>2. XXH3_len_129to240_64b(in, len, secret, seed)
          = With(Then(Then(With(Then(<<Len3(len)>>, f), av), <<last>>), g), av)
    BY DEF XXH3_len_129to240_64b, XXH3_avalanche, With, Then, XXH3_SECRET_SIZE_MIN,
           XXH3_MIDSIZE_LASTOFFSET, XXH3_MIDSIZE_STARTOFFSET
  <1>3. Covers(f, 1 .. 128)
    <2> DEFINE o == 0
               m == 8
    <2>1. Mixes(f, m, in, o, secret, o, seed)
      BY DEF Mixes
    <2>2. /\ o \in Nat /\ m \in 0 .. 8 /\ o + 16 * m <= len /\ o + 16 * m <= 136
          /\ 1 = o + 1 /\ 128 = o + 16 * m
      BY <1>1
    <2> HIDE DEF o, m, f
    <2>3. MixesIn(f, 1, 128, in, len, secret, seed)
      BY ONLY <2>1, <2>2 DEF MixesIn
    <2> QED
      BY <1>1, <2>3, MixesCover
  <1>4. Covers(g, 129 .. b)
    <2> DEFINE p == 128
               k == 3
    <2>1. Mixes(g, n, in, p, secret, k, seed)
      <3> HIDE DEF n
      <3>1. \A i \in 1 .. n : p + 16 * (i - 1) = 16 * (i + 7) /\ k + 16 * (i - 1) = 16 * (i - 1) + 3
        BY <1>1
      <3> QED
        BY <3>1 DEF Mixes
    <2>2. /\ n \in 0 .. 8 /\ p \in Nat /\ k \in Nat /\ p + 16 * n <= len /\ k + 16 * n <= 136
          /\ 129 = p + 1 /\ b = p + 16 * n
      BY <1>1
    <2> HIDE DEF n, p, k, g, b
    <2>3. MixesIn(g, 129, b, in, len, secret, seed)
      BY <2>1, <2>2 DEF MixesIn
    <2> QED
      BY <1>1, <2>3, MixesCover
  <1>5. Uses(last, (e + 1) .. len)
    <2> DEFINE k == 136 - 17
    <2>1. k \in Nat /\ k + 16 <= 136 /\ e + 16 <= len
      BY <1>1
    <2> HIDE DEF k, e
    <2>2. Uses(XXH3_mix16B(in, e, secret, k, seed), (e + 1) .. (e + 16))
      BY <1>1, <2>1, Mix16Use
    <2> QED
      BY <1>1, <2>2 DEF k, e
  <1>6. Uses(av, {}) /\ Covers(<<Len3(len)>>, {})
    BY UsesUnkeyed, NoBytes, LenUse
  <1> HIDE DEF f, g, last, av, n
  <1>7. Covers(Then(<<Len3(len)>>, f), {} \cup 1 .. 128)
    BY <1>3, <1>6, CoversJoined
  <1>8. Covers(With(Then(<<Len3(len)>>, f), av), {} \cup 1 .. 128)
    BY <1>6, <1>7, CoversUnread
  <1>9. Covers(Then(With(Then(<<Len3(len)>>, f), av), <<last>>), ({} \cup 1 .. 128) \cup ((e + 1) .. len))
    BY <1>5, <1>8, CoversJoined, CoversOne
  <1>10. ({} \cup 1 .. 128) \cup ((e + 1) .. len) \cup (129 .. b) = 1 .. len
    <2> HIDE DEF b, e
    <2> QED
      BY <1>1
  <1> HIDE DEF e, b
  <1>11. Covers(Then(Then(With(Then(<<Len3(len)>>, f), av), <<last>>), g), 1 .. len)
    BY <1>4, <1>9, <1>10, CoversAlso
  <1> QED
    BY <1>2, <1>6, <1>11, CoversUnread

\* n rounds of 32 bytes each.
Rounds(f, n, in, at, secret, key, seed) ==
    f = [j \in 1 .. n |-> XXH128_mix32B(in, at + 32 * (j - 1), at + 32 * (j - 1) + 16,
                                        secret, key + 32 * (j - 1), seed)]
RoundsIn(f, from, to, in, len, secret, seed) ==
    \E at \in Nat, n \in 0 .. 4, key \in Nat :
        /\ at + 32 * n <= len /\ key + 32 * n <= 136
        /\ from = at + 1 /\ to = at + 32 * n
        /\ Rounds(f, n, in, at, secret, key, seed)

LEMMA RoundsCover ==
    ASSUME NEW in, NEW len \in Nat, Whole(in, len), NEW secret, Key(secret), NEW seed,
           NEW f, NEW from, NEW to, RoundsIn(f, from, to, in, len, secret, seed)
    PROVE  Covers(Chain(f, 4), from .. to)
  <1>0. PICK at \in Nat, n \in 0 .. 4, key \in Nat :
           /\ at + 32 * n <= len /\ key + 32 * n <= 136
           /\ from = at + 1 /\ to = at + 32 * n
           /\ Rounds(f, n, in, at, secret, key, seed)
    BY DEF RoundsIn
  <1> DEFINE d == 4
             R == [j \in 1 .. n |-> (at + 32 * (j - 1) + 1) .. (at + 32 * (j - 1) + 32)]
  <1>1. Run(f, n) /\ n \in Nat /\ d \in Nat /\ d > 0
    BY <1>0 DEF Run, Rounds
  <1>2. ASSUME NEW j \in 1 .. n PROVE Run(f[j], d) /\ Covers(f[j], R[j])
    <2> DEFINE p == at + 32 * (j - 1)
               q == p + 16
               k == key + 32 * (j - 1)
    <2>1. /\ p \in Nat /\ p + 16 <= len /\ q \in Nat /\ q + 16 <= len /\ k \in Nat /\ k + 32 <= 136
          /\ ((p + 1) .. (p + 16)) \cup ((q + 1) .. (q + 16)) = (p + 1) .. (p + 32)
      BY <1>0
    <2>2. f[j] = XXH128_mix32B(in, p, q, secret, k, seed) /\ R[j] = (p + 1) .. (p + 32)
      BY <1>0 DEF Rounds
    <2> HIDE DEF p, q, k
    <2>3. /\ Covers(XXH128_mix32B(in, p, q, secret, k, seed),
                    ((p + 1) .. (p + 16)) \cup ((q + 1) .. (q + 16)))
          /\ Run(XXH128_mix32B(in, p, q, secret, k, seed), 4)
      BY <2>1, Mix32Covers
    <2> QED
      BY <2>1, <2>2, <2>3
  <1>3. UNION {R[j] : j \in 1 .. n} = (at + 1) .. (at + 32 * n)
    <2>1. ASSUME NEW x \in (at + 1) .. (at + 32 * n) PROVE \E j \in 1 .. n : x \in R[j]
      <3> DEFINE j == (x - at - 1) \div 32 + 1
      <3>1. j \in 1 .. n /\ x \in (at + 32 * (j - 1) + 1) .. (at + 32 * (j - 1) + 32)
        OBVIOUS
      <3> HIDE DEF j
      <3> QED
        BY <3>1
    <2>2. \A j \in 1 .. n : R[j] \subseteq (at + 1) .. (at + 32 * n)
      OBVIOUS
    <2> QED
      BY <2>1, <2>2
  <1> HIDE DEF d, R
  <1>4. Covers(Chain(f, d), UNION {R[j] : j \in 1 .. n})
    <2>1. \A b \in 1 .. n : Run(f[b], d) /\ Covers(f[b], R[b])
      BY <1>2
    <2> QED
      BY ONLY <1>1, <2>1, CoversChain
  <1> QED
    BY <1>0, <1>3, <1>4 DEF d

LEMMA Covers129to240of128 ==
    ASSUME NEW in, NEW len \in 129 .. 240, Whole(in, len), NEW secret, Key(secret), NEW seed
    PROVE  Covers(XXH3_len_129to240_128b(in, len, secret, seed), 1 .. len)
  <1> DEFINE n == (len - 128) \div 32
             av == Mix("XXH3_avalanche", <<>>)
             hh == Step("h128", <<>>, NULL, len, 0, seed)
             f == [j \in 1 .. 4 |-> XXH128_mix32B(in, 32 * j - 32, 32 * j - 16, secret,
                                                  32 * (j - 1), seed)]
             g == [j \in 1 .. n |-> XXH128_mix32B(in, (128 + 32 * j) - 32, (128 + 32 * j) - 16,
                                                  secret, 3 + 32 * (j - 1), seed)]
             last == XXH128_mix32B(in, len - 16, len - 32, secret, 136 - 17 - 16, -seed)
             b == 128 + 32 * n
             B == ((len - 15) .. len) \cup ((len - 31) .. (len - 16))
  <1>1. len \in Nat /\ n \in 0 .. 3 /\ b \in Nat /\ b <= len /\ len < b + 32
    OBVIOUS
  <1>2. XXH3_len_129to240_128b(in, len, secret, seed)
          = With(Then(Then(With(Then(<<Len3(len)>>, Chain(f, 4)), av), Chain(g, 4)), last), hh)
    BY DEF XXH3_len_129to240_128b, XXH3_avalanche, With, Then, XXH3_SECRET_SIZE_MIN, Finish128,
           XXH3_MIDSIZE_LASTOFFSET, XXH3_MIDSIZE_STARTOFFSET
  <1>3. Covers(Chain(f, 4), 1 .. 128)
    <2> DEFINE o == 0
               m == 4
    <2>1. Rounds(f, m, in, o, secret, o, seed)
      <3>1. \A j \in 1 .. m : /\ o + 32 * (j - 1) = 32 * j - 32 /\ o + 32 * (j - 1) + 16 = 32 * j - 16
                              /\ o + 32 * (j - 1) = 32 * (j - 1)
        OBVIOUS
      <3> QED
        BY <3>1 DEF Rounds
    <2>2. /\ o \in Nat /\ m \in 0 .. 4 /\ o + 32 * m <= len /\ o + 32 * m <= 136
          /\ 1 = o + 1 /\ 128 = o + 32 * m
      BY <1>1
    <2> HIDE DEF o, m, f
    <2>3. RoundsIn(f, 1, 128, in, len, secret, seed)
      BY ONLY <2>1, <2>2 DEF RoundsIn
    <2> QED
      BY <1>1, <2>3, RoundsCover
  <1>4. Covers(Chain(g, 4), 129 .. b)
    <2> DEFINE p == 128
               k == 3
    <2>1. Rounds(g, n, in, p, secret, k, seed)
      <3> HIDE DEF n
      <3>1. \A j \in 1 .. n : /\ p + 32 * (j - 1) = (128 + 32 * j) - 32
                              /\ p + 32 * (j - 1) + 16 = (128 + 32 * j) - 16
        BY <1>1
      <3> QED
        BY <3>1 DEF Rounds
    <2>2. /\ n \in 0 .. 4 /\ p \in Nat /\ k \in Nat /\ p + 32 * n <= len /\ k + 32 * n <= 136
          /\ 129 = p + 1 /\ b = p + 32 * n
      BY <1>1
    <2> HIDE DEF n, p, k, g, b
    <2>3. RoundsIn(g, 129, b, in, len, secret, seed)
      BY <2>1, <2>2 DEF RoundsIn
    <2> QED
      BY <1>1, <2>3, RoundsCover
  <1>5. Covers(last, B)
    <2> DEFINE p == len - 16
               q == len - 32
               k == 136 - 17 - 16
               t == -seed
    <2>1. /\ p \in Nat /\ p + 16 <= len /\ q \in Nat /\ q + 16 <= len /\ k \in Nat /\ k + 32 <= 136
          /\ ((p + 1) .. (p + 16)) \cup ((q + 1) .. (q + 16)) = B
      BY <1>1
    <2> HIDE DEF p, q, k, t, B
    <2>2. Covers(XXH128_mix32B(in, p, q, secret, k, t),
                 ((p + 1) .. (p + 16)) \cup ((q + 1) .. (q + 16)))
      BY <1>1, <2>1, Mix32Covers
    <2> QED
      BY <2>1, <2>2 DEF p, q, k, t
  <1>6. Uses(av, {}) /\ Uses(hh, {}) /\ Covers(<<Len3(len)>>, {})
    BY UsesUnkeyed, NoBytes, LenUse
  <1>7. (({} \cup 1 .. 128) \cup (129 .. b)) \cup B = 1 .. len
    <2> HIDE DEF b
    <2> QED
      BY <1>1
  <1> DEFINE cf == Chain(f, 4)
             cg == Chain(g, 4)
  <1>8. Covers(cf, 1 .. 128) /\ Covers(cg, 129 .. b)
    BY <1>3, <1>4
  <1> HIDE DEF f, g, cf, cg, last, av, hh, n, b, B
  <1>9. Covers(Then(<<Len3(len)>>, cf), {} \cup 1 .. 128)
    BY <1>6, <1>8, CoversJoined
  <1>10. Covers(With(Then(<<Len3(len)>>, cf), av), {} \cup 1 .. 128)
    BY <1>6, <1>9, CoversUnread
  <1>11. Covers(Then(With(Then(<<Len3(len)>>, cf), av), cg), ({} \cup 1 .. 128) \cup (129 .. b))
    BY <1>8, <1>10, CoversJoined
  <1>12. Covers(Then(Then(With(Then(<<Len3(len)>>, cf), av), cg), last), 1 .. len)
    BY <1>5, <1>7, <1>11, CoversAlso
  <1> QED
    BY <1>2, <1>6, <1>12, CoversUnread DEF cf, cg

LEMMA ShortCovers ==
    ASSUME NEW in, NEW len \in 0 .. 240, Whole(in, len), NEW secret, Key(secret), NEW seed, NEW long
    PROVE  /\ Covers(XXH3_64bits_internal(in, len, seed, secret, long), 1 .. len)
           /\ Covers(XXH3_128bits_internal(in, len, seed, secret, long), 1 .. len)
  <1> DEFINE h == XXH3_64bits_internal(in, len, seed, secret, long)
             g == XXH3_128bits_internal(in, len, seed, secret, long)
  <1>1. CASE len \in 0 .. 16
    <2>1. len <= 16 /\ ~(len \in 17 .. 128) /\ ~(len \in 129 .. 240) /\ ~(len > 240)
      BY <1>1
    <2>2. h = XXH3_len_0to16_64b(in, len, secret, seed) /\ g = XXH3_len_0to16_128b(in, len, secret, seed)
      BY <2>1 DEF XXH3_64bits_internal, XXH3_128bits_internal, XXH3_MIDSIZE_MAX
    <2>3. Covers(XXH3_len_0to16_64b(in, len, secret, seed), 1 .. len)
          /\ Covers(XXH3_len_0to16_128b(in, len, secret, seed), 1 .. len)
      BY <1>1, Covers0to16
    <2> QED
      BY <2>2, <2>3
  <1>2. CASE len \in 17 .. 128
    <2>1. ~(len <= 16) /\ ~(len \in 129 .. 240) /\ ~(len > 240)
      BY <1>2
    <2>2. h = XXH3_len_17to128_64b(in, len, secret, seed) /\ g = XXH3_len_17to128_128b(in, len, secret, seed)
      BY <1>2, <2>1 DEF XXH3_64bits_internal, XXH3_128bits_internal, XXH3_MIDSIZE_MAX
    <2>3. Covers(XXH3_len_17to128_64b(in, len, secret, seed), 1 .. len)
          /\ Covers(XXH3_len_17to128_128b(in, len, secret, seed), 1 .. len)
      BY <1>2, Covers17to128
    <2> QED
      BY <2>2, <2>3
  <1>3. CASE len \in 129 .. 240
    <2>1. ~(len <= 16) /\ ~(len \in 17 .. 128) /\ ~(len > 240)
      BY <1>3
    <2>2. h = XXH3_len_129to240_64b(in, len, secret, seed) /\ g = XXH3_len_129to240_128b(in, len, secret, seed)
      BY <1>3, <2>1 DEF XXH3_64bits_internal, XXH3_128bits_internal, XXH3_MIDSIZE_MAX
    <2>3. Covers(XXH3_len_129to240_64b(in, len, secret, seed), 1 .. len)
      BY <1>3, Covers129to240
    <2>4. Covers(XXH3_len_129to240_128b(in, len, secret, seed), 1 .. len)
      BY <1>3, Covers129to240of128
    <2> QED
      BY <2>2, <2>3, <2>4
  <1>4. len \in 0 .. 16 \/ len \in 17 .. 128 \/ len \in 129 .. 240
    OBVIOUS
  <1> QED
    BY <1>1, <1>2, <1>3, <1>4

(***************************************************************************)
(* XXH3 of long messages: the program of stripes and scrambles, the last   *)
(* stripe, and the merge of the accumulators.                              *)
(***************************************************************************)
LEMMA TextSet ==
    ASSUME NEW at \in Int, NEW n \in Nat
    PROVE  ToSet(Text(at, n)) = (at + 1) .. (at + n)
  <1>1. \A x \in (at + 1) .. (at + n) : x - at \in 1 .. n /\ at + (x - at) = x
    OBVIOUS
  <1> QED
    BY <1>1 DEF ToSet, Text

\* A stripe comes before the n-th as its step comes before that many steps.
LEMMA Before ==
    ASSUME NEW P \in Nat, NEW K \in Nat, NEW r \in Nat, r < P, NEW q \in Nat, NEW c \in Nat, c < P
    PROVE  (P + 1) * q + c < (P + 1) * K + r <=> P * q + c < P * K + r
  <1> DEFINE x == P * q
             y == P * K
  <1>1. /\ (P + 1) * q = x + q /\ (P + 1) * K = y + K
        /\ x \in Nat /\ y \in Nat
    OBVIOUS
  <1>2. q < K => x + P <= y
    <2>1. q < K => P * (q + 1) <= P * K
      OBVIOUS
    <2>2. P * (q + 1) = P * q + P
      OBVIOUS
    <2> QED
      BY <2>1, <2>2
  <1>3. K < q => y + P <= x
    <2>1. K < q => P * (K + 1) <= P * q
      OBVIOUS
    <2>2. P * (K + 1) = P * K + P
      OBVIOUS
    <2> QED
      BY <2>1, <2>2
  <1>4. q = K => x = y
    OBVIOUS
  <1> HIDE DEF x, y
  <1>5. x + q + c < y + K + r <=> x + c < y + r
    BY <1>1, <1>2, <1>3, <1>4
  <1> QED
    BY <1>1, <1>5 DEF x, y

\* A secret of the size that the hash is called with.
Sound(secret, size) == Key(secret) /\ size = SecretSize(secret) /\ size \in Nat /\ size >= 136

LEMMA SoundUse ==
    ASSUME NEW secret, NEW size, Sound(secret, size), NEW op, NEW bytes, NEW at \in Nat, NEW n \in Nat,
           at + n <= size, NEW seed
    PROVE  Uses(Step(op, bytes, secret, at, n, seed), ToSet(bytes))
  <1>1. size \in Int /\ SecretSize(secret) \in Int /\ Usable(secret, size)
    BY DEF Sound, Key, Usable
  <1> QED
    BY <1>1, UsesKeyed

LEMMA StripeUse ==
    ASSUME NEW secret, NEW size, Sound(secret, size), NEW P, P = StripesPerBlock(size),
           NEW c \in Nat, c < P, NEW pos \in Nat
    PROVE  Uses(Accumulate(pos, secret, 8 * c), (pos + 1) .. (pos + 64))
  <1> DEFINE n == 64
             key == 8 * c
             text == Text(pos, n)
  <1>1. n \in Nat /\ n = 64 /\ key \in Nat /\ key + n <= size
    BY DEF Sound, StripesPerBlock, XXH_STRIPE_LEN, XXH_SECRET_CONSUME_RATE
  <1>2. Accumulate(pos, secret, key) = Step("accumulate", text, secret, key, n, 0)
    BY DEF Accumulate
  <1> HIDE DEF n, key
  <1>3. ToSet(text) = (pos + 1) .. (pos + n)
    BY <1>1, TextSet
  <1> HIDE DEF text
  <1>4. Uses(Step("accumulate", text, secret, key, n, 0), ToSet(text))
    BY <1>1, SoundUse
  <1> QED
    BY <1>1, <1>2, <1>3, <1>4 DEF key

LEMMA ScrambleUse ==
    ASSUME NEW secret, NEW size, Sound(secret, size), NEW limit, limit = size - 64
    PROVE  Uses(Scramble3(secret, limit), {})
  <1> DEFINE n == 64
             none == <<>>
  <1>1. n \in Nat /\ limit \in Nat /\ limit + n <= size
    BY DEF Sound
  <1>2. Scramble3(secret, limit) = Step("scramble", none, secret, limit, n, 0) /\ ToSet(none) = {}
    BY NoBytes DEF Scramble3
  <1> HIDE DEF n, none
  <1>3. Uses(Step("scramble", none, secret, limit, n, 0), ToSet(none))
    BY <1>1, SoundUse
  <1> QED
    BY <1>2, <1>3

\* The accumulators after N stripes: all of their bytes, whatever the blocks.
LEMMA Accs3Covers ==
    ASSUME NEW secret, NEW size, Sound(secret, size), NEW P, P = StripesPerBlock(size),
           NEW limit, limit = size - 64, NEW N \in Nat
    PROVE  Covers(Accs3(secret, limit, P, N), 1 .. (64 * N))
  <1> DEFINE d == P + 1
             K == N \div P
             r == N % P
             m == N + K
             E == Program(secret, limit, P)
             g == Start(E, m)
             B == 1 .. (64 * N)
  <1>1. /\ P \in Nat /\ P > 0 /\ d \in Nat /\ d > 0 /\ d = P + 1
        /\ K \in Nat /\ r \in Nat /\ r < P /\ N = P * K + r /\ m \in Nat /\ m = (P + 1) * K + r
    <2>1. P \in Nat /\ P > 0
      BY DEF Sound, StripesPerBlock, XXH_STRIPE_LEN, XXH_SECRET_CONSUME_RATE
    <2>2. K \in Nat /\ r \in Nat /\ r < P /\ N = P * K + r
      BY <2>1, DivMod
    <2> HIDE DEF K, r
    <2> QED
      BY <2>1, <2>2
  <1> HIDE DEF d, K, r, m
  <1>2. Run(g, m) /\ \A i \in 1 .. m : g[i] = E[i]
    BY <1>1, StartRun
  <1> HIDE DEF g, B
  <1>3. ASSUME NEW q \in Nat, NEW c \in Nat, c <= P, NEW i, After3(i, P, q, c), i \in 1 .. m
        PROVE  Keeps(g[i]) /\ ToSet(g[i].bytes) \subseteq B
    <2> DEFINE pos == 64 * (P * q + c)
               key == 8 * c
    <2>1. g[i] = IF c = P THEN Scramble3(secret, limit) ELSE Accumulate(pos, secret, key)
      BY <1>1, <1>2, <1>3, ProgramSteps
    <2>2. CASE c = P
      <3>1. Uses(g[i], {})
        BY <2>1, <2>2, ScrambleUse
      <3> QED
        BY <3>1 DEF Uses
    <2>3. CASE c < P
      <3>1. (P + 1) * q + c < (P + 1) * K + r
        BY <1>1, <1>3 DEF After3
      <3>2. P * q + c < P * K + r
        BY <1>1, <2>3, <3>1, Before
      <3>3. pos \in Nat /\ pos + 64 <= 64 * N
        <4> DEFINE u == P * q + c
        <4>1. u \in Nat /\ u < N
          BY <1>1, <3>2
        <4> HIDE DEF u
        <4>2. 64 * u + 64 <= 64 * N /\ 64 * u \in Nat
          BY <4>1
        <4> QED
          BY <4>2 DEF u
      <3> HIDE DEF pos
      <3>4. Uses(Accumulate(pos, secret, key), (pos + 1) .. (pos + 64))
        BY <1>1, <2>3, <3>3, StripeUse
      <3>5. g[i] = Accumulate(pos, secret, key)
        BY <2>1, <2>3
      <3>6. (pos + 1) .. (pos + 64) \subseteq B
        BY <3>3 DEF B
      <3> QED
        BY <3>4, <3>5, <3>6 DEF Uses
    <2> QED
      BY <1>1, <1>3, <2>2, <2>3
  <1>4. ASSUME NEW i \in 1 .. m PROVE Keeps(g[i]) /\ ToSet(g[i].bytes) \subseteq B
    <2> DEFINE j == i - 1
               q == j \div d
               c == j % d
    <2>1. j \in Nat /\ i = j + 1
      BY <1>1
    <2> HIDE DEF j
    <2>2. q \in Nat /\ c \in Nat /\ c < d /\ j = d * q + c
      BY <1>1, <2>1, DivMod
    <2> HIDE DEF q, c
    <2>3. After3(i, P, q, c) /\ c <= P
      BY <1>1, <2>1, <2>2 DEF After3
    <2> QED
      BY <1>3, <2>2, <2>3
  <1>5. ASSUME NEW x \in B PROVE \E i \in 1 .. m : x \in ToSet(g[i].bytes)
    <2> DEFINE j == x - 1
               u == j \div 64
               q == u \div P
               c == u % P
               i == (P + 1) * q + c + 1
               pos == 64 * (P * q + c)
               key == 8 * c
    <2>1. u \in Nat /\ u < N /\ x \in (64 * u + 1) .. (64 * u + 64)
      BY DEF B
    <2> HIDE DEF j, u
    <2>2. q \in Nat /\ c \in Nat /\ c < P /\ u = P * q + c
      BY <1>1, <2>1, DivMod
    <2> HIDE DEF q, c
    <2>3. P * q + c < P * K + r
      BY <1>1, <2>1, <2>2
    <2>4. (P + 1) * q + c < (P + 1) * K + r
      BY <1>1, <2>2, <2>3, Before
    <2>5. i \in 1 .. m
      <3>1. (P + 1) * q \in Nat
        BY <1>1, <2>2
      <3> QED
        BY <1>1, <2>2, <2>4, <3>1
    <2>6. After3(i, P, q, c) /\ ~(c = P) /\ c <= P
      BY <2>2, <1>1 DEF After3
    <2>7. pos = 64 * u /\ pos \in Nat
      BY <2>1, <2>2
    <2> HIDE DEF i
    <2>8. g[i] = Accumulate(pos, secret, key)
      <3>1. E[i] = IF c = P THEN Scramble3(secret, limit) ELSE Accumulate(pos, secret, key)
        BY <1>1, <2>2, <2>6, ProgramSteps
      <3>2. g[i] = E[i]
        BY <1>2, <2>5
      <3> HIDE DEF pos, key, E
      <3> QED
        BY <2>6, <3>1, <3>2
    <2> HIDE DEF pos
    <2>9. Uses(Accumulate(pos, secret, key), (pos + 1) .. (pos + 64))
      BY <1>1, <2>2, <2>7, StripeUse
    <2> QED
      BY <2>1, <2>5, <2>7, <2>8, <2>9 DEF Uses
  <1>6. Covers(g, B)
    BY <1>1, <1>2, <1>4, <1>5, CoversEach
  <1>7. Covers(XXH3_INIT_ACC, {})
    BY UsesUnkeyed, NoBytes, CoversOne DEF XXH3_INIT_ACC
  <1>8. Covers(Then(XXH3_INIT_ACC, g), {} \cup B)
    BY <1>6, <1>7, CoversJoined
  <1>9. {} \cup B = B /\ Accs3(secret, limit, P, N) = Then(XXH3_INIT_ACC, g)
    BY DEF Accs3, Steps3, g, m, K, E
  <1> QED
    BY <1>8, <1>9 DEF B

\* The four windows of a merge.
LEMMA MergeCovers ==
    ASSUME NEW secret, NEW size, Sound(secret, size), NEW key \in Nat, key + 64 <= size, NEW len,
           NEW acc, NEW A, Covers(acc, A)
    PROVE  Covers(XXH3_mergeAccs(acc, secret, key, len), A)
  <1> DEFINE n == 4
             f == [i \in 1 .. n |-> Step("mix2Accs", <<>>, secret, key + 16 * (i - 1), 16, 0)]
             none == <<>>
             e == Mix("XXH3_avalanche", none)
  <1>1. XXH3_mergeAccs(acc, secret, key, len) = With(Then(Then(acc, <<Len3(len)>>), f), e)
    BY Zenon DEF XXH3_mergeAccs, XXH3_avalanche, With, Then
  <1>2. n \in Nat /\ Run(f, n) /\ ToSet(none) = {}
    BY NoBytes DEF Run
  <1>3. ASSUME NEW i \in 1 .. n PROVE Keeps(f[i]) /\ ToSet(f[i].bytes) \subseteq {}
    <2> DEFINE at == key + 16 * (i - 1)
               w == 16
    <2>1. at \in Nat /\ w \in Nat /\ at + w <= size
      BY DEF Sound
    <2>2. f[i] = Step("mix2Accs", none, secret, at, w, 0)
      OBVIOUS
    <2> HIDE DEF at, w, none, f
    <2>3. Uses(Step("mix2Accs", none, secret, at, w, 0), ToSet(none))
      BY <2>1, SoundUse
    <2> QED
      BY <1>2, <2>2, <2>3 DEF Uses
  <1> HIDE DEF n, f
  <1>4. Covers(f, {})
    BY <1>2, <1>3, CoversEach
  <1>5. Uses(e, {})
    BY <1>2, UsesUnkeyed
  <1> HIDE DEF none, e
  <1>6. Covers(Then(acc, <<Len3(len)>>), A)
    BY LenUse, CoversAlso
  <1>7. Covers(Then(Then(acc, <<Len3(len)>>), f), A)
    BY <1>4, <1>6, CoversAlso
  <1> QED
    BY <1>1, <1>5, <1>7, CoversUnread

\* The last 64 bytes are the rest, and may overlap the stripe before.
LEMMA LoopCovers ==
    ASSUME NEW secret, NEW size, Sound(secret, size), NEW in, NEW len \in Nat, len > 240, Whole(in, len)
    PROVE  Covers(XXH3_hashLong_internal_loop(in, len, secret, size), 1 .. len)
  <1> DEFINE P == StripesPerBlock(size)
             limit == size - 64
             N == (len - 1) \div 64
             acc == Accs3(secret, limit, P, N)
             from == len - 64
             key == limit - 7
             n == 64
             bytes == Bytes(in, from, n)
             last == Step("accumulate", bytes, secret, key, n, 0)
  <1>1. /\ P \in Nat /\ P > 0 /\ N \in Nat /\ 64 * N < len /\ len <= 64 * N + 64
        /\ from \in Nat /\ n \in Nat /\ from + n <= len /\ n = 64 /\ from + n = len
        /\ key \in Nat /\ key + n <= size
    BY DEF Sound, StripesPerBlock, XXH_STRIPE_LEN, XXH_SECRET_CONSUME_RATE
  <1>2. XXH3_hashLong_internal_loop(in, len, secret, size)
          = XXH3_accumulate_512(acc, in, from, secret, key)
    <2>1. Holds(in, 0, len, 0) /\ len > 0
      BY DEF Whole
    <2> QED
      BY <1>1, <2>1, HashLong
  <1>3. XXH3_accumulate_512(acc, in, from, secret, key) = With(acc, last)
    BY Zenon DEF XXH3_accumulate_512, XXH3_scalarRounds, XXH_STRIPE_LEN, With
  <1>4. Covers(acc, 1 .. (64 * N))
    <2> HIDE DEF N
    <2> QED
      BY <1>1, Accs3Covers
  <1> HIDE DEF acc, from, key, n
  <1>5. ToSet(bytes) = (from + 1) .. (from + n)
    BY <1>1, ReadsPart
  <1>6. Uses(last, ToSet(bytes))
    <2> HIDE DEF bytes
    <2> QED
      BY <1>1, SoundUse
  <1> HIDE DEF last, bytes
  <1>7. (1 .. (64 * N)) \cup ToSet(bytes) = 1 .. len
    <2> HIDE DEF N
    <2> QED
      BY <1>1, <1>5
  <1> HIDE DEF N, P, limit
  <1>8. Covers(With(acc, last), (1 .. (64 * N)) \cup ToSet(bytes))
    BY <1>4, <1>6, CoversAppended
  <1> QED
    BY <1>2, <1>3, <1>7, <1>8

LEMMA LongCovers ==
    ASSUME NEW secret, NEW size, Sound(secret, size), NEW in, NEW len \in Nat, len > 240, Whole(in, len)
    PROVE  /\ Covers(XXH3_hashLong_64b_internal(in, len, secret, size), 1 .. len)
           /\ Covers(XXH3_hashLong_128b_internal(in, len, secret, size), 1 .. len)
  <1> DEFINE acc == XXH3_hashLong_internal_loop(in, len, secret, size)
             B == 1 .. len
             a == 11
             b == size - 64 - 11
             low == XXH3_mergeAccs(acc, secret, a, len)
             high == XXH3_mergeAccs(<<>>, secret, b, len)
  <1>1. Covers(acc, B)
    BY LoopCovers
  <1>2. a \in Nat /\ a + 64 <= size /\ b \in Nat /\ b + 64 <= size
    BY DEF Sound
  <1>3. /\ XXH3_hashLong_64b_internal(in, len, secret, size) = low
        /\ XXH3_hashLong_128b_internal(in, len, secret, size) = Then(low, high)
    BY Zenon DEF XXH3_hashLong_64b_internal, XXH3_hashLong_128b_internal, XXH3_finalizeLong_64b,
       XXH3_finalizeLong_128b, XXH_STRIPE_LEN, XXH_SECRET_MERGEACCS_START, Then
  <1> HIDE DEF acc, B, a, b
  <1>4. Covers(low, B)
    BY <1>1, <1>2, MergeCovers
  <1>5. Covers(high, {})
    BY <1>2, CoversNothing, MergeCovers
  <1> HIDE DEF low, high
  <1>6. Covers(Then(low, high), B)
    BY <1>4, <1>5, CoversAlso
  <1> QED
    BY <1>3, <1>4, <1>6 DEF B

(***************************************************************************)
(* The secrets of the modes: the derived ones have 192 bytes, and the one  *)
(* of the caller at least 136, or the reset fails.                         *)
(***************************************************************************)
Supplied(m) == m.api \in {"secret", "both"} => m.secret = UserSecret

LEMMA DerivedSecret ==
    ASSUME NEW seed
    PROVE  Sound(XXH3_initCustomSecret(seed), XXH_SECRET_DEFAULT_SIZE)
  <1> DEFINE k == XXH3_initCustomSecret(seed)
  <1>1. k # NULL /\ k # Garbage /\ k # UserSecret
    <2>1. k[1] = "kSecret" /\ NULL[1] = "NULL" /\ Garbage[1] = "garbage" /\ UserSecret[1] = "user"
      BY DEF XXH3_initCustomSecret, NULL, Garbage, UserSecret
    <2> HIDE DEF k
    <2> QED
      BY <2>1
  <1> HIDE DEF k
  <1>2. SecretSize(k) = 192
    BY <1>1 DEF SecretSize, XXH_SECRET_DEFAULT_SIZE
  <1>3. Sound(k, XXH_SECRET_DEFAULT_SIZE)
    BY <1>1, <1>2 DEF Sound, Key, Usable, XXH_SECRET_DEFAULT_SIZE
  <1> QED
    BY <1>3 DEF k

LEMMA SuppliedSecret == Sound(UserSecret, UserSecretSize)
  <1>1. UserSecret # NULL /\ UserSecret # Garbage
    <2>1. UserSecret[1] = "user" /\ NULL[1] = "NULL" /\ Garbage[1] = "garbage"
      BY DEF NULL, Garbage, UserSecret
    <2> QED
      BY <2>1
  <1>2. SecretSize(UserSecret) = UserSecretSize
    BY DEF SecretSize
  <1>3. UserSecretSize \in Nat /\ UserSecretSize >= 136
    BY Xxh3Assumption DEF XXH3_SECRET_SIZE_MIN
  <1> QED
    BY <1>1, <1>2, <1>3 DEF Sound, Key, Usable

LEMMA ModeSecret ==
    ASSUME NEW m, m.api \in Modes, Supplied(m)
    PROVE  Sound(SecretIn(m), SizeIn(m)) /\ Sound(XXH3_kSecret, XXH_SECRET_DEFAULT_SIZE)
  <1>1. CASE m.api \in {"default", "seed"}
    <2>1. SecretIn(m) = XXH3_initCustomSecret(m.seed) /\ SizeIn(m) = XXH_SECRET_DEFAULT_SIZE
      BY <1>1 DEF SecretIn, SizeIn
    <2> QED
      BY <2>1, DerivedSecret DEF XXH3_kSecret
  <1>2. CASE m.api \in {"secret", "both"}
    <2>1. SecretIn(m) = UserSecret /\ SizeIn(m) = UserSecretSize
      BY <1>2 DEF SecretIn, SizeIn, Supplied
    <2> QED
      BY <2>1, DerivedSecret, SuppliedSecret DEF XXH3_kSecret
  <1> QED
    BY <1>1, <1>2 DEF Modes

\* The hash of a message of any length, in any mode.
LEMMA Hash3Covers ==
    ASSUME NEW m, m.api \in Modes, Supplied(m), NEW in, NEW len \in Nat, Whole(in, len)
    PROVE  Covers(Hash64(in, len, m), 1 .. len) /\ Covers(Hash128(in, len, m), 1 .. len)
  <1> DEFINE secret == SecretIn(m)
             size == SizeIn(m)
             seed == IF UseSeedIn(m) THEN m.seed ELSE 0
             key == IF UseSeedIn(m) THEN XXH3_kSecret ELSE SecretIn(m)
             f == XXH3_64bits_internal(in, len, seed, key, NullFunction)
             g == XXH3_128bits_internal(in, len, seed, key, NullFunction)
  <1>1. Sound(secret, size) /\ Sound(XXH3_kSecret, XXH_SECRET_DEFAULT_SIZE)
    BY ModeSecret
  <1>2. Key(key)
    BY <1>1 DEF Sound
  <1>3. CASE len <= 240
    <2>1. Hash64(in, len, m) = f /\ Hash128(in, len, m) = g
      BY <1>3, Zenon DEF Hash64, Hash128
    <2> HIDE DEF seed, key
    <2>2. len \in 0 .. 240
      BY <1>3
    <2>3. Covers(f, 1 .. len) /\ Covers(g, 1 .. len)
      BY <1>2, <2>2, ShortCovers
    <2> QED
      BY <2>1, <2>3
  <1>4. CASE len > 240
    <2>1. ~(len <= 240)
      BY <1>4
    <2>2. /\ Hash64(in, len, m) = XXH3_hashLong_64b_internal(in, len, secret, size)
          /\ Hash128(in, len, m) = XXH3_hashLong_128b_internal(in, len, secret, size)
      BY <2>1, Zenon DEF Hash64, Hash128
    <2> HIDE DEF secret, size
    <2> QED
      BY <1>1, <1>4, <2>2, LongCovers
  <1> QED
    BY <1>3, <1>4

(***************************************************************************)
(* The streams.  A reset with a secret of the caller succeeds only if      *)
(* there is one.                                                           *)
(***************************************************************************)
CoverageInv == StreamInv /\ (ok /\ alg = "XXH3" => Supplied(mode))

LEMMA CoverageInit == Init => CoverageInv
  <1>1. Init => ok = FALSE
    BY DEF Init
  <1> QED
    BY <1>1, StreamInit DEF CoverageInv

LEMMA CoverageReset == Reset /\ StreamInv => (ok /\ alg = "XXH3" => Supplied(mode))'
  <1> SUFFICES ASSUME Reset, StreamInv, ok', alg' = "XXH3" PROVE Supplied(mode')
    BY DEF Supplied
  <1>1. ASSUME NEW seed \in Seeds, ResetSmall(seed) PROVE Supplied(mode')
    BY <1>1, ModeFields DEF ResetSmall, Restart, Supplied
  <1>2. CASE ResetDefault
    BY <1>2, ModeFields DEF ResetDefault, Restart, Supplied
  <1>3. ASSUME NEW seed \in Seeds, ResetWithSeed(seed) PROVE Supplied(mode')
    BY <1>3, ModeFields DEF ResetWithSeed, Restart, Supplied
  <1>4. ASSUME NEW secret \in {NULL, UserSecret},
               NEW size \in {XXH3_SECRET_SIZE_MIN - 1, UserSecretSize}, ResetWithSecret(secret, size)
        PROVE  Supplied(mode')
    <2> DEFINE r == XXH3_64bits_reset_withSecret(s, secret, size)
    <2>1. Restart(r.state, Mode("secret", secret, 0), r.result)
      BY <1>4 DEF ResetWithSecret
    <2>2. r.result = "XXH_OK" => secret # NULL
      BY DEF XXH3_64bits_reset_withSecret
    <2> HIDE DEF r
    <2>3. mode' = Mode("secret", secret, 0) /\ secret # NULL
      BY <2>1, <2>2 DEF Restart
    <2> QED
      BY <2>3, ModeFields DEF Supplied
  <1>5. ASSUME NEW secret \in {NULL, UserSecret},
               NEW size \in {XXH3_SECRET_SIZE_MIN - 1, UserSecretSize}, NEW seed \in Seeds,
               ResetWithSecretandSeed(secret, size, seed)
        PROVE  Supplied(mode')
    <2> DEFINE r == XXH3_64bits_reset_withSecretandSeed(s, secret, size, seed)
    <2>1. Restart(r.state, Mode("both", secret, seed), r.result)
      BY <1>5 DEF ResetWithSecretandSeed
    <2>2. r.result = "XXH_OK" => secret # NULL
      BY DEF XXH3_64bits_reset_withSecretandSeed
    <2> HIDE DEF r
    <2>3. mode' = Mode("both", secret, seed) /\ secret # NULL
      BY <2>1, <2>2 DEF Restart
    <2> QED
      BY <2>3, ModeFields DEF Supplied
  <1> QED
    BY <1>1, <1>2, <1>3, <1>4, <1>5 DEF Reset

LEMMA CoverageNext == CoverageInv /\ [Next]_vars => CoverageInv'
  <1> SUFFICES ASSUME CoverageInv, [Next]_vars PROVE CoverageInv'
    OBVIOUS
  <1>1. StreamInv /\ StreamInv'
    BY StreamNext DEF CoverageInv
  <1>2. ok /\ alg = "XXH3" => Supplied(mode)
    BY DEF CoverageInv
  <1>3. (ok /\ alg = "XXH3" => Supplied(mode))'
    <2>1. CASE Reset
      BY <1>1, <2>1, CoverageReset
    <2>2. ASSUME NEW n, Feed(n) PROVE (ok /\ alg = "XXH3" => Supplied(mode))'
      BY <1>2, <2>2 DEF Feed, Supplied
    <2>3. CASE UNCHANGED vars
      BY <1>2, <2>3 DEF vars, Supplied
    <2> QED
      BY <2>1, <2>2, <2>3 DEF Next, Update, UpdateWhole
  <1> QED
    BY <1>1, <1>3 DEF CoverageInv

LEMMA CoverageAlways == Spec => []CoverageInv
  BY CoverageInit, CoverageNext, PTL DEF Spec

LEMMA DigestsCover ==
    ASSUME CoverageInv, ok
    PROVE  \A i \in DOMAIN Digests : Covers(Digests[i], 1 .. total)
  <1>1. total \in Nat /\ Streaming /\ (alg = "XXH3" => Supplied(mode))
    BY DEF CoverageInv, StreamInv
  <1> DEFINE in == Input(0, total)
             B == 1 .. total
             seed == mode.seed
  <1>2. Whole(in, total)
    BY <1>1, WholeInput
  <1>3. CASE alg = "XXH32"
    <2>1. Stream32(s, total, seed)
      BY <1>1, <1>3 DEF Streaming
    <2> HIDE DEF seed
    <2>2. XXH32_digest(s) = XXH32(in, total, seed)
      BY <1>1, <2>1, Digest32
    <2> HIDE DEF in
    <2>3. Covers(XXH32(in, total, seed), B)
      BY <1>1, <1>2, Digest32Covers
    <2> QED
      BY <1>3, <2>2, <2>3 DEF Digests
  <1>4. CASE alg = "XXH64"
    <2>1. Stream64(s, total, seed)
      BY <1>1, <1>4 DEF Streaming
    <2> HIDE DEF seed
    <2>2. XXH64_digest(s) = XXH64(in, total, seed)
      BY <1>1, <2>1, Digest64
    <2> HIDE DEF in
    <2>3. Covers(XXH64(in, total, seed), B)
      BY <1>1, <1>2, Digest64Covers
    <2> QED
      BY <1>4, <2>2, <2>3 DEF Digests
  <1>5. CASE alg = "XXH3"
    <2>1. mode.api \in Modes /\ Stream3(s, total, mode) /\ Supplied(mode)
      BY <1>1, <1>5 DEF Streaming
    <2>2. /\ XXH3_64bits_digest(s) = Hash64(in, total, mode)
          /\ XXH3_128bits_digest(s) = Hash128(in, total, mode)
      BY <1>1, <2>1, Digest3
    <2> HIDE DEF in
    <2>3. Covers(Hash64(in, total, mode), B) /\ Covers(Hash128(in, total, mode), B)
      BY <1>1, <1>2, <2>1, Hash3Covers
    <2>4. Digests = <<XXH3_64bits_digest(s), XXH3_128bits_digest(s)>>
      BY <1>5 DEF Digests
    <2> HIDE DEF B
    <2> DEFINE d == Digests
    <2>5. DOMAIN d = {1, 2} /\ d[1] = XXH3_64bits_digest(s) /\ d[2] = XXH3_128bits_digest(s)
      BY <2>4
    <2> HIDE DEF d
    <2>6. \A i \in DOMAIN d : Covers(d[i], B)
      BY <2>2, <2>3, <2>5
    <2> QED
      BY <2>6 DEF d, B
  <1> QED
    BY <1>1, <1>3, <1>4, <1>5 DEF Streaming

LEMMA BufferSized ==
    ASSUME CoverageInv, ok
    PROVE  DOMAIN s.buffer = CASE alg = "XXH32" -> 0 .. 15
                               [] alg = "XXH64" -> 0 .. 31
                               [] alg = "XXH3" -> 0 .. XXH3_INTERNALBUFFER_SIZE - 1
  <1>1. Streaming
    BY DEF CoverageInv, StreamInv
  <1>2. CASE alg = "XXH32"
    BY <1>1, <1>2 DEF Streaming, Stream32, Fed32, Sized
  <1>3. CASE alg = "XXH64"
    BY <1>1, <1>3 DEF Streaming, Stream64, Fed64, Sized
  <1>4. CASE alg = "XXH3"
    <2>1. Stream3(s, total, mode)
      BY <1>1, <1>4 DEF Streaming
    <2>2. Sized(s.buffer, 256)
      BY <2>1, Zenon DEF Stream3, Fed3, Core3
    <2> QED
      BY <1>4, <2>2 DEF Sized, XXH3_INTERNALBUFFER_SIZE
  <1> QED
    BY <1>1, <1>2, <1>3, <1>4 DEF Streaming

(***************************************************************************)
(* Every digest depends on every byte of the message since the reset, and  *)
(* on no byte that is not of it, for messages of every length.             *)
(***************************************************************************)
THEOREM AllBytesCount == Spec => []EveryByteCounts
  <1>1. CoverageInv => EveryByteCounts
    <2> SUFFICES ASSUME CoverageInv, ok
                 PROVE  \A i \in DOMAIN Digests : BytesOf(Digests[i]) = 1 .. total
      BY DEF EveryByteCounts
    <2> QED
      BY DigestsCover, Covering
  <1> QED
    BY <1>1, CoverageAlways, PTL

(***************************************************************************)
(* The updates stay within the buffer of the state and the digests within  *)
(* the secret, whatever its size, and no digest uses a secret that was not *)
(* supplied or derived.                                                    *)
(***************************************************************************)
THEOREM AlwaysInBounds == Spec => []StaysInBounds
  <1>1. CoverageInv => StaysInBounds
    <2> SUFFICES ASSUME CoverageInv, ok
                 PROVE  \A i \in DOMAIN Digests : \A w \in Windows(Digests[i]) :
                          /\ w.secret \notin {NULL, Garbage}
                          /\ w.at >= 0 /\ w.at + w.n <= SecretSize(w.secret)
      BY BufferSized, Zenon DEF StaysInBounds
    <2> QED
      BY DigestsCover, Covering
  <1> QED
    BY <1>1, CoverageAlways, PTL

(***************************************************************************)
(* The variants of the build.  The tail of XXH32: each length of 4 to 15   *)
(* bytes is one case of the switch.                                        *)
(***************************************************************************)
LEMMA ChainsAt ==
    \A a \in 1 .. 4, b \in 1 .. 3 : Chains[a][b] = 16 - 4 * b + (a - 1)
  <1>1. \A a \in 1 .. 4 : a = 1 \/ a = 2 \/ a = 3 \/ a = 4
    OBVIOUS
  <1>2. \A b \in 1 .. 3 : b = 1 \/ b = 2 \/ b = 3
    OBVIOUS
  <1>3. /\ Chains[1] = <<12, 8, 4>> /\ Chains[2] = <<13, 9, 5>>
        /\ Chains[3] = <<14, 10, 6>> /\ Chains[4] = <<15, 11, 7>>
    BY DEF Chains
  <1> QED
    BY <1>1, <1>2, <1>3

LEMMA SwitchAgrees ==
    ASSUME NEW hash, NEW in, NEW at, NEW len \in Nat
    PROVE  XXH32_finalize(hash, in, at, len) = XXH32_finalize_switch(hash, in, at, len)
  <1> DEFINE n == len % 16
             words == {w \in (1 .. 4) \X (1 .. 3) : Chains[w[1]][w[2]] = n}
             w == CHOOSE w \in words : TRUE
             q == n \div 4
             r == n % 4
  <1>1. n \in 0 .. 15
    OBVIOUS
  <1>2. XXH32_finalize(hash, in, at, len) = ProcessTail(hash, in, at, q, r)
    BY DEF XXH32_finalize
  <1>3. XXH32_finalize_switch(hash, in, at, len)
          = IF words = {} THEN ProcessTail(hash, in, at, 0, n)
            ELSE ProcessTail(hash, in, at, 4 - w[2], w[1] - 1)
    BY Zenon DEF XXH32_finalize_switch
  <1> HIDE DEF n
  <1>4. \A v \in words : v[1] \in 1 .. 4 /\ v[2] \in 1 .. 3 /\ n = 16 - 4 * v[2] + (v[1] - 1)
    <2> SUFFICES ASSUME NEW v \in words
                 PROVE  v[1] \in 1 .. 4 /\ v[2] \in 1 .. 3 /\ n = 16 - 4 * v[2] + (v[1] - 1)
      OBVIOUS
    <2>1. v[1] \in 1 .. 4 /\ v[2] \in 1 .. 3 /\ Chains[v[1]][v[2]] = n
      OBVIOUS
    <2> HIDE DEF words
    <2> QED
      BY <2>1, ChainsAt
  <1>5. CASE n < 4
    <2>1. words = {}
      <3> HIDE DEF words
      <3>1. \A v \in words : FALSE
        BY <1>4, <1>5
      <3> QED
        BY <3>1
    <2>2. q = 0 /\ r = n
      BY <1>1, <1>5
    <2> HIDE DEF words, w, q, r
    <2> QED
      BY <1>2, <1>3, <2>1, <2>2
  <1>6. CASE n >= 4
    <2> DEFINE a == r + 1
               b == 4 - q
               v == <<a, b>>
    <2>1. a \in 1 .. 4 /\ b \in 1 .. 3 /\ n = 16 - 4 * b + (a - 1)
      BY <1>1, <1>6
    <2>2. v \in words
      <3>1. Chains[a][b] = n
        BY <2>1, ChainsAt
      <3> HIDE DEF a, b
      <3>2. v \in (1 .. 4) \X (1 .. 3) /\ v[1] = a /\ v[2] = b
        BY <2>1
      <3> QED
        BY <3>1, <3>2
    <2>3. w \in words /\ words # {}
      <3> HIDE DEF words, v
      <3> QED
        BY <2>2
    <2> HIDE DEF words, w
    <2>4. 4 - w[2] = q /\ w[1] - 1 = r
      <3>1. w[1] \in 1 .. 4 /\ w[2] \in 1 .. 3 /\ n = 16 - 4 * w[2] + (w[1] - 1)
        BY <1>4, <2>3
      <3> QED
        BY <1>1, <3>1
    <2> HIDE DEF q, r
    <2> QED
      BY <1>2, <1>3, <2>3, <2>4
  <1> QED
    BY <1>1, <1>5, <1>6

(***************************************************************************)
(* The middle lengths of XXH3: the loop takes the same pairs, from the     *)
(* middle outwards.                                                        *)
(***************************************************************************)
LEMMA ThenNothing ==
    ASSUME NEW a, NEW n \in Nat, Run(a, n)
    PROVE  Then(a, <<>>) = a
  <1> DEFINE o == 0
             z == <<>>
  <1>1. o \in Nat /\ Run(z, o) /\ n + o = n
    BY DEF Run
  <1> HIDE DEF o, z
  <1>2. Run(Then(a, z), n + o) /\ \A i \in 1 .. n : Then(a, z)[i] = a[i]
    BY <1>1, RunJoined
  <1>3. Then(a, z) = a
    BY <1>1, <1>2, RunEqual
  <1> QED
    BY <1>3 DEF z

LEMMA ThenAssociative ==
    ASSUME NEW a, NEW k \in Nat, Run(a, k), NEW b, NEW m \in Nat, Run(b, m),
           NEW c, NEW n \in Nat, Run(c, n)
    PROVE  Then(Then(a, b), c) = Then(a, Then(b, c))
  <1> DEFINE ab == Then(a, b)
             bc == Then(b, c)
             l == Then(ab, c)
             r == Then(a, bc)
             km == k + m
             mn == m + n
             t == km + n
  <1>1. /\ Run(ab, km) /\ (\A i \in 1 .. k : ab[i] = a[i]) /\ (\A i \in 1 .. m : ab[k + i] = b[i])
        /\ Run(bc, mn) /\ (\A i \in 1 .. m : bc[i] = b[i]) /\ (\A i \in 1 .. n : bc[m + i] = c[i])
    BY RunJoined
  <1>2. km \in Nat /\ mn \in Nat /\ t \in Nat /\ t = k + mn /\ t = km + n /\ km = k + m /\ mn = m + n
    OBVIOUS
  <1> HIDE DEF ab, bc, km, mn, t
  <1>3. /\ Run(l, t) /\ (\A i \in 1 .. km : l[i] = ab[i]) /\ (\A i \in 1 .. n : l[km + i] = c[i])
        /\ Run(r, t) /\ (\A i \in 1 .. k : r[i] = a[i]) /\ (\A i \in 1 .. mn : r[k + i] = bc[i])
    BY <1>1, <1>2, RunJoined
  <1> HIDE DEF l, r
  <1>4. ASSUME NEW i \in 1 .. t PROVE l[i] = r[i]
    <2>1. CASE i <= k
      BY <1>1, <1>2, <1>3, <2>1
    <2>2. CASE k < i /\ i <= km
      <3>1. i - k \in 1 .. m /\ i - k \in 1 .. mn /\ k + (i - k) = i /\ i \in 1 .. km
        BY <1>2, <2>2
      <3>2. l[i] = b[i - k] /\ r[i] = b[i - k]
        BY <1>1, <1>3, <3>1
      <3> QED
        BY <3>2
    <2>3. CASE km < i
      <3> DEFINE j == i - km
      <3>1. j \in 1 .. n /\ m + j \in 1 .. mn /\ k + (m + j) = i /\ km + j = i
        BY <1>2, <2>3
      <3> HIDE DEF j
      <3>2. l[i] = c[j] /\ r[i] = bc[m + j] /\ bc[m + j] = c[j]
        BY <1>1, <1>3, <3>1
      <3> QED
        BY <3>2
    <2> QED
      BY <1>2, <2>1, <2>2, <2>3
  <1>5. l = r
    BY <1>2, <1>3, <1>4, RunEqual
  <1> QED
    BY <1>5 DEF l, r, ab, bc

LEMMA ChainRun ==
    ASSUME NEW f, NEW k \in Nat, Run(f, k), NEW d \in Nat
    PROVE  /\ Run(Chain(f, d), d * k)
           /\ \A i \in 1 .. d * k : Chain(f, d)[i] = f[1 + ((i - 1) \div d)][1 + ((i - 1) % d)]
  <1> DEFINE m == d * k
  <1>1. m \in Nat
    OBVIOUS
  <1>2. Len(f) = k
    BY RunFacts
  <1>3. Chain(f, d) = [i \in 1 .. m |-> f[1 + ((i - 1) \div d)][1 + ((i - 1) % d)]]
    BY <1>2 DEF Chain
  <1> HIDE DEF m
  <1>4. Run(Chain(f, d), m) /\ \A i \in 1 .. m : Chain(f, d)[i] = f[1 + ((i - 1) \div d)][1 + ((i - 1) % d)]
    BY <1>1, <1>3 DEF Run
  <1> QED
    BY <1>4 DEF m

\* One run more.
LEMMA ChainLonger ==
    ASSUME NEW d \in Nat, d > 0, NEW f, NEW g, NEW k \in Nat, NEW q \in Nat, q = k + 1,
           Run(f, k), Run(g, q), \A i \in 1 .. k : g[i] = f[i], NEW e, g[q] = e, Run(e, d)
    PROVE  Chain(g, d) = Then(Chain(f, d), e)
  <1> DEFINE x == Chain(f, d)
             y == Chain(g, d)
             z == Then(x, e)
             m == d * k
             n == d * q
  <1>1. q \in Nat /\ q = k + 1 /\ m \in Nat /\ n \in Nat /\ n = m + d
    OBVIOUS
  <1>2. /\ Run(x, m) /\ \A i \in 1 .. m : x[i] = f[1 + ((i - 1) \div d)][1 + ((i - 1) % d)]
        /\ Run(y, n) /\ \A i \in 1 .. n : y[i] = g[1 + ((i - 1) \div d)][1 + ((i - 1) % d)]
    BY <1>1, ChainRun
  <1>3. Run(e, d)
    OBVIOUS
  <1> HIDE DEF x, y, m, n
  <1>4. Run(z, n) /\ (\A i \in 1 .. m : z[i] = x[i]) /\ (\A i \in 1 .. d : z[m + i] = e[i])
    BY <1>1, <1>2, <1>3, RunJoined
  <1> HIDE DEF z
  <1>5. ASSUME NEW i \in 1 .. n PROVE y[i] = z[i]
    <2> DEFINE j == i - 1
               b == j \div d
               c == j % d
    <2>1. j \in Nat /\ i = j + 1
      BY <1>1
    <2>2. y[i] = g[1 + b][1 + c] /\ (i \in 1 .. m => x[i] = f[1 + b][1 + c])
      BY <1>2
    <2> HIDE DEF j
    <2>3. b \in Nat /\ c \in Nat /\ c < d /\ j = d * b + c
      BY <2>1, DivMod
    <2>4. CASE i <= m
      <3> HIDE DEF b, c
      <3>1. b < k
        <4> SUFFICES ASSUME b >= k PROVE FALSE
          BY <2>3
        <4>1. d * b >= d * k
          BY <2>3
        <4> QED
          BY <1>1, <2>1, <2>3, <2>4, <4>1 DEF m
      <3>2. 1 + b \in 1 .. k /\ i \in 1 .. m
        BY <1>1, <2>3, <2>4, <3>1
      <3> QED
        BY <1>4, <2>2, <3>2
    <2>5. CASE i > m
      <3> DEFINE r == i - m - 1
      <3>1. r \in Nat /\ r < d /\ m + (r + 1) = i /\ r + 1 \in 1 .. d /\ j = d * k + r
        BY <1>1, <2>1, <2>5 DEF m
      <3> HIDE DEF r
      <3>2. Divided(j, d, k, r)
        BY <3>1 DEF Divided
      <3>3. b = k /\ c = r
        BY <2>1, <3>1, <3>2, OneQuotient
      <3>4. 1 + b = q /\ 1 + c = r + 1
        BY <1>1, <3>1, <3>3
      <3>5. z[i] = e[r + 1]
        BY <1>4, <3>1
      <3> QED
        BY <2>2, <3>4, <3>5
    <2> QED
      BY <1>1, <2>4, <2>5
  <1>6. y = z
    BY <1>1, <1>2, <1>4, <1>5, RunEqual
  <1> QED
    BY <1>6 DEF y, z, x

LEMMA LoopUnrolled ==
    ASSUME NEW a, NEW n \in Nat, Run(a, n), NEW d \in Nat, d > 0,
           NEW p, \A i \in 0 .. 3 : Run(p[i], d), NEW k \in 1 .. 4
    PROVE  Then(a, Chain([j \in 1 .. k |-> p[k - j]], d))
             = Then(Then(Then(Then(a, Optional(k > 3, p[3])), Optional(k > 2, p[2])),
                         Optional(k > 1, p[1])), p[0])
  <1> DEFINE G(m) == [j \in 1 .. m |-> p[k - j]]
             Z(m) == Then(a, Chain(G(m), d))
  <1>1. ASSUME NEW m \in 0 .. 3, m < k PROVE Z(m + 1) = Then(Z(m), p[k - m - 1])
    <2> DEFINE q == m + 1
               f == G(m)
               g == G(q)
               e == p[k - q]
               x == Chain(f, d)
               l == d * m
    <2>0. m \in Nat /\ q \in Nat /\ q = m + 1 /\ l \in Nat /\ k - m - 1 = k - q
      OBVIOUS
    <2> HIDE DEF q
    <2>1. Run(f, m) /\ Run(g, q) /\ (\A i \in 1 .. m : g[i] = f[i]) /\ g[q] = e
      <3>1. Run(f, m) /\ Run(g, q)
        BY <2>0 DEF Run
      <3>2. (\A i \in 1 .. m : i \in 1 .. q) /\ q \in 1 .. q
        BY <2>0
      <3> QED
        BY <3>1, <3>2
    <2>2. Run(e, d)
      <3>1. k - q \in 0 .. 3
        BY <1>1, <2>0
      <3> QED
        BY <3>1
    <2> HIDE DEF f, g, e
    <2>3. Chain(g, d) = Then(x, e)
      BY <2>0, <2>1, <2>2, ChainLonger
    <2>4. Run(x, l)
      BY <2>0, <2>1, ChainRun
    <2> HIDE DEF x, l
    <2>5. Then(Then(a, x), e) = Then(a, Then(x, e))
      BY <2>0, <2>2, <2>4, ThenAssociative
    <2>6. Z(q) = Then(Z(m), e)
      BY <2>3, <2>5 DEF f, g, x
    <2> HIDE DEF Z
    <2> QED
      BY <2>0, <2>6 DEF e, q
  <1>2. Z(0) = a
    <2> DEFINE o == 0
               f == G(o)
               x == Chain(f, d)
    <2>1. o \in Nat /\ Run(f, o) /\ d * o = o /\ (\A i \in 1 .. o : FALSE) /\ Run(<<>>, o)
      BY DEF Run
    <2> HIDE DEF o, f
    <2>2. Run(x, o)
      BY <2>1, ChainRun
    <2> HIDE DEF x
    <2>3. x = <<>>
      BY <2>1, <2>2, RunEqual
    <2>4. Then(a, x) = a
      BY <2>3, ThenNothing
    <2> QED
      BY <2>4 DEF x, f, o
  <1>3. Then(a, <<>>) = a
    BY ThenNothing
  <1> DEFINE whole == Then(Then(Then(Then(a, Optional(k > 3, p[3])), Optional(k > 2, p[2])),
                                Optional(k > 1, p[1])), p[0])
  <1>4. \A m \in 0 .. 3 : m < k => Z(m + 1) = Then(Z(m), p[k - m - 1])
    BY <1>1
  <1>5. Then(a, Chain([j \in 1 .. k |-> p[k - j]], d)) = Z(k)
    OBVIOUS
  <1> HIDE DEF Z
  <1>6. CASE k = 1
    <2>1. Z(1) = Then(Z(0), p[0])
      BY <1>4, <1>6
    <2>2. ~(k > 3) /\ ~(k > 2) /\ ~(k > 1)
      BY <1>6
    <2>3. whole = Then(Then(Then(Then(a, <<>>), <<>>), <<>>), p[0])
      BY <2>2, Zenon DEF Optional
    <2> QED
      BY <1>2, <1>3, <1>5, <1>6, <2>1, <2>3
  <1>7. CASE k = 2
    <2>1. Z(1) = Then(Z(0), p[1]) /\ Z(2) = Then(Z(1), p[0])
      BY <1>4, <1>7
    <2>2. ~(k > 3) /\ ~(k > 2) /\ k > 1
      BY <1>7
    <2>3. whole = Then(Then(Then(Then(a, <<>>), <<>>), p[1]), p[0])
      BY <2>2, Zenon DEF Optional
    <2> QED
      BY <1>2, <1>3, <1>5, <1>7, <2>1, <2>3
  <1>8. CASE k = 3
    <2>1. Z(1) = Then(Z(0), p[2]) /\ Z(2) = Then(Z(1), p[1]) /\ Z(3) = Then(Z(2), p[0])
      BY <1>4, <1>8
    <2>2. ~(k > 3) /\ k > 2 /\ k > 1
      BY <1>8
    <2>3. whole = Then(Then(Then(Then(a, <<>>), p[2]), p[1]), p[0])
      BY <2>2, Zenon DEF Optional
    <2> QED
      BY <1>2, <1>3, <1>5, <1>8, <2>1, <2>3
  <1>9. CASE k = 4
    <2>1. /\ Z(1) = Then(Z(0), p[3]) /\ Z(2) = Then(Z(1), p[2])
          /\ Z(3) = Then(Z(2), p[1]) /\ Z(4) = Then(Z(3), p[0])
      BY <1>4, <1>9
    <2>2. k > 3 /\ k > 2 /\ k > 1
      BY <1>9
    <2>3. whole = Then(Then(Then(Then(a, p[3]), p[2]), p[1]), p[0])
      BY <2>2, Zenon DEF Optional
    <2> QED
      BY <1>2, <1>5, <1>9, <2>1, <2>3
  <1> QED
    BY <1>6, <1>7, <1>8, <1>9

LEMMA MiddleAgrees ==
    ASSUME NEW in, NEW len \in 17 .. 128, NEW secret, NEW seed
    PROVE  /\ XXH3_len_17to128_64b(in, len, secret, seed) = Len17to128Loop(in, len, secret, seed)
           /\ XXH3_len_17to128_128b(in, len, secret, seed) = Len17to128Loop128(in, len, secret, seed)
  <1> DEFINE i == (len - 1) \div 32
             k == i + 1
             one == 1
             a == <<Len3(len)>>
  <1>1. /\ k \in 1 .. 4 /\ (len > 96 <=> k > 3) /\ (len > 64 <=> k > 2) /\ (len > 32 <=> k > 1)
        /\ one \in Nat /\ Run(a, one)
    BY DEF Run
  <1>2. XXH3_len_17to128_64b(in, len, secret, seed) = Len17to128Loop(in, len, secret, seed)
    <2> DEFINE p == [j \in 0 .. 3 |-> MixPair(in, len, secret, seed, j)]
               f == [j \in 1 .. k |-> MixPair(in, len, secret, seed, k - j)]
               d == 2
               whole == Then(Then(Then(Then(a, Optional(k > 3, p[3])), Optional(k > 2, p[2])),
                                  Optional(k > 1, p[1])), p[0])
    <2>1. d \in Nat /\ d > 0 /\ \A j \in 0 .. 3 : Run(p[j], d)
      BY DEF Run, MixPair
    <2>2. f = [j \in 1 .. k |-> p[k - j]]
      <3> HIDE DEF i
      <3>1. \A j \in 1 .. k : k - j \in 0 .. 3
        BY <1>1
      <3> QED
        BY <3>1
    <2>3. Len17to128Loop(in, len, secret, seed) = XXH3_avalanche(Then(a, Chain(f, d)))
      BY DEF Len17to128Loop, Then
    <2>4. /\ p[0] = MixPair(in, len, secret, seed, 0) /\ p[1] = MixPair(in, len, secret, seed, 1)
          /\ p[2] = MixPair(in, len, secret, seed, 2) /\ p[3] = MixPair(in, len, secret, seed, 3)
      OBVIOUS
    <2> HIDE DEF k, p, d
    <2>5. XXH3_len_17to128_64b(in, len, secret, seed) = XXH3_avalanche(whole)
      BY <1>1, <2>4 DEF XXH3_len_17to128_64b, Then, Optional
    <2> HIDE DEF one, a
    <2>6. Then(a, Chain(f, d)) = whole
      <3>0. k \in 1 .. 4 /\ one \in Nat /\ Run(a, one)
        BY <1>1
      <3>1. Then(a, Chain([j \in 1 .. k |-> p[k - j]], d)) = whole
        BY ONLY <2>1, <3>0, LoopUnrolled
      <3> QED
        BY <2>2, <3>1
    <2> QED
      BY <2>3, <2>5, <2>6
  <1>3. XXH3_len_17to128_128b(in, len, secret, seed) = Len17to128Loop128(in, len, secret, seed)
    <2> DEFINE p == [j \in 0 .. 3 |-> Mix32Pair(in, len, secret, seed, j)]
               f == [j \in 1 .. k |-> Mix32Pair(in, len, secret, seed, k - j)]
               d == 4
               whole == Then(Then(Then(Then(a, Optional(k > 3, p[3])), Optional(k > 2, p[2])),
                                  Optional(k > 1, p[1])), p[0])
    <2>1. d \in Nat /\ d > 0 /\ \A j \in 0 .. 3 : Run(p[j], d)
      BY DEF Run, Mix32Pair, XXH128_mix32B
    <2>2. f = [j \in 1 .. k |-> p[k - j]]
      <3> HIDE DEF i
      <3>1. \A j \in 1 .. k : k - j \in 0 .. 3
        BY <1>1
      <3> QED
        BY <3>1
    <2>3. Len17to128Loop128(in, len, secret, seed) = Finish128(Then(a, Chain(f, d)), len, seed)
      BY DEF Len17to128Loop128, Then
    <2>4. /\ p[0] = Mix32Pair(in, len, secret, seed, 0) /\ p[1] = Mix32Pair(in, len, secret, seed, 1)
          /\ p[2] = Mix32Pair(in, len, secret, seed, 2) /\ p[3] = Mix32Pair(in, len, secret, seed, 3)
      OBVIOUS
    <2> HIDE DEF k, p, d
    <2>5. XXH3_len_17to128_128b(in, len, secret, seed) = Finish128(whole, len, seed)
      BY <1>1, <2>4 DEF XXH3_len_17to128_128b, Then, Optional
    <2> HIDE DEF one, a
    <2>6. Then(a, Chain(f, d)) = whole
      <3>0. k \in 1 .. 4 /\ one \in Nat /\ Run(a, one)
        BY <1>1
      <3>1. Then(a, Chain([j \in 1 .. k |-> p[k - j]], d)) = whole
        BY ONLY <2>1, <3>0, LoopUnrolled
      <3> QED
        BY <2>2, <3>1
    <2> QED
      BY <2>3, <2>5, <2>6
  <1> QED
    BY <1>2, <1>3

(***************************************************************************)
(* In every state, whichever variants the build chooses: the tail in the   *)
(* buffer of XXH32 has one hash, and so has every message of the middle    *)
(* lengths of XXH3.                                                        *)
(***************************************************************************)
THEOREM OneHashPerVariant == Spec => []VariantsAgree
  <1>1. CoverageInv => VariantsAgree
    <2> SUFFICES ASSUME CoverageInv PROVE VariantsAgree
      OBVIOUS
    <2>1. alg = "XXH32" /\ ok =>
            XXH32_finalize(<<>>, s.buffer, 0, s.bufferedSize)
              = XXH32_finalize_switch(<<>>, s.buffer, 0, s.bufferedSize)
      <3> SUFFICES ASSUME alg = "XXH32", ok
                   PROVE  XXH32_finalize(<<>>, s.buffer, 0, s.bufferedSize)
                            = XXH32_finalize_switch(<<>>, s.buffer, 0, s.bufferedSize)
        OBVIOUS
      <3>1. s.bufferedSize = total % 16 /\ total \in Nat
        BY DEF CoverageInv, StreamInv, Streaming, Stream32, Fed32
      <3>2. s.bufferedSize \in Nat
        BY <3>1
      <3> QED
        BY <3>2, SwitchAgrees
    <2>2. total \in 17 .. 128 =>
            /\ XXH3_len_17to128_64b(Input(0, total), total, XXH3_kSecret, mode.seed)
                 = Len17to128Loop(Input(0, total), total, XXH3_kSecret, mode.seed)
            /\ XXH3_len_17to128_128b(Input(0, total), total, XXH3_kSecret, mode.seed)
                 = Len17to128Loop128(Input(0, total), total, XXH3_kSecret, mode.seed)
      BY MiddleAgrees
    <2> QED
      BY <2>1, <2>2, Zenon DEF VariantsAgree
  <1> QED
    BY <1>1, CoverageAlways, PTL

(***************************************************************************)
(* XXH3_generateSecret.                                                    *)
(***************************************************************************)
LEMMA ScrambledWhole ==
    ASSUME NEW n \in Nat, n >= 136, NEW size \in Nat, size > 0
    PROVE  LET g == Scramble(FillWithSeed(n, size), n)
           IN /\ DOMAIN g = 0 .. n - 1
              /\ \A i \in 0 .. n - 1 : g[i].mixed # <<>> /\ g[i].from = i % size
  <1> DEFINE f == FillWithSeed(n, size)
             w == WholeSegments(f, n)
             at == n - 16
             g == XXH3_combine16(w, at, Scrambler)
             D == 0 .. n - 1
  <1>1. DOMAIN f = D /\ \A i \in D : f[i] = [from |-> i % size, mixed |-> <<>>]
    BY DEF FillWithSeed
  <1> HIDE DEF f
  <1>2. DOMAIN w = D
        /\ \A i \in D : w[i] = IF i \div 16 < n \div 16 THEN [f[i] EXCEPT !.mixed = <<i \div 16>>] ELSE f[i]
    BY <1>1 DEF WholeSegments
  <1> HIDE DEF w
  <1>3. DOMAIN w \cup (at .. at + 15) = D
    BY <1>2
  <1>4. DOMAIN g = D
        /\ \A i \in D : g[i] = IF i \in at .. at + 15 THEN [w[i] EXCEPT !.mixed = Append(@, Scrambler)]
                               ELSE w[i]
    BY <1>3 DEF XXH3_combine16
  <1> HIDE DEF g
  <1>5. ASSUME NEW i \in D PROVE g[i].mixed # <<>> /\ g[i].from = i % size
    <2> DEFINE m == <<i \div 16>>
               none == <<>>
               r == [from |-> i % size, mixed |-> none]
               from == i % size
    <2>1. w[i] = [from |-> from, mixed |-> m] \/ w[i] = [from |-> from, mixed |-> none]
      BY <1>1, <1>2
    <2>2. Len(m) = 1 /\ Len(none) = 0 /\ m \in Seq(Int) /\ none \in Seq(Int) /\ m # none
      <3>1. i \div 16 \in Int
        OBVIOUS
      <3>2. Len(m) = 1 /\ Len(none) = 0 /\ none \in Seq(Int)
        OBVIOUS
      <3> DEFINE v == i \div 16
      <3> HIDE DEF v
      <3>3. m \in Seq(Int)
        BY <3>1 DEF v
      <3>4. m # none
        BY <3>2
      <3> QED
        BY <3>2, <3>3, <3>4
    <2> HIDE DEF m, none, from
    <2>3. CASE i \in at .. at + 15
      <3>1. PICK x \in {m, none} : w[i] = [from |-> from, mixed |-> x]
        BY <2>1
      <3>2. g[i] = [from |-> from, mixed |-> Append(x, Scrambler)]
        <4> DEFINE y == Append(x, Scrambler)
        <4>1. g[i] = [w[i] EXCEPT !.mixed = Append(@, Scrambler)]
          BY <1>4, <2>3
        <4>2. g[i] = [w[i] EXCEPT !.mixed = y]
          BY <3>1, <4>1
        <4> HIDE DEF y
        <4>3. g[i] = [from |-> from, mixed |-> y]
          BY <3>1, <4>2
        <4> QED
          BY <4>3 DEF y
      <3>3. Append(x, Scrambler) # none
        <4>0. x = m \/ x = none
          OBVIOUS
        <4>1. x \in Seq(Int) /\ Scrambler \in Int
          <5>1. x \in Seq(Int)
            BY <2>2, <4>0
          <5>2. Scrambler \in Int
            BY DEF Scrambler
          <5> QED
            BY <5>1, <5>2
        <4>2. Len(Append(x, Scrambler)) = Len(x) + 1 /\ Len(x) \in Nat
          BY <4>1, AppendProperties, LenProperties
        <4> QED
          BY <2>2, <4>2
      <3> QED
        BY <3>2, <3>3 DEF none, from
    <2>4. CASE ~(i \in at .. at + 15)
      <3>1. i \div 16 < n \div 16
        BY <2>4
      <3>2. g[i] = w[i] /\ w[i] = [from |-> from, mixed |-> m]
        <4>1. w[i] = [f[i] EXCEPT !.mixed = <<i \div 16>>]
          BY <1>2, <3>1
        <4>2. w[i] = [from |-> from, mixed |-> m]
          BY <1>1, <4>1 DEF m, from
        <4> QED
          BY <1>4, <2>4, <4>2
      <3>3. m # none
        BY <2>2
      <3> QED
        BY <3>2, <3>3 DEF none, from
    <2> QED
      BY <2>3, <2>4
  <1>6. Scramble(FillWithSeed(n, size), n) = g
    BY DEF Scramble, g, w, f
  <1> QED
    BY <1>4, <1>5, <1>6

(***************************************************************************)
(* A generated secret is whole: scrambled to its last byte, and with every *)
(* byte of the custom seed that has room in it.                            *)
(***************************************************************************)
THEOREM GeneratedSecrets == Spec => []GeneratedSecretWhole
  <1>1. CoverageInv => GeneratedSecretWhole
    <2> SUFFICES ASSUME CoverageInv, NEW custom \in {0, 1, 15, 16, 137, 200}
                 PROVE  LET g == XXH3_generateSecret(UserSecret, total, UserSecret, custom)
                        IN IF total < XXH3_SECRET_SIZE_MIN THEN g.result = "XXH_ERROR"
                           ELSE /\ g.result = "XXH_OK"
                                /\ DOMAIN g.secret = 0 .. total - 1
                                /\ \A i \in 0 .. total - 1 : g.secret[i].mixed # <<>>
                                /\ \A j \in 0 .. g.seedSize - 1 :
                                     j < total => \E i \in 0 .. total - 1 : g.secret[i].from = j
      BY DEF GeneratedSecretWhole
    <2> DEFINE g == XXH3_generateSecret(UserSecret, total, UserSecret, custom)
               size == IF custom = 0 THEN XXH_SECRET_DEFAULT_SIZE ELSE custom
               seed == IF custom = 0 THEN XXH3_kSecret ELSE UserSecret
    <2>1. total \in Nat /\ size \in Nat /\ size > 0
      BY DEF CoverageInv, StreamInv, XXH_SECRET_DEFAULT_SIZE
    <2>2. UserSecret # NULL /\ seed # NULL
      BY DerivedSecret, SuppliedSecret DEF Sound, Key, Usable, XXH3_kSecret
    <2>3. g = IF UserSecret = NULL \/ total < XXH3_SECRET_SIZE_MIN \/ seed = NULL
              THEN [result |-> "XXH_ERROR", secret |-> FillWithSeed(0, 1), seedSize |-> size]
              ELSE [result |-> "XXH_OK", secret |-> Scramble(FillWithSeed(total, size), total),
                    seedSize |-> size]
      BY DEF XXH3_generateSecret
    <2> HIDE DEF g, size, seed
    <2>4. CASE total < XXH3_SECRET_SIZE_MIN
      BY <2>3, <2>4 DEF g
    <2>5. CASE ~(total < XXH3_SECRET_SIZE_MIN)
      <3> DEFINE k == Scramble(FillWithSeed(total, size), total)
      <3>1. g = [result |-> "XXH_OK", secret |-> k, seedSize |-> size]
        BY <2>2, <2>3, <2>5
      <3>2. total >= 136
        BY <2>1, <2>5 DEF XXH3_SECRET_SIZE_MIN
      <3>3. DOMAIN k = 0 .. total - 1 /\ \A i \in 0 .. total - 1 : k[i].mixed # <<>> /\ k[i].from = i % size
        BY <2>1, <3>2, ScrambledWhole
      <3> HIDE DEF k
      <3>4. \A j \in 0 .. size - 1 : j % size = j
        <4> SUFFICES ASSUME NEW j \in 0 .. size - 1 PROVE j % size = j
          OBVIOUS
        <4> DEFINE o == 0
        <4>1. j \in Nat /\ o \in Nat /\ j < size /\ Divided(j, size, o, j)
          BY <2>1 DEF Divided
        <4> HIDE DEF o
        <4> QED
          BY <2>1, <4>1, OneQuotient
      <3>5. \A j \in 0 .. size - 1 : j < total => j \in 0 .. total - 1 /\ k[j].from = j
        BY <2>1, <3>3, <3>4
      <3> QED
        BY <2>5, <3>1, <3>3, <3>5 DEF g
    <2> QED
      BY <2>4, <2>5
  <1> QED
    BY <1>1, CoverageAlways, PTL
=============================================================================
