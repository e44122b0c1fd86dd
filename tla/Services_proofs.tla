-------------------------- MODULE Services_proofs --------------------------
(***************************************************************************)
(* For any number of objects, processes, connections, rules, records and   *)
(* words: that the leases told are those of dnsmasq's file (DhcpInv), that *)
(* the scan timer runs exactly while a scan waits and a report is complete *)
(* (ScanInv, ScanTypesInv), that the reports of clients and surveys are    *)
(* right (TrafficInv, SurveyInv), that log messages arrive whole (LogInv), *)
(* that OVSDB and the data model are in step when XM is done (SyncInv),    *)
(* and the types of all of them.  A step of Next is a step of one service  *)
(* and leaves the others alone (StepOfOne), so that each invariant is      *)
(* proved on the steps of its own service.                                 *)
(*                                                                         *)
(* A parse of the lease file and a report of a scan are folds over         *)
(* sequences of any length: UpTo is the induction they need, of a set in   *)
(* place of a predicate, and FoldExists unfolds them step by step.         *)
(***************************************************************************)
EXTENDS Services, FiniteSetTheorems, SequenceTheorems, WellFoundedInduction, TLAPS

-----------------------------------------------------------------------------
(* Folds over sequences.                                                   *)

\* A set of naturals has a least element, and a bounded one a greatest.
LEMMA LeastOf ==
  ASSUME NEW S \in SUBSET Nat, S # {}
  PROVE  \E x \in S : \A y \in S : x <= y
<1>1. IsWellFoundedOn(OpToRel(<, Nat), Nat)
  BY NatLessThanWellFounded
<1>2. PICK x \in S : \A y \in S : ~(<<y, x>> \in OpToRel(<, Nat))
  BY <1>1, WFMin, Zenon
<1>3. ASSUME NEW y \in S, ~(x <= y)
      PROVE  FALSE
  <2>1. y < x /\ y \in Nat /\ x \in Nat
    BY <1>3
  <2>2. <<y, x>> \in OpToRel(<, Nat)
    BY <2>1, Zenon DEF OpToRel
  <2> QED
    BY <1>2, <2>2
<1> QED
  BY <1>3

\* Induction up to n, over the set of the numbers that have the property.
LEMMA UpTo ==
  ASSUME NEW n \in Nat, NEW S, 0 \in S,
         \A k \in 0 .. n - 1 : k \in S => k + 1 \in S
  PROVE  \A k \in 0 .. n : k \in S
<1> DEFINE T == {k \in 0 .. n : k \notin S}
<1>1. CASE T = {}
  BY <1>1
<1>2. CASE T # {}
  <2>1. PICK x \in T : \A y \in T : x <= y
    <3>1. T \in SUBSET Nat
      OBVIOUS
    <3> HIDE DEF T
    <3> QED
      BY <1>2, <3>1, LeastOf
  <2>2. x # 0 /\ x - 1 \in 0 .. n - 1 /\ x - 1 \notin T
    BY <2>1
  <2>3. x - 1 \in S /\ (x - 1) + 1 = x
    BY <2>2
  <2> QED
    BY <2>1, <2>2, <2>3
<1> QED
  BY <1>1, <1>2

LEMMA MaxOf ==
  ASSUME NEW n \in Nat, NEW T \in SUBSET (1 .. n), T # {}
  PROVE  Max(T) \in T /\ \A x \in T : Max(T) >= x
<1> DEFINE D == {n - x : x \in T}
<1>1. PICK d \in D : \A e \in D : d <= e
  <2>1. D \in SUBSET Nat
    <3>1. \A x \in T : n - x \in Nat
      OBVIOUS
    <3> QED
      BY <3>1
  <2>2. D # {}
    <3>1. PICK x : x \in T
      OBVIOUS
    <3> QED
      BY <3>1
  <2> HIDE DEF D
  <2> QED
    BY <2>1, <2>2, LeastOf
<1>2. PICK m \in T : d = n - m
  BY <1>1
<1>3. \A x \in T : m >= x
  BY <1>1, <1>2
<1> QED
  BY <1>3 DEF Max

\* What a fold over 1 .. n computes from the base when F gives, for each
\* place and value, the next value.
Folding(g, base, n, F) ==
    g = [T \in SUBSET (1 .. n) |->
           IF T = {} THEN base ELSE F[Max(T)][g[T \ {Max(T)}]]]

\* A fold is a function: it is built from that of one place less.
LEMMA FoldExists ==
  ASSUME NEW S, NEW base \in S, NEW n \in Nat, NEW F \in [1 .. n -> [S -> S]]
  PROVE  \E g \in [SUBSET (1 .. n) -> S] : Folding(g, base, n, F)
<1> DEFINE Good == {k \in Nat : \E g \in [SUBSET (1 .. k) -> S] :
                      k <= n => Folding(g, base, k, F)}
<1>1. 0 \in Good
  <2> DEFINE g == [T \in SUBSET (1 .. 0) |-> base]
  <2>1. SUBSET (1 .. 0) = {{}}
    OBVIOUS
  <2>2. g \in [SUBSET (1 .. 0) -> S] /\ Folding(g, base, 0, F)
    BY <2>1 DEF Folding
  <2> QED
    BY <2>2
<1>2. ASSUME NEW k \in 0 .. n - 1, k \in Good
      PROVE  k + 1 \in Good
  <2>1. PICK g \in [SUBSET (1 .. k) -> S] : Folding(g, base, k, F)
    <3>1. k <= n
      OBVIOUS
    <3> QED
      BY <1>2, <3>1, Zenon DEF Good
  <2> DEFINE h == [T \in SUBSET (1 .. k + 1) |->
                     IF k + 1 \in T THEN F[k + 1][g[T \ {k + 1}]] ELSE g[T]]
  <2>2. h \in [SUBSET (1 .. k + 1) -> S]
    <3> SUFFICES ASSUME NEW T \in SUBSET (1 .. k + 1)
                 PROVE  (IF k + 1 \in T THEN F[k + 1][g[T \ {k + 1}]] ELSE g[T]) \in S
      OBVIOUS
    <3>1. CASE k + 1 \in T
      <4>1. T \ {k + 1} \in SUBSET (1 .. k)
        OBVIOUS
      <4>2. g[T \ {k + 1}] \in S /\ k + 1 \in 1 .. n
        BY <4>1
      <4>3. F[k + 1] \in [S -> S]
        BY <4>2
      <4> QED
        BY <3>1, <4>2, <4>3
    <3>2. CASE k + 1 \notin T
      <4>1. T \in SUBSET (1 .. k)
        BY <3>2
      <4> QED
        BY <3>2, <4>1
    <3> QED
      BY <3>1, <3>2
  <2>3. ASSUME NEW T \in SUBSET (1 .. k + 1)
        PROVE  h[T] = IF T = {} THEN base ELSE F[Max(T)][h[T \ {Max(T)}]]
    <3>1. CASE k + 1 \in T
      <4>1. Max(T) = k + 1
        <5>1. k + 1 \in Nat /\ T # {}
          BY <3>1
        <5>2. Max(T) \in T /\ Max(T) >= k + 1
          BY <3>1, <5>1, MaxOf
        <5>3. Max(T) \in 1 .. k + 1
          BY <5>2
        <5> QED
          BY <5>2, <5>3
      <4>2. T \ {k + 1} \in SUBSET (1 .. k) /\ T \ {k + 1} \in SUBSET (1 .. k + 1)
        OBVIOUS
      <4>3. h[T \ {k + 1}] = g[T \ {k + 1}]
        BY <4>2
      <4> QED
        BY <3>1, <4>1, <4>3
    <3>2. CASE k + 1 \notin T
      <4>1. T \in SUBSET (1 .. k)
        BY <3>2
      <4>2. g[T] = IF T = {} THEN base ELSE F[Max(T)][g[T \ {Max(T)}]]
        BY <2>1, <4>1 DEF Folding
      <4>3. T # {} => h[T \ {Max(T)}] = g[T \ {Max(T)}]
        <5>1. T \ {Max(T)} \in SUBSET (1 .. k + 1) /\ k + 1 \notin T \ {Max(T)}
          BY <3>2
        <5> QED
          BY <5>1
      <4>4. h[T] = g[T]
        BY <3>2
      <4> QED
        BY <4>2, <4>3, <4>4
    <3> QED
      BY <3>1, <3>2
  <2>4. Folding(h, base, k + 1, F)
    <3> DEFINE u == [T \in SUBSET (1 .. k + 1) |->
                     IF T = {} THEN base ELSE F[Max(T)][h[T \ {Max(T)}]]]
    <3>1. \A T \in SUBSET (1 .. k + 1) : h[T] = u[T]
      BY <2>3
    <3>2. h = u
      BY <3>1
    <3> QED
      BY <3>2 DEF Folding
  <2> HIDE DEF h
  <2> QED
    BY <2>2, <2>4
<1> HIDE DEF Good
<1>3. \A k \in 0 .. n : k \in Good
  BY <1>1, <1>2, UpTo
<1>4. n \in Good
  BY <1>3
<1> QED
  <2>1. n <= n
    OBVIOUS
  <2> QED
    BY <1>4, <2>1, Zenon DEF Good

-----------------------------------------------------------------------------
(* The leases: what a parse makes of the file, and who has it.             *)

LineRead(leases, line) ==
    IF line # Garbage /\ ~lease_exists(leases, line) THEN Append(leases, line) ELSE leases

\* A parse of the file is a run: the leases after each line.
LEMMA LeasesRun ==
  ASSUME NEW content \in Seq(Line)
  PROVE  \E r : /\ r[0] = <<>> /\ LeasesIn(content) = r[Len(content)]
                /\ \A k \in 1 .. Len(content) : r[k] = LineRead(r[k - 1], content[k])
<1> DEFINE n == Len(content)
           Read(leases, line) ==
             IF dhcp_server_lease_parse_line(line) THEN dhcp_server_lease_add(leases, line)
                                                   ELSE leases
           F == [i \in 1 .. n |-> [l \in Seq(Lease) |-> LineRead(l, content[i])]]
           Iterates(g) == g = [T \in SUBSET DOMAIN content |->
                    IF T = {} THEN <<>> ELSE Read(g[T \ {Max(T)}], content[Max(T)])]
           iter == CHOOSE g : Iterates(g)
           r == [k \in 0 .. n |-> iter[1 .. k]]
<1>1. n \in Nat /\ DOMAIN content = 1 .. n /\ \A i \in 1 .. n : content[i] \in Line
  BY LenProperties, ElementOfSeq
<1>2. \A l, x : Read(l, x) = LineRead(l, x)
  BY DEF LineRead, dhcp_server_lease_parse_line, dhcp_server_lease_add
<1>3. LeasesIn(content) = iter[DOMAIN content]
  BY Zenon DEF LeasesIn, FoldLeft, MapThenFoldSet
<1> HIDE DEF n, Read
<1>4. F \in [1 .. n -> [Seq(Lease) -> Seq(Lease)]]
  <2>1. ASSUME NEW i \in 1 .. n, NEW l \in Seq(Lease)
        PROVE  LineRead(l, content[i]) \in Seq(Lease)
    <3>1. content[i] # Garbage => content[i] \in Lease
      BY <1>1 DEF Line
    <3> QED
      BY <3>1, AppendProperties DEF LineRead
  <2> QED
    BY <2>1
<1>5. PICK g \in [SUBSET (1 .. n) -> Seq(Lease)] : Folding(g, <<>>, n, F)
  <2>1. <<>> \in Seq(Lease)
    BY EmptySeq
  <2> HIDE DEF F
  <2> QED
    BY <1>1, <1>4, <2>1, FoldExists
<1>6. Iterates(g)
  <2>1. ASSUME NEW T \in SUBSET (1 .. n), T # {}
        PROVE  F[Max(T)][g[T \ {Max(T)}]] = Read(g[T \ {Max(T)}], content[Max(T)])
    <3>1. Max(T) \in 1 .. n
      BY <1>1, <2>1, MaxOf
    <3>2. g[T \ {Max(T)}] \in Seq(Lease)
      OBVIOUS
    <3> QED
      BY <1>2, <3>1, <3>2
  <2> DEFINE h == [T \in SUBSET (1 .. n) |->
                    IF T = {} THEN <<>> ELSE Read(g[T \ {Max(T)}], content[Max(T)])]
  <2>2. g = [T \in SUBSET (1 .. n) |->
               IF T = {} THEN <<>> ELSE F[Max(T)][g[T \ {Max(T)}]]]
    BY <1>5 DEF Folding
  <2> HIDE DEF F
  <2>3. g = h
    BY <2>1, <2>2
  <2> QED
    BY <1>1, <2>3
<1>7. Iterates(iter)
  <2> HIDE DEF Iterates
  <2> QED
    BY <1>6, Zenon
<1> HIDE DEF iter
<1>8. iter[{}] = <<>>
  BY <1>7
<1>9. ASSUME NEW k \in 1 .. n
      PROVE  iter[1 .. k] = LineRead(iter[1 .. (k - 1)], content[k])
  <2>1. 1 .. k \in SUBSET (1 .. n) /\ k \in 1 .. k /\ 1 .. k # {} /\ (1 .. k) \ {k} = 1 .. (k - 1)
    BY <1>1
  <2>2. Max(1 .. k) = k
    <3>1. Max(1 .. k) \in 1 .. k /\ Max(1 .. k) >= k
      BY <1>1, <2>1, MaxOf
    <3> QED
      BY <3>1
  <2>3. iter[1 .. k] = Read(iter[(1 .. k) \ {Max(1 .. k)}], content[Max(1 .. k)])
    BY <1>1, <1>7, <2>1
  <2> QED
    BY <1>2, <2>1, <2>2, <2>3
<1>10. r[0] = <<>>
  <2>1. 0 \in 0 .. n /\ 1 .. 0 = {}
    BY <1>1
  <2> QED
    BY <1>8, <2>1
<1>11. \A k \in 1 .. n : r[k] = LineRead(r[k - 1], content[k])
  <2> SUFFICES ASSUME NEW k \in 1 .. n
               PROVE  r[k] = LineRead(r[k - 1], content[k])
    OBVIOUS
  <2>1. k \in 0 .. n /\ k - 1 \in 0 .. n
    BY <1>1
  <2> QED
    BY <1>9, <2>1
<1>12. LeasesIn(content) = r[n]
  BY <1>1, <1>3
<1> HIDE DEF r
<1> QED
  BY <1>10, <1>11, <1>12 DEF n

ClientsOf(leases) == {leases[i].client : i \in DOMAIN leases}
OncePerClient(leases) ==
    \A i, j \in DOMAIN leases : leases[i].client = leases[j].client => i = j
ClientsUpTo(content, k) == {content[i].client : i \in {i \in 1 .. k : content[i] # Garbage}}

LEMMA LineReadFacts ==
  ASSUME NEW leases \in Seq(Lease), NEW line \in Line, OncePerClient(leases)
  PROVE  LET t == LineRead(leases, line)
         IN  /\ t \in Seq(Lease) /\ OncePerClient(t)
             /\ ClientsOf(t) = ClientsOf(leases) \cup
                                 (IF line # Garbage THEN {line.client} ELSE {})
<1>1. Len(leases) \in Nat /\ DOMAIN leases = 1 .. Len(leases)
  BY LenProperties
<1>2. CASE line # Garbage /\ ~lease_exists(leases, line)
  <2> DEFINE t == Append(leases, line)
             n == Len(leases)
  <2>1. line \in Lease
    BY <1>2 DEF Line
  <2>2. /\ t \in Seq(Lease) /\ Len(t) = n + 1
        /\ \A i \in 1 .. n : t[i] = leases[i]
        /\ t[n + 1] = line
    BY <2>1, AppendProperties
  <2>3. DOMAIN t = 1 .. n + 1
    BY <2>2, LenProperties
  <2> HIDE DEF t
  <2>4. \A i \in 1 .. n : t[i].client = leases[i].client /\ leases[i].client # line.client
    BY <1>1, <1>2, <2>2 DEF lease_exists
  <2> HIDE DEF n
  <2>5. /\ \A i \in 1 .. n + 1 : i \in 1 .. n \/ i = n + 1
        /\ 1 .. n \subseteq 1 .. n + 1 /\ n + 1 \in 1 .. n + 1
    BY <1>1 DEF n
  <2>6. DOMAIN leases = 1 .. n
    BY <1>1 DEF n
  <2>7. ClientsOf(t) = ClientsOf(leases) \cup {line.client}
    BY <2>2, <2>3, <2>4, <2>5, <2>6 DEF ClientsOf
  <2>8. OncePerClient(t)
    <3> SUFFICES ASSUME NEW i \in 1 .. n + 1, NEW j \in 1 .. n + 1, t[i].client = t[j].client
                 PROVE  i = j
      BY <2>3 DEF OncePerClient
    <3>1. (i \in 1 .. n \/ i = n + 1) /\ (j \in 1 .. n \/ j = n + 1)
      BY <2>5
    <3>2. i \in 1 .. n /\ j \in 1 .. n => leases[i].client = leases[j].client
      BY <2>4
    <3> QED
      BY <2>2, <2>4, <2>6, <3>1, <3>2 DEF OncePerClient
  <2>9. LineRead(leases, line) = t
    BY <1>2 DEF LineRead, t
  <2> QED
    BY <1>2, <2>2, <2>7, <2>8, <2>9
<1>3. CASE ~(line # Garbage /\ ~lease_exists(leases, line))
  <2>1. LineRead(leases, line) = leases
    BY <1>3 DEF LineRead
  <2>2. line # Garbage => line.client \in ClientsOf(leases)
    BY <1>3 DEF lease_exists, ClientsOf
  <2> QED
    BY <2>1, <2>2
<1> QED
  BY <1>2, <1>3

\* The leases of a file: one of each client that has a line.
\* A parse gives the clients of all lines but the garbage, each once.
LEMMA LeasesInFacts ==
  ASSUME NEW content \in Seq(Line)
  PROVE  LET t == LeasesIn(content)
         IN  /\ t \in Seq(Lease) /\ OncePerClient(t)
             /\ ClientsOf(t) = {l.client : l \in ToSet(content) \ {Garbage}}
<1> DEFINE n == Len(content)
           t == LeasesIn(content)
<1>1. PICK r : /\ r[0] = <<>> /\ t = r[n]
               /\ \A k \in 1 .. n : r[k] = LineRead(r[k - 1], content[k])
  BY LeasesRun
<1> HIDE DEF t
<1>2. n \in Nat /\ DOMAIN content = 1 .. n /\ \A i \in 1 .. n : content[i] \in Line
  BY LenProperties, ElementOfSeq
<1> HIDE DEF n
<1> DEFINE Good == {k \in 0 .. n : /\ r[k] \in Seq(Lease) /\ OncePerClient(r[k])
                                   /\ ClientsOf(r[k]) = ClientsUpTo(content, k)}
<1>3. 0 \in Good
  <2>1. <<>> \in Seq(Lease) /\ DOMAIN <<>> = {}
    BY EmptySeq
  <2>2. ClientsOf(<<>>) = {} /\ OncePerClient(<<>>)
    BY <2>1 DEF ClientsOf, OncePerClient
  <2>3. ClientsUpTo(content, 0) = {}
    BY DEF ClientsUpTo
  <2>4. 0 \in 0 .. n
    BY <1>2
  <2>5. r[0] \in Seq(Lease) /\ OncePerClient(r[0]) /\ ClientsOf(r[0]) = ClientsUpTo(content, 0)
    <3>1. r[0] = <<>>
      BY <1>1
    <3> QED
      BY <2>1, <2>2, <2>3, <3>1, Zenon
  <2> QED
    BY <2>4, <2>5, Zenon
<1>4. ASSUME NEW k \in 0 .. n - 1, k \in Good
      PROVE  k + 1 \in Good
  <2>1. k + 1 \in 1 .. n /\ (k + 1) - 1 = k /\ k \in 0 .. n
    BY <1>2
  <2>2. r[k + 1] = LineRead(r[k], content[k + 1]) /\ content[k + 1] \in Line
    BY <1>1, <1>2, <2>1
  <2>3. r[k] \in Seq(Lease) /\ OncePerClient(r[k]) /\ ClientsOf(r[k]) = ClientsUpTo(content, k)
    BY <1>4
  <2>4. /\ r[k + 1] \in Seq(Lease) /\ OncePerClient(r[k + 1])
        /\ ClientsOf(r[k + 1]) = ClientsOf(r[k]) \cup
              (IF content[k + 1] # Garbage THEN {content[k + 1].client} ELSE {})
    BY <2>2, <2>3, LineReadFacts
  <2>5. ClientsUpTo(content, k + 1) = ClientsUpTo(content, k) \cup
              (IF content[k + 1] # Garbage THEN {content[k + 1].client} ELSE {})
    <3>1. 1 .. k + 1 = (1 .. k) \cup {k + 1}
      BY <2>1
    <3> QED
      BY <3>1 DEF ClientsUpTo
  <2>6. ClientsOf(r[k + 1]) = ClientsUpTo(content, k + 1)
    BY <2>3, <2>4, <2>5, Zenon
  <2>7. k + 1 \in 0 .. n
    BY <1>2, <2>1
  <2> QED
    BY <2>4, <2>6, <2>7, Zenon
<1> HIDE DEF Good
<1>5. n \in Good
  <2>1. \A k \in 0 .. n : k \in Good
    BY <1>2, <1>3, <1>4, UpTo
  <2> QED
    BY <1>2, <2>1
<1>6. t \in Seq(Lease) /\ OncePerClient(t) /\ ClientsOf(t) = ClientsUpTo(content, n)
  BY <1>1, <1>5 DEF Good
<1>7. ClientsUpTo(content, n) = {l.client : l \in ToSet(content) \ {Garbage}}
  BY <1>2 DEF ClientsUpTo, ToSet
<1> QED
  BY <1>6, <1>7 DEF t

\* A list without its i-th element.
LEMMA Removed ==
  ASSUME NEW S, NEW s \in Seq(S), NEW i \in 1 .. Len(s)
  PROVE  LET t == RemoveAt(s, i)
         IN  /\ t \in Seq(S) /\ Len(t) = Len(s) - 1
             /\ \A j \in 1 .. Len(s) - 1 : t[j] = IF j < i THEN s[j] ELSE s[j + 1]
<1> DEFINE n == Len(s)
           u == SubSeq(s, 1, i - 1)
           v == SubSeq(s, i + 1, n)
<1>1. n \in Nat /\ i \in Nat /\ 1 <= i /\ i <= n /\ \A j \in 1 .. n : s[j] \in S
  BY LenProperties, ElementOfSeq
<1>2. RemoveAt(s, i) = u \o v
  BY DEF RemoveAt
<1> HIDE DEF n
<1>3. u \in Seq(S) /\ Len(u) = i - 1 /\ \A j \in 1 .. i - 1 : u[j] = s[j]
  <2>1. \A j \in 1 .. i - 1 : s[j] \in S
    BY <1>1
  <2>2. 1 \in Int /\ i - 1 \in Int
    BY <1>1
  <2>3. /\ u \in Seq(S)
        /\ Len(u) = IF 1 <= i - 1 THEN (i - 1) - 1 + 1 ELSE 0
        /\ \A j \in 1 .. (i - 1) - 1 + 1 : u[j] = s[1 + j - 1]
    BY <2>1, <2>2, SubSeqProperties
  <2>4. Len(u) = i - 1
    BY <1>1, <2>3
  <2>5. ASSUME NEW j \in 1 .. i - 1
        PROVE  u[j] = s[j]
    <3>1. j \in 1 .. (i - 1) - 1 + 1 /\ 1 + j - 1 = j
      BY <1>1
    <3> QED
      BY <2>3, <3>1
  <2> QED
    BY <2>3, <2>4, <2>5
<1>4. v \in Seq(S) /\ Len(v) = n - i /\ \A j \in 1 .. n - i : v[j] = s[i + j]
  <2>1. \A j \in i + 1 .. n : s[j] \in S
    BY <1>1
  <2>2. i + 1 \in Int /\ n \in Int
    BY <1>1
  <2>3. /\ v \in Seq(S)
        /\ Len(v) = IF i + 1 <= n THEN n - (i + 1) + 1 ELSE 0
        /\ \A j \in 1 .. n - (i + 1) + 1 : v[j] = s[(i + 1) + j - 1]
    BY <2>1, <2>2, SubSeqProperties
  <2>4. Len(v) = n - i
    BY <1>1, <2>3
  <2>5. ASSUME NEW j \in 1 .. n - i
        PROVE  v[j] = s[i + j]
    <3>1. j \in 1 .. n - (i + 1) + 1 /\ (i + 1) + j - 1 = i + j
      BY <1>1
    <3> QED
      BY <2>3, <3>1
  <2> QED
    BY <2>3, <2>4, <2>5
<1> HIDE DEF u, v
<1> DEFINE t == u \o v
<1>5. /\ t \in Seq(S) /\ Len(t) = (i - 1) + (n - i)
      /\ \A j \in 1 .. (i - 1) + (n - i) : t[j] = IF j <= i - 1 THEN u[j] ELSE v[j - (i - 1)]
  <2>1. /\ t \in Seq(S) /\ Len(t) = Len(u) + Len(v)
        /\ \A j \in 1 .. Len(u) + Len(v) : t[j] = IF j <= Len(u) THEN u[j] ELSE v[j - Len(u)]
    BY <1>3, <1>4, ConcatProperties
  <2>2. Len(u) = i - 1 /\ Len(v) = n - i
    BY <1>3, <1>4
  <2> HIDE DEF t
  <2> QED
    BY <2>1, <2>2
<1> HIDE DEF t
<1>6. Len(t) = n - 1
  BY <1>1, <1>5
<1>7. ASSUME NEW j \in 1 .. n - 1
      PROVE  t[j] = IF j < i THEN s[j] ELSE s[j + 1]
  <2>1. j \in 1 .. (i - 1) + (n - i)
    BY <1>1
  <2>2. CASE j < i
    <3>1. j <= i - 1 /\ j \in 1 .. i - 1
      BY <1>1, <2>2
    <3> QED
      BY <1>3, <1>5, <2>1, <2>2, <3>1
  <2>3. CASE ~(j < i)
    <3>1. ~(j <= i - 1) /\ j - (i - 1) \in 1 .. n - i /\ i + (j - (i - 1)) = j + 1
      BY <1>1, <2>3
    <3> QED
      BY <1>4, <1>5, <2>1, <2>3, <3>1
  <2> QED
    BY <2>2, <2>3
<1>8. t = RemoveAt(s, i)
  BY <1>2 DEF t
<1>9. \A j \in 1 .. n - 1 : t[j] = IF j < i THEN s[j] ELSE s[j + 1]
  BY <1>7
<1> QED
  BY <1>5, <1>6, <1>8, <1>9, Zenon DEF n

Quiet == attr = Stat /\ ~fed /\ ~dhcp_lease_init_debounce

\* What the users of the first object should have.
FileLeases == IF file = NoFile THEN <<>> ELSE LeasesIn(file)

\* The leases are at the first object alone, and an object was told what it has.
CachesInv ==
    \A s \in Servers :
      /\ s \notin ToSet(dhcp_server_list) => ds_leases[s] = <<>>
      /\ ~(s \in ToSet(dhcp_server_list) /\ ds_status_fn[s]) => told[s] = NotTold
      /\ told[s] # NotTold => told[s] = ds_leases[s]
      /\ ds_leases[s] # <<>> => dhcp_server_list # <<>> /\ s = Head(dhcp_server_list)

\* While nothing is due, a parse that did not fail was of the file as it is.
FileInv ==
    /\ attr.seen <= writes
    /\ dhcp_server_list # <<>> /\ lastRead = "ok" /\ ~orphaned /\ Quiet
         => ds_leases[Head(dhcp_server_list)] = FileLeases

\* told is a function, of whatever values.
ToldType == \E S : told \in [Servers -> S]

DhcpInv == DhcpTypeOK /\ ToldType /\ CachesInv /\ FileInv

LEMMA ListFacts ==
  ASSUME NEW list \in Seq(Servers)
  PROVE  /\ Len(list) \in Nat /\ DOMAIN list = 1 .. Len(list)
         /\ list = <<>> <=> Len(list) = 0
         /\ list # <<>> => Head(list) = list[1] /\ Head(list) \in Servers /\ Head(list) \in ToSet(list)
         /\ ToSet(list) = {list[i] : i \in 1 .. Len(list)}
         /\ \A i \in 1 .. Len(list) : list[i] \in Servers
<1>1. Len(list) \in Nat /\ DOMAIN list = 1 .. Len(list) /\ (list = <<>> <=> Len(list) = 0)
      /\ \A i \in 1 .. Len(list) : list[i] \in Servers
  BY LenProperties, EmptySeq, ElementOfSeq
<1>2. ToSet(list) = {list[i] : i \in 1 .. Len(list)}
  BY <1>1 DEF ToSet
<1>3. ASSUME list # <<>>
      PROVE  Head(list) = list[1] /\ Head(list) \in Servers /\ Head(list) \in ToSet(list)
  <2>1. Head(list) = list[1]
    BY <1>3
  <2>2. 1 \in 1 .. Len(list)
    BY <1>1, <1>3
  <2> QED
    BY <1>1, <1>2, <2>1, <2>2
<1> QED
  BY <1>1, <1>2, <1>3

LEMMA ListAppended ==
  ASSUME NEW list \in Seq(Servers), IsInjective(list), NEW s \in Servers, s \notin ToSet(list)
  PROVE  LET t == Append(list, s)
         IN  /\ t \in Seq(Servers) /\ IsInjective(t) /\ t # <<>>
             /\ ToSet(t) = ToSet(list) \cup {s}
             /\ list # <<>> => Head(t) = Head(list)
<1> DEFINE t == Append(list, s)
           n == Len(list)
<1>1. n \in Nat /\ DOMAIN list = 1 .. n /\ ToSet(list) = {list[i] : i \in 1 .. n}
  BY ListFacts
<1>2. /\ t \in Seq(Servers) /\ Len(t) = n + 1
      /\ \A i \in 1 .. n : t[i] = list[i]
      /\ t[n + 1] = s
  BY AppendProperties
<1> HIDE DEF t
<1>3. DOMAIN t = 1 .. n + 1 /\ t # <<>> /\ Head(t) = t[1] /\ ToSet(t) = {t[i] : i \in 1 .. n + 1}
  BY <1>1, <1>2, ListFacts
<1>4. list # <<>> => Head(t) = Head(list)
  <2> SUFFICES ASSUME list # <<>> PROVE Head(t) = Head(list)
    OBVIOUS
  <2>1. Head(list) = list[1] /\ 1 \in 1 .. n
    BY <1>1, ListFacts
  <2> QED
    BY <1>2, <1>3, <2>1
<1> HIDE DEF n
<1>5. \A i \in 1 .. n + 1 : i \in 1 .. n \/ i = n + 1
  BY <1>1
<1>6. IsInjective(t)
  <2> SUFFICES ASSUME NEW i \in 1 .. n + 1, NEW j \in 1 .. n + 1, t[i] = t[j]
               PROVE  i = j
    BY <1>3 DEF IsInjective
  <2> QED
    BY <1>1, <1>2, <1>5 DEF IsInjective
<1>7. ToSet(t) = ToSet(list) \cup {s}
  <2>1. 1 .. n + 1 = (1 .. n) \cup {n + 1}
    BY <1>1
  <2> QED
    BY <1>1, <1>2, <1>3, <2>1
<1> QED
  BY <1>2, <1>3, <1>4, <1>6, <1>7 DEF t

LEMMA ListRemoved ==
  ASSUME NEW list \in Seq(Servers), IsInjective(list), NEW i \in DOMAIN list
  PROVE  LET t == RemoveAt(list, i)
         IN  /\ t \in Seq(Servers) /\ IsInjective(t)
             /\ ToSet(t) = ToSet(list) \ {list[i]}
             /\ list # <<>>
             /\ t # <<>> /\ Head(list) # list[i] => Head(t) = Head(list)
<1> DEFINE t == RemoveAt(list, i)
           n == Len(list)
<1>1. n \in Nat /\ DOMAIN list = 1 .. n /\ ToSet(list) = {list[j] : j \in 1 .. n}
      /\ i \in 1 .. n /\ list # <<>> /\ Head(list) = list[1]
  <2>1. n \in Nat /\ DOMAIN list = 1 .. n /\ ToSet(list) = {list[j] : j \in 1 .. n} /\ i \in 1 .. n
    BY ListFacts
  <2>2. list # <<>>
    BY <2>1, ListFacts
  <2> QED
    BY <2>1, <2>2, ListFacts
<1>2. /\ t \in Seq(Servers) /\ Len(t) = n - 1
      /\ \A j \in 1 .. n - 1 : t[j] = IF j < i THEN list[j] ELSE list[j + 1]
  BY <1>1, Removed
<1> HIDE DEF t
<1>3. DOMAIN t = 1 .. n - 1 /\ ToSet(t) = {t[j] : j \in 1 .. n - 1}
      /\ (t # <<>> => n - 1 # 0 /\ Head(t) = t[1])
  BY <1>1, <1>2, ListFacts
<1> HIDE DEF n
<1> DEFINE from(j) == IF j < i THEN j ELSE j + 1
<1>4. /\ \A j \in 1 .. n - 1 : t[j] = list[from(j)] /\ from(j) \in 1 .. n /\ from(j) # i
      /\ \A j, k \in 1 .. n - 1 : from(j) = from(k) => j = k
      /\ \A k \in 1 .. n : k # i => \E j \in 1 .. n - 1 : from(j) = k
  <2>1. ASSUME NEW j \in 1 .. n - 1
        PROVE  t[j] = list[from(j)] /\ from(j) \in 1 .. n /\ from(j) # i
    BY <1>1, <1>2
  <2>2. ASSUME NEW j \in 1 .. n - 1, NEW k \in 1 .. n - 1, from(j) = from(k)
        PROVE  j = k
    BY <1>1, <2>2
  <2>3. ASSUME NEW k \in 1 .. n, k # i
        PROVE  \E j \in 1 .. n - 1 : from(j) = k
    <3>1. CASE k < i
      <4>1. k \in 1 .. n - 1 /\ from(k) = k
        BY <1>1, <3>1
      <4> QED
        BY <4>1
    <3>2. CASE ~(k < i)
      <4>1. k - 1 \in 1 .. n - 1 /\ from(k - 1) = k
        BY <1>1, <2>3, <3>2
      <4> QED
        BY <4>1
    <3> QED
      BY <3>1, <3>2
  <2> QED
    BY <2>1, <2>2, <2>3
<1>5. t # <<>> /\ Head(list) # list[i] => Head(t) = Head(list)
  <2> SUFFICES ASSUME t # <<>>, list[1] # list[i]
               PROVE  t[1] = list[1]
    BY <1>1, <1>3
  <2>1. i # 1 /\ 1 < i /\ 1 \in 1 .. n - 1
    BY <1>1, <1>3
  <2> QED
    BY <1>2, <2>1
<1> HIDE DEF from
<1>6. IsInjective(t)
  <2> SUFFICES ASSUME NEW j \in 1 .. n - 1, NEW k \in 1 .. n - 1, t[j] = t[k]
               PROVE  j = k
    BY <1>3 DEF IsInjective
  <2>1. from(j) = from(k)
    BY <1>1, <1>4 DEF IsInjective
  <2> QED
    BY <1>4, <2>1
<1>7. ToSet(t) = ToSet(list) \ {list[i]}
  <2>1. ASSUME NEW j \in 1 .. n - 1
        PROVE  t[j] \in ToSet(list) \ {list[i]}
    BY <1>1, <1>4 DEF IsInjective
  <2>2. ASSUME NEW k \in 1 .. n, list[k] # list[i]
        PROVE  list[k] \in ToSet(t)
    <3>1. PICK j \in 1 .. n - 1 : from(j) = k
      BY <1>4, <2>2
    <3> QED
      BY <1>3, <1>4, <3>1
  <2> QED
    BY <1>1, <1>3, <2>1, <2>2
<1> QED
  BY <1>1, <1>2, <1>5, <1>6, <1>7 DEF t

\* What DhcpTypeOK says, and what the other parts need of it.
LEMMA DhcpTypes ==
  ASSUME DhcpTypeOK
  PROVE  /\ attr \in [seen : 0 .. MaxWrites, st_nlink : BOOLEAN]
         /\ attr.seen \in Int /\ writes \in Int
         /\ dhcp_server_list \in Seq(Servers) /\ IsInjective(dhcp_server_list)
         /\ ds_leases \in [Servers -> Seq(Lease)]
         /\ file # NoFile => file \in Seq(Line)
         /\ attr = Stat <=> attr.seen = writes /\ attr.st_nlink = (file # NoFile)
<1>1. attr \in [seen : 0 .. MaxWrites, st_nlink : BOOLEAN] /\ writes \in Int
  BY DEF DhcpTypeOK
<1>2. attr.seen \in Int
  BY <1>1
<1>3. file # NoFile => file \in Seq(Line)
  BY DhcpAssumption DEF DhcpTypeOK
<1>4. attr = Stat <=> attr.seen = writes /\ attr.st_nlink = (file # NoFile)
  BY <1>1 DEF Stat
<1> QED
  BY <1>1, <1>2, <1>3, <1>4 DEF DhcpTypeOK

LEMMA WriteFileStep ==
  ASSUME DhcpInv, WriteFile
  PROVE  DhcpInv'
<1>1. /\ writes' = writes + 1 /\ file' \in Files /\ writes < MaxWrites
      /\ UNCHANGED <<serverVars, watchVars, dhcpGhosts, created, parseFailures>>
  BY DEF WriteFile
<1>2. attr.seen \in Int /\ writes \in Int /\ attr.seen <= writes
  BY DhcpTypes DEF DhcpInv, FileInv
<1>3. writes' \in 0 .. MaxWrites
  BY <1>1, DhcpAssumption DEF DhcpInv, DhcpTypeOK
<1>4. DhcpTypeOK'
  BY <1>1, <1>3 DEF DhcpInv, DhcpTypeOK, serverVars, watchVars, dhcpGhosts
<1>5. CachesInv' /\ ToldType'
  BY <1>1 DEF DhcpInv, CachesInv, ToldType, serverVars, dhcpGhosts
<1>6. attr.seen <= writes' /\ attr.seen # writes'
  BY <1>1, <1>2
<1>7. attr' = attr
  BY <1>1 DEF watchVars
<1>8. attr' # Stat'
  BY <1>6, <1>7 DEF Stat
<1> QED
  BY <1>4, <1>5, <1>6, <1>7, <1>8 DEF DhcpInv, FileInv, Quiet

LEMMA NewServerStep ==
  ASSUME DhcpInv, NEW s \in Servers, osn_dhcp_server_new(s)
  PROVE  DhcpInv'
<1>1. /\ s \notin ToSet(dhcp_server_list) /\ created < MaxCreated /\ created' = created + 1
      /\ dhcp_server_list' = Append(dhcp_server_list, s)
      /\ UNCHANGED <<fileVars, ds_leases, ds_status_fn, ds_range_list, fed, told, parseFailures>>
      /\ IF dhcp_server_list = <<>>
           THEN /\ attr' = Stat /\ watching' = TRUE /\ dhcp_lease_init_debounce' = TRUE
                /\ lastRead' = "none" /\ orphaned' = FALSE
           ELSE UNCHANGED <<attr, watching, dhcp_lease_init_debounce, lastRead, orphaned>>
  BY DEF osn_dhcp_server_new, dhcp_server_init
<1>2. dhcp_server_list \in Seq(Servers) /\ IsInjective(dhcp_server_list)
  BY DhcpTypes DEF DhcpInv
<1>3. /\ dhcp_server_list' \in Seq(Servers) /\ IsInjective(dhcp_server_list')
      /\ dhcp_server_list' # <<>>
      /\ ToSet(dhcp_server_list') = ToSet(dhcp_server_list) \cup {s}
      /\ dhcp_server_list # <<>> => Head(dhcp_server_list') = Head(dhcp_server_list)
  BY <1>1, <1>2, ListAppended
<1>4. created' \in 0 .. MaxCreated
  BY <1>1, DhcpAssumption DEF DhcpInv, DhcpTypeOK
<1>5. Stat \in [seen : 0 .. MaxWrites, st_nlink : BOOLEAN] /\ Stat.seen <= writes /\ Stat' = Stat
  BY <1>1 DEF DhcpInv, DhcpTypeOK, Stat, fileVars
<1>6. DhcpTypeOK'
  BY <1>1, <1>3, <1>4, <1>5 DEF DhcpInv, DhcpTypeOK, fileVars
<1>7. CachesInv'
  <2> SUFFICES ASSUME NEW t \in Servers
               PROVE  /\ t \notin ToSet(dhcp_server_list') => ds_leases'[t] = <<>>
                      /\ ~(t \in ToSet(dhcp_server_list') /\ ds_status_fn'[t]) => told'[t] = NotTold
                      /\ told'[t] # NotTold => told'[t] = ds_leases'[t]
                      /\ ds_leases'[t] # <<>> =>
                           dhcp_server_list' # <<>> /\ t = Head(dhcp_server_list')
    BY DEF CachesInv
  <2>1. /\ t \notin ToSet(dhcp_server_list) => ds_leases[t] = <<>>
        /\ ~(t \in ToSet(dhcp_server_list) /\ ds_status_fn[t]) => told[t] = NotTold
        /\ told[t] # NotTold => told[t] = ds_leases[t]
        /\ ds_leases[t] # <<>> => dhcp_server_list # <<>> /\ t = Head(dhcp_server_list)
    BY DEF DhcpInv, CachesInv
  <2>2. UNCHANGED <<ds_leases, ds_status_fn, told>>
    BY <1>1
  <2> QED
    BY <1>3, <2>1, <2>2
<1>8. FileInv'
  <2>1. CASE dhcp_server_list = <<>>
    BY <1>1, <1>5, <2>1 DEF FileInv, Quiet, fileVars
  <2>2. CASE dhcp_server_list # <<>>
    <3>1. UNCHANGED <<attr, dhcp_lease_init_debounce, lastRead, orphaned, fed, ds_leases, file, writes>>
      BY <1>1, <2>2 DEF fileVars
    <3> QED
      BY <1>3, <1>5, <2>2, <3>1 DEF DhcpInv, FileInv, Quiet, FileLeases
  <2> QED
    BY <2>1, <2>2
<1>9. ToldType'
  BY <1>1 DEF DhcpInv, ToldType
<1> QED
  BY <1>6, <1>7, <1>8, <1>9 DEF DhcpInv

LEMMA DeleteServerStep ==
  ASSUME DhcpInv, NEW s \in Servers, osn_dhcp_server_del(s)
  PROVE  DhcpInv'
<1> DEFINE i == Place(s)
<1>1. /\ s \in ToSet(dhcp_server_list)
      /\ ds_range_list' = [ds_range_list EXCEPT ![s] = {}]
      /\ dhcp_server_list' = RemoveAt(dhcp_server_list, i)
      /\ ds_leases' = [ds_leases EXCEPT ![s] = <<>>]
      /\ ds_status_fn' = [ds_status_fn EXCEPT ![s] = FALSE]
      /\ told' = [told EXCEPT ![s] = NotTold]
      /\ orphaned' = (orphaned \/ ds_leases[s] # <<>>)
      /\ UNCHANGED <<fileVars, attr, lastRead, created, parseFailures>>
      /\ \/ /\ dhcp_server_list' = <<>>
            /\ watching' = FALSE /\ fed' = FALSE /\ dhcp_lease_init_debounce' = FALSE
         \/ UNCHANGED <<watching, fed, dhcp_lease_init_debounce>>
  BY DEF osn_dhcp_server_del, RemoveServer
<1>2. dhcp_server_list \in Seq(Servers) /\ IsInjective(dhcp_server_list)
  BY DhcpTypes DEF DhcpInv
<1>3. i \in DOMAIN dhcp_server_list /\ dhcp_server_list[i] = s
  <2>1. \E j \in DOMAIN dhcp_server_list : dhcp_server_list[j] = s
    BY <1>1 DEF ToSet
  <2> QED
    BY <2>1 DEF Place
<1> HIDE DEF i
<1>4. /\ dhcp_server_list' \in Seq(Servers) /\ IsInjective(dhcp_server_list')
      /\ dhcp_server_list # <<>>
      /\ ToSet(dhcp_server_list') = ToSet(dhcp_server_list) \ {s}
      /\ dhcp_server_list' # <<>> /\ Head(dhcp_server_list) # s =>
           Head(dhcp_server_list') = Head(dhcp_server_list)
  BY <1>1, <1>2, <1>3, ListRemoved
<1>5. UNCHANGED <<file, writes, attr, lastRead, created, parseFailures>>
  BY <1>1 DEF fileVars
<1>6. /\ ToldType'
      /\ \A t \in Servers : /\ ds_leases'[t] = IF t = s THEN <<>> ELSE ds_leases[t]
                            /\ ds_status_fn'[t] = IF t = s THEN FALSE ELSE ds_status_fn[t]
                            /\ told'[t] = IF t = s THEN NotTold ELSE told[t]
  <2>1. PICK S : told \in [Servers -> S]
    BY DEF DhcpInv, ToldType
  <2>2. told' \in [Servers -> S \cup {NotTold}]
    BY <1>1, <2>1
  <2>3. ToldType'
    BY <2>2 DEF ToldType
  <2>4. ds_leases \in [Servers -> Seq(Lease)] /\ ds_status_fn \in [Servers -> BOOLEAN]
    BY DEF DhcpInv, DhcpTypeOK
  <2> QED
    BY <1>1, <2>1, <2>3, <2>4
<1>7. DhcpTypeOK'
  <2>1. /\ ds_leases' \in [Servers -> Seq(Lease)]
        /\ ds_status_fn' \in [Servers -> BOOLEAN]
        /\ ds_range_list' \in [Servers -> SUBSET Ranges]
        /\ orphaned' \in BOOLEAN
        /\ watching' \in BOOLEAN /\ fed' \in BOOLEAN /\ dhcp_lease_init_debounce' \in BOOLEAN
    BY <1>1, EmptySeq DEF DhcpInv, DhcpTypeOK
  <2> QED
    BY <1>4, <1>5, <1>6, <2>1 DEF DhcpInv, DhcpTypeOK
<1>8. CachesInv'
  <2> SUFFICES ASSUME NEW t \in Servers
               PROVE  /\ t \notin ToSet(dhcp_server_list') => ds_leases'[t] = <<>>
                      /\ ~(t \in ToSet(dhcp_server_list') /\ ds_status_fn'[t]) => told'[t] = NotTold
                      /\ told'[t] # NotTold => told'[t] = ds_leases'[t]
                      /\ ds_leases'[t] # <<>> =>
                           dhcp_server_list' # <<>> /\ t = Head(dhcp_server_list')
    BY DEF CachesInv
  <2>1. /\ t \notin ToSet(dhcp_server_list) => ds_leases[t] = <<>>
        /\ ~(t \in ToSet(dhcp_server_list) /\ ds_status_fn[t]) => told[t] = NotTold
        /\ told[t] # NotTold => told[t] = ds_leases[t]
        /\ ds_leases[t] # <<>> => dhcp_server_list # <<>> /\ t = Head(dhcp_server_list)
    BY DEF DhcpInv, CachesInv
  <2>2. CASE t = s
    BY <1>6, <2>2
  <2>3. CASE t # s
    <3>1. ds_leases'[t] = ds_leases[t] /\ ds_status_fn'[t] = ds_status_fn[t] /\ told'[t] = told[t]
      BY <1>6, <2>3
    <3>2. t \in ToSet(dhcp_server_list') <=> t \in ToSet(dhcp_server_list)
      BY <1>4, <2>3
    <3>3. ds_leases[t] # <<>> => dhcp_server_list' # <<>>
      <4>1. t \in ToSet(dhcp_server_list') => dhcp_server_list' # <<>>
        BY <1>4, ListFacts DEF ToSet
      <4> QED
        BY <2>1, <3>2, <4>1
    <3> QED
      BY <1>4, <2>1, <2>3, <3>1, <3>2, <3>3
  <2> QED
    BY <2>2, <2>3
<1>9. FileInv'
  <2>1. attr'.seen <= writes'
    BY <1>5 DEF DhcpInv, FileInv
  <2> SUFFICES ASSUME dhcp_server_list' # <<>>, lastRead' = "ok", ~orphaned', Quiet'
               PROVE  ds_leases'[Head(dhcp_server_list')] = FileLeases'
    BY <2>1 DEF FileInv
  <2>2. Quiet /\ lastRead = "ok" /\ ~orphaned /\ ds_leases[s] = <<>>
    <3>1. UNCHANGED <<watching, fed, dhcp_lease_init_debounce>>
      BY <1>1
    <3>2. Quiet /\ lastRead = "ok"
      BY <1>5, <3>1 DEF Quiet, Stat
    <3>3. ~orphaned /\ ~(ds_leases[s] # <<>>)
      BY <1>1, Zenon
    <3> QED
      BY <3>2, <3>3
  <2>3. ds_leases[Head(dhcp_server_list)] = FileLeases /\ FileLeases' = FileLeases
    BY <1>4, <1>5, <2>2 DEF DhcpInv, FileInv, FileLeases
  <2>4. Head(dhcp_server_list') \in Servers
    BY <1>4, ListFacts
  <2>5. CASE Head(dhcp_server_list) = s
    <3>1. ds_leases'[Head(dhcp_server_list')] = <<>>
      <4> DEFINE h == Head(dhcp_server_list')
      <4>1. ds_leases[h] # <<>> => h = s
        BY <2>4, <2>5 DEF DhcpInv, CachesInv
      <4> QED
        BY <1>6, <2>4, <4>1
    <3> QED
      BY <2>2, <2>3, <2>5, <3>1
  <2>6. CASE Head(dhcp_server_list) # s
    BY <1>4, <1>6, <2>3, <2>4, <2>6
  <2> QED
    BY <2>5, <2>6
<1> QED
  BY <1>6, <1>7, <1>8, <1>9 DEF DhcpInv

LEMMA CallStep ==
  ASSUME DhcpInv, NEW s \in Servers,
         osn_dhcp_server_status_notify(s) \/ \E ranges \in SUBSET Ranges : SetRanges(s, ranges)
  PROVE  DhcpInv'
<1>1. /\ UNCHANGED <<fileVars, dhcp_server_list, ds_leases, watchVars, dhcpGhosts, created,
                     parseFailures>>
      /\ ds_status_fn' \in [Servers -> BOOLEAN] /\ ds_range_list' \in [Servers -> SUBSET Ranges]
      /\ \A t \in Servers : ds_status_fn[t] => ds_status_fn'[t]
  BY DEF osn_dhcp_server_status_notify, SetRanges, DhcpInv, DhcpTypeOK
<1>2. UNCHANGED <<file, writes, attr, watching, fed, dhcp_lease_init_debounce, told, lastRead, orphaned>>
  BY <1>1 DEF fileVars, watchVars, dhcpGhosts
<1>3. DhcpTypeOK'
  BY <1>1, <1>2 DEF DhcpInv, DhcpTypeOK
<1>4. CachesInv' /\ ToldType'
  BY <1>1, <1>2 DEF DhcpInv, CachesInv, ToldType
<1>5. FileInv'
  BY <1>1, <1>2 DEF DhcpInv, FileInv, Quiet, Stat, FileLeases
<1> QED
  BY <1>3, <1>4, <1>5 DEF DhcpInv

LEMMA PollStep ==
  ASSUME DhcpInv, WatcherPolls
  PROVE  DhcpInv'
<1>1. /\ attr' = Stat /\ fed' = TRUE
      /\ UNCHANGED <<file, writes, dhcp_server_list, ds_leases, ds_status_fn, ds_range_list,
                     watching, dhcp_lease_init_debounce, told, lastRead, orphaned, created,
                     parseFailures>>
  BY DEF WatcherPolls, fileVars, serverVars, dhcpGhosts
<1>2. Stat \in [seen : 0 .. MaxWrites, st_nlink : BOOLEAN] /\ Stat.seen = writes /\ writes <= writes
  BY DEF DhcpInv, DhcpTypeOK, Stat
<1>3. DhcpTypeOK'
  BY <1>1, <1>2 DEF DhcpInv, DhcpTypeOK
<1>4. CachesInv' /\ ToldType'
  BY <1>1 DEF DhcpInv, CachesInv, ToldType
<1>5. FileInv'
  BY <1>1, <1>2 DEF FileInv, Quiet
<1> QED
  BY <1>3, <1>4, <1>5 DEF DhcpInv

\* The caches after they were cleared and the file, or nothing, was read.
Filled == \/ ds_leases' = Cleared
          \/ file # NoFile /\ ds_leases' = Parsed

LEMMA FilledFacts ==
  ASSUME DhcpInv, Filled
  PROVE  /\ ds_leases' \in [Servers -> Seq(Lease)]
         /\ \A s \in Servers : ds_leases'[s] # <<>> =>
              dhcp_server_list # <<>> /\ s = Head(dhcp_server_list)
         /\ ds_leases' = Parsed /\ dhcp_server_list # <<>> =>
              ds_leases'[Head(dhcp_server_list)] = LeasesIn(file)
<1>1. dhcp_server_list \in Seq(Servers) /\ (file # NoFile => file \in Seq(Line))
  BY DhcpTypes DEF DhcpInv
<1>2. <<>> \in Seq(Lease) /\ (file # NoFile => LeasesIn(file) \in Seq(Lease))
  BY <1>1, EmptySeq, LeasesInFacts
<1>3. dhcp_server_list # <<>> => Head(dhcp_server_list) \in Servers
  BY <1>1, ListFacts
<1>4. CASE ds_leases' = Parsed /\ file # NoFile /\ dhcp_server_list # <<>>
  <2>1. ds_leases' = [Cleared EXCEPT ![Head(dhcp_server_list)] = LeasesIn(file)]
    BY <1>4 DEF Parsed, dhcp_server_find_by_lease
  <2> QED
    BY <1>2, <1>3, <1>4, <2>1 DEF Cleared
<1>5. CASE ds_leases' = Cleared
  <2>1. \A s \in Servers : ds_leases'[s] = <<>>
    BY <1>5 DEF Cleared
  <2>2. ds_leases' \in [Servers -> Seq(Lease)]
    BY <1>2, <1>5 DEF Cleared
  <2>3. ds_leases' = Parsed /\ dhcp_server_list # <<>> =>
              ds_leases'[Head(dhcp_server_list)] = LeasesIn(file)
    BY <1>3 DEF Parsed, Cleared, dhcp_server_find_by_lease
  <2> QED
    BY <2>1, <2>2, <2>3
<1>6. CASE ds_leases' = Parsed /\ dhcp_server_list = <<>>
  <2>1. ds_leases' = Cleared
    BY <1>6 DEF Parsed
  <2> QED
    BY <1>2, <1>6, <2>1 DEF Cleared
<1> QED
  BY <1>4, <1>5, <1>6 DEF Filled

\* A look at the file: the caches are filled, what could be read is in the first
\* object's, and the users are told.
Looked ==
    /\ Filled
    /\ Quiet' /\ lastRead' = "ok" => ds_leases' = IF file = NoFile THEN Cleared ELSE Parsed
    /\ lastRead' \in {"ok", "failed"} /\ parseFailures' \in 0 .. MaxParseFailures
    /\ dhcp_server_status_dispatch
    /\ orphaned' = FALSE
    /\ UNCHANGED <<fileVars, dhcp_server_list, ds_status_fn, ds_range_list, attr, watching, created>>

LEMMA LookedStep ==
  ASSUME DhcpInv, Looked, fed' \in BOOLEAN, dhcp_lease_init_debounce' \in BOOLEAN
  PROVE  DhcpInv'
<1>1. /\ ds_leases' \in [Servers -> Seq(Lease)]
      /\ \A s \in Servers : ds_leases'[s] # <<>> =>
           dhcp_server_list # <<>> /\ s = Head(dhcp_server_list)
      /\ ds_leases' = Parsed /\ dhcp_server_list # <<>> =>
           ds_leases'[Head(dhcp_server_list)] = LeasesIn(file)
  BY FilledFacts DEF Looked
<1>2. /\ told' = [s \in Servers |-> IF s \in ToSet(dhcp_server_list) /\ ds_status_fn[s]
                                      THEN ds_leases'[s] ELSE told[s]]
      /\ UNCHANGED <<file, writes, dhcp_server_list, ds_status_fn, ds_range_list, attr, watching, created>>
  BY DEF Looked, dhcp_server_status_dispatch, fileVars
<1>3. ToldType'
  <2>1. told' \in [Servers -> {told'[s] : s \in Servers}]
    BY <1>2
  <2> QED
    BY <2>1 DEF ToldType
<1>4. ASSUME NEW s \in Servers
      PROVE  /\ told'[s] = NotTold \/ told'[s] \in Seq(Lease)
             /\ s \notin ToSet(dhcp_server_list) => ds_leases'[s] = <<>>
             /\ ~(s \in ToSet(dhcp_server_list) /\ ds_status_fn[s]) => told'[s] = NotTold
             /\ told'[s] # NotTold => told'[s] = ds_leases'[s]
  <2>1. /\ ~(s \in ToSet(dhcp_server_list) /\ ds_status_fn[s]) => told[s] = NotTold
    BY DEF DhcpInv, CachesInv
  <2>2. told'[s] = IF s \in ToSet(dhcp_server_list) /\ ds_status_fn[s] THEN ds_leases'[s] ELSE told[s]
    BY <1>2
  <2>3. s \notin ToSet(dhcp_server_list) => ds_leases'[s] = <<>>
    BY <1>1, DhcpTypes, ListFacts DEF DhcpInv
  <2>4. ds_leases'[s] \in Seq(Lease)
    BY <1>1
  <2> QED
    BY <2>1, <2>2, <2>3, <2>4
<1>5. DhcpTypeOK'
  BY <1>1, <1>2, <1>4 DEF Looked, DhcpInv, DhcpTypeOK
<1>6. CachesInv'
  BY <1>1, <1>2, <1>4 DEF CachesInv
<1>7. FileInv'
  <2>1. attr'.seen <= writes'
    BY <1>2 DEF DhcpInv, FileInv
  <2> SUFFICES ASSUME dhcp_server_list' # <<>>, lastRead' = "ok", Quiet'
               PROVE  ds_leases'[Head(dhcp_server_list')] = FileLeases'
    BY <2>1 DEF FileInv
  <2>2. ds_leases' = IF file = NoFile THEN Cleared ELSE Parsed
    BY DEF Looked
  <2>3. CASE file # NoFile
    BY <1>1, <1>2, <2>2, <2>3 DEF FileLeases
  <2>4. CASE file = NoFile
    <3>1. ds_leases' = Cleared /\ Head(dhcp_server_list) \in Servers
      BY <1>2, <2>2, <2>4, DhcpTypes, ListFacts DEF DhcpInv
    <3> QED
      BY <1>2, <2>4, <3>1 DEF Cleared, FileLeases
  <2> QED
    BY <2>3, <2>4
<1> QED
  BY <1>3, <1>5, <1>6, <1>7 DEF DhcpInv

LEMMA ParseFacts ==
  ASSUME DhcpInv, dhcp_lease_parse
  PROVE  /\ Filled
         /\ lastRead' = "ok" /\ file # NoFile => ds_leases' = Parsed
         /\ lastRead' = "ok" /\ file = NoFile => ds_leases' = Cleared
         /\ lastRead' \in {"ok", "failed"} /\ parseFailures' \in 0 .. MaxParseFailures
<1>1. parseFailures' \in 0 .. MaxParseFailures
  BY DhcpAssumption DEF dhcp_lease_parse, DhcpInv, DhcpTypeOK
<1> QED
  BY <1>1 DEF dhcp_lease_parse, Filled

LEMMA ChangeStep ==
  ASSUME DhcpInv, dhcp_lease_onchange
  PROVE  DhcpInv'
<1>1. /\ fed' = FALSE /\ dhcp_server_status_dispatch /\ orphaned' = FALSE
      /\ UNCHANGED <<fileVars, dhcp_server_list, ds_status_fn, ds_range_list, attr, watching,
                     dhcp_lease_init_debounce, created>>
      /\ IF attr.st_nlink
           THEN dhcp_lease_parse
           ELSE ds_leases' = Cleared /\ lastRead' = "ok" /\ UNCHANGED parseFailures
  BY DEF dhcp_lease_onchange
<1>2. attr.st_nlink \in BOOLEAN /\ (attr = Stat => attr.st_nlink = (file # NoFile))
  BY DhcpTypes DEF DhcpInv
<1>3. UNCHANGED <<attr, file, writes, dhcp_lease_init_debounce>>
  BY <1>1 DEF fileVars
<1>4. dhcp_lease_init_debounce' \in BOOLEAN /\ (Quiet' => attr = Stat)
  BY <1>3 DEF DhcpInv, DhcpTypeOK, Quiet, Stat
<1>5. Looked
  <2>1. CASE attr.st_nlink
    BY <1>1, <2>1, ParseFacts DEF Looked
  <2>2. CASE ~attr.st_nlink
    <3>1. ds_leases' = Cleared /\ lastRead' = "ok" /\ UNCHANGED parseFailures
      BY <1>1, <2>2
    <3>2. Quiet' => file = NoFile
      BY <1>2, <1>4, <2>2
    <3> QED
      BY <1>1, <3>1, <3>2 DEF Looked, Filled, DhcpInv, DhcpTypeOK
  <2> QED
    BY <2>1, <2>2
<1> QED
  BY <1>1, <1>4, <1>5, LookedStep

LEMMA TimerStep ==
  ASSUME DhcpInv, dhcp_lease_init
  PROVE  DhcpInv'
<1>1. /\ dhcp_lease_init_debounce' = FALSE /\ dhcp_lease_parse
      /\ dhcp_server_status_dispatch /\ orphaned' = FALSE
      /\ UNCHANGED <<fileVars, dhcp_server_list, ds_status_fn, ds_range_list, attr, watching,
                     fed, created>>
  BY DEF dhcp_lease_init
<1>2. Looked
  BY <1>1, ParseFacts DEF Looked
<1>3. fed' \in BOOLEAN
  BY <1>1 DEF DhcpInv, DhcpTypeOK
<1> QED
  BY <1>1, <1>2, <1>3, LookedStep

LEMMA DhcpStep ==
  ASSUME DhcpInv, DhcpNext
  PROVE  DhcpInv'
<1>1. ASSUME NEW s \in Servers, NEW r \in Ranges,
             osn_dhcp_server_range_add(s, r) \/ osn_dhcp_server_range_del(s, r)
      PROVE  DhcpInv'
  <2>1. ds_range_list[s] \cup {r} \in SUBSET Ranges /\ ds_range_list[s] \ {r} \in SUBSET Ranges
    BY DEF DhcpInv, DhcpTypeOK
  <2>2. \E ranges \in SUBSET Ranges : SetRanges(s, ranges)
    BY <1>1, <2>1 DEF osn_dhcp_server_range_add, osn_dhcp_server_range_del
  <2> QED
    BY <2>2, CallStep
<1> QED
  BY <1>1, WriteFileStep, NewServerStep, DeleteServerStep, CallStep, PollStep, ChangeStep,
     TimerStep DEF DhcpNext

LEMMA DhcpStart ==
  ASSUME DhcpInit
  PROVE  DhcpInv
<1>1. <<>> \in Seq(Lease) /\ <<>> \in Seq(Servers) /\ DOMAIN <<>> = {}
  BY EmptySeq
<1>2. IsInjective(<<>>) /\ ToSet(<<>>) = {}
  BY <1>1 DEF IsInjective, ToSet
<1>3. Stat \in [seen : 0 .. MaxWrites, st_nlink : BOOLEAN] /\ Stat.seen <= writes
  BY DhcpAssumption DEF Stat, DhcpInit
<1>4. told \in [Servers -> {NotTold}] /\ \A s \in Servers : told[s] = NotTold /\ ds_leases[s] = <<>>
  BY DEF DhcpInit
<1>5. DhcpTypeOK
  <2>1. /\ ds_leases \in [Servers -> Seq(Lease)] /\ ds_status_fn \in [Servers -> BOOLEAN]
        /\ ds_range_list \in [Servers -> SUBSET Ranges]
    BY <1>1 DEF DhcpInit
  <2>2. attr \in [seen : 0 .. MaxWrites, st_nlink : BOOLEAN]
    BY <1>3 DEF DhcpInit
  <2>3. dhcp_server_list \in Seq(Servers) /\ IsInjective(dhcp_server_list)
    BY <1>1, <1>2 DEF DhcpInit
  <2>4. writes \in 0 .. MaxWrites /\ created \in 0 .. MaxCreated
        /\ parseFailures \in 0 .. MaxParseFailures
    BY DhcpAssumption DEF DhcpInit
  <2> QED
    BY <1>4, <2>1, <2>2, <2>3, <2>4 DEF DhcpInit, DhcpTypeOK
<1>6. CachesInv
  BY <1>4 DEF CachesInv
<1>7. FileInv
  BY <1>3 DEF DhcpInit, FileInv
<1> QED
  BY <1>4, <1>5, <1>6, <1>7 DEF DhcpInv, ToldType

LEMMA DhcpQuiet == DhcpInv => CurrentWhenQuiet
<1> DEFINE first == Head(dhcp_server_list)
<1> SUFFICES ASSUME DhcpInv, Readable, Quiet
             PROVE  Current
  BY DEF CurrentWhenQuiet, Quiet
<1>1. first \in Servers /\ ds_leases[first] = FileLeases /\ told[first] = ds_leases[first]
  <2>1. first \in Servers
    BY DhcpTypes, ListFacts DEF DhcpInv, Readable
  <2> QED
    BY <2>1 DEF DhcpInv, CachesInv, FileInv, Readable
<1>2. Told(first) = FileLeases
  BY <1>1 DEF Told, Readable
<1>3. \A s \in Servers : s # first => Told(s) = <<>>
  BY DEF Told, DhcpInv, CachesInv
<1>4. OncePerClient(FileLeases) /\ ClientsOf(FileLeases) = LeasesOf(file)
  <2>1. CASE file = NoFile
    <3>1. DOMAIN <<>> = {}
      OBVIOUS
    <3> QED
      BY <2>1, <3>1 DEF FileLeases, OncePerClient, ClientsOf, LeasesOf
  <2>2. CASE file # NoFile
    <3>1. file \in Seq(Line)
      BY <2>2, DhcpTypes DEF DhcpInv
    <3> QED
      BY <2>2, <3>1, LeasesInFacts DEF FileLeases, LeasesOf
  <2> QED
    BY <2>1, <2>2
<1> HIDE DEF first
<1>5. DOMAIN <<>> = {} /\ ToSet(<<>>) = {}
  BY DEF ToSet
<1>6. {dl.client : dl \in UNION {ToSet(Told(s)) : s \in Servers}} = LeasesOf(file)
  <2>1. UNION {ToSet(Told(s)) : s \in Servers} = ToSet(FileLeases)
    BY <1>1, <1>2, <1>3, <1>5
  <2>2. {dl.client : dl \in ToSet(FileLeases)} = ClientsOf(FileLeases)
    BY DEF ClientsOf, ToSet
  <2> QED
    BY <1>4, <2>1, <2>2
<1>7. ASSUME NEW s \in Servers, NEW t \in Servers, NEW i \in DOMAIN Told(s), NEW j \in DOMAIN Told(t),
             Told(s)[i].client = Told(t)[j].client
      PROVE  s = t /\ i = j
  <2>1. s = first /\ t = first
    BY <1>3, <1>5
  <2>2. i \in DOMAIN FileLeases /\ j \in DOMAIN FileLeases
        /\ FileLeases[i].client = FileLeases[j].client
    BY <1>2, <1>7, <2>1
  <2> QED
    BY <1>4, <2>1, <2>2 DEF OncePerClient
<1> QED
  BY <1>6, <1>7 DEF Current

-----------------------------------------------------------------------------
(* Neighbor scans.                                                         *)

ScanInv ==
    /\ polls \in Int /\ g_scan_result_timeout \in Int
    /\ timer => pending = {scan_request}
    /\ ~timer => pending = {}
    /\ timer => polls + g_scan_result_timeout = STATS_SCAN_RESULT_POLL_TIMEOUT

LEMMA ScanStep ==
  ASSUME ScanInv, ScanNext
  PROVE  ScanInv'
<1>1. CASE stats_scan_start
  BY <1>1, ScanAssumption DEF ScanInv, stats_scan_start, driverVars, resultVars, boundVars
<1>2. CASE stats_scan_stop
  BY <1>2 DEF ScanInv, stats_scan_stop
<1>3. CASE PollInProgress
  <2>1. CASE UNCHANGED <<timer, status, pending>> /\ g_scan_result_timeout' = g_scan_result_timeout - 1
    BY <1>3, <2>1 DEF ScanInv, PollInProgress, Fires
  <2>2. CASE Answer("failure")
    BY <1>3, <2>2, ScanAssumption DEF ScanInv, PollInProgress, Answer, Fires
  <2> QED
    BY <1>3, <2>1, <2>2 DEF PollInProgress
<1>4. CASE PollResults \/ PollError \/ PollRadioFails
  BY <1>4, ScanAssumption DEF ScanInv, PollResults, PollError, PollRadioFails, Answer, Fires
<1>5. CASE UNCHANGED <<timerVars, scan_request, pending, polls>>
  BY <1>5 DEF ScanInv, timerVars
<1>6. ScanNext => \/ stats_scan_start \/ stats_scan_stop \/ stats_scan_results_fetch
                  \/ UNCHANGED <<timerVars, scan_request, pending, polls>>
  BY DEF ScanNext, ScanDone, ScanFails, stats_scan_start_fails, stats_scan_get, CallbackReturns
<1> QED
  BY <1>1, <1>2, <1>3, <1>4, <1>5, <1>6 DEF stats_scan_results_fetch

-----------------------------------------------------------------------------
(* The reports of scans.                                                   *)

\* One record: what the loop makes of the list.
RecordRead(chans, list, rec) ==
    IF rec.chan \in chans /\ ~\E i \in DOMAIN list : list[i].chan = rec.chan /\ list[i].bssid = rec.bssid
      THEN Append(list, rec) ELSE list

\* A report is a run too: the list after each record.
LEMMA ExtractRun ==
  ASSUME NEW chans, NEW records \in Seq(Neighbor)
  PROVE  \E r : /\ r[0] = <<>> /\ stats_scan_extract_neighbors_from_ssids(chans, records) = r[Len(records)]
                /\ \A k \in 1 .. Len(records) : r[k] = RecordRead(chans, r[k - 1], records[k])
<1> DEFINE n == Len(records)
           Duplicate(list, rec) ==
             \E i \in DOMAIN list : list[i].chan = rec.chan /\ list[i].bssid = rec.bssid
           Read(list, rec) ==
             IF rec.chan \in chans /\ ~Duplicate(list, rec) THEN Append(list, rec) ELSE list
           F == [i \in 1 .. n |-> [l \in Seq(Neighbor) |-> RecordRead(chans, l, records[i])]]
           Iterates(g) == g = [T \in SUBSET DOMAIN records |->
                    IF T = {} THEN <<>> ELSE Read(g[T \ {Max(T)}], records[Max(T)])]
           iter == CHOOSE g : Iterates(g)
           r == [k \in 0 .. n |-> iter[1 .. k]]
<1>1. n \in Nat /\ DOMAIN records = 1 .. n /\ \A i \in 1 .. n : records[i] \in Neighbor
  BY LenProperties, ElementOfSeq
<1>2. \A l, x : Read(l, x) = RecordRead(chans, l, x)
  BY DEF RecordRead
<1>3. stats_scan_extract_neighbors_from_ssids(chans, records) = iter[DOMAIN records]
  BY Zenon DEF stats_scan_extract_neighbors_from_ssids, FoldLeft, MapThenFoldSet
<1> HIDE DEF n, Read
<1>4. F \in [1 .. n -> [Seq(Neighbor) -> Seq(Neighbor)]]
  <2>1. ASSUME NEW i \in 1 .. n, NEW l \in Seq(Neighbor)
        PROVE  RecordRead(chans, l, records[i]) \in Seq(Neighbor)
    <3>1. records[i] \in Neighbor
      BY <1>1
    <3> QED
      BY <3>1, AppendProperties DEF RecordRead
  <2> QED
    BY <2>1
<1>5. PICK g \in [SUBSET (1 .. n) -> Seq(Neighbor)] : Folding(g, <<>>, n, F)
  <2>1. <<>> \in Seq(Neighbor)
    BY EmptySeq
  <2> HIDE DEF F
  <2> QED
    BY <1>1, <1>4, <2>1, FoldExists
<1>6. Iterates(g)
  <2>1. ASSUME NEW T \in SUBSET (1 .. n), T # {}
        PROVE  F[Max(T)][g[T \ {Max(T)}]] = Read(g[T \ {Max(T)}], records[Max(T)])
    <3>1. Max(T) \in 1 .. n
      BY <1>1, <2>1, MaxOf
    <3>2. g[T \ {Max(T)}] \in Seq(Neighbor)
      OBVIOUS
    <3> QED
      BY <1>2, <3>1, <3>2
  <2> DEFINE h == [T \in SUBSET (1 .. n) |->
                    IF T = {} THEN <<>> ELSE Read(g[T \ {Max(T)}], records[Max(T)])]
  <2>2. g = [T \in SUBSET (1 .. n) |->
               IF T = {} THEN <<>> ELSE F[Max(T)][g[T \ {Max(T)}]]]
    BY <1>5 DEF Folding
  <2> HIDE DEF F
  <2>3. g = h
    BY <2>1, <2>2
  <2> QED
    BY <1>1, <2>3
<1>7. Iterates(iter)
  <2> HIDE DEF Iterates
  <2> QED
    BY <1>6, Zenon
<1> HIDE DEF iter
<1>8. iter[{}] = <<>>
  BY <1>7
<1>9. ASSUME NEW k \in 1 .. n
      PROVE  iter[1 .. k] = RecordRead(chans, iter[1 .. (k - 1)], records[k])
  <2>1. 1 .. k \in SUBSET (1 .. n) /\ k \in 1 .. k /\ 1 .. k # {} /\ (1 .. k) \ {k} = 1 .. (k - 1)
    BY <1>1
  <2>2. Max(1 .. k) = k
    <3>1. Max(1 .. k) \in 1 .. k /\ Max(1 .. k) >= k
      BY <1>1, <2>1, MaxOf
    <3> QED
      BY <3>1
  <2>3. iter[1 .. k] = Read(iter[(1 .. k) \ {Max(1 .. k)}], records[Max(1 .. k)])
    BY <1>1, <1>7, <2>1
  <2> QED
    BY <1>2, <2>1, <2>2, <2>3
<1>10. r[0] = <<>>
  <2>1. 0 \in 0 .. n /\ 1 .. 0 = {}
    BY <1>1
  <2> QED
    BY <1>8, <2>1
<1>11. \A k \in 1 .. n : r[k] = RecordRead(chans, r[k - 1], records[k])
  <2> SUFFICES ASSUME NEW k \in 1 .. n
               PROVE  r[k] = RecordRead(chans, r[k - 1], records[k])
    OBVIOUS
  <2>1. k \in 0 .. n /\ k - 1 \in 0 .. n
    BY <1>1
  <2> QED
    BY <1>9, <2>1
<1>12. stats_scan_extract_neighbors_from_ssids(chans, records) = r[n]
  BY <1>1, <1>3
<1> HIDE DEF r
<1> QED
  BY <1>10, <1>11, <1>12 DEF n

KeysOf(list) == {Key(list[i]) : i \in DOMAIN list}
Unique(list) == \A i, j \in DOMAIN list : Key(list[i]) = Key(list[j]) => i = j
KeysUpTo(chans, records, k) ==
    {Key(records[i]) : i \in {i \in 1 .. k : records[i].chan \in chans}}

LEMMA RecordReadFacts ==
  ASSUME NEW chans, NEW list \in Seq(Neighbor), NEW rec \in Neighbor, Unique(list)
  PROVE  LET t == RecordRead(chans, list, rec)
         IN  /\ t \in Seq(Neighbor) /\ Unique(t)
             /\ KeysOf(t) = KeysOf(list) \cup (IF rec.chan \in chans THEN {Key(rec)} ELSE {})
<1>1. Len(list) \in Nat /\ DOMAIN list = 1 .. Len(list) /\ \A i \in 1 .. Len(list) : list[i] \in Neighbor
  BY LenProperties, ElementOfSeq
<1>2. \A e \in Neighbor : Key(e) = Key(rec) <=> e.chan = rec.chan /\ e.bssid = rec.bssid
  BY DEF Key
<1>3. CASE rec.chan \in chans /\ ~\E i \in DOMAIN list : list[i].chan = rec.chan /\ list[i].bssid = rec.bssid
  <2> DEFINE t == Append(list, rec)
             n == Len(list)
  <2>1. /\ t \in Seq(Neighbor) /\ Len(t) = n + 1
        /\ \A i \in 1 .. n : t[i] = list[i]
        /\ t[n + 1] = rec
    BY AppendProperties
  <2>2. DOMAIN t = 1 .. n + 1
    BY <2>1, LenProperties
  <2> HIDE DEF t
  <2>3. \A i \in 1 .. n : Key(t[i]) = Key(list[i]) /\ Key(list[i]) # Key(rec)
    BY <1>1, <1>2, <1>3, <2>1
  <2>4. Key(t[n + 1]) = Key(rec)
    BY <2>1
  <2>5. KeysOf(t) = KeysOf(list) \cup {Key(rec)}
    <3>1. \A i \in 1 .. n + 1 : i \in 1 .. n \/ i = n + 1
      BY <1>1
    <3>2. 1 .. n \subseteq 1 .. n + 1 /\ n + 1 \in 1 .. n + 1
      BY <1>1
    <3> HIDE DEF n
    <3>3. DOMAIN list = 1 .. n
      BY <1>1 DEF n
    <3> QED
      BY <2>2, <2>3, <2>4, <3>1, <3>2, <3>3 DEF KeysOf
  <2>6. Unique(t)
    <3> SUFFICES ASSUME NEW i \in 1 .. n + 1, NEW j \in 1 .. n + 1, Key(t[i]) = Key(t[j])
                 PROVE  i = j
      BY <2>2 DEF Unique
    <3>1. (i \in 1 .. n \/ i = n + 1) /\ (j \in 1 .. n \/ j = n + 1)
      BY <1>1
    <3>2. i \in 1 .. n /\ j \in 1 .. n => Key(list[i]) = Key(list[j])
      BY <2>3
    <3> QED
      BY <1>1, <2>3, <2>4, <3>1, <3>2 DEF Unique
  <2>7. RecordRead(chans, list, rec) = t
    BY <1>3 DEF RecordRead, t
  <2> QED
    BY <1>3, <2>1, <2>5, <2>6, <2>7
<1>4. CASE ~(rec.chan \in chans /\ ~\E i \in DOMAIN list : list[i].chan = rec.chan /\ list[i].bssid = rec.bssid)
  <2>1. RecordRead(chans, list, rec) = list
    BY <1>4 DEF RecordRead
  <2>2. rec.chan \in chans => Key(rec) \in KeysOf(list)
    <3> SUFFICES ASSUME rec.chan \in chans
                 PROVE  Key(rec) \in KeysOf(list)
      OBVIOUS
    <3>1. PICK i \in DOMAIN list : list[i].chan = rec.chan /\ list[i].bssid = rec.bssid
      BY <1>4
    <3>2. Key(list[i]) = Key(rec)
      BY <1>1, <1>2, <3>1
    <3> QED
      BY <3>2 DEF KeysOf
  <2> QED
    BY <2>1, <2>2
<1> QED
  BY <1>3, <1>4

\* A report gives the keys of all records of its channels, each once.
LEMMA ExtractFacts ==
  ASSUME NEW chans, NEW records \in Seq(Neighbor)
  PROVE  LET t == stats_scan_extract_neighbors_from_ssids(chans, records)
         IN  /\ t \in Seq(Neighbor) /\ Unique(t)
             /\ KeysOf(t) = {Key(e) : e \in {e \in ToSet(records) : e.chan \in chans}}
<1> DEFINE n == Len(records)
           t == stats_scan_extract_neighbors_from_ssids(chans, records)
<1>1. PICK r : /\ r[0] = <<>> /\ t = r[n]
               /\ \A k \in 1 .. n : r[k] = RecordRead(chans, r[k - 1], records[k])
  BY ExtractRun
<1> HIDE DEF t
<1>2. n \in Nat /\ DOMAIN records = 1 .. n /\ \A i \in 1 .. n : records[i] \in Neighbor
  BY LenProperties, ElementOfSeq
<1> HIDE DEF n
<1> DEFINE Good == {k \in 0 .. n : /\ r[k] \in Seq(Neighbor) /\ Unique(r[k])
                                   /\ KeysOf(r[k]) = KeysUpTo(chans, records, k)}
<1>3. 0 \in Good
  <2>1. <<>> \in Seq(Neighbor) /\ DOMAIN <<>> = {}
    BY EmptySeq
  <2>2. KeysOf(<<>>) = {} /\ Unique(<<>>)
    BY <2>1 DEF KeysOf, Unique
  <2>3. KeysUpTo(chans, records, 0) = {}
    BY DEF KeysUpTo
  <2>4. 0 \in 0 .. n
    BY <1>2
  <2>5. r[0] \in Seq(Neighbor) /\ Unique(r[0]) /\ KeysOf(r[0]) = KeysUpTo(chans, records, 0)
    <3>1. r[0] = <<>>
      BY <1>1
    <3> QED
      BY <2>1, <2>2, <2>3, <3>1, Zenon
  <2> QED
    BY <2>4, <2>5, Zenon
<1>4. ASSUME NEW k \in 0 .. n - 1, k \in Good
      PROVE  k + 1 \in Good
  <2>1. k + 1 \in 1 .. n /\ (k + 1) - 1 = k /\ k \in 0 .. n
    BY <1>2
  <2>2. r[k + 1] = RecordRead(chans, r[k], records[k + 1]) /\ records[k + 1] \in Neighbor
    BY <1>1, <1>2, <2>1
  <2>3. r[k] \in Seq(Neighbor) /\ Unique(r[k]) /\ KeysOf(r[k]) = KeysUpTo(chans, records, k)
    BY <1>4
  <2>4. /\ r[k + 1] \in Seq(Neighbor) /\ Unique(r[k + 1])
        /\ KeysOf(r[k + 1]) = KeysOf(r[k]) \cup
              (IF records[k + 1].chan \in chans THEN {Key(records[k + 1])} ELSE {})
    BY <2>2, <2>3, RecordReadFacts
  <2>5. KeysUpTo(chans, records, k + 1) = KeysUpTo(chans, records, k) \cup
              (IF records[k + 1].chan \in chans THEN {Key(records[k + 1])} ELSE {})
    <3>1. 1 .. k + 1 = (1 .. k) \cup {k + 1}
      BY <2>1
    <3> QED
      BY <3>1 DEF KeysUpTo
  <2>6. KeysOf(r[k + 1]) = KeysUpTo(chans, records, k + 1)
    BY <2>3, <2>4, <2>5, Zenon
  <2>7. k + 1 \in 0 .. n
    BY <1>2, <2>1
  <2> QED
    BY <2>4, <2>6, <2>7, Zenon
<1> HIDE DEF Good
<1>5. n \in Good
  <2>1. \A k \in 0 .. n : k \in Good
    BY <1>2, <1>3, <1>4, UpTo
  <2> QED
    BY <1>2, <2>1
<1>6. t \in Seq(Neighbor) /\ Unique(t) /\ KeysOf(t) = KeysUpTo(chans, records, n)
  BY <1>1, <1>5 DEF Good
<1>7. KeysUpTo(chans, records, n) = {Key(e) : e \in {e \in ToSet(records) : e.chan \in chans}}
  BY <1>2 DEF KeysUpTo, ToSet
<1> QED
  BY <1>6, <1>7 DEF t

\* The records that are converted: all of them, when they fit.
LEMMA ConvertedRecords ==
  ASSUME NEW records \in Seq(Neighbor)
  PROVE  LET t == stats_scan_hal_to_dpp_record_array(records, Len(records))
         IN  /\ t \in Seq(Neighbor)
             /\ Len(records) <= STATS_SCAN_MAX_RECORDS => t = records
<1> DEFINE n == Len(records)
           m == IF n <= STATS_SCAN_MAX_RECORDS THEN n ELSE STATS_SCAN_MAX_RECORDS
           t == SubSeq(records, 1, m)
<1>1. n \in Nat /\ \A i \in 1 .. n : records[i] \in Neighbor
  BY LenProperties, ElementOfSeq
<1>2. m \in Nat /\ m <= n /\ (n <= STATS_SCAN_MAX_RECORDS => m = n)
  BY <1>1, ScanAssumption
<1> HIDE DEF n, m
<1>3. /\ t \in Seq(Neighbor) /\ Len(t) = m
      /\ \A i \in 1 .. m : t[i] = records[i]
  <2>1. \A i \in 1 .. m : records[i] \in Neighbor
    BY <1>1, <1>2
  <2>2. 1 \in Int /\ m \in Int
    BY <1>2
  <2>3. /\ t \in Seq(Neighbor)
        /\ Len(t) = IF 1 <= m THEN m - 1 + 1 ELSE 0
        /\ \A i \in 1 .. m - 1 + 1 : t[i] = records[1 + i - 1]
    BY <2>1, <2>2, SubSeqProperties
  <2>4. Len(t) = m
    BY <1>2, <2>3
  <2>5. ASSUME NEW i \in 1 .. m
        PROVE  t[i] = records[i]
    <3>1. i \in 1 .. m - 1 + 1 /\ 1 + i - 1 = i
      BY <1>2
    <3> QED
      BY <2>3, <3>1
  <2> QED
    BY <2>3, <2>4, <2>5
<1> HIDE DEF t
<1>4. n <= STATS_SCAN_MAX_RECORDS => t = records
  BY <1>2, <1>3, SeqEqual DEF n
<1> QED
  BY <1>3, <1>4 DEF stats_scan_hal_to_dpp_record_array, n, m, t

\* The results of a scan that succeeded are whole.
ScanTypesInv ==
    /\ ScanTypeOK
    /\ status = "success" => /\ g_scan_results \in Seq(Neighbor)
                             /\ g_scan_results_size = Len(g_scan_results)

LEMMA ReportType ==
  ASSUME ScanTypesInv, NEW chan_list, stats_scan_get(chan_list)
  PROVE  report' \in Seq(Neighbor)
  BY ConvertedRecords, ExtractFacts DEF ScanTypesInv, stats_scan_get

LEMMA ScanTypesStep ==
  ASSUME ScanTypesInv, ScanNext
  PROVE  ScanTypesInv'
<1>1. CASE ScanDone \/ ScanFails
  <2>1. hal_table' \in Seq(Neighbor) /\ failures' \in 0 .. MaxFailures
    BY <1>1, ScanAssumption DEF ScanDone, ScanFails, HalCallFails, driverVars, boundVars, ScanTypesInv, ScanTypeOK
  <2> QED
    BY <1>1, <2>1 DEF ScanDone, ScanFails, ScanTypesInv, ScanTypeOK, resultVars, timerVars, boundVars
<1>2. CASE stats_scan_start
  <2>1. starts' \in Scans /\ starts' \in 0 .. MaxStarts
    BY <1>2, ScanAssumption DEF stats_scan_start, ScanTypesInv, ScanTypeOK, Scans
  <2>2. g_scan_result_timeout' \in 0 .. STATS_SCAN_RESULT_POLL_TIMEOUT
    BY <1>2, ScanAssumption DEF stats_scan_start
  <2> QED
    BY <1>2, <2>1, <2>2 DEF stats_scan_start, ScanTypesInv, ScanTypeOK, resultVars
<1>3. CASE stats_scan_start_fails
  <2>1. starts' \in 0 .. MaxStarts /\ failures' \in 0 .. MaxFailures
    BY <1>3, ScanAssumption DEF stats_scan_start_fails, HalCallFails, ScanTypesInv, ScanTypeOK
  <2> QED
    BY <1>3, <2>1 DEF stats_scan_start_fails, ScanTypesInv, ScanTypeOK, driverVars, resultVars, timerVars
<1>4. CASE stats_scan_stop
  BY <1>4 DEF stats_scan_stop, ScanTypesInv, ScanTypeOK, driverVars, resultVars, boundVars
<1>5. ASSUME NEW chan_list \in ChanLists, stats_scan_get(chan_list)
      PROVE  ScanTypesInv'
  <2>1. report' \in Seq(Neighbor)
    BY <1>5, ReportType
  <2> QED
    BY <1>5, <2>1 DEF stats_scan_get, ScanTypesInv, ScanTypeOK, driverVars, resultVars, timerVars, boundVars
<1>6. CASE CallbackReturns
  <2>1. report' \in Seq(Neighbor)
    BY <1>6, EmptySeq DEF CallbackReturns
  <2> QED
    BY <1>6, <2>1 DEF CallbackReturns, ScanTypesInv, ScanTypeOK, driverVars, resultVars, timerVars, boundVars
<1>7. CASE stats_scan_results_fetch
  <2>1. /\ status = "none"
        /\ UNCHANGED <<driverVars, scan_request, report, starts>>
    BY <1>7 DEF stats_scan_results_fetch, PollResults, PollInProgress, PollError, PollRadioFails,
                Fires, boundVars
  <2>2. /\ timer' \in BOOLEAN /\ status' \in {"none", "success", "failure"}
        /\ g_scan_result_timeout' \in 0 .. STATS_SCAN_RESULT_POLL_TIMEOUT
        /\ pending' \subseteq Scans
        /\ polls' \in Nat
    <3>1. polls' \in Nat
      BY <1>7 DEF stats_scan_results_fetch, PollResults, PollInProgress, PollError,
                  PollRadioFails, ScanTypesInv, ScanTypeOK
    <3>2. ASSUME NEW s \in {"success", "failure"}, Answer(s)
          PROVE  /\ timer' \in BOOLEAN /\ status' \in {"none", "success", "failure"}
                 /\ g_scan_result_timeout' \in 0 .. STATS_SCAN_RESULT_POLL_TIMEOUT
                 /\ pending' \subseteq Scans
      <4>1. /\ timer' = FALSE /\ status' = s
            /\ g_scan_result_timeout' = STATS_SCAN_RESULT_POLL_TIMEOUT
            /\ pending' = pending \ {scan_request}
        BY <3>2 DEF Answer
      <4>2. pending \subseteq Scans
        BY DEF ScanTypesInv, ScanTypeOK
      <4>3. status' \in {"none", "success", "failure"}
        BY <4>1
      <4>4. g_scan_result_timeout' \in 0 .. STATS_SCAN_RESULT_POLL_TIMEOUT
        BY <4>1, ScanAssumption
      <4>5. pending' \subseteq Scans
        BY <4>1, <4>2
      <4>6. timer' \in BOOLEAN
        BY <4>1
      <4> QED
        BY <4>3, <4>4, <4>5, <4>6
    <3>3. CASE /\ PollInProgress
               /\ g_scan_result_timeout - 1 > 0
               /\ g_scan_result_timeout' = g_scan_result_timeout - 1
               /\ UNCHANGED <<timer, status, pending>>
      <4>1. g_scan_result_timeout' \in 0 .. STATS_SCAN_RESULT_POLL_TIMEOUT
        BY <3>3, ScanAssumption DEF ScanTypesInv, ScanTypeOK
      <4> QED
        BY <3>1, <3>3, <4>1 DEF ScanTypesInv, ScanTypeOK
    <3> QED
      BY <1>7, <3>1, <3>2, <3>3 DEF stats_scan_results_fetch, PollResults, PollInProgress, PollError,
                                    PollRadioFails
  <2>3. /\ g_scan_results' \in Seq(Neighbor) \cup {NoResults} /\ g_scan_results_size' \in Nat
        /\ status' = "success" => /\ g_scan_results' \in Seq(Neighbor)
                                  /\ g_scan_results_size' = Len(g_scan_results')
    <3>1. CASE PollResults
      BY <3>1, LenProperties DEF PollResults, ScanTypesInv, ScanTypeOK
    <3>2. CASE PollInProgress \/ PollError
      BY <2>1, <3>2 DEF PollInProgress, PollError, Answer, ScanTypesInv, ScanTypeOK
    <3>3. CASE PollRadioFails
      BY <3>3 DEF PollRadioFails, Answer, resultVars, ScanTypesInv, ScanTypeOK
    <3> QED
      BY <1>7, <3>1, <3>2, <3>3 DEF stats_scan_results_fetch
  <2>4. failures' \in 0 .. MaxFailures
    BY <1>7, ScanAssumption DEF stats_scan_results_fetch, PollResults, PollInProgress, PollError,
                PollRadioFails, HalCallFails, boundVars, ScanTypesInv, ScanTypeOK
  <2> QED
    BY <2>1, <2>2, <2>3, <2>4 DEF ScanTypesInv, ScanTypeOK, driverVars
<1> QED
  BY <1>1, <1>2, <1>3, <1>4, <1>5, <1>6, <1>7 DEF ScanNext

LEMMA ReportStep ==
  ASSUME ScanTypesInv, NEW chan_list \in ChanLists, stats_scan_get(chan_list),
         g_scan_results_size <= STATS_SCAN_MAX_RECORDS
  PROVE  /\ {Key(report'[i]) : i \in DOMAIN report'}
              = {Key(e) : e \in {n \in ToSet(g_scan_results) : n.chan \in chan_list}}
         /\ \A i, j \in DOMAIN report' :
              Key(report'[i]) = Key(report'[j]) => i = j
<1> DEFINE t == stats_scan_extract_neighbors_from_ssids(chan_list, g_scan_results)
<1>1. g_scan_results \in Seq(Neighbor) /\ g_scan_results_size = Len(g_scan_results)
  BY DEF ScanTypesInv, stats_scan_get
<1>2. report' = t
  <2>1. stats_scan_hal_to_dpp_record_array(g_scan_results, g_scan_results_size) = g_scan_results
    BY <1>1, ConvertedRecords
  <2> QED
    BY <2>1 DEF stats_scan_get
<1>3. /\ Unique(t)
      /\ KeysOf(t) = {Key(e) : e \in {e \in ToSet(g_scan_results) : e.chan \in chan_list}}
  BY <1>1, ExtractFacts
<1> HIDE DEF t
<1> QED
  BY <1>2, <1>3 DEF Unique, KeysOf

-----------------------------------------------------------------------------
(* Traffic.                                                                *)

\* A counter of the client, what is left to report of it and what was.
CounterOK(f) ==
    /\ hw.stats[f] \in Nat /\ data_old.stats[f] \in Nat
    /\ reported[f] \in Int /\ carried[f] \in Int /\ lost[f] \in Int
    /\ reported[f] <= carried[f]
    /\ IF Unsampled(f) >= 0 THEN reported[f] + Unsampled(f) <= carried[f]
                            ELSE reported[f] + hw.stats[f] <= carried[f]
    /\ ~glitch => Unsampled(f) >= 0 /\ reported[f] + Unsampled(f) + lost[f] = carried[f]

Records == [cookie : Nat, stats : [Counters -> Nat]]

TrafficInv ==
    /\ hw \in Records /\ data_old \in Records
    /\ data_old.cookie <= hw.cookie
    /\ glitch \in BOOLEAN
    /\ reported \in [Counters -> Int] /\ carried \in [Counters -> Int] /\ lost \in [Counters -> Int]
    /\ \A f \in Counters : CounterOK(f)

LEMMA WordDelta ==
  ASSUME NEW d \in Nat
  PROVE  d % WORD \in Nat /\ d % WORD <= d /\ (d < WORD => d % WORD = d)
  BY DeltasAssumption

LEMMA TrafficStep ==
  ASSUME TrafficInv, NEW f \in Counters, NEW n \in Amounts, Traffic(f, n)
  PROVE  TrafficInv'
<1>1. /\ hw' = [hw EXCEPT !.stats[f] = hw.stats[f] + n]
      /\ carried' = [carried EXCEPT ![f] = carried[f] + n]
      /\ UNCHANGED <<data_old, reported, lost, glitch>>
      /\ n \in Nat
  BY DeltasAssumption DEF Traffic
<1>2. /\ hw \in Records /\ data_old \in Records
      /\ carried \in [Counters -> Int]
  BY DEF TrafficInv
<1>3. /\ hw' \in Records /\ hw'.cookie = hw.cookie
      /\ \A g \in Counters : hw'.stats[g] = IF g = f THEN hw.stats[g] + n ELSE hw.stats[g]
  <2> DEFINE v == hw.stats[f] + n
  <2>1. v \in Nat
    BY <1>1, <1>2 DEF Records
  <2>2. hw' = [hw EXCEPT !.stats[f] = v]
    BY <1>1
  <2> HIDE DEF v
  <2>3. hw' \in Records /\ hw'.cookie = hw.cookie
        /\ \A g \in Counters : hw'.stats[g] = IF g = f THEN v ELSE hw.stats[g]
    BY <1>2, <2>1, <2>2 DEF Records
  <2> QED
    BY <2>3 DEF v
<1>4. /\ carried' \in [Counters -> Int]
      /\ \A g \in Counters : carried'[g] = IF g = f THEN carried[g] + n ELSE carried[g]
  BY <1>1, <1>2
<1>5. ASSUME NEW g \in Counters
      PROVE  CounterOK(g)'
  <2>1. CounterOK(g)
    BY DEF TrafficInv
  <2> QED
    BY <1>1, <1>3, <1>4, <2>1 DEF CounterOK, Unsampled, Sampled
<1> QED
  BY <1>1, <1>3, <1>4, <1>5 DEF TrafficInv

LEMMA ReconnectStep ==
  ASSUME TrafficInv, Reconnect
  PROVE  TrafficInv'
<1>1. /\ hw' = [cookie |-> hw.cookie + 1, stats |-> Zero]
      /\ lost' = [f \in Counters |-> lost[f] + Unsampled(f)]
      /\ UNCHANGED <<data_old, reported, carried, glitch>>
  BY DEF Reconnect
<1>2. \A f \in Counters : CounterOK(f) /\ Unsampled(f) \in Int
  BY DEF TrafficInv, CounterOK, Unsampled, Sampled
<1>3. hw' \in Records /\ lost' \in [Counters -> Int] /\ data_old.cookie <= hw'.cookie
  BY <1>1, <1>2 DEF TrafficInv, Records, Zero, CounterOK
<1>4. ASSUME NEW f \in Counters
      PROVE  CounterOK(f)'
  <2>1. CounterOK(f) /\ Unsampled(f) \in Int
    BY <1>2
  <2>2. hw'.stats[f] = 0 /\ lost'[f] = lost[f] + Unsampled(f) /\ data_old'.cookie # hw'.cookie
    BY <1>1 DEF Zero, TrafficInv, Records
  <2>3. Unsampled(f)' = 0
    BY <2>2 DEF Unsampled, Sampled
  <2> QED
    BY <1>1, <2>1, <2>2, <2>3 DEF CounterOK
<1> QED
  BY <1>1, <1>3, <1>4 DEF TrafficInv

LEMMA ResetStep ==
  ASSUME TrafficInv, NEW f \in Counters, DriverReset(f)
  PROVE  TrafficInv'
<1>1. /\ hw' = [hw EXCEPT !.stats[f] = 0]
      /\ UNCHANGED <<data_old, reported, carried, lost>>
      /\ glitch' = TRUE
  BY DEF DriverReset
<1>2. hw \in Records /\ data_old \in Records
  BY DEF TrafficInv
<1>3. /\ hw' \in Records /\ hw'.cookie = hw.cookie
      /\ \A g \in Counters : hw'.stats[g] = IF g = f THEN 0 ELSE hw.stats[g]
  BY <1>1, <1>2 DEF Records
<1>4. ASSUME NEW g \in Counters
      PROVE  CounterOK(g)'
  <2>1. CounterOK(g)
    BY DEF TrafficInv
  <2> QED
    BY <1>1, <1>3, <2>1 DEF CounterOK, Unsampled, Sampled
<1> QED
  BY <1>1, <1>3, <1>4 DEF TrafficInv

\* A reading: what is reported of each counter, and the record that is kept.
LEMMA ReadingStep ==
  ASSUME TrafficInv, stats_clients_convert
  PROVE  TrafficInv'
<1> DEFINE old == ClearOld(hw, data_old)
<1>1. /\ reported' = [f \in Counters |-> reported[f] + Delta(hw, old, f)]
      /\ data_old' = NewAfter(hw, old)
      /\ glitch' = (glitch \/ \E f \in Counters : hw.stats[f] - old[f] >= WORD)
      /\ UNCHANGED <<hw, carried, lost>>
  BY DEF stats_clients_convert, Reading
<1>2. hw \in Records /\ data_old \in Records
  BY DEF TrafficInv
<1>3. old \in [Counters -> Nat] /\ \A f \in Counters : old[f] = Sampled(f)
  BY <1>2 DEF ClearOld, Records, Zero, Sampled
<1> HIDE DEF old
<1>4. /\ data_old' \in Records /\ data_old'.cookie = hw.cookie
      /\ \A f \in Counters :
           data_old'.stats[f] = IF old[f] > hw.stats[f] THEN 0 ELSE hw.stats[f]
  BY <1>1, <1>2 DEF NewAfter, Inconsistent, Records
<1>5. ASSUME NEW f \in Counters
      PROVE  CounterOK(f)' /\ Delta(hw, old, f) \in Nat
  <2>1. CounterOK(f)
    BY DEF TrafficInv
  <2>2. Unsampled(f) = hw.stats[f] - old[f] /\ old[f] \in Nat /\ hw.stats[f] \in Nat
    BY <1>3, <2>1 DEF Unsampled, CounterOK
  <2>3. reported'[f] = reported[f] + Delta(hw, old, f)
    BY <1>1
  <2>4. data_old'.stats[f] = (IF old[f] > hw.stats[f] THEN 0 ELSE hw.stats[f])
        /\ Unsampled(f)' = hw.stats[f] - data_old'.stats[f]
    BY <1>1, <1>4 DEF Unsampled, Sampled
  <2>5. glitch \in BOOLEAN /\ (~glitch' => ~glitch /\ hw.stats[f] - old[f] < WORD)
    <3>1. ~glitch' => ~glitch /\ ~(hw.stats[f] - old[f] >= WORD)
      BY <1>1, Zenon
    <3>2. hw.stats[f] - old[f] \in Int /\ WORD \in Int
      BY <2>2, DeltasAssumption
    <3>3. glitch \in BOOLEAN
      BY DEF TrafficInv
    <3> QED
      BY <3>1, <3>2, <3>3
  <2>6. CASE old[f] > hw.stats[f]
    <3>1. Delta(hw, old, f) = 0
      BY <2>6 DEF Delta, Inconsistent
    <3> QED
      BY <1>1, <2>1, <2>2, <2>3, <2>4, <2>5, <2>6, <3>1 DEF CounterOK
  <2>7. CASE ~(old[f] > hw.stats[f])
    <3> DEFINE d == hw.stats[f] - old[f]
    <3>1. Delta(hw, old, f) = d % WORD /\ d \in Nat
      BY <2>2, <2>7 DEF Delta, Inconsistent
    <3>2. d % WORD \in Nat /\ d % WORD <= d /\ (d < WORD => d % WORD = d)
      BY <3>1, WordDelta
    <3> QED
      BY <1>1, <2>1, <2>2, <2>3, <2>4, <2>5, <2>7, <3>1, <3>2 DEF CounterOK
  <2> QED
    BY <2>6, <2>7
<1>6. reported' \in [Counters -> Int]
  BY <1>1, <1>5 DEF TrafficInv
<1>7. glitch' \in BOOLEAN
  BY <1>1 DEF TrafficInv
<1> QED
  BY <1>1, <1>2, <1>4, <1>5, <1>6, <1>7 DEF TrafficInv, Records

LEMMA TrafficNext ==
  ASSUME TrafficInv, ClientNext
  PROVE  TrafficInv'
  BY TrafficStep, ReconnectStep, ResetStep, ReadingStep DEF ClientNext

-----------------------------------------------------------------------------
(* Surveys.                                                                *)

\* Division with remainder.
LEMMA Division ==
  ASSUME NEW W \in Nat \ {0}, NEW a \in Int
  PROVE  a \div W \in Int /\ a % W \in 0 .. W - 1 /\ a = (a \div W) * W + (a % W)
<1>1. a \div W \in Int
  OBVIOUS
<1>2. a % W \in 0 .. W - 1
  OBVIOUS
<1>3. a = (a \div W) * W + (a % W)
  OBVIOUS
<1> QED
  BY <1>1, <1>2, <1>3

\* The difference of two counters that were cut, cut itself, is the difference.
LEMMA CutDifference ==
  ASSUME NEW W \in Nat \ {0}, NEW a \in Nat, NEW b \in Nat, b <= a, a - b < W
  PROVE  ((a % W) - (b % W)) % W = a - b
<1> DEFINE ra == a % W
           rb == b % W
           qa == a \div W
           qb == b \div W
           x == (ra - rb) % W
           q == (ra - rb) \div W
<1>1. qa \in Int /\ ra \in 0 .. W - 1 /\ a = qa * W + ra
  BY Division
<1>2. qb \in Int /\ rb \in 0 .. W - 1 /\ b = qb * W + rb
  BY Division
<1>3. q \in Int /\ x \in 0 .. W - 1 /\ ra - rb = q * W + x
  BY <1>1, <1>2, Division
<1> HIDE DEF ra, rb, qa, qb, x, q
<1> DEFINE m == qa - qb + q
<1>4. m \in Int /\ (a - b) - x = m * W
  BY <1>1, <1>2, <1>3
<1>5. (a - b) - x < W /\ (a - b) - x > -W
  BY <1>3
<1> HIDE DEF m
<1>6. m = 0
  BY <1>4, <1>5
<1> QED
  BY <1>3, <1>4, <1>6 DEF x, ra, rb

ChannelTimes == [active : Nat, busy : Nat]

\* The counters of one scan type and their last reading.
SurveyOK(t) ==
    /\ read[t].active <= survey[t].active
    /\ read[t].busy <= survey[t].busy
    /\ survey[t].busy - read[t].busy <= survey[t].active - read[t].active
    /\ ~restarted[t] /\ cumulative[t] =>
         /\ survey_old[t].active = read[t].active % Width(t)
         /\ survey_old[t].busy = read[t].busy % Width(t)

RecordOK(t) ==
    LET r == survey_record[t]
    IN  r.valid /\ r.clean /\ r.interval.active < Width(t)
                /\ r.interval.busy * 100 < Width(t)
          => /\ r.interval.active # 0
             /\ r.busy = (r.interval.busy * 100) \div r.interval.active

SurveyTypes ==
    /\ survey \in [ScanTypes -> ChannelTimes]
    /\ read \in [ScanTypes -> ChannelTimes]
    /\ \E S : survey_old \in [ScanTypes -> S]
    /\ \E S : survey_record \in [ScanTypes -> S]
    /\ restarted \in [ScanTypes -> BOOLEAN]

SurveyInv ==
    /\ SurveyTypes
    /\ \A t \in ScanTypes : SurveyOK(t) /\ RecordOK(t)

LEMMA WidthType ==
  ASSUME NEW t \in ScanTypes
  PROVE  Width(t) \in Nat \ {0}
  BY DeltasAssumption DEF Width

LEMMA TimeStep ==
  ASSUME SurveyInv, NEW t \in ScanTypes, NEW active \in Times, NEW busy \in Times,
         ChannelTime(t, active, busy)
  PROVE  SurveyInv'
<1>1. /\ survey' = [survey EXCEPT ![t].active = survey[t].active + active,
                                 ![t].busy = survey[t].busy + busy]
      /\ UNCHANGED <<survey_old, survey_record, read, restarted, cumulative>>
      /\ active \in Nat /\ busy \in Nat /\ busy <= active
  BY DeltasAssumption DEF ChannelTime
<1> DEFINE a == survey[t].active + active
           b == survey[t].busy + busy
<1>2. a \in Nat /\ b \in Nat
  BY <1>1 DEF SurveyInv, SurveyTypes, ChannelTimes
<1>3. survey' = [survey EXCEPT ![t].active = a, ![t].busy = b]
  BY <1>1
<1> HIDE DEF a, b
<1>4. /\ survey' \in [ScanTypes -> ChannelTimes]
      /\ survey'[t].active = a /\ survey'[t].busy = b
      /\ \A u \in ScanTypes : u # t => survey'[u] = survey[u]
  BY <1>2, <1>3 DEF SurveyInv, SurveyTypes, ChannelTimes
<1>5. ASSUME NEW u \in ScanTypes
      PROVE  SurveyOK(u)' /\ RecordOK(u)'
  <2>1. SurveyOK(u) /\ RecordOK(u) /\ survey[u] \in ChannelTimes /\ read[u] \in ChannelTimes
    BY DEF SurveyInv, SurveyTypes
  <2>2. RecordOK(u)'
    BY <1>1, <2>1 DEF RecordOK, Width
  <2>3. SurveyOK(u)'
    BY <1>1, <1>4, <2>1 DEF SurveyOK, Width, ChannelTimes, a, b
  <2> QED
    BY <2>2, <2>3
<1> QED
  BY <1>1, <1>4, <1>5 DEF SurveyInv, SurveyTypes

LEMMA RestartStep ==
  ASSUME SurveyInv, NEW t \in ScanTypes, SurveyRestart(t)
  PROVE  SurveyInv'
<1>1. /\ survey' = [survey EXCEPT ![t] = NoTime]
      /\ read' = [read EXCEPT ![t] = NoTime]
      /\ restarted' = [restarted EXCEPT ![t] = TRUE]
      /\ UNCHANGED <<survey_old, survey_record, cumulative>>
  BY DEF SurveyRestart
<1>2. SurveyTypes'
  BY <1>1 DEF SurveyInv, SurveyTypes, NoTime, ChannelTimes
<1>3. ASSUME NEW u \in ScanTypes
      PROVE  SurveyOK(u)' /\ RecordOK(u)'
  <2>1. SurveyOK(u) /\ RecordOK(u)
    BY DEF SurveyInv
  <2>2. RecordOK(u)'
    BY <1>1, <2>1 DEF RecordOK, Width
  <2>3. SurveyOK(u)'
    BY <1>1, <2>1 DEF SurveyOK, Width, SurveyInv, SurveyTypes, NoTime
  <2> QED
    BY <2>2, <2>3
<1> QED
  BY <1>2, <1>3 DEF SurveyInv

\* A survey: the result is that of the interval since the last one.
LEMMA SurveyStep ==
  ASSUME SurveyInv, NEW t \in ScanTypes, stats_survey_convert(t)
  PROVE  SurveyInv'
<1> DEFINE new == SurveyReading(t)
           active == XDELTA(t, new.active, survey_old[t].active)
           busy == XDELTA(t, new.busy, survey_old[t].busy)
           da == survey[t].active - read[t].active
           db == survey[t].busy - read[t].busy
           W == Width(t)
           rec == [valid |-> active # 0,
                   busy |-> IF active = 0 THEN 0 ELSE PERCENT(t, busy, active),
                   interval |-> [active |-> da, busy |-> db],
                   clean |-> ~restarted[t]]
<1>1. /\ survey_old' = [survey_old EXCEPT ![t] = new]
      /\ survey_record' = [survey_record EXCEPT ![t] = rec]
      /\ read' = [read EXCEPT ![t] = survey[t]]
      /\ restarted' = [restarted EXCEPT ![t] = FALSE]
      /\ UNCHANGED <<survey, cumulative>>
  BY DEF stats_survey_convert
<1>2. /\ survey[t].active \in Nat /\ survey[t].busy \in Nat
      /\ read[t].active \in Nat /\ read[t].busy \in Nat
      /\ SurveyOK(t) /\ W \in Nat \ {0}
  BY WidthType DEF SurveyInv, SurveyTypes, ChannelTimes
<1>3. da \in Nat /\ db \in Nat /\ db <= da
  BY <1>2 DEF SurveyOK
<1>4. cumulative[t] => new.active = survey[t].active % W /\ new.busy = survey[t].busy % W
  BY DEF SurveyReading
<1>5. ~cumulative[t] => new.active = da % W /\ new.busy = db % W
  BY DEF SurveyReading
<1>6. ASSUME ~restarted[t], da < W
      PROVE  active = da
  <2>1. CASE cumulative[t]
    <3>1. active = (new.active - survey_old[t].active) % W
      BY <2>1 DEF XDELTA
    <3>2. new.active = survey[t].active % W /\ survey_old[t].active = read[t].active % W
      BY <1>2, <1>4, <1>6, <2>1 DEF SurveyOK
    <3>3. read[t].active <= survey[t].active /\ survey[t].active - read[t].active < W
      BY <1>2, <1>6 DEF SurveyOK
    <3> HIDE DEF new, W
    <3>4. ((survey[t].active % W) - (read[t].active % W)) % W = survey[t].active - read[t].active
      BY <1>2, <3>3, CutDifference
    <3> QED
      BY <3>1, <3>2, <3>4
  <2>2. CASE ~cumulative[t]
    <3>1. active = da % W
      BY <1>5, <2>2 DEF XDELTA
    <3> HIDE DEF da, W, active
    <3> QED
      BY <1>2, <1>3, <1>6, <3>1
  <2> QED
    BY <2>1, <2>2
<1>7. ASSUME ~restarted[t], db < W
      PROVE  busy = db
  <2>1. CASE cumulative[t]
    <3>1. busy = (new.busy - survey_old[t].busy) % W
      BY <2>1 DEF XDELTA
    <3>2. new.busy = survey[t].busy % W /\ survey_old[t].busy = read[t].busy % W
      BY <1>2, <1>4, <1>7, <2>1 DEF SurveyOK
    <3>3. read[t].busy <= survey[t].busy /\ survey[t].busy - read[t].busy < W
      BY <1>2, <1>7 DEF SurveyOK
    <3> HIDE DEF new, W
    <3>4. ((survey[t].busy % W) - (read[t].busy % W)) % W = survey[t].busy - read[t].busy
      BY <1>2, <3>3, CutDifference
    <3> QED
      BY <3>1, <3>2, <3>4
  <2>2. CASE ~cumulative[t]
    <3>1. busy = db % W
      BY <1>5, <2>2 DEF XDELTA
    <3> HIDE DEF db, W, busy
    <3> QED
      BY <1>2, <1>3, <1>7, <3>1
  <2> QED
    BY <2>1, <2>2
<1>8. rec.valid /\ rec.clean /\ rec.interval.active < W /\ rec.interval.busy * 100 < W
        => rec.interval.active # 0 /\ rec.busy = (rec.interval.busy * 100) \div rec.interval.active
  <2> HIDE DEF active, busy, da, db, W
  <2> SUFFICES ASSUME active # 0, ~restarted[t], da < W, db * 100 < W
               PROVE  da # 0 /\ PERCENT(t, busy, active) = (db * 100) \div da
    OBVIOUS
  <2>1. active = da /\ busy = db
    BY <1>2, <1>3, <1>6, <1>7
  <2>2. (db * 100) % W = db * 100
    BY <1>2, <1>3
  <2> QED
    BY <2>1, <2>2 DEF PERCENT, W
<1>9. SurveyTypes'
  <2> HIDE DEF new, rec
  <2>1. \E S : survey_old' \in [ScanTypes -> S]
    <3>1. PICK S : survey_old \in [ScanTypes -> S]
      BY DEF SurveyInv, SurveyTypes
    <3>2. survey_old' \in [ScanTypes -> S \cup {new}]
      BY <1>1, <3>1
    <3> QED
      BY <3>2
  <2>2. \E S : survey_record' \in [ScanTypes -> S]
    <3>1. PICK S : survey_record \in [ScanTypes -> S]
      BY DEF SurveyInv, SurveyTypes
    <3>2. survey_record' \in [ScanTypes -> S \cup {rec}]
      BY <1>1, <3>1
    <3> QED
      BY <3>2
  <2> QED
    BY <1>1, <2>1, <2>2 DEF SurveyInv, SurveyTypes
<1>10. /\ survey_old'[t] = new /\ survey_record'[t] = rec /\ read'[t] = survey[t]
       /\ \A u \in ScanTypes : u # t =>
            /\ survey_old'[u] = survey_old[u] /\ survey_record'[u] = survey_record[u]
            /\ read'[u] = read[u] /\ restarted'[u] = restarted[u]
  <2> HIDE DEF new, rec
  <2> QED
    BY <1>1 DEF SurveyInv, SurveyTypes
<1> HIDE DEF new, rec
<1>11. ASSUME NEW u \in ScanTypes
       PROVE  SurveyOK(u)' /\ RecordOK(u)'
  <2>1. CASE u = t
    <3>1. RecordOK(t)'
      BY <1>8, <1>10 DEF RecordOK, Width
    <3>2. SurveyOK(t)'
      BY <1>1, <1>2, <1>4, <1>10 DEF SurveyOK, Width
    <3> QED
      BY <2>1, <3>1, <3>2
  <2>2. CASE u # t
    <3>1. SurveyOK(u) /\ RecordOK(u)
      BY DEF SurveyInv
    <3> QED
      BY <1>1, <1>10, <2>2, <3>1 DEF SurveyOK, RecordOK, Width
  <2> QED
    BY <2>1, <2>2
<1> QED
  BY <1>9, <1>11 DEF SurveyInv

LEMMA SurveyNextInv ==
  ASSUME SurveyInv, SurveyNext
  PROVE  SurveyInv'
  BY TimeStep, RestartStep, SurveyStep DEF SurveyNext

-----------------------------------------------------------------------------
(* The types of both reports.                                              *)

\* What TrafficInv and SurveyInv do not say of the types.
DeltasMore ==
    /\ \A f \in Counters : reported[f] >= 0
    /\ \A t \in ScanTypes :
         /\ survey_old[t] \in [active : 0 .. Width(t) - 1, busy : 0 .. Width(t) - 1]
         /\ survey_record[t].valid \in BOOLEAN
         /\ survey_record[t].busy \in 0 .. Width(t) - 1
    /\ cumulative \in [ScanTypes -> BOOLEAN]
    /\ changes \in 0 .. MaxChanges

LEMMA ChangeBound ==
  ASSUME DeltasMore, Changes \/ UNCHANGED changes
  PROVE  changes' \in 0 .. MaxChanges
  BY DeltasAssumption DEF DeltasMore, Changes

LEMMA Quotient ==
  ASSUME NEW W \in Nat \ {0}, NEW a \in 0 .. W - 1, NEW b \in Nat \ {0}
  PROVE  a \div b \in 0 .. W - 1
<1> DEFINE q == a \div b
           r == a % b
<1>1. q \in Int /\ r \in 0 .. b - 1 /\ a = q * b + r
  BY Division
<1> HIDE DEF q, r
<1>2. q >= 0
  <2>1. ASSUME q <= -1
        PROVE  FALSE
    <3>1. q * b <= (-1) * b
      BY <1>1, <2>1
    <3> DEFINE m == q * b
    <3>2. m \in Int /\ m <= -b /\ a = m + r
      BY <1>1, <3>1
    <3> HIDE DEF m
    <3> QED
      BY <1>1, <3>2
  <2> QED
    BY <1>1, <2>1
<1>3. q <= a
  <2>1. q * b >= q
    BY <1>1, <1>2
  <2> DEFINE m == q * b
  <2>2. m \in Int /\ m >= q /\ a = m + r
    BY <1>1, <2>1
  <2> HIDE DEF m
  <2> QED
    BY <1>1, <2>2
<1> QED
  BY <1>1, <1>2, <1>3 DEF q

LEMMA DeltaNat ==
  ASSUME TrafficInv, stats_clients_convert, DeltasMore
  PROVE  \A f \in Counters : reported'[f] >= 0
<1> DEFINE old == ClearOld(hw, data_old)
<1>1. reported' = [f \in Counters |-> reported[f] + Delta(hw, old, f)]
  BY DEF stats_clients_convert, Reading
<1>2. hw \in Records /\ data_old \in Records /\ reported \in [Counters -> Int]
  BY DEF TrafficInv
<1>3. old \in [Counters -> Nat]
  BY <1>2 DEF ClearOld, Records, Zero
<1> HIDE DEF old
<1>4. ASSUME NEW f \in Counters
      PROVE  reported'[f] >= 0
  <2>1. hw.stats[f] \in Nat /\ old[f] \in Nat /\ reported[f] \in Int /\ reported[f] >= 0
    BY <1>2, <1>3 DEF Records, DeltasMore
  <2>2. Delta(hw, old, f) \in Nat
    <3>1. CASE old[f] > hw.stats[f]
      BY <3>1 DEF Delta, Inconsistent
    <3>2. CASE ~(old[f] > hw.stats[f])
      <4> DEFINE d == hw.stats[f] - old[f]
      <4>1. d \in Nat /\ Delta(hw, old, f) = d % WORD
        BY <2>1, <3>2 DEF Delta, Inconsistent
      <4> HIDE DEF d
      <4> QED
        BY <4>1, WordDelta
    <3> QED
      BY <3>1, <3>2
  <2>3. reported'[f] = reported[f] + Delta(hw, old, f)
    BY <1>1
  <2> QED
    BY <2>1, <2>2, <2>3
<1> QED
  BY <1>4

LEMMA ClientMore ==
  ASSUME TrafficInv, DeltasMore, ClientNext
  PROVE  DeltasMore'
<1>1. UNCHANGED surveyVars /\ (Changes \/ UNCHANGED changes)
  BY DEF ClientNext, Traffic, Reconnect, DriverReset, stats_clients_convert
<1>2. \A f \in Counters : reported'[f] >= 0
  <2>1. CASE reported' = reported
    BY <2>1 DEF DeltasMore
  <2> QED
    BY <2>1, DeltaNat DEF ClientNext, Traffic, Reconnect, DriverReset
<1>3. changes' \in 0 .. MaxChanges
  BY <1>1, ChangeBound
<1> QED
  BY <1>1, <1>2, <1>3 DEF DeltasMore, surveyVars, Width

LEMMA SurveyRecordTypes ==
  ASSUME SurveyInv, DeltasMore, NEW t \in ScanTypes, stats_survey_convert(t)
  PROVE  DeltasMore'
<1> DEFINE new == SurveyReading(t)
           active == XDELTA(t, new.active, survey_old[t].active)
           busy == XDELTA(t, new.busy, survey_old[t].busy)
           W == Width(t)
           percent == IF active = 0 THEN 0 ELSE PERCENT(t, busy, active)
<1>1. /\ survey_old' = [survey_old EXCEPT ![t] = new]
      /\ \E i, c : survey_record' = [survey_record EXCEPT ![t] =
            [valid |-> active # 0, busy |-> percent, interval |-> i, clean |-> c]]
      /\ UNCHANGED <<reported, cumulative, changes>>
  BY DEF stats_survey_convert, trafficVars
<1>2. W \in Nat \ {0}
  BY WidthType
<1>3. /\ survey[t].active \in Int /\ survey[t].busy \in Int
      /\ read[t].active \in Int /\ read[t].busy \in Int
      /\ survey_old[t].active \in 0 .. W - 1 /\ survey_old[t].busy \in 0 .. W - 1
  BY DEF SurveyInv, SurveyTypes, ChannelTimes, DeltasMore
<1>4. \A a \in Int : a % W \in 0 .. W - 1
  <2> HIDE DEF W
  <2> QED
    BY <1>2, Division
<1>5. new.active \in 0 .. W - 1 /\ new.busy \in 0 .. W - 1
      /\ new \in [active : 0 .. W - 1, busy : 0 .. W - 1]
  <2> DEFINE a == IF cumulative[t] THEN survey[t].active ELSE survey[t].active - read[t].active
             b == IF cumulative[t] THEN survey[t].busy ELSE survey[t].busy - read[t].busy
  <2>1. new = [active |-> a % W, busy |-> b % W]
    BY DEF SurveyReading
  <2>2. a \in Int /\ b \in Int
    BY <1>3
  <2> HIDE DEF a, b, new, W
  <2>3. a % W \in 0 .. W - 1 /\ b % W \in 0 .. W - 1
    BY <1>4, <2>2
  <2> QED
    BY <2>1, <2>3
<1> HIDE DEF new
<1>6. active \in 0 .. W - 1 /\ busy \in 0 .. W - 1
  <2> DEFINE a == new.active - survey_old[t].active
             b == new.busy - survey_old[t].busy
  <2>1. /\ active = IF cumulative[t] THEN a % W ELSE new.active
        /\ busy = IF cumulative[t] THEN b % W ELSE new.busy
    BY DEF XDELTA
  <2>2. a \in Int /\ b \in Int
    <3> HIDE DEF W
    <3> QED
      BY <1>2, <1>3, <1>5
  <2> HIDE DEF a, b, active, busy, W
  <2>3. a % W \in 0 .. W - 1 /\ b % W \in 0 .. W - 1
    BY <1>4, <2>2
  <2> QED
    BY <1>5, <2>1, <2>3
<1> HIDE DEF active, busy
<1>7. percent \in 0 .. W - 1
  <2>1. CASE active = 0
    <3> HIDE DEF W
    <3> QED
      BY <1>2, <2>1
  <2>2. CASE active # 0
    <3> DEFINE h == (busy * 100) % W
    <3>1. percent = h \div active
      BY <2>2 DEF PERCENT
    <3> HIDE DEF W, percent
    <3>2. busy * 100 \in Int
      BY <1>2, <1>6
    <3>3. h \in 0 .. W - 1
      BY <1>4, <3>2
    <3>4. active \in Nat \ {0}
      BY <1>2, <1>6, <2>2
    <3> HIDE DEF h
    <3> QED
      BY <1>2, <3>1, <3>3, <3>4, Quotient
  <2> QED
    BY <2>1, <2>2
<1> HIDE DEF percent
<1>8. ASSUME NEW u \in ScanTypes
      PROVE  /\ survey_old'[u] \in [active : 0 .. Width(u) - 1, busy : 0 .. Width(u) - 1]
             /\ survey_record'[u].valid \in BOOLEAN
             /\ survey_record'[u].busy \in 0 .. Width(u) - 1
  <2>1. PICK S, R : survey_old \in [ScanTypes -> S] /\ survey_record \in [ScanTypes -> R]
    BY DEF SurveyInv, SurveyTypes
  <2>2. CASE u = t
    <3>1. survey_old'[t] = new /\ survey_record'[t].valid = (active # 0) /\ survey_record'[t].busy = percent
      BY <1>1, <2>1
    <3> QED
      BY <1>5, <1>7, <2>2, <3>1
  <2>3. CASE u # t
    <3>1. survey_old'[u] = survey_old[u] /\ survey_record'[u] = survey_record[u]
      BY <1>1, <2>1, <2>3
    <3> QED
      BY <3>1 DEF DeltasMore
  <2> QED
    BY <2>2, <2>3
<1> QED
  BY <1>1, <1>8 DEF DeltasMore, Width

LEMMA SurveyMore ==
  ASSUME SurveyInv, DeltasMore, SurveyNext
  PROVE  DeltasMore'
<1>1. CASE Changes /\ UNCHANGED <<survey_old, survey_record, cumulative, trafficVars>>
  BY <1>1, ChangeBound DEF DeltasMore, Width, trafficVars
<1>2. ASSUME NEW t \in ScanTypes, SurveyRestart(t)
      PROVE  DeltasMore'
  BY <1>1, <1>2 DEF SurveyRestart
<1>3. ASSUME NEW t \in ScanTypes, NEW active \in Times, NEW busy \in Times,
             ChannelTime(t, active, busy)
      PROVE  DeltasMore'
  BY <1>1, <1>3 DEF ChannelTime
<1> QED
  BY <1>2, <1>3, SurveyRecordTypes DEF SurveyNext

LEMMA DeltasMoreInit ==
  ASSUME DeltasInit
  PROVE  DeltasMore
<1>1. \A f \in Counters : reported[f] = 0
  BY DEF DeltasInit, Zero
<1>2. ASSUME NEW t \in ScanTypes
      PROVE  /\ survey_old[t] \in [active : 0 .. Width(t) - 1, busy : 0 .. Width(t) - 1]
             /\ survey_record[t].valid \in BOOLEAN
             /\ survey_record[t].busy \in 0 .. Width(t) - 1
  <2>1. survey_old[t] = NoTime /\ survey_record[t] = NoRecord /\ 0 \in 0 .. Width(t) - 1
    BY WidthType DEF DeltasInit
  <2> QED
    BY <2>1 DEF NoTime, NoRecord
<1>3. cumulative \in [ScanTypes -> BOOLEAN] /\ changes \in 0 .. MaxChanges
  BY DeltasAssumption DEF DeltasInit
<1> QED
  BY <1>1, <1>2, <1>3 DEF DeltasMore

LEMMA DeltasTypes == TrafficInv /\ SurveyInv /\ DeltasMore => DeltasTypeOK
<1> SUFFICES ASSUME TrafficInv, SurveyInv, DeltasMore
             PROVE  DeltasTypeOK
  OBVIOUS
<1>1. reported \in [Counters -> Nat] /\ carried \in [Counters -> Nat]
  <2>1. ASSUME NEW f \in Counters
        PROVE  reported[f] \in Nat /\ carried[f] \in Nat
    <3>1. reported[f] \in Int /\ carried[f] \in Int /\ reported[f] <= carried[f] /\ reported[f] >= 0
      BY DEF TrafficInv, CounterOK, DeltasMore
    <3> QED
      BY <3>1
  <2>2. reported \in [Counters -> Int] /\ carried \in [Counters -> Int]
    BY DEF TrafficInv
  <2> QED
    BY <2>1, <2>2
<1>2. \A t \in ScanTypes : survey[t] \in [active : Nat, busy : Nat]
  BY DEF SurveyInv, SurveyTypes, ChannelTimes
<1> QED
  BY <1>1, <1>2 DEF DeltasTypeOK, DeltasMore, TrafficInv, Records

-----------------------------------------------------------------------------
(* Log forwarding.                                                         *)

UnitSeq == Seq(Unit)

LogTypes ==
    /\ pl2rl_fd \in [Procs -> Conns \cup {NoConn}]
    /\ pc \in [Procs -> {"idle"} \cup MsgTypes]
    /\ w \in [Procs -> Nat]
    /\ clientEnd \in [Conns -> BOOLEAN]
    /\ serverEnd \in [Conns -> {"closed", "waiting", "open", "registered"}]
    /\ stream \in [Conns -> UnitSeq]
    /\ torn \in [Conns -> BOOLEAN]
    /\ reading.conn \in Conns \cup {NoConn} /\ reading.rlen \in Nat

Runs(s) ==
    \A i, j \in DOMAIN s :
      i <= j /\ s[i].part + (j - i) <= LENGTH
        => s[j] = [type |-> s[i].type, part |-> s[i].part + (j - i)]

Joined(s) == \A i \in DOMAIN s : i < Len(s) /\ s[i].part = LENGTH => s[i + 1].part = 1

ReadType == reading.header[1].type

Sending(p) == pc[p] # "idle" /\ w[p] > 0

HeaderOK ==
    /\ reading.header \in UnitSeq /\ Len(reading.header) = HDR
    /\ ReadType \in MsgTypes /\ InStep(reading.header, ReadType, 1)
    /\ reading.rlen = BODY

StartOK(c) ==
    stream[c] # <<>> =>
      IF reading.conn = c THEN stream[c][1] = [type |-> ReadType, part |-> HDR + 1]
                          ELSE stream[c][1].part = 1

EndOK(c, p) ==
    IF stream[c] = <<>>
      THEN reading.conn = c <=> Sending(p)
      ELSE LET last == stream[c][Len(stream[c])]
           IN  IF Sending(p) THEN last = [type |-> pc[p], part |-> w[p]] ELSE last.part = LENGTH

EmptyOK(c, p) ==
    reading.conn = c /\ stream[c] = <<>> /\ Sending(p) => pc[p] = ReadType /\ w[p] = HDR

FirstOK(c) ==
    serverEnd[c] \in {"waiting", "open"} =>
      IF reading.conn = c THEN ReadType = "REGISTER"
      ELSE IF stream[c] # <<>> THEN stream[c][1].type = "REGISTER"
      ELSE \A p \in Procs : pl2rl_fd[p] = c => pc[p] = "REGISTER"

ConnOK(c) ==
    ~torn[c] /\ serverEnd[c] # "closed" =>
      /\ Runs(stream[c]) /\ Joined(stream[c])
      /\ reading.conn = c => HeaderOK
      /\ StartOK(c)
      /\ \A p \in Procs : pl2rl_fd[p] = c => EndOK(c, p) /\ EmptyOK(c, p)
      /\ FirstOK(c)

Owners ==
    /\ \A p, q \in Procs : pl2rl_fd[p] = pl2rl_fd[q] /\ pl2rl_fd[p] # NoConn => p = q
    /\ \A p \in Procs : pl2rl_fd[p] # NoConn => clientEnd[pl2rl_fd[p]]
    /\ \A p \in Procs : pc[p] # "idle" => pl2rl_fd[p] # NoConn /\ w[p] < LENGTH
    /\ reading.conn # NoConn => serverEnd[reading.conn] \in {"open", "registered"}

LogInv == LogTypes /\ Owners /\ (\A c \in Conns : ConnOK(c)) /\ MessagesIntact

LEMMA LengthType == HDR \in Nat \ {0} /\ BODY \in Nat \ {0} /\ LENGTH \in Nat /\ LENGTH = HDR + BODY
  BY Pl2rlAssumption DEF LENGTH

LEMMA UnitFacts ==
  ASSUME NEW s \in UnitSeq
  PROVE  /\ Len(s) \in Nat /\ DOMAIN s = 1 .. Len(s)
         /\ \A i \in 1 .. Len(s) : s[i] \in Unit /\ s[i].part \in 1 .. LENGTH
                                  /\ s[i].type \in MsgTypes
                                  /\ s[i] = [type |-> s[i].type, part |-> s[i].part]
         /\ s = <<>> <=> Len(s) = 0
<1>1. s \in Seq(Unit)
  BY DEF UnitSeq
<1>2. Len(s) \in Nat /\ DOMAIN s = 1 .. Len(s) /\ \A i \in 1 .. Len(s) : s[i] \in Unit
  BY <1>1, LenProperties, ElementOfSeq
<1>3. s = <<>> <=> Len(s) = 0
  BY <1>1, EmptySeq
<1> QED
  BY <1>2, <1>3 DEF Unit

\* What is left of a stream after a read.
LEMMA Dropped ==
  ASSUME NEW s \in UnitSeq, NEW n \in 0 .. Len(s)
  PROVE  LET t == SubSeq(s, n + 1, Len(s))
         IN  /\ t \in UnitSeq /\ Len(t) = Len(s) - n
             /\ \A i \in 1 .. Len(t) : t[i] = s[n + i]
             /\ Runs(s) => Runs(t)
             /\ Joined(s) => Joined(t)
<1> DEFINE t == SubSeq(s, n + 1, Len(s))
<1>1. s \in Seq(Unit) /\ Len(s) \in Nat /\ DOMAIN s = 1 .. Len(s)
  BY UnitFacts DEF UnitSeq
<1>2. t \in Seq(Unit) /\ Len(t) = Len(s) - n /\ \A i \in 1 .. Len(s) - n : t[i] = s[n + i]
  <2>1. \A i \in n + 1 .. Len(s) : s[i] \in Unit
    BY UnitFacts, <1>1
  <2>2. n + 1 \in Int /\ Len(s) \in Int
    BY <1>1
  <2>3. /\ t \in Seq(Unit)
        /\ Len(t) = IF n + 1 <= Len(s) THEN Len(s) - (n + 1) + 1 ELSE 0
        /\ \A i \in 1 .. Len(s) - (n + 1) + 1 : t[i] = s[(n + 1) + i - 1]
    BY <2>1, <2>2, SubSeqProperties
  <2> HIDE DEF t
  <2>4. Len(t) = Len(s) - n
    BY <1>1, <2>3
  <2>5. ASSUME NEW i \in 1 .. Len(s) - n
        PROVE  t[i] = s[n + i]
    <3>1. i \in 1 .. Len(s) - (n + 1) + 1 /\ (n + 1) + i - 1 = n + i
      BY <1>1
    <3> QED
      BY <2>3, <3>1
  <2> QED
    BY <2>3, <2>4, <2>5
<1> HIDE DEF t
<1>3. t \in UnitSeq /\ DOMAIN t = 1 .. Len(s) - n /\ Len(t) = Len(s) - n
  BY <1>2, LenProperties DEF UnitSeq
<1>4. Runs(s) => Runs(t)
  <2> SUFFICES ASSUME Runs(s), NEW i \in DOMAIN t, NEW j \in DOMAIN t,
                      i <= j, t[i].part + (j - i) <= LENGTH
               PROVE  t[j] = [type |-> t[i].type, part |-> t[i].part + (j - i)]
    BY DEF Runs
  <2>1. i \in 1 .. Len(s) - n /\ j \in 1 .. Len(s) - n
    BY <1>3
  <2>2. n + i \in DOMAIN s /\ n + j \in DOMAIN s /\ (n + j) - (n + i) = j - i /\ n + i <= n + j
    BY <1>1, <2>1
  <2>3. t[i] = s[n + i] /\ t[j] = s[n + j]
    BY <1>2, <2>1
  <2> QED
    BY <2>2, <2>3 DEF Runs
<1>5. Joined(s) => Joined(t)
  <2> SUFFICES ASSUME Joined(s), NEW i \in DOMAIN t, i < Len(t), t[i].part = LENGTH
               PROVE  t[i + 1].part = 1
    BY DEF Joined
  <2>1. i \in 1 .. Len(s) - n /\ i + 1 \in 1 .. Len(s) - n
    BY <1>1, <1>3
  <2>2. n + i \in DOMAIN s /\ n + i < Len(s) /\ n + (i + 1) = (n + i) + 1
    BY <1>1, <1>3, <2>1
  <2>3. t[i] = s[n + i] /\ t[i + 1] = s[n + (i + 1)]
    BY <1>2, <2>1
  <2> QED
    BY <2>2, <2>3 DEF Joined
<1> QED
  BY <1>2, <1>3, <1>4, <1>5 DEF t

\* Units from + 1, ..., from + n of a message at the end of a stream whose last
\* unit is the one before them.
LEMMA Extended ==
  ASSUME NEW s \in UnitSeq, Runs(s), Joined(s),
         NEW type \in MsgTypes, NEW from \in Nat, NEW n \in Nat \ {0}, from + n <= LENGTH,
         s # <<>> => IF from > 0 THEN s[Len(s)] = [type |-> type, part |-> from]
                                 ELSE s[Len(s)].part = LENGTH
  PROVE  LET t == s \o [i \in 1 .. n |-> [type |-> type, part |-> from + i]]
         IN  /\ t \in UnitSeq /\ Len(t) = Len(s) + n /\ t # <<>>
             /\ Runs(t) /\ Joined(t)
             /\ t[1] = IF s = <<>> THEN [type |-> type, part |-> from + 1] ELSE s[1]
             /\ t[Len(t)] = [type |-> type, part |-> from + n]
<1> DEFINE u == [i \in 1 .. n |-> [type |-> type, part |-> from + i]]
           t == s \o u
<1>1. s \in Seq(Unit) /\ Len(s) \in Nat /\ DOMAIN s = 1 .. Len(s)
  BY UnitFacts DEF UnitSeq
<1>2. LENGTH \in Nat
  BY LengthType
<1>3. u \in Seq(Unit) /\ Len(u) = n
  <2>1. ASSUME NEW i \in 1 .. n PROVE [type |-> type, part |-> from + i] \in Unit
    <3>1. from + i \in 1 .. LENGTH
      BY <1>2
    <3> QED
      BY <3>1 DEF Unit
  <2> QED
    BY <2>1, IsASeq
<1>4. \A i \in 1 .. n : u[i] = [type |-> type, part |-> from + i]
  OBVIOUS
<1> HIDE DEF u
<1>5. /\ t \in Seq(Unit) /\ Len(t) = Len(s) + n
      /\ \A i \in 1 .. Len(s) + n : t[i] = IF i <= Len(s) THEN s[i] ELSE u[i - Len(s)]
  BY <1>1, <1>3, ConcatProperties
<1> HIDE DEF t
<1>6. t \in UnitSeq /\ DOMAIN t = 1 .. Len(s) + n
  BY <1>1, <1>5, UnitFacts DEF UnitSeq
<1>7. \A i \in Len(s) + 1 .. Len(s) + n : t[i] = [type |-> type, part |-> from + i - Len(s)]
  BY <1>1, <1>4, <1>5
<1>8. \A i \in 1 .. Len(s) : t[i] = s[i] /\ s[i].part \in 1 .. LENGTH
  <2>1. \A i \in 1 .. Len(s) : s[i].part \in 1 .. LENGTH
    BY UnitFacts
  <2>2. \A i \in 1 .. Len(s) : t[i] = s[i]
    BY <1>1, <1>5
  <2> QED
    BY <2>1, <2>2
<1>9. Runs(t)
  <2> SUFFICES ASSUME NEW i \in 1 .. Len(s) + n, NEW j \in 1 .. Len(s) + n,
                      i <= j, t[i].part + (j - i) <= LENGTH
               PROVE  t[j] = [type |-> t[i].type, part |-> t[i].part + (j - i)]
    BY <1>6 DEF Runs
  <2>1. CASE j <= Len(s)
    <3>1. i \in DOMAIN s /\ j \in DOMAIN s /\ t[i] = s[i] /\ t[j] = s[j]
      BY <1>1, <1>8, <2>1
    <3> QED
      BY <3>1 DEF Runs
  <2>2. CASE i > Len(s)
    <3>1. /\ t[i] = [type |-> type, part |-> from + i - Len(s)]
          /\ t[j] = [type |-> type, part |-> from + j - Len(s)]
      BY <1>1, <1>7, <2>2
    <3> QED
      BY <1>1, <3>1
  <2>3. CASE i <= Len(s) /\ j > Len(s)
    <3>1. t[j] = [type |-> type, part |-> from + j - Len(s)]
      <4>1. j \in Len(s) + 1 .. Len(s) + n
        BY <1>1, <2>3
      <4> QED
        BY <1>7, <4>1
    <3>2. t[i] = s[i] /\ t[i].part \in 1 .. LENGTH /\ i \in DOMAIN s /\ Len(s) \in DOMAIN s
      BY <1>1, <1>8, <2>3
    <3>3. s[i].part + (Len(s) - i) <= LENGTH
      BY <1>1, <1>2, <2>3, <3>2
    <3>4. s[Len(s)] = [type |-> s[i].type, part |-> s[i].part + (Len(s) - i)]
      BY <1>1, <2>3, <3>2, <3>3 DEF Runs
    <3>5. s # <<>>
      BY <3>2, UnitFacts, <1>1
    <3>6. s[Len(s)].part < LENGTH
      BY <1>1, <1>2, <2>3, <3>2, <3>4
    <3>7. s[Len(s)] = [type |-> type, part |-> from]
      BY <1>2, <3>5, <3>6
    <3>8. s[i].type = type /\ s[i].part + (Len(s) - i) = from
      BY <3>4, <3>7
    <3> QED
      BY <1>1, <3>1, <3>2, <3>8
  <2> QED
    BY <1>1, <2>1, <2>2, <2>3
<1>10. Joined(t)
  <2> SUFFICES ASSUME NEW i \in 1 .. Len(s) + n, i < Len(t), t[i].part = LENGTH
               PROVE  t[i + 1].part = 1
    BY <1>6 DEF Joined
  <2>1. CASE i < Len(s)
    <3>1. i \in DOMAIN s /\ t[i] = s[i] /\ t[i + 1] = s[i + 1]
      BY <1>1, <1>8, <2>1
    <3> QED
      BY <2>1, <3>1 DEF Joined
  <2>2. CASE i = Len(s)
    <3>1. t[i + 1] = [type |-> type, part |-> from + 1]
      BY <1>1, <1>7, <2>2
    <3>2. s # <<>> /\ s[Len(s)].part = LENGTH
      BY <1>1, <1>8, <2>2, UnitFacts
    <3> QED
      BY <1>2, <3>1, <3>2
  <2>3. CASE i > Len(s)
    <3>1. i < Len(s) + n /\ i \in Len(s) + 1 .. Len(s) + n
      BY <1>1, <1>5, <2>3
    <3>2. t[i] = [type |-> type, part |-> from + i - Len(s)]
      BY <1>7, <3>1
    <3>3. t[i].part = from + i - Len(s)
      BY <3>2
    <3> QED
      BY <1>1, <1>2, <3>1, <3>3
  <2> QED
    BY <1>1, <2>1, <2>2, <2>3
<1>11. t # <<>>
  BY <1>5, <1>6, <1>1, UnitFacts
<1>12. t[1] = IF s = <<>> THEN [type |-> type, part |-> from + 1] ELSE s[1]
  BY <1>1, <1>7, <1>8, UnitFacts
<1>13. t[Len(t)] = [type |-> type, part |-> from + n]
  BY <1>1, <1>5, <1>7
<1> QED
  BY <1>5, <1>6, <1>9, <1>10, <1>11, <1>12, <1>13 DEF t, u

\* A connection that a step does not touch, but for its process going away and
\* its acceptance.
LEMMA ConnAside ==
  ASSUME LogInv, NEW c \in Conns, stream'[c] = stream[c], torn'[c] = torn[c],
         serverEnd'[c] = serverEnd[c]
           \/ (serverEnd[c] = "waiting" /\ serverEnd'[c] = "open") \/ serverEnd'[c] = "closed",
         reading'.conn = c <=> reading.conn = c,
         reading.conn = c => reading' = reading,
         \A p \in Procs : pl2rl_fd'[p] = c => pl2rl_fd[p] = c /\ pc'[p] = pc[p] /\ w'[p] = w[p]
  PROVE  ConnOK(c)'
<1> SUFFICES ASSUME ~torn[c], serverEnd[c] # "closed"
             PROVE  ConnOK(c)'
  BY DEF ConnOK
<1>1. ConnOK(c)
  BY DEF LogInv
<1>2. Runs(stream'[c]) /\ Joined(stream'[c])
  BY <1>1 DEF ConnOK
<1>3. reading'.conn = c => HeaderOK'
  BY <1>1 DEF ConnOK, HeaderOK, ReadType
<1>4. StartOK(c)'
  BY <1>1 DEF ConnOK, StartOK, ReadType
<1>5. ASSUME NEW p \in Procs, pl2rl_fd'[p] = c
      PROVE  EndOK(c, p)' /\ EmptyOK(c, p)'
  <2>1. pl2rl_fd[p] = c /\ pc'[p] = pc[p] /\ w'[p] = w[p] /\ EndOK(c, p) /\ EmptyOK(c, p)
    BY <1>1, <1>5 DEF ConnOK
  <2>2. Sending(p)' <=> Sending(p)
    BY <2>1 DEF Sending
  <2>3. EndOK(c, p)'
    BY <2>1, <2>2 DEF EndOK
  <2>4. EmptyOK(c, p)'
    BY <2>1, <2>2 DEF EmptyOK, ReadType
  <2> QED
    BY <2>3, <2>4
<1>6. FirstOK(c)'
  BY <1>1 DEF ConnOK, FirstOK, ReadType
<1> QED
  BY <1>2, <1>3, <1>4, <1>5, <1>6 DEF ConnOK

\* What a try of pl2rl_send leaves on its connection.
WellWritten(s, c, p, n) ==
    /\ s \in UnitSeq /\ Runs(s) /\ Joined(s)
    /\ s = <<>> => n = 0 /\ stream[c] = <<>>
    /\ s # <<>> => IF reading.conn = c THEN s[1] = [type |-> ReadType, part |-> HDR + 1]
                                       ELSE s[1].part = 1
    /\ s # <<>> => IF w[p] + n > 0 THEN s[Len(s)] = [type |-> pc[p], part |-> w[p] + n]
                                  ELSE s[Len(s)].part = LENGTH
    /\ s # <<>> /\ serverEnd[c] \in {"waiting", "open"} /\ reading.conn # c
         => s[1].type = "REGISTER"

LEMMA WrittenOK ==
  ASSUME LogInv, NEW p \in Procs, NEW c \in Conns, pl2rl_fd[p] = c, pc[p] # "idle",
         ~torn[c], serverEnd[c] # "closed",
         NEW n \in Nat, w[p] + n <= LENGTH, NEW s,
         s = IF n = 0 THEN stream[c] ELSE stream[c] \o Written(p, n)
  PROVE  WellWritten(s, c, p, n)
<1> USE DEF WellWritten
<1>1. /\ ConnOK(c) /\ EndOK(c, p) /\ EmptyOK(c, p) /\ StartOK(c) /\ FirstOK(c)
      /\ Runs(stream[c]) /\ Joined(stream[c])
  BY DEF LogInv, ConnOK
<1>2. pc[p] \in MsgTypes /\ w[p] \in Nat /\ stream[c] \in UnitSeq
  BY DEF LogInv, LogTypes
<1>3. Sending(p) <=> w[p] > 0
  BY DEF Sending
<1>4. CASE n = 0
  BY <1>1, <1>2, <1>3, <1>4 DEF EndOK, StartOK, FirstOK
<1>5. CASE n # 0
  <2>1. stream[c] # <<>> => IF w[p] > 0 THEN stream[c][Len(stream[c])] = [type |-> pc[p], part |-> w[p]]
                                       ELSE stream[c][Len(stream[c])].part = LENGTH
    BY <1>1, <1>3 DEF EndOK
  <2>2. s = stream[c] \o [i \in 1 .. n |-> [type |-> pc[p], part |-> w[p] + i]]
    BY <1>5 DEF Written
  <2>3. n \in Nat \ {0}
    BY <1>5
  <2>4. /\ s \in UnitSeq /\ s # <<>> /\ Runs(s) /\ Joined(s)
        /\ s[1] = IF stream[c] = <<>> THEN [type |-> pc[p], part |-> w[p] + 1] ELSE stream[c][1]
        /\ s[Len(s)] = [type |-> pc[p], part |-> w[p] + n]
    <3> DEFINE v == stream[c]
               type == pc[p]
               from == w[p]
               t == v \o [i \in 1 .. n |-> [type |-> type, part |-> from + i]]
    <3>1. /\ v \in UnitSeq /\ Runs(v) /\ Joined(v) /\ type \in MsgTypes /\ from \in Nat
          /\ from + n <= LENGTH
          /\ v # <<>> => IF from > 0 THEN v[Len(v)] = [type |-> type, part |-> from]
                                     ELSE v[Len(v)].part = LENGTH
      BY <1>1, <1>2, <2>1
    <3>2. s = t
      BY <2>2
    <3> HIDE DEF v, type, from
    <3>3. /\ t \in UnitSeq /\ t # <<>> /\ Runs(t) /\ Joined(t)
          /\ t[1] = IF v = <<>> THEN [type |-> type, part |-> from + 1] ELSE v[1]
          /\ t[Len(t)] = [type |-> type, part |-> from + n]
      BY <2>3, <3>1, Extended
    <3> HIDE DEF t
    <3> QED
      BY <3>2, <3>3 DEF v, type, from
  <2>5. CASE stream[c] # <<>>
    BY <1>1, <1>2, <2>3, <2>4, <2>5 DEF StartOK, FirstOK
  <2>6. CASE stream[c] = <<>>
    <3>1. s[1] = [type |-> pc[p], part |-> w[p] + 1]
      BY <2>4, <2>6
    <3>2. CASE reading.conn = c
      <4>1. w[p] > 0 /\ pc[p] = ReadType /\ w[p] = HDR
        BY <1>1, <1>3, <2>6, <3>2 DEF EndOK, EmptyOK
      <4> QED
        BY <1>2, <2>3, <2>4, <3>1, <3>2, <4>1
    <3>3. CASE reading.conn # c
      <4>1. w[p] = 0
        BY <1>1, <1>2, <1>3, <2>6, <3>3 DEF EndOK
      <4>2. serverEnd[c] \in {"waiting", "open"} => pc[p] = "REGISTER"
        BY <1>1, <2>6, <3>3 DEF FirstOK
      <4> QED
        BY <1>2, <2>3, <2>4, <3>1, <3>3, <4>1, <4>2
    <3> QED
      BY <3>2, <3>3
  <2> QED
    BY <2>5, <2>6
<1> QED
  BY <1>4, <1>5

\* What a try of pl2rl_send does: n units are written, and then the connection
\* is closed, or the message is given up half way, or not begun, or the try is
\* not the last one, or all is sent, with a message after it or not.
Disconnected(p) ==
    /\ pl2rl_fd' = [pl2rl_fd EXCEPT ![p] = NoConn]
    /\ clientEnd' = [clientEnd EXCEPT ![pl2rl_fd[p]] = FALSE]

Outcome(p, n) ==
    \/ /\ Disconnected(p)
       /\ pc' = [pc EXCEPT ![p] = "idle"] /\ w' = w /\ torn' = torn
    \/ /\ UNCHANGED <<pl2rl_fd, clientEnd>>
       /\ \/ /\ pc' = [pc EXCEPT ![p] = "idle"] /\ w' = w
             /\ torn' = [torn EXCEPT ![pl2rl_fd[p]] = TRUE]
          \/ /\ pc' = [pc EXCEPT ![p] = "idle"] /\ w' = w /\ torn' = torn
             /\ w[p] + n = LENGTH \/ (w[p] + n = 0 /\ pc[p] # "REGISTER")
          \/ /\ pc' = pc /\ w' = [w EXCEPT ![p] = w[p] + n] /\ torn' = torn
             /\ w[p] + n < LENGTH
          \/ /\ pc' = [pc EXCEPT ![p] = "LOG"] /\ w' = [w EXCEPT ![p] = 0] /\ torn' = torn
             /\ w[p] + n = LENGTH

Stream(p, n) == IF n = 0 THEN stream[pl2rl_fd[p]]
                         ELSE stream[pl2rl_fd[p]] \o Written(p, n)

LEMMA SenderFacts ==
  ASSUME LogInv, NEW p \in Procs, pc[p] # "idle"
  PROVE  /\ pl2rl_fd[p] \in Conns /\ w[p] \in Nat /\ w[p] < LENGTH
         /\ pc[p] \in MsgTypes /\ LENGTH \in Nat
  BY LengthType DEF LogInv, LogTypes, Owners

LEMMA NextTryOutcome ==
  ASSUME LogInv, NEW p \in Procs, pc[p] # "idle", NEW n \in Nat, w[p] + n < LENGTH,
         NextTry(p, w[p] + n)
  PROVE  Outcome(p, n)
<1> DEFINE sent == w[p] + n
<1>1. sent \in Nat
  BY SenderFacts
<1>2. CASE tries[p] = 1 /\ pc[p] = "REGISTER"
  BY <1>2 DEF NextTry, GiveUp, EndSend, pl2rl_disconnect, CloseClient, Outcome, Disconnected
<1>3. CASE tries[p] = 1 /\ pc[p] # "REGISTER"
  <2>1. /\ torn' = [torn EXCEPT ![pl2rl_fd[p]] = torn[pl2rl_fd[p]] \/ sent > 0]
        /\ pc' = [pc EXCEPT ![p] = "idle"] /\ w' = w /\ UNCHANGED <<pl2rl_fd, clientEnd>>
    BY <1>3 DEF NextTry, GiveUp, EndSend
  <2>2. CASE sent > 0
    <3>1. torn' = [torn EXCEPT ![pl2rl_fd[p]] = TRUE]
      BY <2>1, <2>2
    <3> QED
      BY <2>1, <3>1 DEF Outcome
  <2>3. CASE sent = 0
    <3>1. torn[pl2rl_fd[p]] \in BOOLEAN /\ torn \in [Conns -> BOOLEAN] /\ pl2rl_fd[p] \in Conns
      BY SenderFacts DEF LogInv, LogTypes
    <3>2. (torn[pl2rl_fd[p]] \/ sent > 0) <=> torn[pl2rl_fd[p]]
      BY <2>3
    <3>3. torn' = torn
      BY <2>1, <3>1, <3>2
    <3> QED
      BY <1>3, <2>1, <2>3, <3>3 DEF Outcome
  <2> QED
    BY <1>1, <2>2, <2>3
<1>4. CASE tries[p] # 1
  BY <1>4 DEF NextTry, Outcome
<1> QED
  BY <1>2, <1>3, <1>4

LEMMA SendOutcome ==
  ASSUME LogInv, NEW p \in Procs, pl2rl_send(p)
  PROVE  /\ pc[p] # "idle"
         /\ UNCHANGED <<serverEnd, daemonVars>>
         /\ \E n \in Nat : /\ w[p] + n <= LENGTH
                           /\ stream' = [stream EXCEPT ![pl2rl_fd[p]] = Stream(p, n)]
                           /\ Outcome(p, n)
<1> DEFINE c == pl2rl_fd[p]
<1>1. pc[p] # "idle" /\ UNCHANGED <<serverEnd, daemonVars>>
  BY DEF pl2rl_send, SendError, SendAgain, SendPart, SendAll
<1>2. c \in Conns /\ w[p] \in Nat /\ w[p] < LENGTH /\ LENGTH \in Nat
  BY <1>1, SenderFacts
<1>3. stream \in [Conns -> UnitSeq]
  BY DEF LogInv, LogTypes
<1>4. stream' = stream => stream' = [stream EXCEPT ![c] = Stream(p, 0)]
  BY <1>2, <1>3 DEF Stream
<1>5. CASE SendError(p)
  <2>1. stream' = stream /\ Outcome(p, 0)
    BY <1>5 DEF SendError, pl2rl_disconnect, CloseClient, EndSend, Outcome, Disconnected
  <2>2. 0 \in Nat /\ w[p] + 0 <= LENGTH
    BY <1>2
  <2> QED
    BY <1>1, <1>4, <2>1, <2>2
<1>6. CASE SendAgain(p)
  <2>1. stream' = stream /\ NextTry(p, w[p])
    BY <1>6 DEF SendAgain
  <2>2. 0 \in Nat /\ w[p] + 0 < LENGTH /\ w[p] + 0 = w[p] /\ w[p] + 0 <= LENGTH
    BY <1>2
  <2>3. Outcome(p, 0)
    BY <1>1, <2>1, <2>2, NextTryOutcome
  <2> QED
    BY <1>1, <1>4, <2>1, <2>2, <2>3
<1>7. CASE SendPart(p)
  <2>1. PICK n \in 1 .. LENGTH - w[p] - 1 :
          /\ stream' = [stream EXCEPT ![c] = @ \o Written(p, n)]
          /\ NextTry(p, w[p] + n)
    BY <1>7 DEF SendPart
  <2>2. n \in Nat /\ n # 0 /\ w[p] + n < LENGTH /\ w[p] + n <= LENGTH
    BY <1>2
  <2>3. Outcome(p, n)
    BY <1>1, <2>1, <2>2, NextTryOutcome
  <2>4. stream' = [stream EXCEPT ![c] = Stream(p, n)]
    BY <2>1, <2>2 DEF Stream
  <2> QED
    BY <1>1, <2>2, <2>3, <2>4
<1>8. CASE SendAll(p)
  <2> DEFINE n == LENGTH - w[p]
  <2>1. n \in Nat /\ n # 0 /\ w[p] + n = LENGTH /\ w[p] + n <= LENGTH
    BY <1>2
  <2>2. /\ stream' = [stream EXCEPT ![c] = @ \o Written(p, n)]
        /\ UNCHANGED <<pl2rl_fd, clientEnd, torn>>
        /\ StartSend(p, "LOG") \/ EndSend(p)
    BY <1>8 DEF SendAll
  <2> HIDE DEF n
  <2>3. stream' = [stream EXCEPT ![c] = Stream(p, n)]
    BY <2>1, <2>2 DEF Stream
  <2>4. Outcome(p, n)
    BY <2>1, <2>2 DEF Outcome, StartSend, EndSend
  <2> QED
    BY <1>1, <2>1, <2>3, <2>4
<1> QED
  BY <1>5, <1>6, <1>7, <1>8 DEF pl2rl_send

LEMMA SendStep ==
  ASSUME LogInv, NEW p \in Procs, pl2rl_send(p)
  PROVE  LogInv'
<1>1. pc[p] # "idle" /\ serverEnd' = serverEnd /\ reading' = reading
      /\ refused' = refused /\ handled' = handled
  BY SendOutcome DEF daemonVars
<1>2. PICK c \in Conns : c = pl2rl_fd[p]
  BY <1>1, SenderFacts
<1>3. PICK n \in Nat : /\ w[p] + n <= LENGTH
                      /\ stream' = [stream EXCEPT ![c] = Stream(p, n)]
                      /\ Outcome(p, n)
  BY <1>2, SendOutcome
<1>4. c = pl2rl_fd[p] /\ w[p] \in Nat /\ w[p] < LENGTH /\ LENGTH \in Nat /\ pc[p] \in MsgTypes
      /\ c # NoConn
  BY <1>2, <1>1, SenderFacts, Pl2rlAssumption
<1>5. LogTypes /\ Owners
  BY DEF LogInv
<1> DEFINE s == Stream(p, n)
<1>6. s \in UnitSeq
  <2>1. CASE n = 0
    BY <1>4, <1>5, <2>1 DEF LogTypes, Stream
  <2>2. CASE n # 0
    <3>1. \A i \in 1 .. n : [type |-> pc[p], part |-> w[p] + i] \in Unit
      BY <1>3, <1>4 DEF Unit
    <3>2. Written(p, n) \in Seq(Unit)
      BY <3>1, IsASeq DEF Written
    <3>3. stream[c] \in Seq(Unit)
      BY <1>4, <1>5 DEF LogTypes, UnitSeq
    <3> QED
      BY <1>4, <2>2, <3>2, <3>3, ConcatProperties DEF Stream, UnitSeq
  <2> QED
    BY <2>1, <2>2
<1> HIDE DEF s
<1>7. /\ stream' \in [Conns -> UnitSeq] /\ stream'[c] = s
      /\ \A d \in Conns : d # c => stream'[d] = stream[d]
  BY <1>3, <1>4, <1>5, <1>6 DEF LogTypes, s
<1>8. /\ pl2rl_fd' \in [Procs -> Conns \cup {NoConn}] /\ pl2rl_fd'[p] \in {c, NoConn}
      /\ \A q \in Procs : q # p => pl2rl_fd'[q] = pl2rl_fd[q]
  BY <1>3, <1>4, <1>5 DEF Outcome, Disconnected, LogTypes
<1>9. /\ pc' \in [Procs -> {"idle"} \cup MsgTypes] /\ w' \in [Procs -> Nat]
      /\ \A q \in Procs : q # p => pc'[q] = pc[q] /\ w'[q] = w[q]
  <2>1. "LOG" \in MsgTypes
    BY DEF MsgTypes
  <2> QED
    BY <1>3, <1>4, <1>5, <2>1 DEF Outcome, LogTypes
<1>10. /\ torn' \in [Conns -> BOOLEAN] /\ \A d \in Conns : d # c => torn'[d] = torn[d]
  BY <1>3, <1>4, <1>5 DEF Outcome, LogTypes
<1>11. /\ clientEnd' \in [Conns -> BOOLEAN]
       /\ clientEnd' = IF pl2rl_fd'[p] = NoConn THEN [clientEnd EXCEPT ![c] = FALSE] ELSE clientEnd
  BY <1>3, <1>4, <1>5 DEF Outcome, Disconnected, LogTypes
<1>12. LogTypes'
  BY <1>1, <1>5, <1>7, <1>8, <1>9, <1>10, <1>11 DEF LogTypes
<1>13. \A q \in Procs : pl2rl_fd[q] = c => q = p
  BY <1>4, <1>5 DEF Owners
<1>14. pc'[p] # "idle" => pl2rl_fd'[p] # NoConn /\ w'[p] < LENGTH
  BY <1>3, <1>4, <1>5 DEF Outcome, LogTypes, Disconnected
<1>15. Owners'
  <2>1. \A q, r \in Procs : pl2rl_fd'[q] = pl2rl_fd'[r] /\ pl2rl_fd'[q] # NoConn => q = r
    BY <1>5, <1>8, <1>13 DEF Owners
  <2>2. ASSUME NEW q \in Procs, pl2rl_fd'[q] # NoConn
        PROVE  clientEnd'[pl2rl_fd'[q]]
    <3>1. pl2rl_fd'[q] = pl2rl_fd[q] /\ clientEnd[pl2rl_fd[q]] /\ pl2rl_fd[q] \in Conns
      BY <1>4, <1>5, <1>8, <2>2 DEF Owners, LogTypes
    <3>2. pl2rl_fd'[p] = NoConn => pl2rl_fd[q] # c
      BY <1>13, <2>2
    <3> QED
      BY <1>4, <1>5, <1>11, <3>1, <3>2 DEF LogTypes
  <2>3. \A q \in Procs : pc'[q] # "idle" => pl2rl_fd'[q] # NoConn /\ w'[q] < LENGTH
    BY <1>5, <1>8, <1>9, <1>14 DEF Owners
  <2> QED
    BY <1>1, <1>5, <2>1, <2>2, <2>3 DEF Owners
<1>16. ASSUME NEW d \in Conns, d # c
       PROVE  ConnOK(d)'
  <2>1. \A q \in Procs : pl2rl_fd'[q] = d => pl2rl_fd[q] = d /\ pc'[q] = pc[q] /\ w'[q] = w[q]
    BY <1>4, <1>8, <1>9, <1>16, Pl2rlAssumption
  <2>2. stream'[d] = stream[d] /\ torn'[d] = torn[d] /\ serverEnd'[d] = serverEnd[d]
    BY <1>1, <1>7, <1>10, <1>16
  <2> QED
    BY <1>1, <2>1, <2>2, ConnAside
<1>17. ConnOK(c)'
  <2> SUFFICES ASSUME ~torn'[c], serverEnd'[c] # "closed"
               PROVE  ConnOK(c)'
    BY DEF ConnOK
  <2>1. ~torn[c] /\ torn' = torn
    BY <1>3, <1>4, <1>5 DEF Outcome, LogTypes
  <2>2. serverEnd[c] # "closed" /\ ConnOK(c)
    BY <1>1, <1>4 DEF LogInv
  <2>3. WellWritten(s, c, p, n)
    <3>1. s = IF n = 0 THEN stream[c] ELSE stream[c] \o Written(p, n)
      BY <1>4 DEF s, Stream
    <3> QED
      <4>1. pl2rl_fd[p] = c /\ pc[p] # "idle" /\ ~torn[c] /\ serverEnd[c] # "closed"
            /\ n \in Nat /\ w[p] + n <= LENGTH
        BY <1>1, <1>3, <1>4, <2>1, <2>2
      <4> QED
        BY <3>1, <4>1, WrittenOK
  <2> USE <2>3 DEF WellWritten
  <2>4. Runs(stream'[c]) /\ Joined(stream'[c])
    BY <1>7, <2>3
  <2>5. reading'.conn = c => HeaderOK'
    BY <1>1, <2>1, <2>2 DEF ConnOK, HeaderOK, ReadType
  <2>6. StartOK(c)'
    BY <1>1, <1>7, <2>3 DEF StartOK, ReadType
  <2>7. ASSUME NEW q \in Procs, pl2rl_fd'[q] = c
        PROVE  EndOK(c, q)' /\ EmptyOK(c, q)'
    <3>1. q = p /\ pl2rl_fd'[p] = c
      BY <1>4, <1>8, <1>13, <2>7
    <3>2. EndOK(c, p) /\ EmptyOK(c, p)
      BY <1>4, <2>1, <2>2 DEF ConnOK
    <3>3. Sending(p) <=> w[p] > 0
      BY <1>1 DEF Sending
    <3>4. CASE pc' = pc /\ w' = [w EXCEPT ![p] = w[p] + n]
      <4>1. pc'[p] = pc[p] /\ w'[p] = w[p] + n /\ (Sending(p)' <=> w[p] + n > 0)
        BY <1>1, <1>5, <3>4 DEF Sending, LogTypes
      <4>2. EndOK(c, p)'
        BY <1>1, <1>4, <1>7, <2>3, <3>2, <3>3, <4>1 DEF EndOK
      <4>3. EmptyOK(c, p)'
        BY <1>1, <1>4, <1>7, <2>3, <3>2, <3>3, <4>1 DEF EmptyOK, ReadType
      <4> QED
        BY <3>1, <4>2, <4>3
    <3>5. CASE ~Sending(p)' /\ (w[p] + n = LENGTH \/ w[p] + n = 0)
      <4>1. s # <<>> => s[Len(s)].part = LENGTH
        BY <1>4, <2>3, <3>5
      <4>2. s = <<>> => ~Sending(p)
        BY <1>4, <2>3, <3>3, <3>5
      <4>3. EndOK(c, p)'
        BY <1>1, <1>7, <2>3, <3>2, <3>5, <4>1, <4>2 DEF EndOK
      <4> QED
        BY <3>1, <3>5, <4>3 DEF EmptyOK
    <3>6. \/ pc' = pc /\ w' = [w EXCEPT ![p] = w[p] + n]
          \/ pc'[p] = "idle" /\ (w[p] + n = LENGTH \/ w[p] + n = 0)
          \/ w'[p] = 0 /\ w[p] + n = LENGTH
      <4>1. torn' # [torn EXCEPT ![c] = TRUE]
        BY <1>4, <1>5, <2>1 DEF LogTypes
      <4> QED
        BY <1>3, <1>4, <1>5, <3>1, <4>1 DEF Outcome, Disconnected, LogTypes
    <3> QED
      BY <3>4, <3>5, <3>6 DEF Sending
  <2>8. FirstOK(c)'
    <3> SUFFICES ASSUME serverEnd[c] \in {"waiting", "open"}, reading.conn # c, s = <<>>,
                        pl2rl_fd'[p] = c
                 PROVE  pc'[p] = "REGISTER"
      BY <1>1, <1>7, <1>8, <1>13, <1>4, <2>1, <2>2, <2>3 DEF FirstOK, ConnOK, ReadType
    <3>1. pc[p] = "REGISTER" /\ n = 0
      BY <1>4, <2>1, <2>2, <2>3 DEF FirstOK, ConnOK
    <3>2. EndOK(c, p) /\ ~(w[p] > 0)
      BY <1>1, <1>4, <2>1, <2>2, <2>3 DEF ConnOK, EndOK, Sending
    <3>3. torn' # [torn EXCEPT ![c] = TRUE] /\ w[p] + n # LENGTH
      BY <1>4, <1>5, <2>1, <3>1, <3>2 DEF LogTypes
    <3> QED
      BY <1>3, <1>4, <1>5, <3>1, <3>3 DEF Outcome, Disconnected, LogTypes
  <2> QED
    BY <2>4, <2>5, <2>6, <2>7, <2>8 DEF ConnOK
<1>18. MessagesIntact'
  BY <1>1 DEF LogInv, MessagesIntact
<1> QED
  BY <1>12, <1>15, <1>16, <1>17, <1>18 DEF LogInv

LEMMA ConnectStep ==
  ASSUME LogInv, NEW p \in Procs, pc[p] = "idle", pl2rl_connect(p),
         UNCHANGED daemonVars
  PROVE  LogInv'
<1>1. LogTypes /\ Owners /\ pl2rl_fd[p] = NoConn /\ NoConn \notin Conns
  BY Pl2rlAssumption DEF LogInv, pl2rl_connect
<1>2. CASE UNCHANGED <<pl2rl_fd, pc, w, tries, connVars>>
  <2>1. \A c \in Conns : ConnOK(c)'
    BY <1>2, ConnAside DEF connVars, daemonVars
  <2> QED
    BY <1>2, <2>1 DEF LogInv, LogTypes, Owners, MessagesIntact, connVars, daemonVars
<1>3. ASSUME NEW c \in Conns, ~clientEnd[c], serverEnd[c] = "closed",
             clientEnd' = [clientEnd EXCEPT ![c] = TRUE],
             serverEnd' = [serverEnd EXCEPT ![c] = "waiting"],
             stream' = [stream EXCEPT ![c] = <<>>],
             torn' = [torn EXCEPT ![c] = FALSE],
             pl2rl_fd' = [pl2rl_fd EXCEPT ![p] = c],
             StartSend(p, "REGISTER")
      PROVE  LogInv'
  <2>1. pc' = [pc EXCEPT ![p] = "REGISTER"] /\ w' = [w EXCEPT ![p] = 0]
    BY <1>3 DEF StartSend
  <2>2. <<>> \in UnitSeq /\ "REGISTER" \in MsgTypes
    BY EmptySeq DEF UnitSeq, MsgTypes
  <2>3. /\ pl2rl_fd' \in [Procs -> Conns \cup {NoConn}] /\ pc' \in [Procs -> {"idle"} \cup MsgTypes]
        /\ w' \in [Procs -> Nat]
        /\ pl2rl_fd'[p] = c /\ pc'[p] = "REGISTER" /\ w'[p] = 0
        /\ \A q \in Procs : q # p => pl2rl_fd'[q] = pl2rl_fd[q] /\ pc'[q] = pc[q] /\ w'[q] = w[q]
    BY <1>1, <1>3, <2>1, <2>2 DEF LogTypes
  <2>4. /\ clientEnd' \in [Conns -> BOOLEAN] /\ torn' \in [Conns -> BOOLEAN]
        /\ serverEnd' \in [Conns -> {"closed", "waiting", "open", "registered"}]
        /\ stream' \in [Conns -> UnitSeq]
        /\ clientEnd'[c] = TRUE /\ torn'[c] = FALSE /\ serverEnd'[c] = "waiting" /\ stream'[c] = <<>>
        /\ \A d \in Conns : d # c => /\ clientEnd'[d] = clientEnd[d] /\ torn'[d] = torn[d]
                                    /\ serverEnd'[d] = serverEnd[d] /\ stream'[d] = stream[d]
    BY <1>1, <1>3, <2>2 DEF LogTypes
  <2>5. reading' = reading /\ reading.conn # c /\ refused' = refused /\ handled' = handled
    BY <1>1, <1>3 DEF daemonVars, Owners
  <2>6. \A q \in Procs : pl2rl_fd[q] # c
    BY <1>1, <1>3 DEF Owners
  <2>7. LogTypes'
    BY <1>1, <2>3, <2>4, <2>5 DEF LogTypes
  <2>8. Owners'
    <3>1. \A q, r \in Procs : pl2rl_fd'[q] = pl2rl_fd'[r] /\ pl2rl_fd'[q] # NoConn => q = r
      BY <1>1, <2>3, <2>6 DEF Owners
    <3>2. ASSUME NEW q \in Procs, pl2rl_fd'[q] # NoConn
          PROVE  clientEnd'[pl2rl_fd'[q]]
      <4>1. CASE q = p
        BY <2>3, <2>4, <4>1
      <4>2. CASE q # p
        <5>1. pl2rl_fd'[q] = pl2rl_fd[q] /\ pl2rl_fd[q] \in Conns /\ pl2rl_fd[q] # c
          BY <1>1, <2>3, <2>6, <3>2, <4>2 DEF LogTypes
        <5> QED
          BY <1>1, <2>4, <3>2, <5>1 DEF Owners
      <4> QED
        BY <4>1, <4>2
    <3>3. \A q \in Procs : pc'[q] # "idle" => pl2rl_fd'[q] # NoConn /\ w'[q] < LENGTH
      BY <1>1, <2>3, LengthType DEF Owners
    <3>4. reading'.conn # NoConn => serverEnd'[reading'.conn] \in {"open", "registered"}
      BY <1>1, <2>4, <2>5 DEF Owners, LogTypes
    <3> QED
      BY <3>1, <3>2, <3>3, <3>4 DEF Owners
  <2>9. ASSUME NEW d \in Conns, d # c
        PROVE  ConnOK(d)'
    <3>1. \A q \in Procs : pl2rl_fd'[q] = d => pl2rl_fd[q] = d /\ pc'[q] = pc[q] /\ w'[q] = w[q]
      BY <2>3, <2>9
    <3> QED
      BY <2>4, <2>5, <2>9, <3>1, ConnAside
  <2>10. ConnOK(c)'
    <3>1. DOMAIN stream'[c] = {}
      BY <2>2, <2>4, UnitFacts
    <3>2. Runs(stream'[c]) /\ Joined(stream'[c])
      BY <3>1 DEF Runs, Joined
    <3>3. ASSUME NEW q \in Procs, pl2rl_fd'[q] = c
          PROVE  q = p /\ ~Sending(q)'
      BY <2>3, <2>6, <3>3 DEF Sending
    <3>4. StartOK(c)' /\ FirstOK(c)'
      BY <2>3, <2>4, <2>5, <3>3 DEF StartOK, FirstOK
    <3>5. \A q \in Procs : pl2rl_fd'[q] = c => EndOK(c, q)' /\ EmptyOK(c, q)'
      BY <2>4, <2>5, <3>3 DEF EndOK, EmptyOK
    <3> QED
      BY <2>5, <3>2, <3>4, <3>5 DEF ConnOK
  <2> QED
    BY <2>5, <2>7, <2>8, <2>9, <2>10 DEF LogInv, MessagesIntact
<1> QED
  BY <1>2, <1>3 DEF pl2rl_connect

\* A log message on the connection there is.
LEMMA LogStep ==
  ASSUME LogInv, NEW p \in Procs, pc[p] = "idle", pl2rl_fd[p] # NoConn, StartSend(p, "LOG"),
         UNCHANGED <<pl2rl_fd, connVars, daemonVars>>
  PROVE  LogInv'
<1>1. LogTypes /\ Owners /\ UNCHANGED <<clientEnd, serverEnd, stream, torn, reading, refused, handled>>
  BY DEF LogInv, connVars, daemonVars
<1>2. pc' = [pc EXCEPT ![p] = "LOG"] /\ w' = [w EXCEPT ![p] = 0] /\ "LOG" \in MsgTypes
  BY DEF StartSend, MsgTypes
<1>3. /\ pc' \in [Procs -> {"idle"} \cup MsgTypes] /\ w' \in [Procs -> Nat]
      /\ pc'[p] = "LOG" /\ w'[p] = 0
      /\ \A q \in Procs : q # p => pc'[q] = pc[q] /\ w'[q] = w[q]
  BY <1>1, <1>2 DEF LogTypes
<1>4. LogTypes'
  BY <1>1, <1>3 DEF LogTypes
<1>5. Owners'
  BY <1>1, <1>3, LengthType DEF Owners
<1>6. ASSUME NEW c \in Conns
      PROVE  ConnOK(c)'
  <2>1. CASE pl2rl_fd[p] # c
    <3>1. \A q \in Procs : pl2rl_fd'[q] = c => pl2rl_fd[q] = c /\ pc'[q] = pc[q] /\ w'[q] = w[q]
      BY <1>3, <2>1
    <3> QED
      BY <1>1, <3>1, ConnAside
  <2>2. CASE pl2rl_fd[p] = c
    <3> SUFFICES ASSUME ~torn[c], serverEnd[c] # "closed"
                 PROVE  ConnOK(c)'
      BY <1>1 DEF ConnOK
    <3>1. ConnOK(c)
      BY DEF LogInv
    <3>2. /\ EndOK(c, p) /\ ~Sending(p) /\ ~Sending(p)' /\ StartOK(c) /\ FirstOK(c)
          /\ Runs(stream[c]) /\ Joined(stream[c])
      BY <1>3, <2>2, <3>1 DEF ConnOK, Sending
    <3>3. \A q \in Procs : pl2rl_fd[q] = c => q = p
      BY <1>1, <2>2 DEF Owners
    <3>4. EndOK(c, p)' /\ EmptyOK(c, p)'
      BY <1>1, <3>2 DEF EndOK, EmptyOK
    <3>5. StartOK(c)' /\ Runs(stream'[c]) /\ Joined(stream'[c]) /\ (reading'.conn = c => HeaderOK')
      BY <1>1, <3>1, <3>2 DEF ConnOK, StartOK, HeaderOK, ReadType
    <3>6. FirstOK(c)'
      BY <1>1, <2>2, <3>2 DEF FirstOK, ReadType
    <3> QED
      BY <1>1, <3>3, <3>4, <3>5, <3>6 DEF ConnOK
  <2> QED
    BY <2>1, <2>2
<1> QED
  BY <1>1, <1>4, <1>5, <1>6 DEF LogInv, MessagesIntact

LEMMA StopStep ==
  ASSUME LogInv, DaemonStops
  PROVE  LogInv'
<1>1. /\ reading' = NoRead /\ serverEnd' = [c \in Conns |-> "closed"]
      /\ UNCHANGED <<pl2rl_fd, pc, w, clientEnd, stream, torn, refused, handled>>
  BY DEF DaemonStops, clientVars
<1>2. \A c \in Conns : ConnOK(c)'
  BY <1>1 DEF ConnOK
<1> QED
  BY <1>1, <1>2 DEF LogInv, LogTypes, Owners, MessagesIntact, NoRead

LEMMA AcceptStep ==
  ASSUME LogInv, NEW c \in Conns, pl2rld_client_accept_cb(c)
  PROVE  LogInv'
<1>1. /\ serverEnd' = [serverEnd EXCEPT ![c] = "open"] \/ serverEnd' = [serverEnd EXCEPT ![c] = "closed"]
      /\ serverEnd[c] = "waiting"
      /\ UNCHANGED <<pl2rl_fd, pc, w, clientEnd, stream, torn, reading, refused, handled>>
  BY DEF pl2rld_client_accept_cb, clientVars, daemonVars
<1>2. serverEnd \in [Conns -> {"closed", "waiting", "open", "registered"}]
  BY DEF LogInv, LogTypes
<1>3. \A d \in Conns : ConnOK(d)'
  BY <1>1, <1>2, ConnAside
<1> QED
  BY <1>1, <1>2, <1>3 DEF LogInv, LogTypes, Owners, MessagesIntact

LEMMA TakeFacts ==
  ASSUME NEW c \in Conns, stream[c] \in UnitSeq, NEW n \in Nat
  PROVE  /\ Len(Take(c, n)) = Least(n, Len(stream[c]))
         /\ \A i \in 1 .. Least(n, Len(stream[c])) : Take(c, n)[i] = stream[c][i]
         /\ Take(c, n) \in Seq(Unit)
         /\ Least(n, Len(stream[c])) \in 0 .. Len(stream[c])
<1> DEFINE s == stream[c]
           l == Least(n, Len(s))
<1>1. Len(s) \in Nat /\ \A i \in 1 .. Len(s) : s[i] \in Unit
  BY UnitFacts
<1>2. l \in 0 .. Len(s)
  BY <1>1 DEF Least
<1> HIDE DEF s, l
<1>3. \A i \in 1 .. l : s[i] \in Unit
  BY <1>1, <1>2
<1>4. /\ SubSeq(s, 1, l) \in Seq(Unit)
      /\ Len(SubSeq(s, 1, l)) = IF 1 <= l THEN l - 1 + 1 ELSE 0
      /\ \A i \in 1 .. l - 1 + 1 : SubSeq(s, 1, l)[i] = s[1 + i - 1]
  BY <1>2, <1>3, SubSeqProperties
<1>5. l - 1 + 1 = l /\ \A i \in 1 .. l : 1 + i - 1 = i
  BY <1>2
<1>6. Len(SubSeq(s, 1, l)) = l /\ \A i \in 1 .. l : SubSeq(s, 1, l)[i] = s[i]
  BY <1>2, <1>4, <1>5
<1> QED
  BY <1>2, <1>4, <1>6 DEF Take, s, l

\* The stream after a read of n units at most.
LEMMA LeaveFacts ==
  ASSUME NEW c \in Conns, stream \in [Conns -> UnitSeq], NEW n \in Nat, Leave(c, n)
  PROVE  /\ stream' \in [Conns -> UnitSeq]
         /\ \A d \in Conns : d # c => stream'[d] = stream[d]
         /\ Len(stream'[c]) = Len(stream[c]) - Least(n, Len(stream[c]))
         /\ \A i \in 1 .. Len(stream'[c]) : stream'[c][i] = stream[c][Least(n, Len(stream[c])) + i]
         /\ Runs(stream[c]) => Runs(stream'[c])
         /\ Joined(stream[c]) => Joined(stream'[c])
<1> DEFINE s == stream[c]
           l == Least(n, Len(s))
           t == SubSeq(s, l + 1, Len(s))
<1>1. s \in UnitSeq /\ l \in 0 .. Len(s)
  BY TakeFacts
<1>2. stream' = [stream EXCEPT ![c] = t]
  BY DEF Leave
<1> HIDE DEF s, l
<1>3. /\ t \in UnitSeq /\ Len(t) = Len(s) - l
      /\ \A i \in 1 .. Len(t) : t[i] = s[l + i]
      /\ Runs(s) => Runs(t)
      /\ Joined(s) => Joined(t)
  BY <1>1, Dropped
<1> HIDE DEF t
<1>4. stream' \in [Conns -> UnitSeq] /\ stream'[c] = t /\ \A d \in Conns : d # c => stream'[d] = stream[d]
  BY <1>2, <1>3
<1> QED
  BY <1>3, <1>4 DEF s, l

\* The connections that are not read.
LEMMA ReadAside ==
  ASSUME LogInv, NEW c \in Conns, UNCHANGED <<clientVars, clientEnd, torn>>,
         \A d \in Conns : d # c => stream'[d] = stream[d] /\ serverEnd'[d] = serverEnd[d],
         reading.conn \in {c, NoConn}, reading'.conn \in {c, NoConn},
         NEW d \in Conns, d # c
  PROVE  ConnOK(d)'
<1>1. reading.conn # d /\ reading'.conn # d
  BY Pl2rlAssumption
<1> QED
  BY <1>1, ConnAside DEF clientVars

\* A header of a connection that is in step: its message, and what is left.
LEMMA HeaderRead ==
  ASSUME LogInv, NEW c \in Conns, ~torn[c], serverEnd[c] # "closed", reading.conn # c,
         Len(Take(c, HDR)) = HDR
  PROVE  /\ \A i \in 1 .. HDR : Take(c, HDR)[i] = [type |-> stream[c][1].type, part |-> i]
         /\ Take(c, HDR)[1].type = stream[c][1].type
         /\ InStep(Take(c, HDR), stream[c][1].type, 1)
         /\ stream[c][1].type \in MsgTypes
         /\ Len(stream[c]) >= HDR /\ stream[c] # <<>>
         /\ Runs(stream[c]) /\ Joined(stream[c])
         /\ Take(c, HDR) \in UnitSeq
<1> DEFINE s == stream[c]
<1>1. s \in UnitSeq /\ ConnOK(c) /\ HDR \in Nat \ {0} /\ HDR <= LENGTH /\ LENGTH \in Nat
  BY LengthType DEF LogInv, LogTypes
<1>2. /\ Len(s) \in Nat /\ DOMAIN s = 1 .. Len(s) /\ (s = <<>> <=> Len(s) = 0)
      /\ \A i \in 1 .. Len(s) : s[i].type \in MsgTypes
  BY <1>1, UnitFacts
<1>3. Least(HDR, Len(s)) = HDR /\ \A i \in 1 .. HDR : Take(c, HDR)[i] = s[i]
  BY <1>1, TakeFacts
<1>4. HDR <= Len(s) /\ s # <<>>
  BY <1>1, <1>2, <1>3 DEF Least
<1>5. s[1].part = 1 /\ Runs(s) /\ Joined(s)
  BY <1>1, <1>4 DEF ConnOK, StartOK
<1>6. ASSUME NEW i \in 1 .. HDR
      PROVE  Take(c, HDR)[i] = [type |-> s[1].type, part |-> i]
  <2>1. 1 \in DOMAIN s /\ i \in DOMAIN s /\ 1 <= i /\ 1 + (i - 1) <= LENGTH /\ 1 + (i - 1) = i
    BY <1>1, <1>2, <1>4
  <2>2. s[i] = [type |-> s[1].type, part |-> s[1].part + (i - 1)]
    BY <1>5, <2>1 DEF Runs
  <2> QED
    BY <1>3, <1>5, <2>1, <2>2
<1>7. Take(c, HDR)[1].type = s[1].type
  BY <1>1, <1>6
<1>8. DOMAIN Take(c, HDR) = 1 .. HDR /\ Take(c, HDR) \in UnitSeq
  BY <1>1, TakeFacts, LenProperties DEF UnitSeq
<1>9. InStep(Take(c, HDR), s[1].type, 1)
  <2> SUFFICES ASSUME NEW i \in 1 .. HDR
               PROVE  Take(c, HDR)[i] = [type |-> s[1].type, part |-> 1 + i - 1]
    BY <1>8 DEF InStep
  <2>1. 1 + i - 1 = i
    BY <1>1
  <2> QED
    BY <1>6, <2>1
<1>10. s[1].type \in MsgTypes
  BY <1>1, <1>2, <1>4
<1> QED
  BY <1>4, <1>5, <1>6, <1>7, <1>8, <1>9, <1>10

LEMMA HeaderStep ==
  ASSUME LogInv, NEW c \in Conns, RecvHeader(c)
  PROVE  LogInv'
<1> DEFINE hdr == Take(c, HDR)
<1>1. /\ reading = NoRead /\ serverEnd[c] \in {"open", "registered"} /\ Leave(c, HDR)
      /\ UNCHANGED <<clientVars, clientEnd, torn, refused, handled>>
  BY DEF RecvHeader
<1>2. LogTypes /\ Owners /\ reading.conn = NoConn /\ NoConn \notin Conns
      /\ HDR \in Nat \ {0} /\ BODY \in Nat \ {0} /\ LENGTH \in Nat /\ LENGTH = HDR + BODY
  BY <1>1, LengthType, Pl2rlAssumption DEF LogInv, NoRead
<1>3. /\ stream' \in [Conns -> UnitSeq]
      /\ \A d \in Conns : d # c => stream'[d] = stream[d]
      /\ Len(stream'[c]) = Len(stream[c]) - Least(HDR, Len(stream[c]))
      /\ \A i \in 1 .. Len(stream'[c]) : stream'[c][i] = stream[c][Least(HDR, Len(stream[c])) + i]
      /\ Runs(stream[c]) => Runs(stream'[c])
      /\ Joined(stream[c]) => Joined(stream'[c])
  BY <1>1, <1>2, LeaveFacts DEF LogTypes
<1>4. CASE pl2rld_client_remove(c)
  <2>1. serverEnd' = [serverEnd EXCEPT ![c] = "closed"] /\ reading' = NoRead
    BY <1>4 DEF pl2rld_client_remove
  <2>2. reading'.conn = NoConn /\ reading'.rlen \in Nat
    BY <2>1 DEF NoRead
  <2>3. \A d \in Conns : d # c => serverEnd'[d] = serverEnd[d]
    BY <1>2, <2>1 DEF LogTypes
  <2>4. \A d \in Conns : ConnOK(d)'
    <3>1. ConnOK(c)'
      BY <1>2, <2>1 DEF ConnOK, LogTypes
    <3> QED
      BY <1>1, <1>2, <1>3, <2>2, <2>3, <3>1, ReadAside
  <2>5. LogTypes'
    BY <1>1, <1>2, <1>3, <2>1, <2>2 DEF LogTypes, clientVars
  <2>6. Owners'
    BY <1>1, <1>2, <2>2 DEF Owners, clientVars
  <2> QED
    BY <1>1, <2>4, <2>5, <2>6 DEF LogInv, MessagesIntact
<1>5. ASSUME Len(hdr) = HDR, serverEnd' = serverEnd, NEW n \in Nat,
             reading' = [conn |-> c, header |-> hdr, rlen |-> n],
             torn[c] \/ n = BODY
      PROVE  LogInv'
  <2>1. reading'.conn = c /\ reading'.rlen = n /\ reading'.header = hdr
    BY <1>5
  <2>2. LogTypes'
    BY <1>1, <1>2, <1>3, <1>5, <2>1 DEF LogTypes, clientVars
  <2>3. Owners'
    BY <1>1, <1>2, <1>5, <2>1 DEF Owners, clientVars
  <2>4. ConnOK(c)'
    <3> SUFFICES ASSUME ~torn[c]
                 PROVE  ConnOK(c)'
      BY <1>1 DEF ConnOK
    <3>1. /\ hdr[1].type = stream[c][1].type /\ InStep(hdr, stream[c][1].type, 1)
          /\ stream[c][1].type \in MsgTypes
          /\ Len(stream[c]) >= HDR /\ stream[c] # <<>>
          /\ Runs(stream[c]) /\ Joined(stream[c]) /\ hdr \in UnitSeq
          /\ hdr[HDR] = [type |-> stream[c][1].type, part |-> HDR]
      BY <1>1, <1>2, <1>5, HeaderRead
    <3>2. ConnOK(c)
      BY DEF LogInv
    <3>3. stream[c] \in UnitSeq /\ stream'[c] \in UnitSeq
      BY <1>2, <1>3 DEF LogTypes
    <3>4. /\ Len(stream[c]) \in Nat /\ DOMAIN stream[c] = 1 .. Len(stream[c])
          /\ (stream'[c] = <<>> <=> Len(stream'[c]) = 0)
      BY <3>3, UnitFacts
    <3>5. Least(HDR, Len(stream[c])) = HDR
      BY <1>2, <3>1, <3>4 DEF Least
    <3>6. stream[c][HDR] = [type |-> stream[c][1].type, part |-> HDR]
      <4>1. HDR \in Nat /\ HDR \in 1 .. Least(HDR, Len(stream[c]))
        BY <3>5, LengthType
      <4>2. Take(c, HDR)[HDR] = stream[c][HDR]
        BY <3>3, <4>1, TakeFacts
      <4> QED
        BY <3>1, <4>2
    <3>7. HeaderOK' /\ ReadType' = stream[c][1].type
      BY <1>5, <2>1, <3>1 DEF HeaderOK, ReadType
    <3>8. StartOK(c)'
      <4> SUFFICES ASSUME stream'[c] # <<>>
                   PROVE  stream'[c][1] = [type |-> stream[c][1].type, part |-> HDR + 1]
        BY <2>1, <3>7 DEF StartOK
      <4>1. stream'[c][1] = stream[c][HDR + 1] /\ HDR + 1 <= Len(stream[c])
        BY <1>2, <1>3, <3>1, <3>4, <3>5
      <4>2. HDR \in DOMAIN stream[c] /\ HDR + 1 \in DOMAIN stream[c] /\ HDR <= HDR + 1
        BY <1>2, <3>4, <4>1
      <4>3. HDR + ((HDR + 1) - HDR) = HDR + 1 /\ HDR + 1 <= LENGTH
        BY <1>2
      <4>4. stream[c][HDR].part = HDR /\ stream[c][HDR].type = stream[c][1].type
        BY <3>6
      <4>5. stream[c][HDR + 1] = [type |-> stream[c][HDR].type,
                                  part |-> stream[c][HDR].part + ((HDR + 1) - HDR)]
        BY <3>1, <4>2, <4>3, <4>4 DEF Runs
      <4> QED
        BY <4>1, <4>3, <4>4, <4>5
    <3>9. ASSUME NEW p \in Procs, pl2rl_fd'[p] = c
          PROVE  EndOK(c, p)' /\ EmptyOK(c, p)'
      <4>1. pl2rl_fd[p] = c /\ pc' = pc /\ w' = w /\ (Sending(p)' <=> Sending(p))
        BY <1>1, <3>9 DEF clientVars, Sending
      <4>2. EndOK(c, p)
        BY <1>1, <3>2, <4>1 DEF ConnOK
      <4>3. CASE stream'[c] = <<>>
        <5>1. Len(stream[c]) = HDR
          BY <1>2, <1>3, <3>4, <3>5, <4>3
        <5>2. Sending(p) /\ pc[p] = stream[c][1].type /\ w[p] = HDR
          BY <1>2, <3>1, <3>6, <4>2, <5>1 DEF EndOK
        <5> QED
          BY <2>1, <3>7, <4>1, <4>3, <5>2 DEF EndOK, EmptyOK
      <4>4. CASE stream'[c] # <<>>
        <5>1. stream'[c][Len(stream'[c])] = stream[c][Len(stream[c])]
          BY <1>2, <1>3, <3>1, <3>4, <3>5, <4>4
        <5> QED
          BY <3>1, <4>1, <4>2, <4>4, <5>1 DEF EndOK, EmptyOK
      <4> QED
        BY <4>3, <4>4
    <3>10. FirstOK(c)'
      BY <1>1, <1>2, <1>5, <2>1, <3>1, <3>2, <3>7 DEF FirstOK, ConnOK
    <3> QED
      BY <1>3, <3>1, <3>7, <3>8, <3>9, <3>10 DEF ConnOK
  <2>5. \A d \in Conns : ConnOK(d)'
    BY <1>1, <1>2, <1>3, <1>5, <2>1, <2>4, ReadAside
  <2> QED
    BY <1>1, <2>2, <2>3, <2>5 DEF LogInv, MessagesIntact
<1>6. CASE Len(hdr) = HDR /\ ~InStep(hdr, hdr[1].type, 1) /\ ~pl2rld_client_remove(c)
  <2>1. torn[c]
    BY <1>1, <1>2, <1>6, HeaderRead
  <2>2. PICK n \in 0 .. LENGTH : reading' = [conn |-> c, header |-> hdr, rlen |-> n]
    BY <1>6 DEF RecvHeader
  <2>3. n \in Nat /\ serverEnd' = serverEnd
    BY <1>2, <1>6 DEF RecvHeader
  <2> QED
    BY <1>5, <1>6, <2>1, <2>2, <2>3
<1>7. CASE Len(hdr) = HDR /\ InStep(hdr, hdr[1].type, 1) /\ ~pl2rld_client_remove(c)
  <2>1. reading' = [conn |-> c, header |-> hdr, rlen |-> BODY] /\ serverEnd' = serverEnd
    BY <1>7 DEF RecvHeader
  <2> QED
    BY <1>2, <1>5, <1>7, <2>1
<1> QED
  BY <1>4, <1>6, <1>7 DEF RecvHeader

\* The rest of a message on a connection that is in step.
LEMMA RestRead ==
  ASSUME LogInv, NEW c \in Conns, ~torn[c], serverEnd[c] # "closed", reading.conn = c,
         Len(Take(c, reading.rlen)) = reading.rlen
  PROVE  /\ Whole(reading.header, Take(c, reading.rlen))
         /\ reading.rlen = BODY /\ Len(stream[c]) >= BODY /\ stream[c] # <<>>
         /\ stream[c][BODY] = [type |-> ReadType, part |-> LENGTH]
         /\ Runs(stream[c]) /\ Joined(stream[c])
<1> DEFINE s == stream[c]
           rest == Take(c, BODY)
           hdr == reading.header
<1>1. /\ s \in UnitSeq /\ ConnOK(c) /\ HDR \in Nat \ {0} /\ BODY \in Nat \ {0}
      /\ LENGTH \in Nat /\ LENGTH = HDR + BODY
  BY LengthType DEF LogInv, LogTypes
<1>2. /\ Len(s) \in Nat /\ DOMAIN s = 1 .. Len(s) /\ (s = <<>> <=> Len(s) = 0)
  BY <1>1, UnitFacts
<1>3. HeaderOK /\ StartOK(c) /\ Runs(s) /\ Joined(s)
  BY <1>1 DEF ConnOK
<1>4. reading.rlen = BODY /\ Len(rest) = BODY
  BY <1>3 DEF HeaderOK
<1>5. Least(BODY, Len(s)) = BODY /\ (\A i \in 1 .. BODY : rest[i] = s[i]) /\ rest \in Seq(Unit)
  <2>1. s \in UnitSeq /\ BODY \in Nat
    BY <1>1
  <2>2. /\ rest \in UnitSeq
        /\ Len(rest) = Least(BODY, Len(s))
        /\ \A i \in 1 .. Least(BODY, Len(s)) : rest[i] = s[i]
    BY <2>1, TakeFacts DEF UnitSeq
  <2> HIDE DEF rest, s
  <2> QED
    BY <1>4, <2>2 DEF UnitSeq
<1>6. BODY <= Len(s) /\ s # <<>>
  BY <1>1, <1>2, <1>5 DEF Least
<1>7. s[1] = [type |-> ReadType, part |-> HDR + 1]
  BY <1>3, <1>6 DEF StartOK
<1>8. ASSUME NEW i \in 1 .. BODY
      PROVE  s[i] = [type |-> ReadType, part |-> HDR + i]
  <2>1. 1 \in DOMAIN s /\ i \in DOMAIN s /\ 1 <= i
    BY <1>1, <1>2, <1>6
  <2>2. (HDR + 1) + (i - 1) <= LENGTH /\ (HDR + 1) + (i - 1) = HDR + i
    BY <1>1
  <2>3. s[1].part = HDR + 1 /\ s[1].type = ReadType
    BY <1>7
  <2>4. s[i] = [type |-> s[1].type, part |-> s[1].part + (i - 1)]
    BY <1>3, <2>1, <2>2, <2>3 DEF Runs
  <2> QED
    BY <2>2, <2>3, <2>4
<1>9. s[BODY] = [type |-> ReadType, part |-> LENGTH]
  BY <1>1, <1>8
<1>10. Whole(hdr, rest)
  <2>1. /\ hdr \in Seq(Unit) /\ Len(hdr) = HDR /\ InStep(hdr, ReadType, 1)
        /\ DOMAIN hdr = 1 .. HDR /\ ReadType = hdr[1].type
    BY <1>3, LenProperties DEF HeaderOK, UnitSeq, ReadType
  <2> HIDE DEF hdr, rest, s
  <2>2. \A i \in 1 .. HDR : hdr[i] = [type |-> ReadType, part |-> 1 + i - 1]
    BY <2>1 DEF InStep
  <2>3. /\ hdr \o rest \in Seq(Unit) /\ Len(hdr \o rest) = HDR + BODY
        /\ \A i \in 1 .. HDR + BODY : (hdr \o rest)[i] = IF i <= HDR THEN hdr[i] ELSE rest[i - HDR]
    <3>1. HDR \in Nat /\ BODY \in Nat /\ Len(hdr) = HDR /\ Len(rest) = BODY
      BY <1>1, <1>4, <2>1
    <3>2. hdr \in Seq(Unit) /\ rest \in Seq(Unit)
      BY <1>5, <2>1
    <3>3. /\ hdr \o rest \in Seq(Unit) /\ Len(hdr \o rest) = Len(hdr) + Len(rest)
          /\ \A i \in 1 .. Len(hdr) + Len(rest) :
               (hdr \o rest)[i] = IF i <= Len(hdr) THEN hdr[i] ELSE rest[i - Len(hdr)]
      BY ONLY <3>2, ConcatProperties, Zenon
    <3> QED
      BY <3>1, <3>3
  <2>4. DOMAIN (hdr \o rest) = 1 .. LENGTH
    BY <1>1, <2>3, LenProperties
  <2>5. ASSUME NEW i \in 1 .. LENGTH
        PROVE  (hdr \o rest)[i] = [type |-> ReadType, part |-> 1 + i - 1]
    <3>1. CASE i <= HDR
      BY <1>1, <2>2, <2>3, <3>1
    <3>2. CASE i > HDR
      <4>1. i - HDR \in 1 .. BODY /\ HDR + (i - HDR) = 1 + i - 1 /\ ~(i <= HDR)
        BY <1>1, <3>2
      <4>2. rest[i - HDR] = [type |-> ReadType, part |-> HDR + (i - HDR)]
        BY <1>5, <1>8, <4>1
      <4> QED
        BY <1>1, <2>3, <4>1, <4>2
    <3>3. i <= HDR \/ i > HDR
      BY <1>1
    <3> QED
      BY <3>1, <3>2, <3>3
  <2> QED
    BY <1>1, <2>1, <2>3, <2>4, <2>5 DEF Whole, InStep
<1> QED
  BY <1>3, <1>4, <1>6, <1>9, <1>10

LEMMA RestStep ==
  ASSUME LogInv, NEW c \in Conns, RecvRest(c)
  PROVE  LogInv'
<1> DEFINE rest == Take(c, reading.rlen)
           whole == Whole(reading.header, rest)
<1>1. /\ reading.conn = c /\ Leave(c, reading.rlen)
      /\ UNCHANGED <<clientVars, clientEnd, torn>>
  BY DEF RecvRest
<1>2. /\ LogTypes /\ Owners /\ NoConn \notin Conns /\ serverEnd[c] \in {"open", "registered"}
      /\ MessagesIntact /\ ConnOK(c)
      /\ HDR \in Nat \ {0} /\ BODY \in Nat \ {0} /\ LENGTH \in Nat /\ LENGTH = HDR + BODY
  BY <1>1, LengthType, Pl2rlAssumption DEF LogInv, Owners
<1>3. /\ stream' \in [Conns -> UnitSeq]
      /\ \A d \in Conns : d # c => stream'[d] = stream[d]
      /\ Len(stream'[c]) = Len(stream[c]) - Least(reading.rlen, Len(stream[c]))
      /\ \A i \in 1 .. Len(stream'[c]) :
           stream'[c][i] = stream[c][Least(reading.rlen, Len(stream[c])) + i]
      /\ Runs(stream[c]) => Runs(stream'[c])
      /\ Joined(stream[c]) => Joined(stream'[c])
  BY <1>1, <1>2, LeaveFacts DEF LogTypes
<1>4. ~torn[c] /\ Len(rest) = reading.rlen =>
        /\ whole
        /\ reading.rlen = BODY /\ Len(stream[c]) >= BODY /\ stream[c] # <<>>
        /\ stream[c][BODY] = [type |-> ReadType, part |-> LENGTH]
        /\ Runs(stream[c]) /\ Joined(stream[c])
  BY <1>1, <1>2, RestRead
<1> HIDE DEF whole, rest
\* Whatever is done with it, the next read starts with a message.
<1>5. ASSUME reading' = NoRead, serverEnd' \in [Conns -> {"closed", "open", "waiting", "registered"}],
             \A d \in Conns : d # c => serverEnd'[d] = serverEnd[d],
             serverEnd'[c] \in {"closed", "registered"},
             serverEnd'[c] = "registered" => Len(rest) = reading.rlen,
             MessagesIntact'
      PROVE  LogInv'
  <2>1. reading'.conn = NoConn /\ reading'.rlen \in Nat
    BY <1>5 DEF NoRead
  <2>2. LogTypes'
    BY <1>1, <1>2, <1>3, <1>5, <2>1 DEF LogTypes, clientVars
  <2>3. Owners'
    BY <1>1, <1>2, <2>1 DEF Owners, clientVars
  <2>4. ConnOK(c)'
    <3> SUFFICES ASSUME ~torn[c], serverEnd'[c] = "registered"
                 PROVE  ConnOK(c)'
      BY <1>1, <1>5 DEF ConnOK
    <3>1. /\ reading.rlen = BODY /\ Len(stream[c]) >= BODY /\ stream[c] # <<>>
          /\ stream[c][BODY] = [type |-> ReadType, part |-> LENGTH]
          /\ Runs(stream[c]) /\ Joined(stream[c])
      BY <1>4, <1>5
    <3>2. stream[c] \in UnitSeq /\ stream'[c] \in UnitSeq
      BY <1>2, <1>3 DEF LogTypes
    <3>3. /\ Len(stream[c]) \in Nat /\ DOMAIN stream[c] = 1 .. Len(stream[c])
          /\ (stream'[c] = <<>> <=> Len(stream'[c]) = 0)
      BY <3>2, UnitFacts
    <3>4. Least(BODY, Len(stream[c])) = BODY
      BY <1>2, <3>1, <3>3 DEF Least
    <3>5. StartOK(c)'
      <4> SUFFICES ASSUME stream'[c] # <<>>
                   PROVE  stream'[c][1].part = 1
        BY <1>2, <2>1 DEF StartOK
      <4>1. stream'[c][1] = stream[c][BODY + 1] /\ BODY < Len(stream[c])
        BY <1>2, <1>3, <3>1, <3>3, <3>4
      <4>2. BODY \in DOMAIN stream[c] /\ stream[c][BODY].part = LENGTH
        BY <1>2, <3>1, <3>3, <4>1
      <4> QED
        BY <3>1, <4>1, <4>2 DEF Joined
    <3>6. ASSUME NEW p \in Procs, pl2rl_fd'[p] = c
          PROVE  EndOK(c, p)' /\ EmptyOK(c, p)'
      <4>1. pl2rl_fd[p] = c /\ pc' = pc /\ w' = w /\ (Sending(p)' <=> Sending(p))
        BY <1>1, <3>6 DEF clientVars, Sending
      <4>2. EndOK(c, p)
        BY <1>2, <4>1 DEF ConnOK
      <4>3. CASE stream'[c] = <<>>
        <5>1. Len(stream[c]) = BODY
          BY <1>2, <1>3, <3>1, <3>3, <3>4, <4>3
        <5>2. Sending(p) => LENGTH = w[p]
          BY <3>1, <4>2, <5>1 DEF EndOK
        <5>3. Sending(p) => w[p] < LENGTH
          BY <1>2 DEF Owners, Sending
        <5>4. ~Sending(p)
          BY <1>2, <5>2, <5>3
        <5> QED
          BY <1>2, <2>1, <4>1, <4>3, <5>4 DEF EndOK, EmptyOK
      <4>4. CASE stream'[c] # <<>>
        <5>1. stream'[c][Len(stream'[c])] = stream[c][Len(stream[c])]
          BY <1>2, <1>3, <3>1, <3>3, <3>4, <4>4
        <5> QED
          BY <3>1, <4>1, <4>2, <4>4, <5>1 DEF EndOK, EmptyOK
      <4> QED
        BY <4>3, <4>4
    <3> QED
      BY <1>2, <1>3, <2>1, <3>1, <3>5, <3>6 DEF ConnOK, FirstOK
  <2>5. \A d \in Conns : ConnOK(d)'
    BY <1>1, <1>2, <1>3, <1>5, <2>1, <2>4, ReadAside
  <2> QED
    BY <1>5, <2>2, <2>3, <2>5 DEF LogInv
<1>6. CASE Len(rest) # reading.rlen
  <2>1. pl2rld_client_remove(c) /\ UNCHANGED <<refused, handled>>
    BY <1>6 DEF RecvRest, rest
  <2> QED
    BY <1>2, <1>5, <2>1 DEF pl2rld_client_remove, MessagesIntact, LogTypes
<1>7. torn[c] \/ (ReadType \in MsgTypes /\ InStep(reading.header, ReadType, 1))
  BY <1>1, <1>2 DEF ConnOK, HeaderOK
<1>8. torn \in [Conns -> BOOLEAN]
  BY <1>2 DEF LogTypes
<1>9. CASE Len(rest) = reading.rlen /\ pl2rld_client_recv_log(c, whole)
           /\ (torn[c] \/ ReadType = "LOG")
  <2>1. CASE serverEnd[c] = "registered"
    <3>1. Handle(c, whole) /\ reading' = NoRead /\ serverEnd' = serverEnd
      BY <1>9, <2>1 DEF pl2rld_client_recv_log
    <3>2. MessagesIntact'
      BY <1>2, <1>4, <1>8, <1>9, <3>1 DEF Handle, MessagesIntact
    <3> QED
      BY <1>2, <1>5, <1>9, <2>1, <3>1, <3>2 DEF LogTypes
  <2>2. CASE serverEnd[c] # "registered"
    <3>1. torn[c]
      BY <1>1, <1>2, <1>9, <2>2 DEF ConnOK, FirstOK
    <3>2. pl2rld_client_remove(c) /\ refused' = ~torn[c] /\ handled' = handled
      BY <1>9, <2>2 DEF pl2rld_client_recv_log
    <3>3. MessagesIntact'
      BY <1>2, <3>1, <3>2 DEF MessagesIntact
    <3> QED
      BY <1>2, <1>5, <3>2, <3>3 DEF LogTypes, pl2rld_client_remove
  <2> QED
    BY <2>1, <2>2
<1>10. CASE Len(rest) = reading.rlen /\ pl2rld_client_recv_reg(c, whole)
  <2>1. Handle(c, whole) /\ reading' = NoRead
        /\ serverEnd' = [serverEnd EXCEPT ![c] = "registered"]
    BY <1>10 DEF pl2rld_client_recv_reg
  <2>2. MessagesIntact'
    BY <1>2, <1>4, <1>8, <1>10, <2>1 DEF Handle, MessagesIntact
  <2> QED
    BY <1>2, <1>5, <1>10, <2>1, <2>2 DEF LogTypes
<1>11. \/ Len(rest) # reading.rlen
       \/ Len(rest) = reading.rlen /\ pl2rld_client_recv_log(c, whole)
            /\ (torn[c] \/ ReadType = "LOG")
       \/ Len(rest) = reading.rlen /\ pl2rld_client_recv_reg(c, whole)
  BY <1>7 DEF RecvRest, rest, whole, ReadType
<1> QED
  BY <1>6, <1>9, <1>10, <1>11

LEMMA LogNext ==
  ASSUME LogInv, Pl2rlNext
  PROVE  LogInv'
<1>1. ASSUME NEW p \in Procs, Clock(p)
      PROVE  LogInv'
  <2>1. UNCHANGED <<pl2rl_fd, pc, w, clientEnd, serverEnd, stream, torn, reading, refused, handled>>
    BY <1>1 DEF Clock, connVars, daemonVars
  <2>2. \A c \in Conns : ConnOK(c)'
    BY <2>1, ConnAside
  <2> QED
    BY <2>1, <2>2 DEF LogInv, LogTypes, Owners, MessagesIntact
<1>2. ASSUME pl2rld_client_listener_init
      PROVE  LogInv'
  <2>1. UNCHANGED <<pl2rl_fd, pc, w, clientEnd, serverEnd, stream, torn, reading, refused, handled>>
    BY <1>2 DEF pl2rld_client_listener_init, clientVars, connVars
  <2>2. \A c \in Conns : ConnOK(c)'
    BY <2>1, ConnAside
  <2> QED
    BY <2>1, <2>2 DEF LogInv, LogTypes, Owners, MessagesIntact
<1>3. ASSUME NEW p \in Procs, pl2rl_init(p) \/ pl2rl_log(p)
      PROVE  LogInv'
  BY <1>3, ConnectStep, LogStep DEF pl2rl_init, pl2rl_log
<1> QED
  BY <1>1, <1>2, <1>3, SendStep, StopStep, AcceptStep, HeaderStep, RestStep DEF Pl2rlNext

-----------------------------------------------------------------------------
(* The types of log forwarding.                                            *)

\* What LogInv does not say of the types.
LogMore ==
    /\ pl2rl_last_attempt \in [Procs -> {"none", "now", "past"}]
    /\ text \in [Procs -> BOOLEAN]
    /\ tries \in [Procs -> 0 .. PL2RL_RETRIES]
    /\ \A p \in Procs : w[p] <= LENGTH /\ (pc[p] # "idle" => tries[p] # 0)
    /\ \A c \in Conns : Len(stream[c]) <= SOCKBUF
    /\ running \in BOOLEAN /\ refused \in BOOLEAN
    /\ reading.rlen <= LENGTH
    /\ handled \in [whole : BOOLEAN, torn : BOOLEAN]
    /\ trouble \in 0 .. MaxTrouble /\ stops \in 0 .. MaxStops

LEMMA TroubleBound ==
  ASSUME LogMore, Trouble \/ UNCHANGED trouble
  PROVE  trouble' \in 0 .. MaxTrouble
  BY Pl2rlAssumption DEF LogMore, Trouble

\* What the library's steps change, beside the connections.
SenderTypes ==
    /\ pl2rl_last_attempt' \in [Procs -> {"none", "now", "past"}]
    /\ tries' \in [Procs -> 0 .. PL2RL_RETRIES]
    /\ \A p \in Procs : w'[p] <= LENGTH /\ (pc'[p] # "idle" => tries'[p] # 0)

LEMMA StartSendTypes ==
  ASSUME LogInv, LogMore, NEW p \in Procs, NEW type \in MsgTypes, StartSend(p, type),
         pl2rl_last_attempt' \in [Procs -> {"none", "now", "past"}]
  PROVE  SenderTypes
<1>1. /\ pc \in [Procs -> {"idle"} \cup MsgTypes] /\ w \in [Procs -> Nat] /\ LENGTH \in Nat
      /\ PL2RL_RETRIES \in Nat \ {0}
  BY LengthType, Pl2rlAssumption DEF LogInv, LogTypes
<1>2. tries' \in [Procs -> 0 .. PL2RL_RETRIES]
  BY <1>1 DEF StartSend, LogMore
<1>3. ASSUME NEW q \in Procs
      PROVE  w'[q] <= LENGTH /\ (pc'[q] # "idle" => tries'[q] # 0)
  BY <1>1 DEF StartSend, LogMore
<1> QED
  BY <1>2, <1>3 DEF SenderTypes

LEMMA EndSendTypes ==
  ASSUME LogInv, LogMore, NEW p \in Procs, EndSend(p),
         pl2rl_last_attempt' \in [Procs -> {"none", "now", "past"}]
  PROVE  SenderTypes
<1>1. pc \in [Procs -> {"idle"} \cup MsgTypes]
  BY DEF LogInv, LogTypes
<1> QED
  BY <1>1 DEF EndSend, LogMore, SenderTypes

LEMMA NextTryTypes ==
  ASSUME LogInv, LogMore, NEW p \in Procs, pc[p] # "idle", NEW sent \in Nat, sent <= LENGTH,
         NextTry(p, sent)
  PROVE  SenderTypes
<1>1. CASE tries[p] = 1
  <2>1. EndSend(p) /\ pl2rl_last_attempt' \in [Procs -> {"none", "now", "past"}]
    BY <1>1 DEF NextTry, GiveUp, pl2rl_disconnect, LogMore
  <2> QED
    BY <2>1, EndSendTypes
<1>2. CASE tries[p] # 1
  <2>1. /\ tries' = [tries EXCEPT ![p] = tries[p] - 1] /\ w' = [w EXCEPT ![p] = sent]
        /\ UNCHANGED <<pl2rl_last_attempt, pc>>
    BY <1>2 DEF NextTry
  <2>2. tries[p] \in 0 .. PL2RL_RETRIES /\ tries[p] # 0 /\ PL2RL_RETRIES \in Nat
    BY Pl2rlAssumption DEF LogMore
  <2>3. tries[p] - 1 \in 0 .. PL2RL_RETRIES /\ tries[p] - 1 # 0
    BY <1>2, <2>2
  <2>4. w \in [Procs -> Nat]
    BY DEF LogInv, LogTypes
  <2> HIDE DEF NextTry
  <2> DEFINE t == tries[p] - 1
  <2>5. tries' = [tries EXCEPT ![p] = t] /\ t \in 0 .. PL2RL_RETRIES /\ t # 0
    BY <2>1, <2>3
  <2> HIDE DEF t
  <2> QED
    BY <2>1, <2>4, <2>5 DEF SenderTypes, LogMore
<1> QED
  BY <1>1, <1>2

LEMMA WrittenLength ==
  ASSUME LogInv, NEW p \in Procs, pc[p] # "idle", NEW n \in Nat, w[p] + n <= LENGTH
  PROVE  Len(stream[pl2rl_fd[p]] \o Written(p, n)) = Len(stream[pl2rl_fd[p]]) + n
<1> DEFINE u == Written(p, n)
           s == stream[pl2rl_fd[p]]
<1>1. /\ pl2rl_fd[p] \in Conns /\ w[p] \in Nat /\ pc[p] \in MsgTypes /\ LENGTH \in Nat
  BY SenderFacts
<1>2. s \in Seq(Unit)
  BY <1>1 DEF LogInv, LogTypes, UnitSeq
<1>3. u \in Seq(Unit) /\ Len(u) = n
  <2>1. ASSUME NEW i \in 1 .. n PROVE [type |-> pc[p], part |-> w[p] + i] \in Unit
    <3>1. w[p] + i \in 1 .. LENGTH
      BY <1>1
    <3> QED
      BY <1>1, <3>1 DEF Unit
  <2> QED
    BY <2>1, IsASeq DEF Written
<1> HIDE DEF u, s
<1>4. Len(s \o u) = Len(s) + Len(u)
  BY <1>2, <1>3, ConcatProperties
<1> QED
  BY <1>3, <1>4 DEF s, u

LEMMA SendTypes ==
  ASSUME LogInv, LogMore, NEW p \in Procs, pl2rl_send(p)
  PROVE  LogMore'
<1> DEFINE c == pl2rl_fd[p]
<1>1. /\ pc[p] # "idle" /\ c \in Conns /\ w[p] \in Nat /\ w[p] < LENGTH /\ LENGTH \in Nat
      /\ SOCKBUF \in Nat /\ stream \in [Conns -> UnitSeq]
  BY SenderFacts, Pl2rlAssumption DEF pl2rl_send, LogInv, LogTypes
<1>2. /\ UNCHANGED <<daemonVars, stops, text>>
      /\ Trouble \/ UNCHANGED trouble
  BY DEF pl2rl_send, SendError, SendAgain, SendPart, SendAll
<1>3. Len(stream[c]) \in Nat /\ Room(p) = SOCKBUF - Len(stream[c])
  BY <1>1, UnitFacts DEF Room
<1>4. ASSUME NEW n \in Nat, n <= Room(p), w[p] + n <= LENGTH,
             stream' = [stream EXCEPT ![c] = @ \o Written(p, n)]
      PROVE  \A d \in Conns : Len(stream'[d]) <= SOCKBUF
  <2>1. Len(stream[c] \o Written(p, n)) <= SOCKBUF
    BY <1>1, <1>3, <1>4, WrittenLength
  <2> QED
    BY <1>1, <1>4, <2>1 DEF LogMore
<1>5. SenderTypes /\ \A d \in Conns : Len(stream'[d]) <= SOCKBUF
  <2>1. CASE SendError(p)
    <3>1. EndSend(p) /\ stream' = stream /\ pl2rl_last_attempt' \in [Procs -> {"none", "now", "past"}]
      BY <2>1 DEF SendError, pl2rl_disconnect, LogMore
    <3> QED
      BY <3>1, EndSendTypes DEF LogMore
  <2>2. CASE SendAgain(p)
    <3>1. NextTry(p, w[p]) /\ stream' = stream
      BY <2>2 DEF SendAgain
    <3> QED
      BY <1>1, <3>1, NextTryTypes DEF LogMore
  <2>3. CASE SendPart(p)
    <3>1. PICK n \in 1 .. LENGTH - w[p] - 1 :
            /\ n <= Room(p)
            /\ stream' = [stream EXCEPT ![c] = @ \o Written(p, n)]
            /\ NextTry(p, w[p] + n)
      BY <2>3 DEF SendPart
    <3>2. n \in Nat /\ w[p] + n \in Nat /\ w[p] + n <= LENGTH
      BY <1>1
    <3> QED
      BY <1>1, <1>4, <3>1, <3>2, NextTryTypes
  <2>4. CASE SendAll(p)
    <3> DEFINE n == LENGTH - w[p]
    <3>1. n \in Nat /\ w[p] + n <= LENGTH
      BY <1>1
    <3>2. /\ n <= Room(p) /\ stream' = [stream EXCEPT ![c] = @ \o Written(p, n)]
          /\ StartSend(p, "LOG") \/ EndSend(p)
          /\ pl2rl_last_attempt' \in [Procs -> {"none", "now", "past"}]
      BY <2>4 DEF SendAll, LogMore
    <3> HIDE DEF n
    <3>3. SenderTypes
      BY <3>2, StartSendTypes, EndSendTypes DEF MsgTypes
    <3> QED
      BY <1>4, <3>1, <3>2, <3>3
  <2> QED
    BY <2>1, <2>2, <2>3, <2>4 DEF pl2rl_send
<1>6. trouble' \in 0 .. MaxTrouble
  BY <1>2, TroubleBound
<1> QED
  BY <1>2, <1>5, <1>6 DEF LogMore, SenderTypes, daemonVars

LEMMA LogTypesConnect ==
  ASSUME LogInv, LogMore, NEW p \in Procs, pl2rl_init(p) \/ pl2rl_log(p)
  PROVE  LogMore'
<1>1. UNCHANGED <<daemonVars, stops>> /\ text' \in [Procs -> BOOLEAN]
  BY DEF pl2rl_init, pl2rl_log, LogMore
<1>2. CASE pl2rl_connect(p)
  <2>1. trouble' \in 0 .. MaxTrouble
    BY <1>2, TroubleBound DEF pl2rl_connect
  <2>2. pl2rl_last_attempt' \in [Procs -> {"none", "now", "past"}]
    BY <1>2 DEF pl2rl_connect, LogMore
  <2>3. SenderTypes
    <3>1. CASE StartSend(p, "REGISTER")
      BY <2>2, <3>1, StartSendTypes DEF MsgTypes
    <3>2. CASE UNCHANGED <<pc, w, tries>>
      BY <2>2, <3>2 DEF SenderTypes, LogMore
    <3> QED
      BY <1>2, <3>1, <3>2 DEF pl2rl_connect
  <2>4. \A c \in Conns : Len(stream'[c]) <= SOCKBUF
    <3>1. CASE stream' = stream
      BY <3>1 DEF LogMore
    <3>2. ASSUME NEW c \in Conns, stream' = [stream EXCEPT ![c] = <<>>]
          PROVE  \A d \in Conns : Len(stream'[d]) <= SOCKBUF
      <4>1. stream \in [Conns -> UnitSeq] /\ Len(<<>>) <= SOCKBUF
        BY Pl2rlAssumption DEF LogInv, LogTypes
      <4> QED
        BY <3>2, <4>1 DEF LogMore
    <3> QED
      BY <1>2, <3>1, <3>2 DEF pl2rl_connect, connVars
  <2> QED
    BY <1>1, <2>1, <2>2, <2>3, <2>4 DEF LogMore, SenderTypes, daemonVars
<1>3. CASE StartSend(p, "LOG") /\ UNCHANGED <<pl2rl_last_attempt, connVars, trouble>>
  <2>1. SenderTypes
    BY <1>3, StartSendTypes DEF MsgTypes, LogMore
  <2> QED
    BY <1>1, <1>3, <2>1 DEF LogMore, SenderTypes, daemonVars, connVars
<1> QED
  BY <1>2, <1>3 DEF pl2rl_init, pl2rl_log

\* A read leaves at most what there was.
LEMMA ReadTypes ==
  ASSUME LogInv, LogMore, NEW c \in Conns, RecvHeader(c) \/ RecvRest(c)
  PROVE  LogMore'
<1>1. /\ stream \in [Conns -> UnitSeq] /\ HDR \in Nat /\ BODY \in Nat /\ LENGTH \in Nat
      /\ LENGTH = HDR + BODY /\ SOCKBUF \in Nat /\ reading.rlen \in Nat
      /\ torn \in [Conns -> BOOLEAN]
  BY LengthType, Pl2rlAssumption DEF LogInv, LogTypes
<1>2. /\ UNCHANGED <<clientVars, clientEnd, torn, running, trouble, stops>>
      /\ \E n \in Nat : Leave(c, n)
  BY <1>1 DEF RecvHeader, RecvRest
<1>3. \A d \in Conns : Len(stream'[d]) <= SOCKBUF
  <2>1. PICK n \in Nat : Leave(c, n)
    BY <1>2
  <2>2. /\ Len(stream'[c]) = Len(stream[c]) - Least(n, Len(stream[c]))
        /\ \A d \in Conns : d # c => stream'[d] = stream[d]
    BY <1>1, <2>1, LeaveFacts
  <2>3. Least(n, Len(stream[c])) \in 0 .. Len(stream[c]) /\ Len(stream[c]) \in Nat
    BY <1>1, TakeFacts, UnitFacts
  <2>4. Len(stream'[c]) <= SOCKBUF
    BY <1>1, <2>2, <2>3 DEF LogMore
  <2> QED
    BY <2>2, <2>4 DEF LogMore
<1>4. reading'.rlen <= LENGTH
  <2>1. \/ reading' = NoRead
        \/ \E hdr : \E n \in 0 .. LENGTH : reading' = [conn |-> c, header |-> hdr, rlen |-> n]
    <3>1. CASE RecvHeader(c)
      <4>1. BODY \in 0 .. LENGTH
        BY <1>1
      <4> QED
        BY <3>1, <4>1 DEF RecvHeader, pl2rld_client_remove
    <3>2. CASE RecvRest(c)
      BY <3>2 DEF RecvRest, pl2rld_client_remove, pl2rld_client_recv_log, pl2rld_client_recv_reg
    <3> QED
      BY <3>1, <3>2
  <2> QED
    BY <1>1, <2>1 DEF NoRead
<1>5. refused' \in BOOLEAN /\ handled' \in [whole : BOOLEAN, torn : BOOLEAN]
  <2>1. ASSUME NEW h, NEW r
        PROVE  Whole(h, r) \in BOOLEAN
    BY DEF Whole, InStep
  <2>2. torn[c] \in BOOLEAN
    BY <1>1
  <2>3. ASSUME NEW whole \in BOOLEAN, Handle(c, whole)
        PROVE  refused' \in BOOLEAN /\ handled' \in [whole : BOOLEAN, torn : BOOLEAN]
    BY <2>2, <2>3 DEF Handle, LogMore
  <2>4. ASSUME NEW whole \in BOOLEAN, pl2rld_client_recv_log(c, whole) \/ pl2rld_client_recv_reg(c, whole)
        PROVE  refused' \in BOOLEAN /\ handled' \in [whole : BOOLEAN, torn : BOOLEAN]
    BY <2>2, <2>3, <2>4 DEF pl2rld_client_recv_log, pl2rld_client_recv_reg, LogMore
  <2>5. CASE UNCHANGED <<refused, handled>>
    BY <2>5 DEF LogMore
  <2> QED
    BY <2>1, <2>4, <2>5 DEF RecvHeader, RecvRest
<1> QED
  BY <1>2, <1>3, <1>4, <1>5 DEF LogMore, clientVars

LEMMA LogMoreNext ==
  ASSUME LogInv, LogMore, Pl2rlNext
  PROVE  LogMore'
<1>1. ASSUME NEW p \in Procs, Clock(p)
      PROVE  LogMore'
  BY <1>1 DEF Clock, LogMore, connVars, daemonVars
<1>2. CASE pl2rld_client_listener_init
  BY <1>2 DEF pl2rld_client_listener_init, LogMore, clientVars, connVars
<1>3. CASE DaemonStops
  <2>1. stops' \in 0 .. MaxStops
    BY <1>3, Pl2rlAssumption DEF DaemonStops, LogMore
  <2>2. reading'.rlen <= LENGTH
    BY <1>3, LengthType DEF DaemonStops, NoRead
  <2> QED
    BY <1>3, <2>1, <2>2 DEF DaemonStops, LogMore, clientVars
<1>4. ASSUME NEW c \in Conns, pl2rld_client_accept_cb(c)
      PROVE  LogMore'
  <2>1. trouble' \in 0 .. MaxTrouble
    BY <1>4, TroubleBound DEF pl2rld_client_accept_cb
  <2> QED
    BY <1>4, <2>1 DEF pl2rld_client_accept_cb, LogMore, clientVars, daemonVars
<1> QED
  BY <1>1, <1>2, <1>3, <1>4, LogTypesConnect, SendTypes, ReadTypes DEF Pl2rlNext

LEMMA LogMoreInit ==
  ASSUME Pl2rlInit
  PROVE  LogMore
<1>1. LENGTH \in Nat /\ PL2RL_RETRIES \in Nat /\ SOCKBUF \in Nat /\ MaxTrouble \in Nat /\ MaxStops \in Nat
  BY LengthType, Pl2rlAssumption
<1>2. reading.rlen <= LENGTH
  BY <1>1 DEF Pl2rlInit, NoRead
<1>3. handled \in [whole : BOOLEAN, torn : BOOLEAN]
  BY DEF Pl2rlInit, Nothing
<1>4. \A c \in Conns : Len(stream[c]) <= SOCKBUF
  <2>1. Len(<<>>) <= SOCKBUF
    BY <1>1
  <2> QED
    BY <2>1 DEF Pl2rlInit
<1>5. \A p \in Procs : w[p] <= LENGTH /\ pc[p] = "idle"
  BY <1>1 DEF Pl2rlInit
<1> QED
  <2>1. /\ pl2rl_last_attempt \in [Procs -> {"none", "now", "past"}]
        /\ text \in [Procs -> BOOLEAN] /\ tries \in [Procs -> 0 .. PL2RL_RETRIES]
    <3>1. 0 \in 0 .. PL2RL_RETRIES
      BY <1>1
    <3>2. text = [p \in Procs |-> FALSE] /\ tries = [p \in Procs |-> 0]
      BY DEF Pl2rlInit
    <3>3. pl2rl_last_attempt = [p \in Procs |-> "none"]
      BY DEF Pl2rlInit
    <3> QED
      BY <3>1, <3>2, <3>3, Zenon
  <2>2. running \in BOOLEAN /\ refused \in BOOLEAN /\ trouble \in 0 .. MaxTrouble /\ stops \in 0 .. MaxStops
    <3>1. 0 \in 0 .. MaxTrouble /\ 0 \in 0 .. MaxStops
      BY <1>1
    <3>2. (running \in BOOLEAN /\ refused \in BOOLEAN) /\ trouble = 0 /\ stops = 0
      BY Zenon DEF Pl2rlInit
    <3> QED
      BY <3>1, <3>2
  <2> QED
    BY <1>2, <1>3, <1>4, <1>5, <2>1, <2>2 DEF LogMore

LEMMA LogTypeOK == LogInv /\ LogMore => Pl2rlTypeOK
<1> SUFFICES ASSUME LogInv, LogMore
             PROVE  Pl2rlTypeOK
  OBVIOUS
<1>1. LogTypes /\ LENGTH \in Nat
  BY LengthType DEF LogInv
<1>2. w \in [Procs -> 0 .. LENGTH] /\ reading.rlen \in 0 .. LENGTH
  BY <1>1 DEF LogTypes, LogMore
<1>3. \A c \in Conns : stream[c] \in Seq(Unit)
  BY <1>1 DEF LogTypes, UnitSeq
<1> QED
  BY <1>1, <1>2, <1>3 DEF LogTypes, LogMore, Pl2rlTypeOK

-----------------------------------------------------------------------------
(* The connector.                                                          *)

\* The updates of a rule in a sequence of updates: the first and the last say
\* what they do, and they alternate.
Of(s, k, r) ==
    {i \in DOMAIN s : s[i].op \in {"add", "del"} /\ s[i].kind = k /\ s[i].rule = r}

StartsWith(s, k, r, op) ==
    \A i \in Of(s, k, r) : (\A j \in Of(s, k, r) : i <= j) => s[i].op = op

EndsWith(s, k, r, op) ==
    \A i \in Of(s, k, r) : (\A j \in Of(s, k, r) : j <= i) => s[i].op = op

Alternates(s, k, r) ==
    \A i, j \in Of(s, k, r) :
      i < j /\ (\A m \in Of(s, k, r) : m <= i \/ j <= m) => s[i].op # s[j].op

Ops == {"add", "del"}

\* What is known of a rule's updates in s is so in t.
ChainKept(s, t, k, r) ==
    /\ Of(s, k, r) = {} <=> Of(t, k, r) = {}
    /\ \A op \in Ops : StartsWith(s, k, r, op) => StartsWith(t, k, r, op)
    /\ \A op \in Ops : EndsWith(s, k, r, op) => EndsWith(t, k, r, op)
    /\ Alternates(s, k, r) => Alternates(t, k, r)

\* t is s with u behind it.
Behind(s, t, u) ==
    \E n \in Nat : /\ DOMAIN s = 1 .. n /\ DOMAIN t = 1 .. n + 1
                   /\ \A i \in 1 .. n : t[i] = s[i]
                   /\ t[n + 1] = u

LEMMA OtherBehind ==
  ASSUME NEW s, NEW t, NEW u, Behind(s, t, u), NEW k, NEW r,
         ~(u.op \in {"add", "del"} /\ u.kind = k /\ u.rule = r)
  PROVE  ChainKept(s, t, k, r)
<1>1. PICK n \in Nat : /\ DOMAIN s = 1 .. n /\ DOMAIN t = 1 .. n + 1
                       /\ \A i \in 1 .. n : t[i] = s[i]
                       /\ t[n + 1] = u
  BY DEF Behind
<1>2. Of(t, k, r) = Of(s, k, r) /\ \A i \in Of(s, k, r) : t[i] = s[i]
  BY <1>1 DEF Of
<1> QED
  BY <1>2 DEF ChainKept, StartsWith, EndsWith, Alternates

LEMMA RuleBehind ==
  ASSUME NEW s, NEW t, NEW u, Behind(s, t, u), NEW k, NEW r,
         u.op \in Ops /\ u.kind = k /\ u.rule = r,
         NEW op \in Ops, EndsWith(s, k, r, op), op # u.op, Alternates(s, k, r)
  PROVE  /\ Of(t, k, r) # {}
         /\ EndsWith(t, k, r, u.op)
         /\ Alternates(t, k, r)
         /\ Of(s, k, r) = {} => StartsWith(t, k, r, u.op)
         /\ Of(s, k, r) # {} => \A p \in Ops : StartsWith(s, k, r, p) => StartsWith(t, k, r, p)
<1>1. PICK n \in Nat : /\ DOMAIN s = 1 .. n /\ DOMAIN t = 1 .. n + 1
                       /\ \A i \in 1 .. n : t[i] = s[i]
                       /\ t[n + 1] = u
  BY DEF Behind
<1>2. /\ Of(t, k, r) = Of(s, k, r) \cup {n + 1}
      /\ Of(s, k, r) \subseteq 1 .. n
      /\ \A i \in Of(s, k, r) : t[i] = s[i]
  BY <1>1 DEF Of, Ops
<1>3. Of(t, k, r) # {} /\ EndsWith(t, k, r, u.op)
  BY <1>1, <1>2 DEF EndsWith
<1>4. Alternates(t, k, r)
  <2> SUFFICES ASSUME NEW i \in Of(t, k, r), NEW j \in Of(t, k, r), i < j,
                      \A m \in Of(t, k, r) : m <= i \/ j <= m
               PROVE  t[i].op # t[j].op
    BY DEF Alternates
  <2>1. i \in Of(s, k, r)
    BY <1>2
  <2>2. CASE j = n + 1
    <3>1. \A m \in Of(s, k, r) : m <= i
      BY <1>2, <2>2
    <3> QED
      BY <1>1, <1>2, <2>1, <2>2, <3>1 DEF EndsWith
  <2>3. CASE j \in Of(s, k, r)
    BY <1>2, <2>1, <2>3 DEF Alternates
  <2> QED
    BY <1>2, <2>2, <2>3
<1>5. Of(s, k, r) = {} => StartsWith(t, k, r, u.op)
  BY <1>1, <1>2 DEF StartsWith
<1>6. ASSUME Of(s, k, r) # {}, NEW p \in Ops, StartsWith(s, k, r, p)
      PROVE  StartsWith(t, k, r, p)
  <2> SUFFICES ASSUME NEW i \in Of(t, k, r), \A j \in Of(t, k, r) : i <= j
               PROVE  t[i].op = p
    BY DEF StartsWith
  <2>1. i \in Of(s, k, r)
    BY <1>2, <1>6
  <2> QED
    BY <1>2, <1>6, <2>1 DEF StartsWith
<1> QED
  BY <1>3, <1>4, <1>5, <1>6

\* t is s without the first.
Shifted(s, t) ==
    \E n \in Nat : /\ DOMAIN s = 1 .. n + 1 /\ DOMAIN t = 1 .. n
                   /\ \A i \in 1 .. n : t[i] = s[i + 1]

LEMMA OtherShifted ==
  ASSUME NEW s, NEW t, Shifted(s, t), NEW k, NEW r,
         ~(s[1].op \in {"add", "del"} /\ s[1].kind = k /\ s[1].rule = r)
  PROVE  ChainKept(s, t, k, r)
<1>1. PICK n \in Nat : /\ DOMAIN s = 1 .. n + 1 /\ DOMAIN t = 1 .. n
                       /\ \A i \in 1 .. n : t[i] = s[i + 1]
  BY DEF Shifted
<1>2. /\ Of(t, k, r) \subseteq 1 .. n /\ Of(s, k, r) \subseteq 2 .. n + 1
      /\ \A i \in 1 .. n : i \in Of(t, k, r) <=> i + 1 \in Of(s, k, r)
      /\ \A i \in 1 .. n : t[i] = s[i + 1]
  BY <1>1 DEF Of
<1>3. \A i \in 2 .. n + 1 : i \in Of(s, k, r) <=> i - 1 \in Of(t, k, r)
  BY <1>2
<1>4. Of(s, k, r) = {} <=> Of(t, k, r) = {}
  BY <1>2, <1>3
<1>5. ASSUME NEW op \in Ops, StartsWith(s, k, r, op)
      PROVE  StartsWith(t, k, r, op)
  <2> SUFFICES ASSUME NEW i \in Of(t, k, r), \A j \in Of(t, k, r) : i <= j
               PROVE  t[i].op = op
    BY DEF StartsWith
  <2>1. \A j \in Of(s, k, r) : i + 1 <= j
    BY <1>2, <1>3
  <2> QED
    BY <1>2, <1>5, <2>1 DEF StartsWith
<1>6. ASSUME NEW op \in Ops, EndsWith(s, k, r, op)
      PROVE  EndsWith(t, k, r, op)
  <2> SUFFICES ASSUME NEW i \in Of(t, k, r), \A j \in Of(t, k, r) : j <= i
               PROVE  t[i].op = op
    BY DEF EndsWith
  <2>1. \A j \in Of(s, k, r) : j <= i + 1
    BY <1>2, <1>3
  <2> QED
    BY <1>2, <1>6, <2>1 DEF EndsWith
<1>7. ASSUME Alternates(s, k, r)
      PROVE  Alternates(t, k, r)
  <2> SUFFICES ASSUME NEW i \in Of(t, k, r), NEW j \in Of(t, k, r), i < j,
                      \A m \in Of(t, k, r) : m <= i \/ j <= m
               PROVE  t[i].op # t[j].op
    BY DEF Alternates
  <2>1. /\ i + 1 \in Of(s, k, r) /\ j + 1 \in Of(s, k, r) /\ i + 1 < j + 1
        /\ \A m \in Of(s, k, r) : m <= i + 1 \/ j + 1 <= m
    BY <1>2, <1>3
  <2> QED
    BY <1>2, <1>7, <2>1 DEF Alternates
<1> QED
  BY <1>4, <1>5, <1>6, <1>7 DEF ChainKept

LEMMA RuleShifted ==
  ASSUME NEW s, NEW t, Shifted(s, t), NEW k, NEW r,
         s[1].op \in Ops /\ s[1].kind = k /\ s[1].rule = r,
         Alternates(s, k, r)
  PROVE  /\ Of(s, k, r) # {}
         /\ \A op \in Ops : StartsWith(s, k, r, op) => s[1].op = op
         /\ \A op \in Ops : op # s[1].op => StartsWith(t, k, r, op)
         /\ \A op \in Ops : EndsWith(s, k, r, op) =>
              EndsWith(t, k, r, op) /\ (Of(t, k, r) = {} => s[1].op = op)
         /\ Alternates(t, k, r)
<1>1. PICK n \in Nat : /\ DOMAIN s = 1 .. n + 1 /\ DOMAIN t = 1 .. n
                       /\ \A i \in 1 .. n : t[i] = s[i + 1]
  BY DEF Shifted
<1>2. /\ Of(t, k, r) \subseteq 1 .. n /\ Of(s, k, r) \subseteq 1 .. n + 1
      /\ 1 \in Of(s, k, r)
      /\ \A i \in 1 .. n : i \in Of(t, k, r) <=> i + 1 \in Of(s, k, r)
      /\ \A i \in 1 .. n : t[i] = s[i + 1]
  BY <1>1 DEF Of, Ops
<1>3. \A i \in 2 .. n + 1 : i \in Of(s, k, r) <=> i - 1 \in Of(t, k, r)
  BY <1>2
<1>4. ASSUME NEW op \in Ops, StartsWith(s, k, r, op)
      PROVE  s[1].op = op
  BY <1>2, <1>4 DEF StartsWith
<1>5. ASSUME NEW op \in Ops, op # s[1].op
      PROVE  StartsWith(t, k, r, op)
  <2> SUFFICES ASSUME NEW i \in Of(t, k, r), \A j \in Of(t, k, r) : i <= j
               PROVE  t[i].op = op
    BY DEF StartsWith
  <2>1. /\ i + 1 \in Of(s, k, r) /\ 1 < i + 1
        /\ \A m \in Of(s, k, r) : m <= 1 \/ i + 1 <= m
    BY <1>2, <1>3
  <2>2. s[1].op # s[i + 1].op /\ s[i + 1].op \in Ops
    BY <1>2, <2>1 DEF Alternates, Of, Ops
  <2> QED
    BY <1>2, <1>5, <2>2 DEF Ops
<1>6. ASSUME NEW op \in Ops, EndsWith(s, k, r, op)
      PROVE  EndsWith(t, k, r, op) /\ (Of(t, k, r) = {} => s[1].op = op)
  <2>1. ASSUME NEW i \in Of(t, k, r), \A j \in Of(t, k, r) : j <= i
        PROVE  t[i].op = op
    <3>1. i + 1 \in Of(s, k, r) /\ \A j \in Of(s, k, r) : j <= i + 1
      BY <1>2, <1>3, <2>1
    <3> QED
      BY <1>2, <1>6, <3>1 DEF EndsWith
  <2>2. Of(t, k, r) = {} => \A j \in Of(s, k, r) : j <= 1
    BY <1>2, <1>3
  <2> QED
    BY <1>2, <1>6, <2>1, <2>2 DEF EndsWith
<1>7. Alternates(t, k, r)
  <2> SUFFICES ASSUME NEW i \in Of(t, k, r), NEW j \in Of(t, k, r), i < j,
                      \A m \in Of(t, k, r) : m <= i \/ j <= m
               PROVE  t[i].op # t[j].op
    BY DEF Alternates
  <2>1. /\ i + 1 \in Of(s, k, r) /\ j + 1 \in Of(s, k, r) /\ i + 1 < j + 1
        /\ \A m \in Of(s, k, r) : m <= i + 1 \/ j + 1 <= m
    BY <1>2, <1>3
  <2> QED
    BY <1>2, <2>1 DEF Alternates
<1> QED
  BY <1>2, <1>4, <1>5, <1>6, <1>7

\* The updates of the LAN settings: which is the last to change a setting.
Inets(s) == {i \in DOMAIN s : s[i].op = "inet"}

Settled(s, f) == \A i \in Inets(s) : f \notin s[i].changed

LatestIs(s, f, v) ==
    \A i \in Inets(s) :
      (\A j \in Inets(s) : j > i => f \notin s[j].changed) => s[i].inet[f] = v

LEMMA SettingBehind ==
  ASSUME NEW s, NEW t, NEW u, Behind(s, t, u), NEW f, NEW v, LatestIs(s, f, v)
  PROVE  /\ u.op # "inet" \/ (f \notin u.changed /\ u.inet[f] = v)
              => LatestIs(t, f, v) /\ (Settled(t, f) <=> Settled(s, f))
         /\ u.op = "inet" /\ f \in u.changed => LatestIs(t, f, u.inet[f]) /\ ~Settled(t, f)
<1>1. PICK n \in Nat : /\ DOMAIN s = 1 .. n /\ DOMAIN t = 1 .. n + 1
                       /\ \A i \in 1 .. n : t[i] = s[i]
                       /\ t[n + 1] = u
  BY DEF Behind
<1>2. /\ Inets(s) \subseteq 1 .. n /\ \A i \in Inets(s) : t[i] = s[i]
      /\ u.op = "inet" => Inets(t) = Inets(s) \cup {n + 1}
      /\ u.op # "inet" => Inets(t) = Inets(s)
  BY <1>1 DEF Inets
<1>3. CASE u.op # "inet"
  BY <1>2, <1>3 DEF LatestIs, Settled
<1>4. CASE u.op = "inet"
  <2>1. /\ Inets(t) = Inets(s) \cup {n + 1} /\ t[n + 1] = u
        /\ \A i \in Inets(s) : n + 1 > i /\ t[i] = s[i]
        /\ ~(n + 1 > n + 1)
    BY <1>1, <1>2, <1>4
  <2>2. Settled(t, f) <=> Settled(s, f) /\ f \notin u.changed
    BY <2>1 DEF Settled
  <2>3. CASE f \in u.changed
    BY <1>4, <2>1, <2>2, <2>3 DEF LatestIs
  <2>4. CASE f \notin u.changed /\ u.inet[f] = v
    <3> SUFFICES ASSUME NEW i \in Inets(t), \A j \in Inets(t) : j > i => f \notin t[j].changed
                 PROVE  t[i].inet[f] = v
      BY <2>2, <2>4 DEF LatestIs
    <3>1. CASE i = n + 1
      BY <2>1, <2>4, <3>1
    <3>2. CASE i \in Inets(s)
      BY <2>1, <3>2 DEF LatestIs
    <3> QED
      BY <2>1, <3>1, <3>2
  <2> QED
    BY <1>4, <2>3, <2>4
<1> QED
  BY <1>3, <1>4

LEMMA SettingShifted ==
  ASSUME NEW s, NEW t, Shifted(s, t), NEW f, NEW v, LatestIs(s, f, v)
  PROVE  /\ LatestIs(t, f, v)
         /\ s[1].op # "inet" => (Settled(t, f) <=> Settled(s, f))
         /\ s[1].op = "inet" => /\ Settled(s, f) <=> Settled(t, f) /\ f \notin s[1].changed
                                /\ Settled(t, f) => s[1].inet[f] = v
<1>1. PICK n \in Nat : /\ DOMAIN s = 1 .. n + 1 /\ DOMAIN t = 1 .. n
                       /\ \A i \in 1 .. n : t[i] = s[i + 1]
  BY DEF Shifted
<1>2. /\ Inets(t) \subseteq 1 .. n /\ Inets(s) \subseteq 1 .. n + 1
      /\ 1 \in Inets(s) <=> s[1].op = "inet"
      /\ \A i \in 1 .. n : i \in Inets(t) <=> i + 1 \in Inets(s)
      /\ \A i \in 1 .. n : t[i] = s[i + 1]
  BY <1>1 DEF Inets
<1>3. \A i \in Inets(s) : i # 1 => i - 1 \in Inets(t) /\ t[i - 1] = s[i]
  BY <1>2
<1>4. LatestIs(t, f, v)
  <2> SUFFICES ASSUME NEW i \in Inets(t), \A j \in Inets(t) : j > i => f \notin t[j].changed
               PROVE  t[i].inet[f] = v
    BY DEF LatestIs
  <2>1. \A j \in Inets(s) : j > i + 1 => f \notin s[j].changed
    BY <1>2, <1>3
  <2> QED
    BY <1>2, <2>1 DEF LatestIs
<1>5. Settled(t, f) <=> \A i \in Inets(s) : i # 1 => f \notin s[i].changed
  BY <1>2, <1>3 DEF Settled
<1>6. Settled(s, f) <=> Settled(t, f) /\ (1 \in Inets(s) => f \notin s[1].changed)
  BY <1>5 DEF Settled
<1>7. 1 \in Inets(s) /\ Settled(t, f) => s[1].inet[f] = v
  BY <1>2, <1>5 DEF LatestIs
<1> QED
  BY <1>2, <1>4, <1>6, <1>7

Update == [op : {"add", "del"}, kind : Kinds, rule : Rules]
          \cup [op : {"inet"}, inet : [Fields -> LanSettings], changed : SUBSET Fields]

UpdateSeq == Seq(Update)

LEMMA UpdatesShifted ==
  ASSUME NEW s \in UpdateSeq, s # <<>>
  PROVE  /\ Tail(s) \in UpdateSeq /\ Shifted(s, Tail(s))
         /\ Head(s) = s[1] /\ s[1] \in Update
<1>1. s \in Seq(Update)
  BY DEF UpdateSeq
<1>2. /\ Len(s) \in Nat /\ Len(s) # 0 /\ DOMAIN s = 1 .. Len(s)
      /\ s[1] \in Update
  BY <1>1, EmptySeq, LenProperties, ElementOfSeq
<1>3. /\ Head(s) = s[1]
      /\ Tail(s) \in Seq(Update) /\ Len(Tail(s)) = Len(s) - 1
      /\ \A i \in 1 .. Len(Tail(s)) : Tail(s)[i] = s[i + 1]
  BY <1>1, HeadTailProperties
<1>4. DOMAIN Tail(s) = 1 .. Len(Tail(s))
  BY <1>3, LenProperties
<1>5. Shifted(s, Tail(s))
  <2>1. Len(Tail(s)) \in Nat /\ Len(s) = Len(Tail(s)) + 1
    BY <1>2, <1>3
  <2> QED
    BY <1>2, <1>3, <1>4, <2>1 DEF Shifted
<1> QED
  BY <1>2, <1>3, <1>5 DEF UpdateSeq

LEMMA UpdatesBehind ==
  ASSUME NEW s \in UpdateSeq, NEW u \in Update
  PROVE  Append(s, u) \in UpdateSeq /\ Behind(s, Append(s, u), u)
<1>1. s \in Seq(Update)
  BY DEF UpdateSeq
<1>2. Len(s) \in Nat /\ DOMAIN s = 1 .. Len(s)
  BY <1>1, LenProperties
<1>3. /\ Append(s, u) \in Seq(Update) /\ Len(Append(s, u)) = Len(s) + 1
      /\ \A i \in 1 .. Len(s) : Append(s, u)[i] = s[i]
      /\ Append(s, u)[Len(s) + 1] = u
  BY <1>1, AppendProperties
<1>4. DOMAIN Append(s, u) = 1 .. Len(s) + 1
  BY <1>3, LenProperties
<1> QED
  BY <1>2, <1>3, <1>4 DEF Behind, UpdateSeq

\* What XM is given first: the LAN settings, and each rule once.
LEMMA InitialUpdates ==
  ASSUME NEW c \in [Kinds -> SUBSET Rules], NEW l \in [Fields -> LanSettings],
         NEW s \in Initially(c, l)
  PROVE  /\ s \in UpdateSeq
         /\ Inets(s) = {1} /\ s[1].inet = l /\ s[1].changed = Fields
         /\ \A k \in Kinds, r \in Rules :
              /\ Of(s, k, r) = {} <=> r \notin c[k]
              /\ \A i, j \in Of(s, k, r) : i = j
              /\ \A i \in Of(s, k, r) : s[i].op = "add"
<1> DEFINE Adds == UNION {{[op |-> "add", kind |-> k, rule |-> r] : r \in c[k]} : k \in Kinds}
           lanUpdate == [op |-> "inet", inet |-> l, changed |-> Fields]
<1>1. PICK q \in SetToSeqs(Adds) : s = <<lanUpdate>> \o q
  BY Zenon DEF Initially
<1>2. /\ \A a \in Adds : a \in Update /\ a.op = "add" /\ a.rule \in c[a.kind]
      /\ \A k \in Kinds : \A r \in c[k] : [op |-> "add", kind |-> k, rule |-> r] \in Adds
      /\ \A a \in Adds : a = [op |-> "add", kind |-> a.kind, rule |-> a.rule]
  BY DEF Update
<1>3. lanUpdate \in Update /\ lanUpdate.op = "inet"
  BY DEF Update
<1>4. IsFiniteSet(Adds)
  <2>1. ASSUME NEW k
        PROVE  IsFiniteSet({[op |-> "add", kind |-> k, rule |-> r] : r \in Rules})
    <3> DEFINE OfKind == {[op |-> "add", kind |-> k, rule |-> r] : r \in Rules}
               f == [r \in Rules |-> [op |-> "add", kind |-> k, rule |-> r]]
    <3>1. f \in Surjection(Rules, OfKind)
      BY DEF Surjection
    <3>2. IsFiniteSet(Rules)
      BY ConnectorAssumption
    <3> QED
      BY <3>1, <3>2, FS_Surjection, Zenon
  <2> DEFINE Both == {[op |-> "add", kind |-> "reservation", rule |-> r] : r \in Rules}
                     \cup {[op |-> "add", kind |-> "portforward", rule |-> r] : r \in Rules}
  <2>2. IsFiniteSet(Both)
    BY <2>1, FS_Union, Zenon
  <2>3. Adds \subseteq Both
    BY DEF Kinds
  <2> HIDE DEF Adds, Both
  <2> QED
    BY <2>2, <2>3, FS_Subset
<1> DEFINE n == Cardinality(Adds)
<1>5. n \in Nat
  BY <1>4, FS_CardinalityType
<1>6. q \in [1 .. n -> Adds] /\ \A i, j \in 1 .. n : i # j => q[i] # q[j]
  BY Zenon DEF SetToSeqs
<1> HIDE DEF Adds, lanUpdate
<1>7. \A a \in Adds : \E i \in 1 .. n : q[i] = a
  <2>1. q \in Injection(1 .. n, Adds)
    BY <1>6 DEF Injection, IsInjective
  <2>2. Cardinality(1 .. n) = n
    BY <1>5, FS_Interval
  <2>3. q \in Surjection(1 .. n, Adds)
    BY <1>4, <2>1, <2>2, FS_Injection, Zenon
  <2> QED
    BY <2>3 DEF Surjection
<1> HIDE DEF n
<1>8. q \in Seq(Update) /\ Len(q) = n
  BY <1>2, <1>5, <1>6, IsASeq, LenProperties
<1>9. /\ s \in Seq(Update) /\ DOMAIN s = 1 .. n + 1
      /\ s[1] = lanUpdate /\ \A i \in 2 .. n + 1 : s[i] = q[i - 1]
  <2>1. <<lanUpdate>> \in Seq(Update) /\ Len(<<lanUpdate>>) = 1 /\ <<lanUpdate>>[1] = lanUpdate
    BY <1>3
  <2> DEFINE one == <<lanUpdate>>
  <2> HIDE DEF one
  <2>2. /\ one \o q \in Seq(Update) /\ Len(one \o q) = Len(one) + Len(q)
        /\ \A i \in 1 .. Len(one) + Len(q) :
             (one \o q)[i] = IF i <= Len(one) THEN one[i] ELSE q[i - Len(one)]
    BY <1>8, <2>1, ConcatProperties, Zenon DEF one
  <2>3. DOMAIN s = 1 .. Len(s) /\ s = one \o q
    BY <1>1, <2>2, LenProperties DEF one
  <2> QED
    BY <1>5, <1>8, <2>1, <2>2, <2>3 DEF one
<1>10. /\ \A i \in 2 .. n + 1 : s[i] \in Adds
       /\ \A i, j \in 2 .. n + 1 : s[i] = s[j] => i = j
       /\ \A a \in Adds : \E i \in 2 .. n + 1 : s[i] = a
  <2>1. \A i \in 2 .. n + 1 : i - 1 \in 1 .. n /\ s[i] = q[i - 1]
    BY <1>5, <1>9
  <2>2. \A i \in 2 .. n + 1 : s[i] \in Adds
    BY <1>6, <2>1
  <2>3. ASSUME NEW i \in 2 .. n + 1, NEW j \in 2 .. n + 1, s[i] = s[j]
        PROVE  i = j
    <3>1. i - 1 = j - 1
      BY <1>6, <2>1, <2>3
    <3> QED
      BY <3>1
  <2>4. ASSUME NEW a \in Adds
        PROVE  \E i \in 2 .. n + 1 : s[i] = a
    <3>1. PICK m \in 1 .. n : q[m] = a
      BY <1>7
    <3>2. m + 1 \in 2 .. n + 1 /\ (m + 1) - 1 = m
      BY <1>5
    <3> QED
      BY <2>1, <3>1, <3>2
  <2> QED
    BY <2>2, <2>3, <2>4
<1>11. Inets(s) = {1} /\ s[1].inet = l /\ s[1].changed = Fields
  BY <1>2, <1>3, <1>5, <1>9, <1>10 DEF Inets, lanUpdate
<1>12. ASSUME NEW k \in Kinds, NEW r \in Rules
       PROVE  /\ Of(s, k, r) = {} <=> r \notin c[k]
              /\ \A i, j \in Of(s, k, r) : i = j
              /\ \A i \in Of(s, k, r) : s[i].op = "add"
  <2>1. /\ Of(s, k, r) \subseteq 2 .. n + 1
        /\ \A i \in 2 .. n + 1 : i \in Of(s, k, r) <=> s[i].kind = k /\ s[i].rule = r
    BY <1>2, <1>3, <1>5, <1>9, <1>10 DEF Of
  <2>2. \A i \in Of(s, k, r) : s[i] = [op |-> "add", kind |-> k, rule |-> r] /\ r \in c[k]
    BY <1>2, <1>10, <2>1
  <2>3. r \in c[k] => \E i \in 2 .. n + 1 : s[i] = [op |-> "add", kind |-> k, rule |-> r]
    BY <1>2, <1>10
  <2> QED
    BY <1>10, <2>1, <2>2, <2>3
<1> QED
  BY <1>9, <1>11, <1>12 DEF UpdateSeq

LEMMA MinOf ==
  ASSUME NEW S \in SUBSET Nat, S # {}
  PROVE  Min(S) \in S
  BY LeastOf DEF Min

\* A row of a table.  Nobody looks at what else is in it.
TableRow == [idx : Nat, rule : Rules \cup {Empty}]

JobKinds == {"down", "idle", "clean", "cleaning", "get pool", "put pool", "fill", "delete", "pool"}

JobOK ==
    /\ job.do \in JobKinds
    /\ job.do \in {"clean", "cleaning", "fill", "delete"} => job.kind \in Kinds
    /\ job.do \in {"put pool", "pool"} => job.pool \in LanSettings
    /\ job.do = "put pool" => job.options \in LanSettings
    /\ job.do \in {"fill", "delete"} => job.rule \in Rules /\ job.idx \in Nat

SyncTypes ==
    /\ conf \in [Kinds -> SUBSET Rules]
    /\ lan \in [Fields -> LanSettings] /\ rdkLan \in [Fields -> LanSettings]
    /\ updates \in UpdateSeq
    /\ JobOK
    /\ table \in [Kinds -> SUBSET TableRow]
    /\ lastIdx \in [Kinds -> Nat]
    /\ skew \in [Kinds -> SUBSET (Rules \cup {Empty})]

TableInv ==
    \A k \in Kinds :
      /\ \A row \in table[k] : row.idx <= lastIdx[k]
      /\ \A row, other \in table[k] : row.idx = other.idx => row = other

\* The tables that XM, starting, has been through.
Cleaned(k) ==
    \/ job.do \in {"get pool", "put pool"}
    \/ job.do \in {"clean", "cleaning"} /\ job.kind = "portforward" /\ k = "reservation"

CleanInv ==
    \A k \in Kinds : \A row \in table[k] :
      /\ Cleaned(k) => row.rule \in skew[k]
      /\ job.do = "cleaning" /\ job.kind = k => row.idx \in job.left \/ row.rule \in skew[k]

\* The row that XM is about to fill or to delete is still that row, if it is
\* there at all.
RowInv ==
    job.do \in {"fill", "delete"} =>
      /\ job.idx <= lastIdx[job.kind]
      /\ \A row \in table[job.kind] :
           row.idx = job.idx => row.rule = IF job.do = "fill" THEN Empty ELSE job.rule

EmptyInv ==
    Subscribed =>
    \A k \in Kinds : Empty \notin skew[k] =>
      \A row \in table[k] :
        row.rule = Empty => job.do = "fill" /\ job.kind = k /\ row.idx = job.idx

Filling(k, r) == job.do = "fill" /\ job.kind = k /\ job.rule = r
Deleting(k, r) == job.do = "delete" /\ job.kind = k /\ job.rule = r

\* The RDK has the rule as soon as XM is done with its job.
Added(k, r) == Filling(k, r) \/ (~Deleting(k, r) /\ Matching(k, r) # {})

\* The updates of a rule that wait lead from what the RDK has to what OVSDB has.
RuleOK(k, r) ==
    /\ Alternates(updates, k, r)
    /\ EndsWith(updates, k, r, IF r \in conf[k] THEN "add" ELSE "del")
    /\ r \notin skew[k] =>
         /\ \A i, j \in Matching(k, r) : i = j
         /\ Filling(k, r) => Matching(k, r) = {}
         /\ Of(updates, k, r) = {} => (Added(k, r) <=> r \in conf[k])
         /\ StartsWith(updates, k, r, IF Added(k, r) THEN "del" ELSE "add")

RulesInv == Subscribed => \A k \in Kinds : \A r \in Rules : RuleOK(k, r)

\* The last update that waits and changes a setting has OVSDB's value; without
\* one, XM is about to write that value, or has.
SettingOK(f) ==
    /\ LatestIs(updates, f, lan[f])
    /\ Settled(updates, f) /\ f \notin lanSkew /\ ~(job.do = "pool" /\ f = "range")
         => rdkLan[f] = lan[f]
    /\ Settled(updates, f) /\ job.do = "pool" /\ f = "range" => job.pool = lan[f]

LanInv == Subscribed => \A f \in Pushed : SettingOK(f)

SyncInv == SyncTypes /\ TableInv /\ CleanInv /\ RowInv /\ EmptyInv /\ RulesInv /\ LanInv

\* What a step does to rows and skew, by kind.
LEMMA SkewedKinds ==
  ASSUME SyncTypes, NEW k \in Kinds, NEW rules, Skewed(k, rules)
  PROVE  /\ skew'[k] = skew[k] \cup rules
         /\ \A l \in Kinds : l # k => skew'[l] = skew[l]
         /\ rules \subseteq Rules \cup {Empty} => skew' \in [Kinds -> SUBSET (Rules \cup {Empty})]
  BY DEF SyncTypes, Skewed

LEMMA HeadUpdate ==
  ASSUME SyncTypes, NEW op, NextIs(op), Handled
  PROVE  /\ updates' \in UpdateSeq /\ Shifted(updates, updates')
         /\ Head(updates) = updates[1] /\ updates[1].op = op /\ updates[1] \in Update
         /\ op \in {"add", "del"} => updates[1].kind \in Kinds /\ updates[1].rule \in Rules
         /\ op = "inet" => /\ updates[1].inet \in [Fields -> LanSettings]
                           /\ updates[1].changed \subseteq Fields
         /\ job.do = "idle"
<1>1. updates \in UpdateSeq /\ updates # <<>> /\ updates' = Tail(updates) /\ job.do = "idle"
  BY DEF SyncTypes, NextIs, Handled, Idle
<1>2. /\ Tail(updates) \in UpdateSeq /\ Shifted(updates, Tail(updates))
      /\ Head(updates) = updates[1] /\ updates[1] \in Update
  BY <1>1, UpdatesShifted
<1>3. updates[1].op = op
  BY <1>2 DEF NextIs
<1> QED
  BY <1>1, <1>2, <1>3 DEF Update

\* The alternatives of a step that deletes a row.
LEMMA DeletedRow ==
  ASSUME SyncTypes, NEW k \in Kinds, NEW idx, NEW rules, DeleteTblRow(k, idx, rules)
  PROVE  \/ /\ skew' = skew /\ Rows(k, idx) # {}
            /\ table' \in [Kinds -> SUBSET TableRow]
            /\ table'[k] = table[k] \ Rows(k, idx)
            /\ \A l \in Kinds : l # k => table'[l] = table[l]
         \/ Skewed(k, rules) /\ table' = table
  BY DEF SyncTypes, DeleteTblRow

\* XM reads the RDK's pool, and is given all of OVSDB.
PoolRead ==
    /\ job.do = "get pool"
    /\ job' = [do |-> "put pool", pool |-> rdkLan["range"],
               options |-> AsOptions[rdkLan["options"]]]
    /\ UNCHANGED <<ovsdbVars, updates, rdkVars, skew, lanSkew>>

Subscribes ==
    /\ job.do \in {"get pool", "put pool"}
    /\ lan' = lan \/ (job.do = "put pool" /\ lan' = [lan EXCEPT !["range"] = job.pool, !["options"] = job.options])
    /\ Subscribe

OfKinds(k) ==
    \/ ReadTable(k) \/ CleanRow(k) \/ AddTblRow(k) \/ FillRow(k) \/ FindRow(k) \/ DeleteRow(k)
    \/ PageChangesTable(k) \/ \E r \in Rules : CloudChangesRule(k, r)

LEMMA ConnectorSteps ==
  ASSUME ConnectorNext
  PROVE  \/ \E k \in Kinds : OfKinds(k)
         \/ connector_init \/ PoolRead \/ Subscribes \/ connector_sync_inet \/ SetPool \/ Crash
         \/ \E v \in LanSettings : (\E f \in Dhcpd : PageChangesPool(f, v)) \/ \E fs \in LanChanges : CloudChangesLan(fs, v)
<1>1. ASSUME NEW k \in Kinds, OfKinds(k)
      PROVE  \E l \in Kinds : OfKinds(l)
  BY <1>1
<1>2. "reservation" \in Kinds /\ "portforward" \in Kinds
  BY DEF Kinds
<1>3. connector_lan_br_config_push_ovsdb_dm => PoolRead \/ Subscribes
  BY DEF connector_lan_br_config_push_ovsdb_dm, get_dhcp_configuration, PoolRead, Subscribes, Subscribe
<1>4. CASE XmStep
  BY <1>2, <1>3, <1>4 DEF XmStep, OfKinds, dhcp_reservation_clean_dm, portforward_clean_dm,
     set_dhcp_reservation_config, set_portforward_configuration, dhcp_reservation_del_dm, portforward_del_dm
<1> QED
  BY <1>4 DEF ConnectorNext, OfKinds

LEMMA SubscribeFacts ==
  ASSUME SyncTypes, Subscribes
  PROVE  /\ lan' \in [Fields -> LanSettings]
         /\ updates' \in UpdateSeq
         /\ Inets(updates') = {1} /\ updates'[1].inet = lan' /\ updates'[1].changed = Fields
         /\ \A k \in Kinds, r \in Rules :
              /\ Of(updates', k, r) = {} <=> r \notin conf[k]
              /\ \A i, j \in Of(updates', k, r) : i = j
              /\ \A i \in Of(updates', k, r) : updates'[i].op = "add"
         /\ job' = Idle /\ UNCHANGED <<conf, rdkVars, skew, lanSkew>>
<1>1. lan' \in [Fields -> LanSettings] /\ conf \in [Kinds -> SUBSET Rules]
  <2>1. \/ lan' = lan
        \/ /\ lan' = [lan EXCEPT !["range"] = job.pool, !["options"] = job.options]
           /\ job.pool \in LanSettings /\ job.options \in LanSettings
    BY DEF Subscribes, SyncTypes, JobOK
  <2> QED
    BY <2>1 DEF SyncTypes
<1>2. updates' \in Initially(conf, lan')
  BY DEF Subscribes, Subscribe
<1>3. job' = Idle /\ UNCHANGED <<conf, rdkVars, skew, lanSkew>>
  BY DEF Subscribes, Subscribe
<1> QED
  BY <1>1, <1>2, <1>3, InitialUpdates

\* What XM does next, starting, is one of these.
LEMMA CleaningFacts ==
  ASSUME NEW k \in Kinds, NEW left, Cleaning(k, left) \/ job' = AfterClean(k)
  PROVE  /\ JobOK' /\ ~Subscribed'
         /\ \/ job'.do = "clean" /\ job'.kind = "portforward" /\ k = "reservation"
            \/ job'.do = "cleaning" /\ job'.kind = k /\ job'.left = left
            \/ job'.do = "get pool" /\ k = "portforward"
<1>1. \/ job' = [do |-> "clean", kind |-> "portforward"] /\ k = "reservation"
      \/ job' = [do |-> "get pool"] /\ k = "portforward"
      \/ job' = [do |-> "cleaning", kind |-> k, left |-> left]
  BY Zenon DEF Cleaning, AfterClean, Kinds
<1>2. CASE job' = [do |-> "clean", kind |-> "portforward"] /\ k = "reservation"
  <2>1. job'.do = "clean" /\ job'.kind = "portforward"
    BY <1>2
  <2> QED
    BY <1>2, <2>1 DEF JobOK, JobKinds, Subscribed, Kinds
<1>3. CASE job' = [do |-> "get pool"] /\ k = "portforward"
  <2>1. job'.do = "get pool"
    BY <1>3
  <2> QED
    BY <1>3, <2>1 DEF JobOK, JobKinds, Subscribed
<1>4. CASE job' = [do |-> "cleaning", kind |-> k, left |-> left]
  <2>1. job'.do = "cleaning" /\ job'.kind = k /\ job'.left = left
    BY <1>4
  <2> QED
    BY <2>1 DEF JobOK, JobKinds, Subscribed
<1> QED
  BY <1>1, <1>2, <1>3, <1>4

\* The types of what the actions of a kind change.
LEMMA TypesOfKind ==
  ASSUME SyncTypes, NEW k \in Kinds, OfKinds(k)
  PROVE  SyncTypes'
<1>1. CASE ReadTable(k)
  <2>1. job.kind = k /\ skew' \in [Kinds -> SUBSET (Rules \cup {Empty})]
    <3>1. {row.rule : row \in table[k]} \subseteq Rules \cup {Empty}
      BY DEF SyncTypes, TableRow
    <3>2. Skewed(k, {row.rule : row \in table[k]}) => skew' \in [Kinds -> SUBSET (Rules \cup {Empty})]
      BY <3>1, SkewedKinds
    <3> QED
      BY <1>1, <3>2 DEF ReadTable, SyncTypes
  <2>2. JobOK'
    BY <1>1, CleaningFacts DEF ReadTable
  <2> QED
    BY <1>1, <2>1, <2>2 DEF ReadTable, SyncTypes, ovsdbVars, rdkVars
<1>2. CASE CleanRow(k)
  <2> DEFINE idx == Min(job.left)
             rules == {row.rule : row \in Rows(k, idx)}
  <2>1. /\ DeleteTblRow(k, idx, rules) /\ rules \subseteq Rules \cup {Empty}
        /\ UNCHANGED <<ovsdbVars, updates, lastIdx, rdkLan, lanSkew>>
    BY <1>2 DEF CleanRow, SyncTypes, TableRow, Rows
  <2>2. JobOK'
    BY <1>2, CleaningFacts DEF CleanRow
  <2> HIDE DEF idx, rules
  <2>3. /\ table' \in [Kinds -> SUBSET TableRow]
        /\ skew' \in [Kinds -> SUBSET (Rules \cup {Empty})]
    BY <2>1, DeletedRow, SkewedKinds DEF SyncTypes
  <2> QED
    BY <2>1, <2>2, <2>3 DEF SyncTypes, ovsdbVars
<1>3. CASE AddTblRow(k)
  <2> DEFINE r == Head(updates).rule
  <2>1. NextIs("add") /\ Handled /\ UNCHANGED <<ovsdbVars, rdkLan, lanSkew>>
    BY <1>3 DEF AddTblRow
  <2>2. updates' \in UpdateSeq /\ r \in Rules
    BY <2>1, HeadUpdate
  <2>3. \/ /\ table' = [table EXCEPT ![k] = @ \cup {[idx |-> lastIdx[k] + 1, rule |-> Empty]}]
           /\ lastIdx' = [lastIdx EXCEPT ![k] = lastIdx[k] + 1]
           /\ job' = [do |-> "fill", kind |-> k, rule |-> r, idx |-> lastIdx[k] + 1]
           /\ skew' = skew
        \/ Skewed(k, {r}) /\ UNCHANGED <<table, lastIdx, job>>
    BY <1>3 DEF AddTblRow
  <2> HIDE DEF r
  <2>4. skew' \in [Kinds -> SUBSET (Rules \cup {Empty})]
    BY <2>2, <2>3, SkewedKinds DEF SyncTypes
  <2>5. lastIdx[k] + 1 \in Nat
    BY DEF SyncTypes
  <2>6. lastIdx' \in [Kinds -> Nat] /\ table' \in [Kinds -> SUBSET TableRow]
    BY <2>3, <2>5 DEF SyncTypes, TableRow
  <2>7. JobOK'
    <3>1. CASE job' = job
      BY <3>1 DEF SyncTypes, JobOK
    <3>2. CASE job' = [do |-> "fill", kind |-> k, rule |-> r, idx |-> lastIdx[k] + 1]
      <4>1. job'.do = "fill" /\ job'.kind = k /\ job'.rule = r /\ job'.idx \in Nat
        BY <2>5, <3>2
      <4> QED
        BY <2>2, <4>1 DEF JobOK, JobKinds
    <3> QED
      BY <2>3, <3>1, <3>2
  <2> QED
    BY <2>1, <2>2, <2>4, <2>6, <2>7 DEF SyncTypes, ovsdbVars
<1>4. CASE FillRow(k)
  <2>1. job.do = "fill" /\ job.rule \in Rules /\ job.idx \in Nat
    BY <1>4 DEF FillRow, SyncTypes, JobOK
  <2>2. \/ /\ table' = [table EXCEPT ![k] = (@ \ Rows(k, job.idx)) \cup {[idx |-> job.idx, rule |-> job.rule]}]
           /\ skew' = skew
        \/ Skewed(k, {job.rule, Empty}) /\ table' = table
    BY <1>4 DEF FillRow
  <2>3. table' \in [Kinds -> SUBSET TableRow]
    BY <2>1, <2>2 DEF SyncTypes, TableRow
  <2>4. skew' \in [Kinds -> SUBSET (Rules \cup {Empty})]
    BY <2>1, <2>2, SkewedKinds DEF SyncTypes
  <2>5. job' = Idle /\ UNCHANGED <<ovsdbVars, updates, lastIdx, rdkLan, lanSkew>>
    BY <1>4 DEF FillRow
  <2> QED
    BY <2>3, <2>4, <2>5 DEF SyncTypes, JobOK, JobKinds, Idle, ovsdbVars
<1>5. CASE FindRow(k)
  <2> DEFINE r == Head(updates).rule
  <2>1. NextIs("del") /\ Handled /\ UNCHANGED <<ovsdbVars, rdkVars, lanSkew>>
    BY <1>5 DEF FindRow
  <2>2. updates' \in UpdateSeq /\ r \in Rules
    BY <2>1, HeadUpdate
  <2>3. \/ /\ job' = IF Matching(k, r) = {} THEN Idle
                     ELSE [do |-> "delete", kind |-> k, rule |-> r, idx |-> Min(Matching(k, r))]
           /\ skew' = skew
        \/ Skewed(k, {r}) /\ job' = job
    BY <1>5 DEF FindRow
  <2> HIDE DEF r
  <2>4. skew' \in [Kinds -> SUBSET (Rules \cup {Empty})]
    BY <2>2, <2>3, SkewedKinds DEF SyncTypes
  <2>5. Matching(k, r) # {} => Min(Matching(k, r)) \in Nat
    <3>1. Matching(k, r) \in SUBSET Nat
      BY DEF Matching, SyncTypes, TableRow
    <3> QED
      BY <3>1, MinOf
  <2>6. JobOK'
    <3>1. CASE job' = job
      BY <3>1 DEF SyncTypes, JobOK
    <3>2. CASE job' = Idle
      BY <3>2 DEF JobOK, JobKinds, Idle
    <3>3. CASE Matching(k, r) # {}
               /\ job' = [do |-> "delete", kind |-> k, rule |-> r, idx |-> Min(Matching(k, r))]
      <4>1. job'.do = "delete" /\ job'.kind = k /\ job'.rule = r /\ job'.idx \in Nat
        BY <2>5, <3>3
      <4> QED
        BY <2>2, <4>1 DEF JobOK, JobKinds
    <3> QED
      BY <2>3, <3>1, <3>2, <3>3
  <2> QED
    BY <2>1, <2>2, <2>4, <2>6 DEF SyncTypes, ovsdbVars, rdkVars
<1>6. CASE DeleteRow(k)
  <2>1. DeleteTblRow(k, job.idx, {job.rule}) /\ job.rule \in Rules
    BY <1>6 DEF DeleteRow, SyncTypes, JobOK
  <2>2. /\ table' \in [Kinds -> SUBSET TableRow]
        /\ skew' \in [Kinds -> SUBSET (Rules \cup {Empty})]
    BY <2>1, DeletedRow, SkewedKinds DEF SyncTypes
  <2>3. job' = Idle /\ UNCHANGED <<ovsdbVars, updates, lastIdx, rdkLan, lanSkew>>
    BY <1>6 DEF DeleteRow
  <2> QED
    BY <2>2, <2>3 DEF SyncTypes, JobOK, JobKinds, Idle, ovsdbVars
<1>7. CASE PageChangesTable(k)
  <2>1. UNCHANGED <<ovsdbVars, updates, job, rdkLan, lanSkew>>
    BY <1>7 DEF PageChangesTable
  <2>2. ASSUME NEW r \in Rules, Skewed(k, {r}),
               table' = [table EXCEPT ![k] = @ \cup {[idx |-> lastIdx[k] + 1, rule |-> r]}],
               lastIdx' = [lastIdx EXCEPT ![k] = @ + 1]
        PROVE  SyncTypes'
    <3>1. lastIdx[k] + 1 \in Nat
      BY DEF SyncTypes
    <3>2. lastIdx' \in [Kinds -> Nat] /\ table' \in [Kinds -> SUBSET TableRow]
      BY <2>2, <3>1 DEF SyncTypes, TableRow
    <3>3. skew' \in [Kinds -> SUBSET (Rules \cup {Empty})]
      BY <2>2, SkewedKinds
    <3> QED
      BY <2>1, <2>2, <3>2, <3>3 DEF SyncTypes, JobOK, ovsdbVars
  <2>3. ASSUME NEW row \in table[k], Skewed(k, {row.rule}), table' = [table EXCEPT ![k] = @ \ {row}],
               lastIdx' = lastIdx
        PROVE  SyncTypes'
    <3>1. {row.rule} \subseteq Rules \cup {Empty} /\ table' \in [Kinds -> SUBSET TableRow]
      BY <2>3 DEF SyncTypes, TableRow
    <3>2. skew' \in [Kinds -> SUBSET (Rules \cup {Empty})]
      BY <2>3, <3>1, SkewedKinds
    <3> QED
      BY <2>1, <2>3, <3>1, <3>2 DEF SyncTypes, JobOK, ovsdbVars
  <2> QED
    BY <1>7, <2>2, <2>3 DEF PageChangesTable
<1>8. ASSUME NEW r \in Rules, CloudChangesRule(k, r)
      PROVE  SyncTypes'
  <2>1. conf' \in [Kinds -> SUBSET Rules]
    BY <1>8 DEF CloudChangesRule, SyncTypes
  <2>2. UNCHANGED <<lan, job, rdkVars, skew, lanSkew>>
    BY <1>8 DEF CloudChangesRule
  <2>3. updates' \in UpdateSeq
    <3>1. \E op \in Ops : updates' = updates \/ updates' = Append(updates, [op |-> op, kind |-> k, rule |-> r])
      BY <1>8 DEF CloudChangesRule, Notify, Ops
    <3>2. \A op \in Ops : [op |-> op, kind |-> k, rule |-> r] \in Update
      BY DEF Ops, Update
    <3> QED
      BY <3>1, <3>2, UpdatesBehind DEF SyncTypes
  <2> QED
    BY <2>1, <2>2, <2>3 DEF SyncTypes, JobOK, rdkVars
<1> QED
  BY <1>1, <1>2, <1>3, <1>4, <1>5, <1>6, <1>7, <1>8 DEF OfKinds

LEMMA IdleOK ==
  ASSUME job' = Idle
  PROVE  JobOK' /\ job'.do = "idle" /\ Subscribed'
<1>1. job'.do = "idle"
  BY DEF Idle
<1> QED
  BY <1>1 DEF JobOK, JobKinds, Subscribed

\* The pool is written, or not.
LEMMA PoolFacts ==
  ASSUME SyncTypes, NEW pool \in LanSettings, NEW skewed, set_dhcp_configuration(pool, skewed)
  PROVE  /\ rdkLan' \in [Fields -> LanSettings] /\ job' = Idle
         /\ \A f \in Fields : f # "range" => rdkLan'[f] = rdkLan[f] /\ (f \in skewed => f \in lanSkew')
         /\ rdkLan'["range"] = pool \/ "range" \in lanSkew'
<1>1. CASE SetLan({"range"}, [f \in {"range"} |-> pool], skewed)
  BY <1>1 DEF set_dhcp_configuration, SetLan, SyncTypes, Fields
<1>2. CASE LanFails({"range"}, skewed)
  BY <1>2 DEF set_dhcp_configuration, LanFails, SyncTypes
<1> QED
  BY <1>1, <1>2 DEF set_dhcp_configuration

\* The address and the netmask are written, or nothing is.
LEMMA LanManagementFacts ==
  ASSUME SyncTypes, NEW u, u.inet \in [Fields -> LanSettings], set_lan_management(u), job.do = "idle"
  PROVE  /\ rdkLan' \in [Fields -> LanSettings] /\ JobOK'
         /\ rdkLan'["range"] = rdkLan["range"]
         /\ \/ /\ \A f \in {"inet_addr", "netmask"} : rdkLan'[f] = u.inet[f]
               /\ \/ DhcpdChanged(u) /\ job'.do = "pool" /\ job'.pool = u.inet["range"]
                  \/ ~DhcpdChanged(u) /\ job'.do = "idle"
            \/ /\ {"inet_addr", "netmask"} \subseteq lanSkew'
               /\ "range" \in u.changed => "range" \in lanSkew'
               /\ job' = job
         /\ "range" \in lanSkew => "range" \in lanSkew'
<1> DEFINE two == {"inet_addr", "netmask"}
<1>1. CASE /\ SetLan(two, u.inet, lanSkew)
           /\ job' = IF DhcpdChanged(u) THEN [do |-> "pool", pool |-> u.inet["range"]] ELSE Idle
  <2>1. /\ rdkLan' = [f \in Fields |-> IF f \in two THEN u.inet[f] ELSE rdkLan[f]]
        /\ lanSkew' = lanSkew \ two
    BY <1>1 DEF SetLan
  <2>2. /\ rdkLan' \in [Fields -> LanSettings] /\ two \subseteq Fields
        /\ rdkLan'["range"] = rdkLan["range"]
    BY <2>1 DEF SyncTypes, Fields
  <2>3. \/ DhcpdChanged(u) /\ job'.do = "pool" /\ job'.pool = u.inet["range"]
        \/ ~DhcpdChanged(u) /\ job'.do = "idle"
    BY <1>1 DEF Idle
  <2>4. u.inet["range"] \in LanSettings
    BY DEF Fields
  <2>5. JobOK'
    BY <2>3, <2>4 DEF JobOK, JobKinds
  <2> QED
    BY <2>1, <2>2, <2>3, <2>5 DEF SyncTypes
<1>2. CASE LanFails(two \cup (u.changed \cap {"range"}), lanSkew) /\ UNCHANGED job
  BY <1>2 DEF LanFails, SyncTypes, JobOK
<1> QED
  BY <1>1, <1>2 DEF set_lan_management

\* All other actions leave the rules alone.
OtherSteps ==
    \/ connector_init \/ PoolRead \/ Subscribes \/ connector_sync_inet \/ SetPool \/ Crash
    \/ \E v \in LanSettings : (\E f \in Dhcpd : PageChangesPool(f, v)) \/ \E fs \in LanChanges : CloudChangesLan(fs, v)

LEMMA OtherFacts ==
  ASSUME SyncTypes, OtherSteps
  PROVE  SyncTypes' /\ UNCHANGED <<conf, table, lastIdx, skew>>
         /\ \/ UNCHANGED job /\ updates' = updates
            \/ UNCHANGED job /\ \E u \in Update : u.op = "inet" /\ updates' = Append(updates, u)
            \/ (connector_init \/ PoolRead \/ Crash) /\ ~Subscribed'
            \/ /\ Subscribed /\ job.do \in {"idle", "pool"} /\ job'.do \in {"idle", "pool"}
               /\ \/ updates' = updates
                  \/ Shifted(updates, updates') /\ updates[1].op = "inet"
            \/ Subscribes
<1>1. CASE connector_init
  BY <1>1 DEF connector_init, SyncTypes, JobOK, JobKinds, Down, Kinds, Subscribed, ovsdbVars, rdkVars
<1>2. CASE PoolRead
  <2>1. /\ job'.do = "put pool" /\ job'.pool = rdkLan["range"]
        /\ job'.options = AsOptions[rdkLan["options"]]
    BY <1>2 DEF PoolRead
  <2>2. JobOK'
    BY <2>1, ConnectorAssumption DEF JobOK, JobKinds, SyncTypes, Fields
  <2> QED
    BY <1>2, <2>1, <2>2 DEF PoolRead, SyncTypes, Subscribed, ovsdbVars, rdkVars
<1>3. CASE Subscribes
  <2>1. /\ lan' \in [Fields -> LanSettings] /\ updates' \in UpdateSeq
        /\ job' = Idle /\ UNCHANGED <<conf, rdkVars, skew, lanSkew>>
    BY <1>3, SubscribeFacts
  <2>2. JobOK'
    BY <2>1, IdleOK
  <2>3. SyncTypes'
    BY <2>1, <2>2 DEF SyncTypes, rdkVars
  <2> QED
    BY <1>3, <2>1, <2>3 DEF rdkVars
<1>4. CASE connector_sync_inet
  <2> DEFINE u == updates[1]
  <2>1. NextIs("inet") /\ Handled /\ connector_lan_br_config_push_rdk_dm(Head(updates))
        /\ UNCHANGED <<ovsdbVars, table, lastIdx, skew>>
    BY <1>4 DEF connector_sync_inet
  <2>2. /\ updates' \in UpdateSeq /\ Shifted(updates, updates') /\ Head(updates) = u
        /\ u.op = "inet" /\ u.inet \in [Fields -> LanSettings] /\ job.do = "idle"
    BY <2>1, HeadUpdate
  <2> HIDE DEF u
  <2>3. rdkLan' \in [Fields -> LanSettings] /\ JobOK' /\ job'.do \in {"idle", "pool"}
    <3>1. CASE set_lan_management(u)
      BY <2>2, <3>1, LanManagementFacts
    <3>2. CASE set_dhcp_configuration(u.inet["range"], lanSkew \cup Unpushed(u))
      <4>1. u.inet["range"] \in LanSettings
        BY <2>2 DEF Fields
      <4> QED
        BY <3>2, <4>1, PoolFacts, IdleOK
    <3>3. CASE UNCHANGED <<job, rdkLan>>
      BY <2>2, <3>3 DEF SyncTypes, JobOK
    <3> QED
      BY <2>1, <2>2, <3>1, <3>2, <3>3 DEF connector_lan_br_config_push_rdk_dm
  <2> QED
    BY <2>1, <2>2, <2>3 DEF SyncTypes, Subscribed, ovsdbVars, u
<1>5. CASE SetPool
  <2>1. set_dhcp_configuration(job.pool, lanSkew) /\ job.do = "pool" /\ job.pool \in LanSettings
        /\ UNCHANGED <<ovsdbVars, updates, table, lastIdx, skew>>
    BY <1>5 DEF SetPool, SyncTypes, JobOK
  <2>2. rdkLan' \in [Fields -> LanSettings] /\ job' = Idle
    BY <2>1, PoolFacts
  <2> QED
    BY <2>1, <2>2 DEF SyncTypes, JobOK, JobKinds, Idle, Subscribed, ovsdbVars
<1>6. CASE Crash
  <2>1. updates' \in UpdateSeq
    BY <1>6, EmptySeq DEF Crash, UpdateSeq
  <2> QED
    BY <1>6, <2>1 DEF Crash, SyncTypes, JobOK, JobKinds, Down, Subscribed, ovsdbVars, rdkVars
<1>7. ASSUME NEW v \in LanSettings, NEW f \in Dhcpd, PageChangesPool(f, v)
      PROVE  SyncTypes' /\ UNCHANGED <<conf, table, lastIdx, skew, job, updates>>
  BY <1>7 DEF PageChangesPool, SyncTypes, JobOK, ovsdbVars
<1>8. ASSUME NEW v \in LanSettings, NEW fs \in LanChanges, CloudChangesLan(fs, v)
      PROVE  /\ SyncTypes' /\ UNCHANGED <<conf, table, lastIdx, skew, job>>
             /\ \/ updates' = updates
                \/ \E u \in Update : u.op = "inet" /\ updates' = Append(updates, u)
  <2>1. fs \subseteq Fields /\ lan' = [f \in Fields |-> IF f \in fs THEN v ELSE lan[f]]
    BY <1>8, ConnectorAssumption DEF CloudChangesLan
  <2>2. lan' \in [Fields -> LanSettings]
    BY <2>1 DEF SyncTypes
  <2> DEFINE u == [op |-> "inet", inet |-> lan', changed |-> fs]
  <2>3. u \in Update /\ u.op = "inet"
    BY <2>1, <2>2 DEF Update
  <2>4. updates' = updates \/ updates' = Append(updates, u)
    BY <1>8 DEF CloudChangesLan, Notify
  <2>5. UNCHANGED <<conf, job, rdkVars, skew, lanSkew>>
    BY <1>8 DEF CloudChangesLan
  <2> HIDE DEF u
  <2>6. updates' \in UpdateSeq
    BY <2>3, <2>4, UpdatesBehind DEF SyncTypes
  <2>7. SyncTypes'
    BY <2>2, <2>5, <2>6 DEF SyncTypes, JobOK, rdkVars
  <2> QED
    BY <2>3, <2>4, <2>5, <2>7 DEF rdkVars
<1> QED
  BY <1>1, <1>2, <1>3, <1>4, <1>5, <1>6, <1>7, <1>8 DEF OtherSteps

\* What an action of a kind does to the rows of that kind; the other's stay.
LEMMA RowsOfKind ==
  ASSUME SyncTypes, NEW k \in Kinds, OfKinds(k)
  PROVE  /\ \A l \in Kinds : l # k => /\ table'[l] = table[l] /\ lastIdx'[l] = lastIdx[l]
                                     /\ skew'[l] = skew[l] /\ conf'[l] = conf[l]
         /\ lastIdx'[k] \in {lastIdx[k], lastIdx[k] + 1}
         /\ \/ lastIdx' = lastIdx /\ table'[k] \subseteq table[k]
            \/ /\ lastIdx'[k] = lastIdx[k] + 1
               /\ \E r \in Rules \cup {Empty} :
                    table'[k] = table[k] \cup {[idx |-> lastIdx[k] + 1, rule |-> r]}
            \/ /\ lastIdx' = lastIdx /\ FillRow(k) /\ Rows(k, job.idx) # {}
               /\ table'[k] = (table[k] \ Rows(k, job.idx)) \cup {[idx |-> job.idx, rule |-> job.rule]}
<1>1. CASE ReadTable(k)
  BY <1>1 DEF ReadTable, Skewed, SyncTypes, ovsdbVars, rdkVars
<1>2. CASE CleanRow(k)
  <2> DEFINE idx == Min(job.left)
             rules == {row.rule : row \in Rows(k, idx)}
  <2>1. DeleteTblRow(k, idx, rules) /\ UNCHANGED <<ovsdbVars, lastIdx>>
    BY <1>2 DEF CleanRow
  <2> HIDE DEF idx, rules
  <2> QED
    BY <2>1, DeletedRow, SkewedKinds DEF ovsdbVars, SyncTypes
<1>3. CASE AddTblRow(k)
  BY <1>3 DEF AddTblRow, Skewed, SyncTypes, ovsdbVars
<1>4. CASE FillRow(k)
  BY <1>4 DEF FillRow, Skewed, SyncTypes, ovsdbVars
<1>5. CASE FindRow(k)
  BY <1>5 DEF FindRow, Skewed, SyncTypes, ovsdbVars, rdkVars
<1>6. CASE DeleteRow(k)
  BY <1>6, DeletedRow, SkewedKinds DEF DeleteRow, ovsdbVars, SyncTypes
<1>7. CASE PageChangesTable(k)
  BY <1>7 DEF PageChangesTable, Skewed, SyncTypes, ovsdbVars
<1>8. ASSUME NEW r \in Rules, CloudChangesRule(k, r)
      PROVE  UNCHANGED <<table, lastIdx, skew>> /\ \A l \in Kinds : l # k => conf'[l] = conf[l]
  BY <1>8 DEF CloudChangesRule, SyncTypes, rdkVars
<1> QED
  BY <1>1, <1>2, <1>3, <1>4, <1>5, <1>6, <1>7, <1>8 DEF OfKinds

LEMMA TableOfKind ==
  ASSUME SyncTypes, TableInv, NEW k \in Kinds, OfKinds(k)
  PROVE  TableInv'
<1>1. /\ \A row \in table[k] : row.idx <= lastIdx[k] /\ row.idx \in Nat
      /\ \A row, other \in table[k] : row.idx = other.idx => row = other
      /\ lastIdx[k] \in Nat
  BY DEF TableInv, SyncTypes, TableRow
<1>2. /\ \A row \in table'[k] : row.idx <= lastIdx'[k]
      /\ \A row, other \in table'[k] : row.idx = other.idx => row = other
  <2>1. CASE lastIdx' = lastIdx /\ table'[k] \subseteq table[k]
    BY <1>1, <2>1
  <2>2. ASSUME NEW r, lastIdx'[k] = lastIdx[k] + 1,
               table'[k] = table[k] \cup {[idx |-> lastIdx[k] + 1, rule |-> r]}
        PROVE  /\ \A row \in table'[k] : row.idx <= lastIdx'[k]
               /\ \A row, other \in table'[k] : row.idx = other.idx => row = other
    <3>1. \A row \in table'[k] : row \in table[k] \/ row = [idx |-> lastIdx[k] + 1, rule |-> r]
      BY <2>2
    <3> QED
      BY <1>1, <2>2, <3>1
  <2>3. CASE /\ lastIdx' = lastIdx /\ Rows(k, job.idx) # {}
             /\ table'[k] = (table[k] \ Rows(k, job.idx)) \cup {[idx |-> job.idx, rule |-> job.rule]}
    <3>1. \A row \in table'[k] : \/ row \in table[k] /\ row.idx # job.idx
                                 \/ row = [idx |-> job.idx, rule |-> job.rule]
      BY <2>3 DEF Rows
    <3>2. job.idx <= lastIdx[k]
      BY <1>1, <2>3 DEF Rows
    <3> QED
      BY <1>1, <2>3, <3>1, <3>2
  <2> QED
    BY <2>1, <2>2, <2>3, RowsOfKind
<1>3. \A l \in Kinds : l # k => table'[l] = table[l] /\ lastIdx'[l] = lastIdx[l]
  BY RowsOfKind
<1> QED
  BY <1>2, <1>3 DEF TableInv

LEMMA CleanOfKind ==
  ASSUME SyncTypes, CleanInv, NEW k \in Kinds, OfKinds(k)
  PROVE  CleanInv'
<1>1. CASE ReadTable(k)
  <2>1. job.do = "clean" /\ job.kind = k /\ table' = table
    BY <1>1 DEF ReadTable, rdkVars
  <2>2. \A l \in Kinds : l # k => skew'[l] = skew[l]
    BY <1>1, RowsOfKind DEF OfKinds
  <2>3. CASE Cleaning(k, {row.idx : row \in table[k]})
    <3>1. job' = AfterClean(k) => table[k] = {}
      BY <2>3, CleaningFacts DEF Cleaning, AfterClean
    <3>2. \/ job'.do = "clean" /\ job'.kind = "portforward" /\ k = "reservation" /\ table[k] = {}
          \/ job'.do = "cleaning" /\ job'.kind = k /\ job'.left = {row.idx : row \in table[k]}
          \/ job'.do = "get pool" /\ k = "portforward" /\ table[k] = {}
      <4>1. CASE table[k] = {}
        <5>1. {row.idx : row \in table[k]} = {}
          BY <4>1
        <5>2. job' = AfterClean(k)
          BY <2>3, <5>1 DEF Cleaning
        <5> QED
          BY <4>1, <5>2 DEF AfterClean, Kinds
      <4>2. CASE table[k] # {}
        <5>1. {row.idx : row \in table[k]} # {}
          BY <4>2
        <5>2. job' = [do |-> "cleaning", kind |-> k, left |-> {row.idx : row \in table[k]}]
          BY <2>3, <5>1 DEF Cleaning
        <5> QED
          BY <5>2
      <4> QED
        BY <4>1, <4>2
    <3> QED
      BY <2>1, <2>2, <3>2 DEF CleanInv, Cleaned, Kinds
  <2>4. CASE job' = AfterClean(k) /\ Skewed(k, {row.rule : row \in table[k]})
    <3>1. skew'[k] = skew[k] \cup {row.rule : row \in table[k]}
      BY <2>4, SkewedKinds
    <3>2. \A row \in table[k] : row.rule \in skew'[k]
      BY <3>1
    <3>3. \/ job'.do = "clean" /\ job'.kind = "portforward" /\ k = "reservation"
          \/ job'.do = "get pool" /\ k = "portforward"
      BY <2>4 DEF AfterClean, Kinds
    <3> QED
      BY <2>1, <2>2, <3>2, <3>3 DEF CleanInv, Cleaned, Kinds
  <2> QED
    BY <1>1, <2>3, <2>4 DEF ReadTable
<1>2. CASE CleanRow(k)
  <2> DEFINE idx == Min(job.left)
             rules == {row.rule : row \in Rows(k, idx)}
             left == job.left \ {idx}
  <2>1. job.do = "cleaning" /\ job.kind = k /\ DeleteTblRow(k, idx, rules) /\ Cleaning(k, left)
    BY <1>2 DEF CleanRow
  <2>2. \A l \in Kinds : l # k => skew'[l] = skew[l] /\ table'[l] = table[l]
    BY <1>2, RowsOfKind DEF OfKinds
  <2>3. \A row \in Rows(k, idx) : row.rule \in rules
    OBVIOUS
  <2>4. \A i : i \in job.left /\ i # idx => i \in left
    OBVIOUS
  <2>5. \/ job'.do = "clean" /\ job'.kind = "portforward" /\ k = "reservation" /\ left = {}
        \/ job'.do = "cleaning" /\ job'.kind = k /\ job'.left = left
        \/ job'.do = "get pool" /\ k = "portforward" /\ left = {}
    BY <2>1 DEF Cleaning, AfterClean, Kinds
  <2> HIDE DEF idx, rules, left
  <2>6. \A row \in table'[k] : row.idx \in left \/ row.rule \in skew'[k]
    <3> SUFFICES ASSUME NEW row \in table'[k]
                 PROVE  row.idx \in left \/ row.rule \in skew'[k]
      OBVIOUS
    <3>1. CASE /\ skew' = skew /\ table'[k] = table[k] \ Rows(k, idx)
      <4>1. row \in table[k] /\ row.idx # idx
        BY <3>1 DEF Rows
      <4> QED
        BY <2>1, <2>4, <3>1, <4>1 DEF CleanInv
    <3>2. CASE Skewed(k, rules) /\ table' = table
      <4>1. row \in table[k] /\ skew'[k] = skew[k] \cup rules
        BY <3>2, SkewedKinds
      <4>2. row.idx = idx => row \in Rows(k, idx)
        BY <4>1 DEF Rows
      <4> QED
        BY <2>1, <2>3, <2>4, <4>1, <4>2 DEF CleanInv
    <3> QED
      BY <2>1, <3>1, <3>2, DeletedRow
  <2> QED
    BY <2>1, <2>2, <2>5, <2>6 DEF CleanInv, Cleaned, Kinds
<1>3. CASE AddTblRow(k) \/ FillRow(k) \/ FindRow(k) \/ DeleteRow(k)
  <2>1. job'.do \in {"idle", "fill", "delete"}
    BY <1>3 DEF AddTblRow, FillRow, FindRow, DeleteRow, Idle, NextIs
  <2> QED
    BY <2>1 DEF CleanInv, Cleaned
<1>4. CASE PageChangesTable(k)
  <2>1. job' = job
    BY <1>4 DEF PageChangesTable
  <2>2. \A l \in Kinds : l # k => skew'[l] = skew[l] /\ table'[l] = table[l]
    BY <1>4, RowsOfKind DEF OfKinds
  <2>3. /\ \A row \in table'[k] : row \in table[k] \/ row.rule \in skew'[k]
        /\ \A r \in skew[k] : r \in skew'[k]
    <3>1. ASSUME NEW r \in Rules, Skewed(k, {r}),
                 table' = [table EXCEPT ![k] = @ \cup {[idx |-> lastIdx[k] + 1, rule |-> r]}]
          PROVE  /\ \A other \in table'[k] : other \in table[k] \/ other.rule \in skew'[k]
                 /\ \A q \in skew[k] : q \in skew'[k]
      BY <3>1, SkewedKinds DEF SyncTypes
    <3>2. ASSUME NEW row \in table[k], Skewed(k, {row.rule}), table' = [table EXCEPT ![k] = @ \ {row}]
          PROVE  /\ \A other \in table'[k] : other \in table[k] \/ other.rule \in skew'[k]
                 /\ \A q \in skew[k] : q \in skew'[k]
      BY <3>2, SkewedKinds DEF SyncTypes
    <3> QED
      BY <1>4, <3>1, <3>2 DEF PageChangesTable
  <2> QED
    BY <2>1, <2>2, <2>3 DEF CleanInv, Cleaned
<1>5. ASSUME NEW r \in Rules, CloudChangesRule(k, r)
      PROVE  CleanInv'
  BY <1>5 DEF CloudChangesRule, CleanInv, Cleaned, rdkVars
<1> QED
  BY <1>1, <1>2, <1>3, <1>4, <1>5 DEF OfKinds

LEMMA RowOfKind ==
  ASSUME SyncTypes, TableInv, RowInv, NEW k \in Kinds, OfKinds(k)
  PROVE  RowInv'
<1>1. CASE ReadTable(k) \/ CleanRow(k)
  <2>1. ~Subscribed'
    BY <1>1, CleaningFacts DEF ReadTable, CleanRow
  <2> QED
    BY <2>1 DEF RowInv, Subscribed
<1>2. CASE AddTblRow(k)
  <2>1. CASE UNCHANGED job
    BY <1>2, <2>1 DEF AddTblRow, NextIs, Idle, RowInv
  <2>2. ASSUME NEW r, lastIdx' = [lastIdx EXCEPT ![k] = lastIdx[k] + 1],
               job' = [do |-> "fill", kind |-> k, rule |-> r, idx |-> lastIdx[k] + 1],
               table' = [table EXCEPT ![k] = @ \cup {[idx |-> lastIdx[k] + 1, rule |-> Empty]}]
        PROVE  RowInv'
    <3>1. /\ job'.do = "fill" /\ job'.kind = k /\ job'.idx = lastIdx[k] + 1
          /\ lastIdx[k] \in Nat /\ lastIdx'[k] = lastIdx[k] + 1
          /\ table'[k] = table[k] \cup {[idx |-> lastIdx[k] + 1, rule |-> Empty]}
      BY <2>2 DEF SyncTypes
    <3>2. \A row \in table[k] : row.idx <= lastIdx[k] /\ row.idx \in Nat
      BY DEF TableInv, SyncTypes, TableRow
    <3> QED
      BY <3>1, <3>2 DEF RowInv
  <2> QED
    BY <1>2, <2>1, <2>2 DEF AddTblRow
<1>3. CASE FillRow(k) \/ DeleteRow(k)
  BY <1>3 DEF FillRow, DeleteRow, Idle, RowInv
<1>4. CASE FindRow(k)
  <2> DEFINE r == Head(updates).rule
             first == Min(Matching(k, r))
  <2>1. table' = table /\ lastIdx' = lastIdx /\ job = Idle
    BY <1>4 DEF FindRow, rdkVars, NextIs
  <2>2. CASE job' \in {job, Idle}
    BY <2>1, <2>2 DEF RowInv, Idle
  <2>3. CASE Matching(k, r) # {} /\ job' = [do |-> "delete", kind |-> k, rule |-> r, idx |-> first]
    <3>1. job'.do = "delete" /\ job'.kind = k /\ job'.rule = r /\ job'.idx = first
      BY <2>3
    <3>2. Matching(k, r) \in SUBSET Nat
      BY DEF Matching, SyncTypes, TableRow
    <3>3. first \in Matching(k, r)
      BY <2>3, <3>2, MinOf
    <3> HIDE DEF r, first
    <3>4. PICK row \in table[k] : row.idx = first /\ row.rule = r
      BY <3>3 DEF Matching
    <3> QED
      BY <2>1, <3>1, <3>4 DEF RowInv, TableInv
  <2> QED
    BY <1>4, <2>2, <2>3 DEF FindRow
<1>5. CASE PageChangesTable(k)
  <2>1. job' = job
    BY <1>5 DEF PageChangesTable
  <2>2. \A l \in Kinds : /\ lastIdx[l] <= lastIdx'[l] /\ lastIdx[l] \in Nat /\ lastIdx'[l] \in Nat
                         /\ \A row \in table'[l] : row \in table[l] \/ row.idx > lastIdx[l]
    <3>1. \A l \in Kinds : lastIdx[l] \in Nat /\ (l # k => table'[l] = table[l] /\ lastIdx'[l] = lastIdx[l])
      BY <1>5, RowsOfKind DEF OfKinds, SyncTypes
    <3>2. ASSUME NEW r, lastIdx' = [lastIdx EXCEPT ![k] = lastIdx[k] + 1],
                 table' = [table EXCEPT ![k] = @ \cup {[idx |-> lastIdx[k] + 1, rule |-> r]}]
          PROVE  \A l \in Kinds : /\ lastIdx[l] <= lastIdx'[l] /\ lastIdx[l] \in Nat /\ lastIdx'[l] \in Nat
                                  /\ \A other \in table'[l] : other \in table[l] \/ other.idx > lastIdx[l]
      <4>1. /\ lastIdx'[k] = lastIdx[k] + 1
            /\ \A row \in table'[k] : row \in table[k] \/ row = [idx |-> lastIdx[k] + 1, rule |-> r]
        BY <3>2 DEF SyncTypes
      <4> QED
        BY <3>1, <4>1
    <3>3. ASSUME NEW row \in table[k], lastIdx' = lastIdx, table' = [table EXCEPT ![k] = @ \ {row}]
          PROVE  \A l \in Kinds : /\ lastIdx[l] <= lastIdx'[l] /\ lastIdx[l] \in Nat /\ lastIdx'[l] \in Nat
                                  /\ \A other \in table'[l] : other \in table[l] \/ other.idx > lastIdx[l]
      BY <3>1, <3>3 DEF SyncTypes
    <3> QED
      BY <1>5, <3>2, <3>3 DEF PageChangesTable
  <2>3. job.do \in {"fill", "delete"} => job.kind \in Kinds /\ job.idx \in Nat
    BY DEF SyncTypes, JobOK
  <2> QED
    BY <2>1, <2>2, <2>3 DEF RowInv
<1>6. ASSUME NEW r \in Rules, CloudChangesRule(k, r)
      PROVE  RowInv'
  BY <1>6 DEF CloudChangesRule, RowInv, rdkVars
<1> QED
  BY <1>1, <1>2, <1>3, <1>4, <1>5, <1>6 DEF OfKinds

LEMMA EmptyOfKind ==
  ASSUME SyncTypes, EmptyInv, NEW k \in Kinds, OfKinds(k)
  PROVE  EmptyInv'
<1>1. /\ \A l \in Kinds : l # k => table'[l] = table[l] /\ skew'[l] = skew[l]
      /\ Empty \notin Rules
  BY RowsOfKind, ConnectorAssumption
<1>2. CASE ReadTable(k) \/ CleanRow(k)
  <2>1. ~Subscribed'
    BY <1>2, CleaningFacts DEF ReadTable, CleanRow
  <2> QED
    BY <2>1 DEF EmptyInv
<1>3. CASE AddTblRow(k)
  <2>1. job.do = "idle" /\ Subscribed
    BY <1>3 DEF AddTblRow, NextIs, Idle, Subscribed
  <2>2. \A l \in Kinds : Empty \notin skew[l] => \A row \in table[l] : row.rule # Empty
    BY <2>1 DEF EmptyInv
  <2>3. CASE UNCHANGED <<table, job>> /\ Skewed(k, {Head(updates).rule})
    <3>1. Empty \in skew[k] => Empty \in skew'[k]
      BY <2>3, SkewedKinds
    <3> QED
      BY <1>1, <2>2, <2>3, <3>1 DEF EmptyInv
  <2>4. ASSUME NEW r, skew' = skew,
               job' = [do |-> "fill", kind |-> k, rule |-> r, idx |-> lastIdx[k] + 1],
               table' = [table EXCEPT ![k] = @ \cup {[idx |-> lastIdx[k] + 1, rule |-> Empty]}]
        PROVE  EmptyInv'
    <3>1. job'.do = "fill" /\ job'.kind = k /\ job'.idx = lastIdx[k] + 1
      BY <2>4
    <3>2. \A row \in table'[k] : row \in table[k] \/ row.idx = lastIdx[k] + 1
      BY <2>4 DEF SyncTypes
    <3> QED
      BY <1>1, <2>2, <2>4, <3>1, <3>2 DEF EmptyInv
  <2> QED
    BY <1>3, <2>3, <2>4 DEF AddTblRow
<1>4. CASE FillRow(k)
  <2>1. job.do = "fill" /\ job.kind = k /\ job.rule \in Rules /\ Subscribed /\ job'.do = "idle"
    BY <1>4 DEF FillRow, Idle, Subscribed, SyncTypes, JobOK
  <2>2. /\ \A l \in Kinds : l # k /\ Empty \notin skew[l] => \A row \in table[l] : row.rule # Empty
        /\ Empty \notin skew[k] => \A row \in table[k] : row.rule = Empty => row.idx = job.idx
    BY <2>1 DEF EmptyInv
  <2>3. CASE /\ skew' = skew
             /\ table' = [table EXCEPT ![k] = (@ \ Rows(k, job.idx)) \cup {[idx |-> job.idx, rule |-> job.rule]}]
    <3>1. \A row \in table'[k] : \/ row \in table[k] /\ row.idx # job.idx
                                 \/ row = [idx |-> job.idx, rule |-> job.rule]
      BY <2>3 DEF Rows, SyncTypes
    <3> QED
      BY <1>1, <2>1, <2>2, <2>3, <3>1 DEF EmptyInv
  <2>4. CASE Skewed(k, {job.rule, Empty}) /\ table' = table
    <3>1. Empty \in skew'[k]
      BY <2>4, SkewedKinds
    <3> QED
      BY <1>1, <2>1, <2>2, <2>4, <3>1 DEF EmptyInv
  <2> QED
    BY <1>4, <2>3, <2>4 DEF FillRow
<1>5. CASE FindRow(k) \/ DeleteRow(k)
  <2>1. Subscribed /\ job.do # "fill" /\ table'[k] \subseteq table[k]
    <3>1. CASE FindRow(k)
      BY <3>1 DEF FindRow, NextIs, Idle, Subscribed, rdkVars
    <3>2. CASE DeleteRow(k)
      BY <3>2, DeletedRow DEF DeleteRow, Subscribed
    <3> QED
      BY <1>5, <3>1, <3>2
  <2>2. skew[k] \subseteq skew'[k]
    <3>1. skew' = skew \/ \E rules : Skewed(k, rules)
      BY <1>5, DeletedRow DEF FindRow, DeleteRow
    <3> QED
      BY <3>1, SkewedKinds
  <2> QED
    BY <1>1, <2>1, <2>2 DEF EmptyInv
<1>6. CASE PageChangesTable(k)
  <2>1. job' = job
    BY <1>6 DEF PageChangesTable
  <2>2. /\ \A row \in table'[k] : row \in table[k] \/ row.rule # Empty
        /\ skew[k] \subseteq skew'[k]
    <3>1. ASSUME NEW r \in Rules, Skewed(k, {r}),
                 table' = [table EXCEPT ![k] = @ \cup {[idx |-> lastIdx[k] + 1, rule |-> r]}]
          PROVE  /\ \A other \in table'[k] : other \in table[k] \/ other.rule # Empty
                 /\ skew[k] \subseteq skew'[k]
      BY <1>1, <3>1, SkewedKinds DEF SyncTypes
    <3>2. ASSUME NEW row \in table[k], Skewed(k, {row.rule}), table' = [table EXCEPT ![k] = @ \ {row}]
          PROVE  /\ \A other \in table'[k] : other \in table[k] \/ other.rule # Empty
                 /\ skew[k] \subseteq skew'[k]
      BY <3>2, SkewedKinds DEF SyncTypes
    <3> QED
      BY <1>6, <3>1, <3>2 DEF PageChangesTable
  <2> QED
    BY <1>1, <2>1, <2>2 DEF EmptyInv, Subscribed
<1>7. ASSUME NEW r \in Rules, CloudChangesRule(k, r)
      PROVE  EmptyInv'
  BY <1>7 DEF CloudChangesRule, EmptyInv, Subscribed, rdkVars
<1> QED
  BY <1>2, <1>3, <1>4, <1>5, <1>6, <1>7 DEF OfKinds

\* A step that has nothing to do with a rule.
LEMMA RuleAside ==
  ASSUME NEW k \in Kinds, NEW r \in Rules, RuleOK(k, r), ChainKept(updates, updates', k, r),
         r \in conf'[k] <=> r \in conf[k], r \notin skew'[k] => r \notin skew[k],
         Matching(k, r)' = Matching(k, r),
         Filling(k, r)' <=> Filling(k, r), Deleting(k, r)' <=> Deleting(k, r)
  PROVE  RuleOK(k, r)'
<1>1. Added(k, r)' <=> Added(k, r)
  BY DEF Added
<1> DEFINE op == IF r \in conf[k] THEN "add" ELSE "del"
           first == IF Added(k, r) THEN "del" ELSE "add"
<1>2. op \in Ops /\ first \in Ops
  BY DEF Ops
<1>3. /\ op = IF r \in conf'[k] THEN "add" ELSE "del"
      /\ first = IF Added(k, r)' THEN "del" ELSE "add"
  BY <1>1
<1>4. /\ Alternates(updates, k, r) /\ EndsWith(updates, k, r, op)
      /\ r \notin skew[k] =>
           /\ \A i, j \in Matching(k, r) : i = j
           /\ Filling(k, r) => Matching(k, r) = {}
           /\ Of(updates, k, r) = {} => (Added(k, r) <=> r \in conf[k])
           /\ StartsWith(updates, k, r, first)
  BY DEF RuleOK
<1> HIDE DEF op, first
<1>5. /\ Alternates(updates', k, r) /\ EndsWith(updates', k, r, op)
      /\ StartsWith(updates, k, r, first) => StartsWith(updates', k, r, first)
      /\ Of(updates, k, r) = {} <=> Of(updates', k, r) = {}
  BY <1>2, <1>4 DEF ChainKept
<1>6. r \notin skew'[k] =>
           /\ \A i, j \in Matching(k, r)' : i = j
           /\ Filling(k, r)' => Matching(k, r)' = {}
           /\ Of(updates', k, r) = {} => (Added(k, r)' <=> r \in conf'[k])
           /\ StartsWith(updates', k, r, first)
  BY <1>1, <1>4, <1>5
<1> QED
  BY <1>3, <1>5, <1>6 DEF RuleOK

LEMMA SameChain ==
  ASSUME NEW s, NEW k, NEW r
  PROVE  ChainKept(s, s, k, r)
  BY DEF ChainKept

\* The update of a rule that XM handles.
LEMMA HandledRule ==
  ASSUME NEW k \in Kinds, NEW r \in Rules, RuleOK(k, r), Shifted(updates, updates'),
         updates[1].op \in Ops /\ updates[1].kind = k /\ updates[1].rule = r
  PROVE  /\ Alternates(updates', k, r)
         /\ EndsWith(updates', k, r, IF r \in conf[k] THEN "add" ELSE "del")
         /\ Of(updates', k, r) = {} => (updates[1].op = "add" <=> r \in conf[k])
         /\ StartsWith(updates', k, r, IF updates[1].op = "add" THEN "del" ELSE "add")
         /\ r \notin skew[k] => /\ updates[1].op = "add" <=> ~Added(k, r)
                               /\ \A i, j \in Matching(k, r) : i = j
                               /\ Filling(k, r) => Matching(k, r) = {}
<1> DEFINE op == IF r \in conf[k] THEN "add" ELSE "del"
           first == IF Added(k, r) THEN "del" ELSE "add"
           next == IF updates[1].op = "add" THEN "del" ELSE "add"
<1>1. /\ op \in Ops /\ first \in Ops /\ next \in Ops /\ next # updates[1].op
      /\ op = "add" <=> r \in conf[k]
      /\ first = "add" <=> ~Added(k, r)
  BY DEF Ops
<1>2. /\ Alternates(updates, k, r) /\ EndsWith(updates, k, r, op)
      /\ r \notin skew[k] => /\ StartsWith(updates, k, r, first)
                            /\ \A i, j \in Matching(k, r) : i = j
                            /\ Filling(k, r) => Matching(k, r) = {}
  BY DEF RuleOK
<1> HIDE DEF op, first, next
<1>3. /\ StartsWith(updates, k, r, first) => updates[1].op = first
      /\ StartsWith(updates', k, r, next)
      /\ EndsWith(updates', k, r, op) /\ (Of(updates', k, r) = {} => updates[1].op = op)
      /\ Alternates(updates', k, r)
  BY <1>1, <1>2, RuleShifted
<1>4. Of(updates', k, r) = {} => (updates[1].op = "add" <=> r \in conf[k])
  BY <1>1, <1>3
<1>5. r \notin skew[k] => (updates[1].op = "add" <=> ~Added(k, r))
  BY <1>1, <1>2, <1>3
<1> QED
  BY <1>2, <1>3, <1>4, <1>5 DEF op, next

LEMMA RulesOfKind ==
  ASSUME SyncTypes, TableInv, RowInv, RulesInv, NEW k \in Kinds, OfKinds(k)
  PROVE  RulesInv'
<1>1. /\ \A l \in Kinds : l # k => table'[l] = table[l] /\ skew'[l] = skew[l] /\ conf'[l] = conf[l]
      /\ Empty \notin Rules
  BY RowsOfKind, ConnectorAssumption
<1>2. \A l \in Kinds, r \in Rules : l # k => Matching(l, r)' = Matching(l, r)
  BY <1>1 DEF Matching
<1>3. CASE ReadTable(k) \/ CleanRow(k)
  <2>1. ~Subscribed'
    BY <1>3, CleaningFacts DEF ReadTable, CleanRow
  <2> QED
    BY <2>1 DEF RulesInv
<1>4. CASE AddTblRow(k)
  <2>0. PICK r : r = updates[1].rule
    OBVIOUS
  <2>1. NextIs("add") /\ Handled /\ conf' = conf /\ Head(updates).kind = k
    BY <1>4 DEF AddTblRow, ovsdbVars
  <2>2. /\ Shifted(updates, updates') /\ Head(updates) = updates[1]
        /\ updates[1].op = "add" /\ r \in Rules /\ job.do = "idle"
    BY <2>0, <2>1, HeadUpdate
  <2>3. \A l \in Kinds, q \in Rules : RuleOK(l, q)
    BY <2>2 DEF RulesInv, Subscribed
  <2>4. \A l \in Kinds, q \in Rules : l # k \/ q # r => ChainKept(updates, updates', l, q)
    BY <2>0, <2>1, <2>2, OtherShifted
  <2>5. /\ Alternates(updates', k, r)
        /\ EndsWith(updates', k, r, IF r \in conf[k] THEN "add" ELSE "del")
        /\ Of(updates', k, r) = {} => r \in conf[k]
        /\ StartsWith(updates', k, r, "del")
        /\ r \notin skew[k] => ~Added(k, r)
    <3>1. RuleOK(k, r) /\ updates[1].op \in Ops /\ updates[1].kind = k /\ updates[1].rule = r
      BY <2>0, <2>1, <2>2, <2>3 DEF Ops
    <3> QED
      BY <2>2, <3>1, HandledRule
  <2>6. \/ /\ table' = [table EXCEPT ![k] = @ \cup {[idx |-> lastIdx[k] + 1, rule |-> Empty]}]
           /\ job' = [do |-> "fill", kind |-> k, rule |-> r, idx |-> lastIdx[k] + 1]
           /\ skew' = skew
        \/ Skewed(k, {r}) /\ UNCHANGED <<table, job>>
    BY <1>4, <2>0, <2>2 DEF AddTblRow
  <2>7. \A q \in Rules : Matching(k, q)' = Matching(k, q)
    <3>1. table'[k] = table[k] \/ table'[k] = table[k] \cup {[idx |-> lastIdx[k] + 1, rule |-> Empty]}
      BY <2>6 DEF SyncTypes
    <3>2. \A q \in Rules : {row \in table'[k] : row.rule = q} = {row \in table[k] : row.rule = q}
      BY <1>1, <3>1
    <3> QED
      BY <3>2 DEF Matching
  <2>8. \A l \in Kinds, q \in Rules : l # k \/ q # r =>
          /\ Filling(l, q)' <=> Filling(l, q)
          /\ Deleting(l, q)' <=> Deleting(l, q)
          /\ q \notin skew'[l] => q \notin skew[l]
    <3>1. CASE Skewed(k, {r}) /\ UNCHANGED <<table, job>>
      BY <1>1, <3>1, SkewedKinds DEF Filling, Deleting
    <3>2. CASE /\ job' = [do |-> "fill", kind |-> k, rule |-> r, idx |-> lastIdx[k] + 1]
               /\ skew' = skew
      <4>1. job'.do = "fill" /\ job'.kind = k /\ job'.rule = r
        BY <3>2
      <4> QED
        BY <2>2, <3>2, <4>1 DEF Filling, Deleting
    <3> QED
      BY <2>6, <3>1, <3>2
  <2>9. \A l \in Kinds, q \in Rules : l # k \/ q # r => RuleOK(l, q)'
    BY <1>2, <2>1, <2>3, <2>4, <2>7, <2>8, RuleAside
  <2>10. RuleOK(k, r)'
    <3>1. CASE Skewed(k, {r})
      <4>1. r \in skew'[k]
        BY <3>1, SkewedKinds
      <4> QED
        BY <2>1, <2>5, <4>1 DEF RuleOK
    <3>2. CASE /\ job' = [do |-> "fill", kind |-> k, rule |-> r, idx |-> lastIdx[k] + 1]
               /\ skew' = skew
      <4>1. job'.do = "fill" /\ job'.kind = k /\ job'.rule = r
        BY <3>2
      <4>2. Filling(k, r)' /\ Added(k, r)' /\ ~Deleting(k, r)
        BY <2>2, <4>1 DEF Filling, Added, Deleting
      <4>3. r \notin skew[k] => Matching(k, r)' = {}
        BY <2>2, <2>5, <2>7, <4>2 DEF Added
      <4> QED
        BY <2>1, <2>5, <3>2, <4>2, <4>3 DEF RuleOK
    <3> QED
      BY <2>6, <3>1, <3>2
  <2> QED
    BY <2>9, <2>10 DEF RulesInv
<1>5. CASE FindRow(k)
  <2>0. PICK r : r = updates[1].rule
    OBVIOUS
  <2>1. NextIs("del") /\ Handled /\ conf' = conf /\ table' = table /\ Head(updates).kind = k
    BY <1>5 DEF FindRow, ovsdbVars, rdkVars
  <2>2. /\ Shifted(updates, updates') /\ Head(updates) = updates[1]
        /\ updates[1].op = "del" /\ r \in Rules /\ job.do = "idle"
    BY <2>0, <2>1, HeadUpdate
  <2>3. \A l \in Kinds, q \in Rules : RuleOK(l, q)
    BY <2>2 DEF RulesInv, Subscribed
  <2>4. \A l \in Kinds, q \in Rules : l # k \/ q # r => ChainKept(updates, updates', l, q)
    BY <2>0, <2>1, <2>2, OtherShifted
  <2>5. /\ Alternates(updates', k, r)
        /\ EndsWith(updates', k, r, IF r \in conf[k] THEN "add" ELSE "del")
        /\ Of(updates', k, r) = {} => r \notin conf[k]
        /\ StartsWith(updates', k, r, "add")
        /\ r \notin skew[k] => Added(k, r) /\ \A i, j \in Matching(k, r) : i = j
    <3>1. RuleOK(k, r) /\ updates[1].op \in Ops /\ updates[1].kind = k /\ updates[1].rule = r
      BY <2>0, <2>1, <2>2, <2>3 DEF Ops
    <3>2. /\ Alternates(updates', k, r)
          /\ EndsWith(updates', k, r, IF r \in conf[k] THEN "add" ELSE "del")
          /\ Of(updates', k, r) = {} => (updates[1].op = "add" <=> r \in conf[k])
          /\ StartsWith(updates', k, r, IF updates[1].op = "add" THEN "del" ELSE "add")
      BY <2>2, <3>1, HandledRule
    <3>4. r \notin skew[k] => (updates[1].op = "add" <=> ~Added(k, r))
      BY <2>2, <3>1, HandledRule
    <3>5. r \notin skew[k] => \A i, j \in Matching(k, r) : i = j
      BY <3>1 DEF RuleOK
    <3>3. updates[1].op # "add" /\ (IF updates[1].op = "add" THEN "del" ELSE "add") = "add"
      BY <2>2
    <3> QED
      BY <3>2, <3>3, <3>4, <3>5
  <2>6. \/ Skewed(k, {r}) /\ job' = job
        \/ Matching(k, r) = {} /\ job' = Idle /\ skew' = skew
        \/ /\ job' = [do |-> "delete", kind |-> k, rule |-> r, idx |-> Min(Matching(k, r))]
           /\ skew' = skew
    BY <1>5, <2>0, <2>2 DEF FindRow
  <2>7. \A l \in Kinds, q \in Rules : Matching(l, q)' = Matching(l, q)
    BY <2>1 DEF Matching
  <2>8. \/ job'.do = "idle"
        \/ job'.do = "delete" /\ job'.kind = k /\ job'.rule = r
    BY <2>2, <2>6 DEF Idle
  <2>9. \A q : q \in skew[k] => q \in skew'[k]
    BY <2>6, SkewedKinds
  <2>10. \A l \in Kinds, q \in Rules : l # k \/ q # r =>
          /\ Filling(l, q)' <=> Filling(l, q)
          /\ Deleting(l, q)' <=> Deleting(l, q)
          /\ q \notin skew'[l] => q \notin skew[l]
    BY <1>1, <2>2, <2>8, <2>9 DEF Filling, Deleting
  <2>11. \A l \in Kinds, q \in Rules : l # k \/ q # r => RuleOK(l, q)'
    BY <2>1, <2>3, <2>4, <2>7, <2>10, RuleAside
  <2>12. RuleOK(k, r)'
    <3>1. CASE r \in skew'[k]
      BY <2>1, <2>5, <3>1 DEF RuleOK
    <3>2. CASE r \notin skew'[k]
      <4>1. r \notin skew[k] /\ Added(k, r) /\ Matching(k, r) # {}
        BY <2>2, <2>5, <2>9, <3>2 DEF Added, Filling
      <4>2. ~Skewed(k, {r})
        BY <3>2, SkewedKinds
      <4>3. Deleting(k, r)' /\ ~Filling(k, r)' /\ ~Added(k, r)'
        <5>1. job' = [do |-> "delete", kind |-> k, rule |-> r, idx |-> Min(Matching(k, r))]
          BY <2>6, <4>1, <4>2
        <5>2. job'.do = "delete" /\ job'.kind = k /\ job'.rule = r
          BY <5>1
        <5> QED
          BY <5>2 DEF Deleting, Filling, Added
      <4>4. \A i, j \in Matching(k, r)' : i = j
        BY <2>2, <2>5, <2>7, <4>1
      <4>5. (IF Added(k, r)' THEN "del" ELSE "add") = "add"
        BY <4>3
      <4>6. Of(updates', k, r) = {} => (Added(k, r)' <=> r \in conf'[k])
        BY <2>1, <2>5, <4>3
      <4> QED
        BY <2>1, <2>5, <4>3, <4>4, <4>5, <4>6 DEF RuleOK
    <3> QED
      BY <3>1, <3>2
  <2> QED
    BY <2>11, <2>12 DEF RulesInv
\* The second half of both: the job ends.
<1>6. ASSUME NEW r \in Rules, job.do \in {"fill", "delete"}, job.kind = k, job.rule = r, job' = Idle,
             updates' = updates, conf' = conf,
             \A q : q \in skew[k] => q \in skew'[k],
             \A q \in Rules : q # r => Matching(k, q)' = Matching(k, q),
             r \notin skew'[k] =>
               IF job.do = "fill" THEN \E i : Matching(k, r)' = {i} ELSE Matching(k, r)' = {}
      PROVE  RulesInv'
  <2>1. \A l \in Kinds, q \in Rules : RuleOK(l, q)
    BY <1>6 DEF RulesInv, Subscribed
  <2>2. job'.do = "idle"
    BY <1>6 DEF Idle
  <2>3. \A l \in Kinds, q \in Rules : ~Filling(l, q)' /\ ~Deleting(l, q)'
    BY <2>2 DEF Filling, Deleting
  <2>4. \A l \in Kinds, q \in Rules : l # k \/ q # r => ~Filling(l, q) /\ ~Deleting(l, q)
    BY <1>6 DEF Filling, Deleting
  <2>5. \A l \in Kinds, q \in Rules : l # k \/ q # r => RuleOK(l, q)'
    BY <1>1, <1>2, <1>6, <2>1, <2>3, <2>4, SameChain, RuleAside
  <2>6. RuleOK(k, r)
    BY <2>1
  <2>7. RuleOK(k, r)'
    <3>1. CASE r \in skew'[k]
      BY <1>6, <2>6, <3>1 DEF RuleOK
    <3>2. CASE r \notin skew'[k]
      <4>1. Added(k, r)' <=> Added(k, r)
        BY <1>6, <2>3, <3>2 DEF Added, Filling, Deleting
      <4>2. \A i, j \in Matching(k, r)' : i = j
        BY <1>6, <3>2
      <4> QED
        BY <1>6, <2>3, <2>6, <3>2, <4>1, <4>2 DEF RuleOK
    <3> QED
      BY <3>1, <3>2
  <2> QED
    BY <2>5, <2>7 DEF RulesInv
<1>7. CASE FillRow(k)
  <2>0. PICK r : r = job.rule
    OBVIOUS
  <2>1. /\ job.do = "fill" /\ job.kind = k /\ r \in Rules /\ job' = Idle /\ job.idx \in Nat
        /\ updates' = updates /\ conf' = conf
    BY <1>7, <2>0 DEF FillRow, SyncTypes, JobOK, ovsdbVars
  <2>2. r \notin skew[k] => Matching(k, r) = {}
    BY <2>0, <2>1 DEF RulesInv, Subscribed, RuleOK, Filling
  <2>3. \A row \in Rows(k, job.idx) : row.rule = Empty
    BY <2>0, <2>1 DEF RowInv, Rows
  <2>4. CASE /\ skew' = skew
             /\ table' = [table EXCEPT ![k] = (@ \ Rows(k, job.idx)) \cup {[idx |-> job.idx, rule |-> r]}]
    <3>1. table'[k] = (table[k] \ Rows(k, job.idx)) \cup {[idx |-> job.idx, rule |-> r]}
      BY <2>4 DEF SyncTypes
    <3>2. \A q \in Rules : q # r =>
            {row \in table'[k] : row.rule = q} = {row \in table[k] : row.rule = q}
      BY <1>1, <2>3, <3>1
    <3>3. \A q \in Rules : q # r => Matching(k, q)' = Matching(k, q)
      BY <3>2 DEF Matching
    <3>4. ASSUME r \notin skew[k]
          PROVE  Matching(k, r)' = {job.idx}
      <4>1. {row \in table[k] : row.rule = r} = {}
        BY <2>2, <3>4 DEF Matching
      <4>2. {row \in table'[k] : row.rule = r} = {[idx |-> job.idx, rule |-> r]}
        BY <3>1, <4>1
      <4>3. Matching(k, r)' = {row.idx : row \in {[idx |-> job.idx, rule |-> r]}}
        BY <4>2, Zenon DEF Matching
      <4> QED
        BY <4>3
    <3> QED
      BY <1>6, <2>0, <2>1, <2>4, <3>3, <3>4
  <2>5. CASE Skewed(k, {r, Empty}) /\ table' = table
    <3>1. skew'[k] = skew[k] \cup {r, Empty}
      BY <2>5, SkewedKinds
    <3>2. \A q \in Rules : Matching(k, q)' = Matching(k, q)
      BY <2>5 DEF Matching
    <3> QED
      BY <1>6, <2>0, <2>1, <3>1, <3>2
  <2> QED
    BY <1>7, <2>0, <2>4, <2>5 DEF FillRow
<1>8. CASE DeleteRow(k)
  <2>0. PICK r : r = job.rule
    OBVIOUS
  <2>1. /\ job.do = "delete" /\ job.kind = k /\ r \in Rules /\ job' = Idle /\ job.idx \in Nat
        /\ updates' = updates /\ conf' = conf /\ DeleteTblRow(k, job.idx, {r})
    BY <1>8, <2>0 DEF DeleteRow, SyncTypes, JobOK, ovsdbVars
  <2>2. r \notin skew[k] => \A i, j \in Matching(k, r) : i = j
    BY <2>1 DEF RulesInv, Subscribed, RuleOK
  <2>3. \A row \in Rows(k, job.idx) : row.rule = r /\ row.idx = job.idx
    BY <2>0, <2>1 DEF RowInv, Rows
  <2>4. CASE /\ skew' = skew /\ Rows(k, job.idx) # {}
             /\ table'[k] = table[k] \ Rows(k, job.idx)
    <3>1. \A q \in Rules : q # r =>
            {row \in table'[k] : row.rule = q} = {row \in table[k] : row.rule = q}
      BY <2>3, <2>4
    <3>2. \A q \in Rules : q # r => Matching(k, q)' = Matching(k, q)
      BY <3>1 DEF Matching
    <3>3. ASSUME r \notin skew[k]
          PROVE  Matching(k, r)' = {}
      <4>1. job.idx \in Matching(k, r)
        BY <2>3, <2>4 DEF Matching, Rows
      <4>2. \A row \in table[k] : row.rule = r => row.idx = job.idx
        BY <2>2, <3>3, <4>1 DEF Matching
      <4>3. {row \in table'[k] : row.rule = r} = {}
        BY <2>4, <4>2 DEF Rows
      <4> QED
        BY <4>3 DEF Matching
    <3> QED
      BY <1>6, <2>0, <2>1, <2>4, <3>2, <3>3
  <2>5. CASE Skewed(k, {r}) /\ table' = table
    <3>1. skew'[k] = skew[k] \cup {r}
      BY <2>5, SkewedKinds
    <3>2. \A q \in Rules : Matching(k, q)' = Matching(k, q)
      BY <2>5 DEF Matching
    <3> QED
      BY <1>6, <2>0, <2>1, <3>1, <3>2
  <2> QED
    BY <2>1, <2>4, <2>5, DeletedRow
<1>9. CASE PageChangesTable(k)
  <2>1. job' = job /\ updates' = updates /\ conf' = conf
    BY <1>9 DEF PageChangesTable, ovsdbVars
  <2>2. \E r : /\ skew'[k] = skew[k] \cup {r}
               /\ \A q \in Rules : q # r =>
                    {row \in table'[k] : row.rule = q} = {row \in table[k] : row.rule = q}
    <3>1. ASSUME NEW r \in Rules, Skewed(k, {r}),
                 table' = [table EXCEPT ![k] = @ \cup {[idx |-> lastIdx[k] + 1, rule |-> r]}]
          PROVE  /\ skew'[k] = skew[k] \cup {r}
                 /\ \A q \in Rules : q # r =>
                      {row \in table'[k] : row.rule = q} = {row \in table[k] : row.rule = q}
      BY <3>1, SkewedKinds DEF SyncTypes
    <3>2. ASSUME NEW old \in table[k], Skewed(k, {old.rule}), table' = [table EXCEPT ![k] = @ \ {old}]
          PROVE  /\ skew'[k] = skew[k] \cup {old.rule}
                 /\ \A q \in Rules : q # old.rule =>
                      {row \in table'[k] : row.rule = q} = {row \in table[k] : row.rule = q}
      BY <3>2, SkewedKinds DEF SyncTypes
    <3> QED
      BY <1>9, <3>1, <3>2 DEF PageChangesTable
  <2>3. PICK r : /\ skew'[k] = skew[k] \cup {r}
                 /\ \A q \in Rules : q # r =>
                      {row \in table'[k] : row.rule = q} = {row \in table[k] : row.rule = q}
    BY <2>2
  <2>4. \A q \in Rules : q # r => Matching(k, q)' = Matching(k, q)
    BY <2>3 DEF Matching
  <2> SUFFICES ASSUME Subscribed', NEW l \in Kinds, NEW q \in Rules
               PROVE  RuleOK(l, q)'
    BY DEF RulesInv
  <2>5. RuleOK(l, q)
    BY <2>1 DEF RulesInv, Subscribed
  <2>6. CASE l = k /\ q = r
    <3>1. q \in skew'[l]
      BY <2>3, <2>6
    <3> QED
      BY <2>1, <2>5, <3>1 DEF RuleOK
  <2>7. CASE l # k \/ q # r
    <3>1. Matching(l, q)' = Matching(l, q) /\ (q \notin skew'[l] => q \notin skew[l])
      BY <1>1, <1>2, <2>3, <2>4, <2>7
    <3>2. (Filling(l, q)' <=> Filling(l, q)) /\ (Deleting(l, q)' <=> Deleting(l, q))
      BY <2>1 DEF Filling, Deleting
    <3> QED
      BY <2>1, <2>5, <3>1, <3>2, SameChain, RuleAside
  <2> QED
    BY <2>6, <2>7
<1>10. ASSUME NEW r \in Rules, CloudChangesRule(k, r)
       PROVE  RulesInv'
  <2>1. UNCHANGED <<job, table, skew>>
    BY <1>10 DEF CloudChangesRule, rdkVars
  <2> SUFFICES ASSUME Subscribed
               PROVE  \A l \in Kinds, q \in Rules : RuleOK(l, q)'
    BY <2>1 DEF RulesInv, Subscribed
  <2> DEFINE op == IF r \in conf[k] THEN "add" ELSE "del"
             uop == IF r \in conf[k] THEN "del" ELSE "add"
             u == [op |-> uop, kind |-> k, rule |-> r]
  <2>2. /\ updates' = Append(updates, u) /\ conf' = [conf EXCEPT ![k] = IF r \in @ THEN @ \ {r} ELSE @ \cup {r}]
    BY <1>10 DEF CloudChangesRule, Notify
  <2>3. /\ op \in Ops /\ uop \in Ops /\ op # uop /\ u.op = uop /\ u.kind = k /\ u.rule = r
        /\ uop = IF r \in conf'[k] THEN "add" ELSE "del"
        /\ \A q \in Rules : q # r => (q \in conf'[k] <=> q \in conf[k])
    BY <2>2 DEF Ops, SyncTypes
  <2>4. u \in Update
    BY DEF Update
  <2>5. Behind(updates, updates', u)
    BY <2>2, <2>4, UpdatesBehind DEF SyncTypes
  <2>6. \A l \in Kinds, q \in Rules : RuleOK(l, q)
    BY DEF RulesInv
  <2>7. ASSUME NEW l \in Kinds, NEW q \in Rules
        PROVE  /\ Matching(l, q)' = Matching(l, q)
               /\ Filling(l, q)' <=> Filling(l, q)
               /\ Deleting(l, q)' <=> Deleting(l, q)
               /\ Added(l, q)' <=> Added(l, q)
    <3>1. Matching(l, q)' = Matching(l, q)
      BY <2>1 DEF Matching
    <3>2. (Filling(l, q)' <=> Filling(l, q)) /\ (Deleting(l, q)' <=> Deleting(l, q))
      BY <2>1 DEF Filling, Deleting
    <3> QED
      BY <3>1, <3>2 DEF Added
  <2>8. RuleOK(k, r)
    BY <2>6
  <2>9. EndsWith(updates, k, r, op) /\ Alternates(updates, k, r)
    BY <2>8 DEF RuleOK
  <2>10. r \notin skew[k] =>
          /\ \A i, j \in Matching(k, r) : i = j
          /\ Filling(k, r) => Matching(k, r) = {}
          /\ Of(updates, k, r) = {} => uop = IF Added(k, r) THEN "del" ELSE "add"
          /\ StartsWith(updates, k, r, IF Added(k, r) THEN "del" ELSE "add")
    BY <2>8 DEF RuleOK
  <2> HIDE DEF op, uop, u
  <2>11. ASSUME NEW l \in Kinds, NEW q \in Rules, l # k \/ q # r
         PROVE  RuleOK(l, q)'
    <3>1. ChainKept(updates, updates', l, q)
      BY <2>3, <2>5, <2>11, OtherBehind
    <3>2. q \in conf'[l] <=> q \in conf[l]
      BY <1>1, <2>3, <2>11
    <3>3. RuleOK(l, q) /\ skew' = skew
      BY <2>1, <2>6
    <3>4. /\ Matching(l, q)' = Matching(l, q)
          /\ Filling(l, q)' <=> Filling(l, q)
          /\ Deleting(l, q)' <=> Deleting(l, q)
      BY <2>7
    <3> QED
      BY <3>1, <3>2, <3>3, <3>4, RuleAside
  <2>12. /\ Of(updates', k, r) # {}
         /\ EndsWith(updates', k, r, uop)
         /\ Alternates(updates', k, r)
         /\ Of(updates, k, r) = {} => StartsWith(updates', k, r, uop)
         /\ Of(updates, k, r) # {} =>
              \A p \in Ops : StartsWith(updates, k, r, p) => StartsWith(updates', k, r, p)
    BY <2>3, <2>5, <2>9, RuleBehind
  <2>13. r \notin skew[k] => StartsWith(updates', k, r, IF Added(k, r) THEN "del" ELSE "add")
    <3>1. (IF Added(k, r) THEN "del" ELSE "add") \in Ops
      BY DEF Ops
    <3> QED
      BY <2>10, <2>12, <3>1
  <2>14. RuleOK(k, r)'
    BY <2>1, <2>3, <2>7, <2>10, <2>12, <2>13 DEF RuleOK
  <2> QED
    BY <2>11, <2>14
<1> QED
  BY <1>3, <1>4, <1>5, <1>7, <1>8, <1>9, <1>10 DEF OfKinds

LEMMA LanOfKind ==
  ASSUME SyncTypes, LanInv, NEW k \in Kinds, OfKinds(k)
  PROVE  LanInv'
<1>1. CASE ReadTable(k) \/ CleanRow(k)
  <2>1. ~Subscribed'
    BY <1>1, CleaningFacts DEF ReadTable, CleanRow
  <2> QED
    BY <2>1 DEF LanInv
<1>2. CASE ~(ReadTable(k) \/ CleanRow(k))
  <2>1. UNCHANGED <<lan, rdkLan, lanSkew>>
    BY <1>2 DEF OfKinds, AddTblRow, FillRow, FindRow, DeleteRow, PageChangesTable, CloudChangesRule,
       ovsdbVars, rdkVars
  <2>2. \/ job' = job
        \/ job.do # "pool" /\ job'.do # "pool" /\ Subscribed
    <3>1. CASE AddTblRow(k)
      BY <3>1 DEF AddTblRow, NextIs, Idle, Subscribed
    <3>2. CASE FindRow(k)
      BY <3>2 DEF FindRow, NextIs, Idle, Subscribed
    <3>3. CASE FillRow(k)
      BY <3>3 DEF FillRow, Idle, Subscribed
    <3>4. CASE DeleteRow(k)
      BY <3>4 DEF DeleteRow, Idle, Subscribed
    <3>5. PageChangesTable(k) \/ (\E r \in Rules : CloudChangesRule(k, r)) => job' = job
      BY DEF PageChangesTable, CloudChangesRule
    <3> QED
      BY <1>2, <3>1, <3>2, <3>3, <3>4, <3>5 DEF OfKinds
  <2>3. Subscribed =>
          \/ updates' = updates
          \/ Shifted(updates, updates') /\ updates[1].op # "inet"
          \/ \E u : u.op # "inet" /\ Behind(updates, updates', u)
    <3>1. ASSUME NEW op \in Ops, NextIs(op), Handled
          PROVE  Shifted(updates, updates') /\ updates[1].op # "inet"
      BY <3>1, HeadUpdate DEF Ops
    <3>2. ASSUME NEW r \in Rules, CloudChangesRule(k, r), Subscribed
          PROVE  \E u : u.op # "inet" /\ Behind(updates, updates', u)
      <4>1. PICK op \in Ops : updates' = Append(updates, [op |-> op, kind |-> k, rule |-> r])
        BY <3>2 DEF CloudChangesRule, Notify, Ops
      <4>2. PICK u : u = [op |-> op, kind |-> k, rule |-> r]
        OBVIOUS
      <4>3. u \in Update /\ u.op # "inet"
        BY <4>2 DEF Update, Ops
      <4> QED
        BY <4>1, <4>2, <4>3, UpdatesBehind DEF SyncTypes
    <3> QED
      BY <1>2, <3>1, <3>2 DEF OfKinds, AddTblRow, FillRow, FindRow, DeleteRow, PageChangesTable, Ops
  <2> SUFFICES ASSUME Subscribed, NEW f \in Pushed
               PROVE  SettingOK(f)'
    BY <2>2 DEF LanInv, Subscribed, Pushed
  <2>4. SettingOK(f)
    BY DEF LanInv
  <2>5. LatestIs(updates', f, lan[f]) /\ (Settled(updates', f) <=> Settled(updates, f))
    BY <2>3, <2>4, SettingShifted, SettingBehind DEF SettingOK
  <2> QED
    BY <2>1, <2>2, <2>4, <2>5 DEF SettingOK
<1> QED
  BY <1>1, <1>2

LEMMA RulesAside ==
  ASSUME SyncTypes, SyncInv, OtherSteps
  PROVE  CleanInv' /\ RowInv' /\ EmptyInv' /\ RulesInv'
<1>1. UNCHANGED <<conf, table, lastIdx, skew>>
  BY OtherFacts
<1>2. CASE Subscribes
  <2>1. \A k \in Kinds : \A row \in table[k] : row.rule \in skew[k]
    BY <1>2 DEF Subscribes, SyncInv, CleanInv, Cleaned
  <2>2. job' = Idle /\ job'.do = "idle"
    BY <1>2, SubscribeFacts DEF Idle
  <2>3. ASSUME NEW k \in Kinds, NEW r \in Rules
        PROVE  RuleOK(k, r)'
    <3>1. /\ Of(updates', k, r) = {} <=> r \notin conf[k]
          /\ \A i, j \in Of(updates', k, r) : i = j
          /\ \A i \in Of(updates', k, r) : updates'[i].op = "add"
          /\ updates' \in UpdateSeq
      BY <1>2, SubscribeFacts
    <3>2. Alternates(updates', k, r) /\ StartsWith(updates', k, r, "add")
          /\ EndsWith(updates', k, r, IF r \in conf[k] THEN "add" ELSE "del")
      <4>1. DOMAIN updates' = 1 .. Len(updates')
        BY <3>1, LenProperties DEF UpdateSeq
      <4>2. \A i \in Of(updates', k, r) : i \in Int
        BY <4>1 DEF Of
      <4> QED
        BY <3>1, <4>2 DEF Alternates, StartsWith, EndsWith
    <3>3. ~Filling(k, r)' /\ ~Deleting(k, r)'
      BY <2>2 DEF Filling, Deleting
    <3>4. r \notin skew[k] => Matching(k, r)' = {} /\ ~Added(k, r)'
      BY <1>1, <2>1, <3>3 DEF Matching, Added
    <3> QED
      BY <1>1, <3>1, <3>2, <3>3, <3>4 DEF RuleOK
  <2> QED
    BY <1>1, <2>1, <2>2, <2>3 DEF CleanInv, Cleaned, RowInv, EmptyInv, RulesInv
<1>3. CASE connector_init \/ PoolRead \/ Crash
  <2>1. \/ job'.do = "clean" /\ job'.kind = "reservation"
        \/ job'.do = "down"
        \/ job'.do = "put pool" /\ job.do = "get pool"
    <3>1. CASE connector_init
      BY <3>1 DEF connector_init
    <3>2. CASE PoolRead
      BY <3>2 DEF PoolRead
    <3>3. CASE Crash
      BY <3>3 DEF Crash, Down
    <3> QED
      BY <1>3, <3>1, <3>2, <3>3
  <2> QED
    BY <1>1, <2>1 DEF SyncInv, CleanInv, Cleaned, RowInv, EmptyInv, RulesInv, Subscribed
<1>4. CASE \/ UNCHANGED job
           \/ Subscribed /\ job.do \in {"idle", "pool"} /\ job'.do \in {"idle", "pool"}
  <2>1. CleanInv' /\ RowInv' /\ EmptyInv'
    BY <1>1, <1>4 DEF SyncInv, CleanInv, Cleaned, RowInv, EmptyInv, Subscribed
  <2>2. CASE Subscribes
    BY <1>2, <2>2
  <2>3. CASE ~Subscribes
    <3> SUFFICES ASSUME Subscribed, NEW k \in Kinds, NEW r \in Rules
                 PROVE  RuleOK(k, r)'
      <4>1. Subscribed' => Subscribed
        BY <1>4 DEF Subscribed
      <4> QED
        BY <2>1, <4>1 DEF RulesInv
    <3>1. RuleOK(k, r)
      BY DEF SyncInv, RulesInv
    <3>2. (Filling(k, r)' <=> Filling(k, r)) /\ (Deleting(k, r)' <=> Deleting(k, r))
      BY <1>4 DEF Filling, Deleting
    <3>3. Matching(k, r)' = Matching(k, r)
      BY <1>1 DEF Matching
    <3>4. \/ updates' = updates
          \/ \E u \in Update : u.op = "inet" /\ updates' = Append(updates, u)
          \/ ~Subscribed'
          \/ Shifted(updates, updates') /\ updates[1].op = "inet"
      BY <2>3, OtherFacts, Zenon
    <3>5. Subscribed'
      BY <1>4 DEF Subscribed
    <3>6. ChainKept(updates, updates', k, r)
      <4>1. ASSUME NEW u \in Update, u.op = "inet", updates' = Append(updates, u)
            PROVE  ChainKept(updates, updates', k, r)
        <5>1. Behind(updates, updates', u)
          BY <4>1, UpdatesBehind DEF SyncTypes
        <5> QED
          BY <4>1, <5>1, OtherBehind
      <4> QED
        BY <3>4, <3>5, <4>1, SameChain, OtherShifted
    <3> QED
      BY <1>1, <3>1, <3>2, <3>3, <3>6, RuleAside
  <2> QED
    BY <2>1, <2>2, <2>3
<1> QED
  BY <1>2, <1>3, <1>4, OtherFacts

LEMMA LanAside ==
  ASSUME SyncTypes, LanInv, OtherSteps
  PROVE  LanInv'
<1>1. CASE connector_init \/ PoolRead \/ Crash
  <2>1. job'.do \in {"clean", "put pool", "down"}
    <3>1. CASE connector_init
      BY <3>1 DEF connector_init
    <3>2. CASE PoolRead
      BY <3>2 DEF PoolRead
    <3>3. CASE Crash
      BY <3>3 DEF Crash, Down
    <3> QED
      BY <1>1, <3>1, <3>2, <3>3
  <2> QED
    BY <2>1 DEF LanInv, Subscribed
<1>2. CASE Subscribes
  <2>1. /\ lan' \in [Fields -> LanSettings] /\ Inets(updates') = {1}
        /\ updates'[1].inet = lan' /\ updates'[1].changed = Fields
    BY <1>2, SubscribeFacts
  <2> SUFFICES ASSUME NEW f \in Pushed
               PROVE  SettingOK(f)'
    BY DEF LanInv, Pushed
  <2>2. f \in Fields
    BY DEF Pushed, Fields
  <2>3. LatestIs(updates', f, lan'[f]) /\ ~Settled(updates', f)
    BY <2>1, <2>2 DEF LatestIs, Settled
  <2> QED
    BY <2>3 DEF SettingOK
<1>3. CASE connector_sync_inet
  <2>0. PICK u : u = updates[1]
    OBVIOUS
  <2>1. /\ NextIs("inet") /\ Handled /\ connector_lan_br_config_push_rdk_dm(Head(updates))
        /\ lan' = lan
    BY <1>3 DEF connector_sync_inet, ovsdbVars
  <2>2. /\ Shifted(updates, updates') /\ Head(updates) = u
        /\ u.op = "inet" /\ u.inet \in [Fields -> LanSettings] /\ job.do = "idle"
    BY <2>0, <2>1, HeadUpdate
  <2>3. u.inet["range"] \in LanSettings
    BY <2>2 DEF Fields
  <2> SUFFICES ASSUME NEW f \in Pushed
               PROVE  SettingOK(f)'
    BY DEF LanInv, Pushed
  <2>4. SettingOK(f) /\ f \in Fields
    BY <2>2 DEF LanInv, Subscribed, Pushed, Fields
  <2>5. /\ LatestIs(updates', f, lan[f])
        /\ Settled(updates, f) <=> Settled(updates', f) /\ f \notin u.changed
        /\ Settled(updates', f) => u.inet[f] = lan[f]
    BY <2>0, <2>2, <2>4, SettingShifted DEF SettingOK
  <2>6. ~DhcpdChanged(u) => "range" \notin u.changed
    BY DEF DhcpdChanged, Dhcpd
  <2>7. /\ Settled(updates', f) /\ f \notin lanSkew' /\ ~(job'.do = "pool" /\ f = "range")
             => rdkLan'[f] = lan[f]
        /\ Settled(updates', f) /\ job'.do = "pool" /\ f = "range" => job'.pool = lan[f]
    <3>1. CASE LanManagement /\ "inet_addr" \in u.changed
      <4>1. set_lan_management(u)
        BY <2>1, <2>2, <3>1 DEF connector_lan_br_config_push_rdk_dm
      <4>2. /\ rdkLan'["range"] = rdkLan["range"]
            /\ \/ /\ \A g \in {"inet_addr", "netmask"} : rdkLan'[g] = u.inet[g]
                  /\ \/ DhcpdChanged(u) /\ job'.do = "pool" /\ job'.pool = u.inet["range"]
                     \/ ~DhcpdChanged(u) /\ job'.do = "idle"
               \/ /\ {"inet_addr", "netmask"} \subseteq lanSkew'
                  /\ "range" \in u.changed => "range" \in lanSkew'
                  /\ job' = job
            /\ "range" \in lanSkew => "range" \in lanSkew'
        BY <2>2, <4>1, LanManagementFacts
      <4>3. CASE f = "range"
        BY <2>2, <2>4, <2>5, <2>6, <4>2, <4>3 DEF SettingOK
      <4>4. CASE f \in {"inet_addr", "netmask"}
        BY <2>2, <2>4, <2>5, <4>2, <4>4 DEF SettingOK
      <4> QED
        BY <2>4, <4>3, <4>4 DEF Fields, Pushed
    <3>2. CASE ~(LanManagement /\ "inet_addr" \in u.changed)
      <4>1. f # "range" => (f \in u.changed => f \in Unpushed(u))
        BY <2>4, <3>2 DEF Pushed, Fields, Unpushed
      <4>2. CASE DhcpdChanged(u)
        <5>1. set_dhcp_configuration(u.inet["range"], lanSkew \cup Unpushed(u))
          BY <2>1, <2>2, <3>2, <4>2 DEF connector_lan_br_config_push_rdk_dm
        <5>2. /\ job' = Idle
              /\ \A g \in Fields : g # "range" =>
                   rdkLan'[g] = rdkLan[g] /\ (g \in lanSkew \cup Unpushed(u) => g \in lanSkew')
              /\ rdkLan'["range"] = u.inet["range"] \/ "range" \in lanSkew'
          BY <2>3, <5>1, PoolFacts
        <5>3. job'.do = "idle"
          BY <5>2 DEF Idle
        <5>4. CASE f = "range"
          BY <2>5, <5>2, <5>3, <5>4
        <5>5. CASE f # "range"
          BY <2>2, <2>4, <2>5, <4>1, <5>2, <5>3, <5>5 DEF SettingOK
        <5> QED
          BY <5>4, <5>5
      <4>3. CASE ~DhcpdChanged(u)
        <5>1. lanSkew' = lanSkew \cup Unpushed(u) /\ UNCHANGED <<job, rdkLan>>
          BY <2>1, <2>2, <3>2, <4>3 DEF connector_lan_br_config_push_rdk_dm
        <5> QED
          BY <2>2, <2>4, <2>5, <2>6, <4>1, <4>3, <5>1 DEF SettingOK
      <4> QED
        BY <4>2, <4>3
    <3> QED
      BY <3>1, <3>2
  <2> QED
    BY <2>1, <2>5, <2>7 DEF SettingOK
<1>4. CASE SetPool
  <2>1. set_dhcp_configuration(job.pool, lanSkew) /\ job.do = "pool" /\ job.pool \in LanSettings
        /\ UNCHANGED <<lan, updates>>
    BY <1>4 DEF SetPool, SyncTypes, JobOK, ovsdbVars
  <2>2. /\ job' = Idle
        /\ \A g \in Fields : g # "range" => rdkLan'[g] = rdkLan[g] /\ (g \in lanSkew => g \in lanSkew')
        /\ rdkLan'["range"] = job.pool \/ "range" \in lanSkew'
    BY <2>1, PoolFacts
  <2>3. job'.do = "idle"
    BY <2>2 DEF Idle
  <2> SUFFICES ASSUME NEW f \in Pushed
               PROVE  SettingOK(f)'
    BY DEF LanInv, Pushed
  <2>4. SettingOK(f) /\ f \in Fields
    BY <2>1 DEF LanInv, Subscribed, Pushed, Fields
  <2>5. CASE f = "range"
    BY <2>1, <2>2, <2>3, <2>4, <2>5 DEF SettingOK
  <2>6. CASE f # "range"
    BY <2>1, <2>2, <2>3, <2>4, <2>6 DEF SettingOK
  <2> QED
    BY <2>5, <2>6
<1>5. ASSUME NEW v \in LanSettings, NEW f \in Dhcpd, PageChangesPool(f, v)
      PROVE  LanInv'
  <2>1. /\ UNCHANGED <<lan, updates, job>> /\ lanSkew' = lanSkew \cup {f}
        /\ \A g \in Fields : g # f => rdkLan'[g] = rdkLan[g]
    BY <1>5 DEF PageChangesPool, SyncTypes, ovsdbVars
  <2> SUFFICES ASSUME Subscribed, NEW g \in Pushed
               PROVE  SettingOK(g)'
    BY <2>1 DEF LanInv, Pushed, Subscribed
  <2>2. SettingOK(g) /\ g \in Fields
    BY DEF LanInv, Pushed, Fields
  <2> QED
    BY <2>1, <2>2 DEF SettingOK
<1>6. ASSUME NEW v \in LanSettings, NEW fs \in LanChanges, CloudChangesLan(fs, v)
      PROVE  LanInv'
  <2>1. /\ fs \subseteq Fields /\ lan' = [f \in Fields |-> IF f \in fs THEN v ELSE lan[f]]
        /\ UNCHANGED <<job, rdkLan, lanSkew>>
    BY <1>6, ConnectorAssumption DEF CloudChangesLan, rdkVars
  <2>2. PICK u : u = [op |-> "inet", inet |-> lan', changed |-> fs]
    OBVIOUS
  <2>3. u \in Update /\ u.op = "inet" /\ u.inet = lan' /\ u.changed = fs
    BY <2>1, <2>2 DEF Update, SyncTypes
  <2> SUFFICES ASSUME Subscribed, NEW f \in Pushed
               PROVE  SettingOK(f)'
    BY <2>1 DEF LanInv, Pushed, Subscribed
  <2>4. updates' = Append(updates, u)
    BY <1>6, <2>2 DEF CloudChangesLan, Notify
  <2>5. SettingOK(f) /\ f \in Fields
    BY DEF LanInv, Pushed, Fields
  <2>6. Behind(updates, updates', u)
    BY <2>3, <2>4, UpdatesBehind DEF SyncTypes
  <2>7. CASE f \in fs
    BY <2>1, <2>3, <2>5, <2>6, <2>7, SettingBehind DEF SettingOK
  <2>8. CASE f \notin fs
    <3>1. lan'[f] = lan[f]
      BY <2>1, <2>5, <2>8
    <3>2. LatestIs(updates', f, lan[f]) /\ (Settled(updates', f) <=> Settled(updates, f))
      BY <2>3, <2>5, <2>6, <2>8, <3>1, SettingBehind DEF SettingOK
    <3> QED
      BY <2>1, <2>5, <3>1, <3>2 DEF SettingOK
  <2> QED
    BY <2>7, <2>8
<1> QED
  BY <1>1, <1>2, <1>3, <1>4, <1>5, <1>6 DEF OtherSteps

LEMMA SyncNext ==
  ASSUME SyncInv, ConnectorNext
  PROVE  SyncInv'
<1> SyncTypes /\ TableInv /\ CleanInv /\ RowInv /\ EmptyInv /\ RulesInv /\ LanInv
  BY DEF SyncInv
<1>1. ASSUME NEW k \in Kinds, OfKinds(k)
      PROVE  SyncInv'
  BY <1>1, TypesOfKind, TableOfKind, CleanOfKind, RowOfKind, EmptyOfKind, RulesOfKind, LanOfKind DEF SyncInv
<1>2. CASE OtherSteps
  <2>1. TableInv'
    BY <1>2, OtherFacts DEF TableInv
  <2> QED
    BY <1>2, <2>1, OtherFacts, RulesAside, LanAside DEF SyncInv
<1> QED
  BY <1>1, <1>2, ConnectorSteps DEF OtherSteps

LEMMA SyncInit ==
  ASSUME ConnectorInit
  PROVE  SyncInv
<1>1. job.do = "down"
  BY DEF ConnectorInit, Down
<1>2. lan \in [Fields -> LanSettings] /\ rdkLan \in [Fields -> LanSettings]
  BY DEF ConnectorInit
<1>3. \A k \in Kinds : \/ table[k] = {}
                       \/ \E r \in Rules : table[k] = {[idx |-> 1, rule |-> r]}
  BY DEF ConnectorInit
<1>4. table \in [Kinds -> SUBSET TableRow]
  <2>1. \A k \in Kinds : table[k] \in SUBSET TableRow
    BY <1>3 DEF TableRow
  <2>2. table = [k \in Kinds |-> table[k]]
    BY DEF ConnectorInit
  <2> QED
    BY <2>1, <2>2
<1>5. lastIdx \in [Kinds -> Nat] /\ \A k \in Kinds : lastIdx[k] = 1
  BY DEF ConnectorInit
<1>6. updates \in UpdateSeq
  BY EmptySeq DEF ConnectorInit, UpdateSeq
<1>7. SyncTypes
  BY <1>1, <1>2, <1>4, <1>5, <1>6 DEF ConnectorInit, SyncTypes, JobOK, JobKinds
<1>8. TableInv
  BY <1>3, <1>5 DEF TableInv
<1> QED
  BY <1>1, <1>7, <1>8 DEF SyncInv, CleanInv, Cleaned, RowInv, EmptyInv, RulesInv, LanInv, Subscribed

LEMMA SyncQuiet == SyncInv => InSyncWhenQuiet
<1> SUFFICES ASSUME SyncInv, job = Idle, updates = <<>>
             PROVE  InSync
  BY DEF InSyncWhenQuiet
<1>1. job.do = "idle" /\ Subscribed
  BY DEF Idle, Subscribed
<1>2. \A k, r : Of(updates, k, r) = {}
  BY DEF Of
<1>3. \A f : Settled(updates, f)
  BY DEF Settled, Inets
<1>4. ASSUME NEW k \in Kinds, NEW r \in (Rules \cup {Empty}) \ skew[k]
      PROVE  RuleInSync(k, r)
  <2>1. CASE r = Empty
    <3>1. Matching(k, r) = {}
      BY <1>1, <1>4, <2>1 DEF SyncInv, EmptyInv, Matching
    <3>2. r \notin conf[k]
      BY <2>1, ConnectorAssumption DEF SyncInv, SyncTypes
    <3> QED
      BY <3>1, <3>2, FS_EmptySet DEF RuleInSync
  <2>2. CASE r \in Rules
    <3>1. RuleOK(k, r)
      BY <1>1, <2>2 DEF SyncInv, RulesInv
    <3>2. Added(k, r) <=> Matching(k, r) # {}
      BY <1>1 DEF Added, Filling, Deleting
    <3>3. (Matching(k, r) # {} <=> r \in conf[k]) /\ \A i, j \in Matching(k, r) : i = j
      BY <1>2, <1>4, <3>1, <3>2 DEF RuleOK
    <3>4. CASE Matching(k, r) = {}
      BY <3>3, <3>4, FS_EmptySet DEF RuleInSync
    <3>5. ASSUME NEW i \in Matching(k, r)
          PROVE  RuleInSync(k, r)
      <4>1. Matching(k, r) = {i}
        BY <3>3, <3>5
      <4> QED
        BY <3>3, <3>5, <4>1, FS_Singleton DEF RuleInSync
    <3> QED
      BY <3>4, <3>5
  <2> QED
    BY <2>1, <2>2
<1>5. \A f \in Pushed \ lanSkew : rdkLan[f] = lan[f]
  BY <1>1, <1>3 DEF SyncInv, LanInv, SettingOK
<1> QED
  BY <1>4, <1>5 DEF InSync

-----------------------------------------------------------------------------
(* The types of the connector.                                             *)

\* What SyncInv does not say of the types.
SyncMore ==
    /\ lanSkew \subseteq Fields
    /\ \A k \in Kinds : \A row \in table[k] : row.idx # 0
    /\ events \in 0 .. MaxEvents

LEMMA EventBound ==
  ASSUME SyncMore, Event \/ UNCHANGED events
  PROVE  events' \in 0 .. MaxEvents
  BY ConnectorAssumption DEF SyncMore, Event

LEMMA SkewBound ==
  ASSUME SyncMore, ConnectorNext
  PROVE  lanSkew' \subseteq Fields
<1>1. ASSUME NEW fields \in SUBSET Fields, NEW skewed \in SUBSET Fields, NEW values,
             SetLan(fields, values, skewed) \/ LanFails(fields, skewed)
      PROVE  lanSkew' \subseteq Fields
  BY <1>1 DEF SetLan, LanFails
<1>2. {"inet_addr", "netmask"} \in SUBSET Fields /\ {"range"} \in SUBSET Fields /\ lanSkew \in SUBSET Fields
  BY DEF Fields, SyncMore
<1>3. ASSUME NEW pool, NEW skewed \in SUBSET Fields, set_dhcp_configuration(pool, skewed)
      PROVE  lanSkew' \subseteq Fields
  BY <1>1, <1>2, <1>3 DEF set_dhcp_configuration
<1>4. CASE connector_sync_inet
  <2> DEFINE u == Head(updates)
             un == lanSkew \cup Unpushed(u)
  <2>1. un \in SUBSET Fields
    BY <1>2 DEF Unpushed, Fields
  <2>2. {"inet_addr", "netmask"} \cup (u.changed \cap {"range"}) \in SUBSET Fields
    BY DEF Fields
  <2>3. connector_lan_br_config_push_rdk_dm(u)
    BY <1>4 DEF connector_sync_inet
  <2> HIDE DEF u
  <2>4. CASE set_lan_management(u)
    BY <1>1, <1>2, <2>2, <2>4 DEF set_lan_management
  <2>5. CASE set_dhcp_configuration(u.inet["range"], un)
    <3> HIDE DEF un
    <3> QED
      BY <1>3, <2>1, <2>5
  <2>6. CASE lanSkew' = un
    BY <2>1, <2>6
  <2> QED
    BY <2>3, <2>4, <2>5, <2>6 DEF connector_lan_br_config_push_rdk_dm
<1>5. CASE SetPool
  BY <1>2, <1>3, <1>5 DEF SetPool
<1>6. ASSUME NEW v \in LanSettings, NEW f \in Dhcpd, PageChangesPool(f, v)
      PROVE  lanSkew' \subseteq Fields
  BY <1>2, <1>6 DEF PageChangesPool, Dhcpd, Fields
<1>7. CASE lanSkew' = lanSkew
  BY <1>2, <1>7
<1>8. ConnectorNext => \/ connector_sync_inet \/ SetPool \/ lanSkew' = lanSkew
                       \/ \E v \in LanSettings, f \in Dhcpd : PageChangesPool(f, v)
  BY DEF ConnectorNext, XmStep, connector_init, dhcp_reservation_clean_dm, portforward_clean_dm,
     ReadTable, CleanRow, connector_lan_br_config_push_ovsdb_dm, get_dhcp_configuration, Subscribe,
     set_dhcp_reservation_config, set_portforward_configuration, AddTblRow, FillRow,
     dhcp_reservation_del_dm, portforward_del_dm, FindRow, DeleteRow, Crash, PageChangesTable,
     CloudChangesRule, CloudChangesLan
<1> QED
  BY <1>4, <1>5, <1>6, <1>7, <1>8

LEMMA RowsNumbered ==
  ASSUME SyncTypes, SyncMore, NEW k \in Kinds, OfKinds(k)
  PROVE  \A l \in Kinds : \A row \in table'[l] : row.idx # 0
<1>1. table \in [Kinds -> SUBSET TableRow] /\ lastIdx[k] \in Nat /\ lastIdx[k] + 1 # 0
  BY DEF SyncTypes
<1>2. ASSUME NEW rows, table' = [table EXCEPT ![k] = rows], \A row \in rows : row.idx # 0
      PROVE  \A l \in Kinds : \A row \in table'[l] : row.idx # 0
  BY <1>1, <1>2 DEF SyncMore
<1>3. CASE table' = table
  BY <1>3 DEF SyncMore
<1>4. \A row \in table[k] : row.idx # 0
  BY DEF SyncMore
<1>5. ASSUME NEW c
      PROVE  [idx |-> lastIdx[k] + 1, rule |-> c].idx # 0
  BY <1>1
<1>6. ASSUME NEW r, table' = [table EXCEPT ![k] = @ \cup {[idx |-> lastIdx[k] + 1, rule |-> r]}]
      PROVE  \A l \in Kinds : \A row \in table'[l] : row.idx # 0
  <2> DEFINE rows == table[k] \cup {[idx |-> lastIdx[k] + 1, rule |-> r]}
  <2>1. \A row \in rows : row.idx # 0
    BY <1>4, <1>5
  <2>2. table' = [table EXCEPT ![k] = rows]
    BY <1>6
  <2> HIDE DEF rows
  <2> QED
    BY <1>2, <2>1, <2>2
<1>7. ASSUME NEW r \in table[k], table' = [table EXCEPT ![k] = @ \ {r}]
      PROVE  \A l \in Kinds : \A row \in table'[l] : row.idx # 0
  <2> DEFINE rows == table[k] \ {r}
  <2>1. \A row \in rows : row.idx # 0
    BY <1>4
  <2>2. table' = [table EXCEPT ![k] = rows]
    BY <1>7
  <2> HIDE DEF rows
  <2> QED
    BY <1>2, <2>1, <2>2
<1>8. CASE PageChangesTable(k)
  BY <1>6, <1>7, <1>8 DEF PageChangesTable
<1>9. CASE AddTblRow(k)
  <2>1. \/ table' = [table EXCEPT ![k] = @ \cup {[idx |-> lastIdx[k] + 1, rule |-> Empty]}]
        \/ table' = table
    BY <1>9 DEF AddTblRow
  <2> QED
    BY <1>3, <1>6, <2>1
<1>10. CASE FillRow(k)
  <2>1. CASE table' = table
    BY <1>3, <2>1
  <2>2. CASE /\ Rows(k, job.idx) # {}
             /\ table' = [table EXCEPT ![k] = (@ \ Rows(k, job.idx)) \cup {[idx |-> job.idx, rule |-> job.rule]}]
    <3> DEFINE new == [idx |-> job.idx, rule |-> job.rule]
               rows == (table[k] \ Rows(k, job.idx)) \cup {new}
    <3>1. new.idx # 0
      BY <1>4, <2>2 DEF Rows
    <3>2. \A row \in rows : row.idx # 0
      BY <1>4, <3>1
    <3>3. table' = [table EXCEPT ![k] = rows]
      BY <2>2
    <3> HIDE DEF rows
    <3> QED
      BY <1>2, <3>2, <3>3
  <2> QED
    BY <1>10, <2>1, <2>2 DEF FillRow
<1>11. ASSUME NEW idx, NEW rules, DeleteTblRow(k, idx, rules)
      PROVE  \A l \in Kinds : \A row \in table'[l] : row.idx # 0
  <2>1. PICK gone : table' = [table EXCEPT ![k] = @ \ gone] \/ table' = table
    BY <1>11 DEF DeleteTblRow
  <2> DEFINE rows == table[k] \ gone
  <2>2. \A row \in rows : row.idx # 0
    BY <1>4
  <2>3. table' = [table EXCEPT ![k] = rows] \/ table' = table
    BY <2>1
  <2> HIDE DEF rows
  <2> QED
    BY <1>2, <1>3, <2>2, <2>3
<1>12. CASE CleanRow(k) \/ DeleteRow(k)
  BY <1>11, <1>12 DEF CleanRow, DeleteRow
<1>13. CASE ReadTable(k) \/ FindRow(k) \/ \E r \in Rules : CloudChangesRule(k, r)
  BY <1>3, <1>13 DEF ReadTable, FindRow, CloudChangesRule, rdkVars
<1> QED
  BY <1>8, <1>9, <1>10, <1>12, <1>13 DEF OfKinds

LEMMA EventsCounted ==
  ASSUME ConnectorNext
  PROVE  Event \/ UNCHANGED events
<1>1. ASSUME NEW k \in Kinds, OfKinds(k)
      PROVE  Event \/ UNCHANGED events
  BY <1>1 DEF OfKinds, ReadTable, CleanRow, DeleteTblRow, AddTblRow, FillRow, FindRow, DeleteRow,
     PageChangesTable, CloudChangesRule
<1>2. CASE connector_init \/ connector_lan_br_config_push_ovsdb_dm \/ Crash
  BY <1>2 DEF connector_init, connector_lan_br_config_push_ovsdb_dm, get_dhcp_configuration, Crash
<1>3. ASSUME NEW pool, NEW skewed, set_dhcp_configuration(pool, skewed)
      PROVE  Event \/ UNCHANGED events
  BY <1>3 DEF set_dhcp_configuration, SetLan, LanFails
<1>4. CASE connector_sync_inet \/ SetPool
  BY <1>3, <1>4 DEF connector_sync_inet, SetPool, connector_lan_br_config_push_rdk_dm, set_lan_management,
     SetLan, LanFails
<1>5. ASSUME NEW v, NEW f, NEW fs, PageChangesPool(f, v) \/ CloudChangesLan(fs, v)
      PROVE  Event \/ UNCHANGED events
  BY <1>5 DEF PageChangesPool, CloudChangesLan
<1>6. "reservation" \in Kinds /\ "portforward" \in Kinds
  BY DEF Kinds
<1> QED
  BY <1>1, <1>2, <1>4, <1>5, <1>6 DEF ConnectorNext, XmStep, OfKinds, dhcp_reservation_clean_dm,
     portforward_clean_dm, set_dhcp_reservation_config, set_portforward_configuration,
     dhcp_reservation_del_dm, portforward_del_dm

LEMMA SyncMoreNext ==
  ASSUME SyncInv, SyncMore, ConnectorNext
  PROVE  SyncMore'
<1>1. events' \in 0 .. MaxEvents
  BY EventsCounted, EventBound
<1>2. lanSkew' \subseteq Fields
  BY SkewBound
<1>3. \A k \in Kinds : \A row \in table'[k] : row.idx # 0
  <2>1. SyncTypes
    BY DEF SyncInv
  <2>2. CASE OtherSteps
    BY <2>1, <2>2, OtherFacts DEF SyncMore
  <2> QED
    BY <2>1, <2>2, RowsNumbered, ConnectorSteps DEF OtherSteps
<1> QED
  BY <1>1, <1>2, <1>3 DEF SyncMore

LEMMA SyncMoreInit ==
  ASSUME ConnectorInit
  PROVE  SyncMore
<1>1. \A k \in Kinds : \/ table[k] = {}
                       \/ \E r \in Rules : table[k] = {[idx |-> 1, rule |-> r]}
  BY DEF ConnectorInit
<1>2. \A k \in Kinds : \A row \in table[k] : row.idx # 0
  BY <1>1
<1>3. lanSkew = {} /\ events \in 0 .. MaxEvents
  BY ConnectorAssumption DEF ConnectorInit
<1> QED
  BY <1>2, <1>3 DEF SyncMore

LEMMA SyncTypeOK == SyncInv /\ SyncMore => ConnectorTypeOK
<1> SUFFICES ASSUME SyncInv, SyncMore
             PROVE  ConnectorTypeOK
  OBVIOUS
<1>1. SyncTypes /\ TableInv
  BY DEF SyncInv
<1>2. ASSUME NEW i \in DOMAIN updates
      PROVE  updates[i].op \in {"add", "del", "inet"}
  <2>1. updates[i] \in Update
    BY <1>1, LenProperties, ElementOfSeq DEF SyncTypes, UpdateSeq
  <2> QED
    BY <2>1 DEF Update
<1>3. ASSUME NEW k \in Kinds, NEW row \in table[k]
      PROVE  row.rule \in Rules \cup {Empty} /\ row.idx \in 1 .. lastIdx[k]
  <2>1. row \in TableRow /\ lastIdx[k] \in Nat /\ row.idx <= lastIdx[k] /\ row.idx # 0
    BY <1>1 DEF SyncTypes, TableInv, SyncMore
  <2> QED
    BY <2>1 DEF TableRow
<1>4. job.do \in {"cleaning", "clean", "put pool", "fill", "delete", "pool", "get pool", "down", "idle"}
  BY <1>1 DEF SyncTypes, JobOK, JobKinds
<1> QED
  BY <1>1, <1>2, <1>3, <1>4 DEF ConnectorTypeOK, SyncTypes, SyncMore

-----------------------------------------------------------------------------
(* All services: each of them starts in its invariant, and a step is a step of *)
(* it or leaves it alone.                                                    *)

LEMMA StepOfOne ==
  ASSUME [Next]_vars
  PROVE  /\ DhcpNext \/ UNCHANGED dhcpVars
         /\ ScanNext \/ UNCHANGED scanVars
         /\ Pl2rlNext \/ UNCHANGED pl2rlVars
         /\ ConnectorNext \/ UNCHANGED connectorVars
         /\ ClientNext \/ SurveyNext \/ UNCHANGED deltasVars
<1>1. CASE UNCHANGED vars
  BY <1>1 DEF vars
<1>2. CASE Step("leases", DhcpNext, <<pl2rlVars, connectorVars, scanVars, deltasVars>>)
  BY <1>2 DEF Step
<1>3. CASE Step("log", Pl2rlNext, <<dhcpVars, connectorVars, scanVars, deltasVars>>)
  BY <1>3 DEF Step
<1>4. CASE Step("connector", ConnectorNext, <<dhcpVars, pl2rlVars, scanVars, deltasVars>>)
  BY <1>4 DEF Step
<1>5. CASE Step("scan", ScanNext, <<dhcpVars, pl2rlVars, connectorVars, deltasVars>>)
  BY <1>5 DEF Step
<1>6. CASE Step("client", ClientNext, <<dhcpVars, pl2rlVars, connectorVars, scanVars>>)
  BY <1>6 DEF Step
<1>7. CASE Step("survey", SurveyNext, <<dhcpVars, pl2rlVars, connectorVars, scanVars>>)
  BY <1>7 DEF Step
<1> QED
  BY <1>1, <1>2, <1>3, <1>4, <1>5, <1>6, <1>7 DEF Next

LEMMA DhcpAlways == Spec => []DhcpInv
<1>1. Init => DhcpInv
  BY DhcpStart DEF Init
<1>2. DhcpInv /\ [Next]_vars => DhcpInv'
  <2> SUFFICES ASSUME DhcpInv, [Next]_vars
               PROVE  DhcpInv'
    OBVIOUS
  <2>1. CASE UNCHANGED dhcpVars
    <3>1. UNCHANGED <<file, writes, dhcp_server_list, ds_leases, ds_status_fn, ds_range_list, attr,
                      watching, fed, dhcp_lease_init_debounce, told, lastRead, orphaned, created,
                      parseFailures>>
      BY <2>1 DEF dhcpVars, fileVars, serverVars, watchVars, dhcpGhosts
    <3> QED
      BY <3>1 DEF DhcpInv, DhcpTypeOK, ToldType, CachesInv, FileInv, Quiet, FileLeases, Stat
  <2> QED
    BY <2>1, DhcpStep, StepOfOne
<1> QED
  BY <1>1, <1>2, PTL DEF Spec

LEMMA ScanAlways == Spec => []ScanInv
<1>1. Init => ScanInv
  BY ScanAssumption DEF Init, ScanInit, ScanInv
<1>2. ScanInv /\ [Next]_vars => ScanInv'
  <2> SUFFICES ASSUME ScanInv, [Next]_vars
               PROVE  ScanInv'
    OBVIOUS
  <2>1. CASE UNCHANGED scanVars
    BY <2>1 DEF ScanInv, scanVars, timerVars
  <2> QED
    BY <2>1, ScanStep, StepOfOne
<1> QED
  BY <1>1, <1>2, PTL DEF Spec

LEMMA TrafficAlways == Spec => []TrafficInv
<1>1. Init => TrafficInv
  <2> SUFFICES ASSUME DeltasInit
               PROVE  TrafficInv
    BY DEF Init
  <2>1. Zero \in [Counters -> Nat] /\ Zero \in [Counters -> Int] /\ \A f \in Counters : Zero[f] = 0
    BY DEF Zero
  <2>2. /\ hw = [cookie |-> 1, stats |-> Zero] /\ data_old = [cookie |-> 0, stats |-> Zero]
        /\ reported = Zero /\ carried = Zero /\ lost = Zero /\ glitch = FALSE
    BY DEF DeltasInit
  <2>3. hw \in Records /\ data_old \in Records /\ data_old.cookie <= hw.cookie
    BY <2>1, <2>2 DEF Records
  <2>4. ASSUME NEW f \in Counters
        PROVE  CounterOK(f)
    <3>1. hw.stats[f] = 0 /\ data_old.stats[f] = 0
      BY <2>1, <2>2
    <3>2. reported[f] = 0 /\ carried[f] = 0 /\ lost[f] = 0
      BY <2>1, <2>2
    <3>3. Unsampled(f) = 0
      BY <3>1 DEF Unsampled, Sampled
    <3> QED
      BY <3>1, <3>2, <3>3 DEF CounterOK
  <2> QED
    BY <2>1, <2>2, <2>3, <2>4 DEF TrafficInv
<1>2. TrafficInv /\ [Next]_vars => TrafficInv'
  <2> SUFFICES ASSUME TrafficInv, [Next]_vars
               PROVE  TrafficInv'
    OBVIOUS
  <2>1. CASE UNCHANGED trafficVars
    BY <2>1 DEF trafficVars, TrafficInv, CounterOK, Unsampled, Sampled
  <2>2. SurveyNext \/ UNCHANGED deltasVars => UNCHANGED trafficVars
    BY DEF SurveyNext, ChannelTime, SurveyRestart, stats_survey_convert, deltasVars
  <2> QED
    BY <2>1, <2>2, TrafficNext, StepOfOne
<1> QED
  BY <1>1, <1>2, PTL DEF Spec

LEMMA SurveyAlways == Spec => []SurveyInv
<1>1. Init => SurveyInv
  <2> SUFFICES ASSUME DeltasInit
               PROVE  SurveyInv
    BY DEF Init
  <2>1. /\ survey = [t \in ScanTypes |-> [active |-> SurveyStart, busy |-> SurveyStart]]
        /\ survey_old = [t \in ScanTypes |-> NoTime]
        /\ survey_record = [t \in ScanTypes |-> NoRecord]
        /\ read = [t \in ScanTypes |-> NoTime]
        /\ restarted = [t \in ScanTypes |-> TRUE]
    BY DEF DeltasInit
  <2>2. SurveyStart \in Nat /\ NoTime \in ChannelTimes
    BY DeltasAssumption DEF NoTime, ChannelTimes
  <2>3. survey \in [ScanTypes -> ChannelTimes] /\ read \in [ScanTypes -> ChannelTimes]
    BY <2>1, <2>2 DEF ChannelTimes
  <2>4. /\ survey_old \in [ScanTypes -> {NoTime}] /\ survey_record \in [ScanTypes -> {NoRecord}]
        /\ restarted \in [ScanTypes -> BOOLEAN]
    BY <2>1
  <2>5. ASSUME NEW t \in ScanTypes
        PROVE  SurveyOK(t) /\ RecordOK(t)
    <3>1. /\ survey[t].active = SurveyStart /\ survey[t].busy = SurveyStart
          /\ read[t].active = 0 /\ read[t].busy = 0
          /\ restarted[t] = TRUE
      BY <2>1 DEF NoTime
    <3>2. survey_record[t] = NoRecord /\ NoRecord.valid = FALSE
      BY <2>1 DEF NoRecord
    <3> QED
      BY <2>2, <3>1, <3>2 DEF SurveyOK, RecordOK
  <2> QED
    BY <2>3, <2>4, <2>5 DEF SurveyInv, SurveyTypes
<1>2. SurveyInv /\ [Next]_vars => SurveyInv'
  <2> SUFFICES ASSUME SurveyInv, [Next]_vars
               PROVE  SurveyInv'
    OBVIOUS
  <2>1. CASE UNCHANGED surveyVars
    BY <2>1 DEF surveyVars, SurveyInv, SurveyTypes, SurveyOK, RecordOK
  <2>2. ClientNext \/ UNCHANGED deltasVars => UNCHANGED surveyVars
    BY DEF ClientNext, Traffic, Reconnect, DriverReset, stats_clients_convert, deltasVars
  <2> QED
    BY <2>1, <2>2, SurveyNextInv, StepOfOne
<1> QED
  BY <1>1, <1>2, PTL DEF Spec

LEMMA LogAlways == Spec => []LogInv
<1>1. Init => LogInv
  <2> SUFFICES ASSUME Pl2rlInit
               PROVE  LogInv
    BY DEF Init
  <2>1. reading.conn = NoConn /\ reading.rlen = 0 /\ NoConn \notin Conns
    BY Pl2rlAssumption DEF Pl2rlInit, NoRead
  <2>2. <<>> \in UnitSeq
    BY EmptySeq DEF UnitSeq
  <2>3. LogTypes
    BY <2>1, <2>2 DEF Pl2rlInit, LogTypes
  <2>4. Owners /\ (\A c \in Conns : ConnOK(c)) /\ MessagesIntact
    BY <2>1 DEF Pl2rlInit, Owners, ConnOK, MessagesIntact, Nothing
  <2> QED
    BY <2>3, <2>4 DEF LogInv
<1>2. LogInv /\ [Next]_vars => LogInv'
  <2> SUFFICES ASSUME LogInv, [Next]_vars
               PROVE  LogInv'
    OBVIOUS
  <2>1. CASE UNCHANGED pl2rlVars
    <3>1. UNCHANGED <<pl2rl_fd, pc, w, clientEnd, serverEnd, stream, torn, reading, refused, handled>>
      BY <2>1 DEF pl2rlVars, clientVars, connVars, daemonVars
    <3>2. \A c \in Conns : ConnOK(c)'
      BY <3>1, ConnAside
    <3> QED
      BY <3>1, <3>2 DEF LogInv, LogTypes, Owners, MessagesIntact
  <2> QED
    BY <2>1, LogNext, StepOfOne
<1> QED
  BY <1>1, <1>2, PTL DEF Spec

LEMMA SyncAlways == Spec => []SyncInv
<1>1. Init => SyncInv
  BY SyncInit DEF Init
<1>2. SyncInv /\ [Next]_vars => SyncInv'
  <2> SUFFICES ASSUME SyncInv, [Next]_vars
               PROVE  SyncInv'
    OBVIOUS
  <2>1. CASE UNCHANGED connectorVars
    <3>1. UNCHANGED <<conf, lan, updates, job, table, lastIdx, rdkLan, skew, lanSkew>>
      BY <2>1 DEF connectorVars, ovsdbVars, rdkVars
    <3>2. SyncTypes' /\ TableInv' /\ CleanInv' /\ RowInv' /\ EmptyInv'
      BY <3>1 DEF SyncInv, SyncTypes, JobOK, TableInv, CleanInv, Cleaned, RowInv, EmptyInv, Subscribed
    <3>3. \A k \in Kinds, r \in Rules : RuleOK(k, r)' <=> RuleOK(k, r)
      BY <3>1 DEF RuleOK, Added, Filling, Deleting, Matching
    <3>4. \A f \in Pushed : SettingOK(f)' <=> SettingOK(f)
      BY <3>1 DEF SettingOK
    <3>5. (Subscribed' <=> Subscribed) /\ Pushed' = Pushed
      BY <3>1 DEF Subscribed, Pushed
    <3>6. RulesInv' /\ LanInv'
      BY <3>3, <3>4, <3>5 DEF SyncInv, RulesInv, LanInv
    <3> QED
      BY <3>2, <3>6 DEF SyncInv
  <2> QED
    BY <2>1, SyncNext, StepOfOne
<1> QED
  BY <1>1, <1>2, PTL DEF Spec

LEMMA ScanTypesAlways == Spec => []ScanTypesInv
<1>1. Init => ScanTypesInv
  <2> SUFFICES ASSUME ScanInit
               PROVE  ScanTypesInv
    BY DEF Init
  <2>1. hal_table \in Seq(Neighbor) /\ report \in Seq(Neighbor) /\ <<>> \in Seq(Neighbor)
    BY ScanAssumption, EmptySeq DEF ScanInit
  <2>2. starts \in 0 .. MaxStarts /\ failures \in 0 .. MaxFailures
        /\ g_scan_result_timeout \in 0 .. STATS_SCAN_RESULT_POLL_TIMEOUT /\ polls = 0
    BY ScanAssumption DEF ScanInit
  <2>3. /\ driver \in {"idle", "scanning", "failed"} /\ status = "none" /\ timer = FALSE
        /\ g_scan_results = NoResults /\ g_scan_results_size = 0 /\ pending = {}
        /\ scan_request = NoRequest
    BY DEF ScanInit
  <2> QED
    BY <2>1, <2>2, <2>3 DEF ScanTypesInv, ScanTypeOK
<1>2. ScanTypesInv /\ [Next]_vars => ScanTypesInv'
  <2> SUFFICES ASSUME ScanTypesInv, [Next]_vars
               PROVE  ScanTypesInv'
    OBVIOUS
  <2>1. CASE UNCHANGED scanVars
    <3>1. UNCHANGED <<driver, hal_table, g_scan_results, g_scan_results_size, timer,
                      g_scan_result_timeout, scan_request, status, report, pending, polls, starts,
                      failures>>
      BY <2>1 DEF scanVars, timerVars, driverVars, resultVars, boundVars
    <3> QED
      BY <3>1 DEF ScanTypesInv, ScanTypeOK
  <2> QED
    BY <2>1, ScanTypesStep, StepOfOne
<1> QED
  BY <1>1, <1>2, PTL DEF Spec

LEMMA LogMoreAlways == Spec => []LogMore
<1>1. Init => LogMore
  BY LogMoreInit DEF Init
<1>2. LogInv /\ LogMore /\ [Next]_vars => LogMore'
  <2> SUFFICES ASSUME LogInv, LogMore, [Next]_vars
               PROVE  LogMore'
    OBVIOUS
  <2>1. CASE UNCHANGED pl2rlVars
    BY <2>1 DEF LogMore, pl2rlVars, clientVars, connVars, daemonVars
  <2> QED
    BY <2>1, LogMoreNext, StepOfOne
<1> QED
  BY <1>1, <1>2, LogAlways, PTL DEF Spec

LEMMA SyncMoreAlways == Spec => []SyncMore
<1>1. Init => SyncMore
  BY SyncMoreInit DEF Init
<1>2. SyncInv /\ SyncMore /\ [Next]_vars => SyncMore'
  <2> SUFFICES ASSUME SyncInv, SyncMore, [Next]_vars
               PROVE  SyncMore'
    OBVIOUS
  <2>1. CASE UNCHANGED connectorVars
    BY <2>1 DEF SyncMore, connectorVars, ovsdbVars, rdkVars
  <2> QED
    BY <2>1, SyncMoreNext, StepOfOne
<1> QED
  BY <1>1, <1>2, SyncAlways, PTL DEF Spec

LEMMA DeltasMoreAlways == Spec => []DeltasMore
<1>1. Init => DeltasMore
  BY DeltasMoreInit DEF Init
<1>2. TrafficInv /\ SurveyInv /\ DeltasMore /\ [Next]_vars => DeltasMore'
  <2> SUFFICES ASSUME TrafficInv, SurveyInv, DeltasMore, [Next]_vars
               PROVE  DeltasMore'
    OBVIOUS
  <2>1. CASE UNCHANGED deltasVars
    BY <2>1 DEF DeltasMore, Width, deltasVars, trafficVars, surveyVars
  <2> QED
    BY <2>1, ClientMore, SurveyMore, StepOfOne
<1> QED
  BY <1>1, <1>2, TrafficAlways, SurveyAlways, PTL DEF Spec

\* While the watcher has nothing to do and the last parse did not fail, the
\* Network Manager has the leases of dnsmasq's file, each client once: whatever
\* dnsmasq wrote and however server objects came and went meanwhile, unless the
\* object that had the leases was deleted (osn_dhcps.c).
THEOREM AlwaysCurrentWhenQuiet == Spec => []CurrentWhenQuiet
  BY DhcpAlways, DhcpQuiet, PTL

\* The timer runs exactly while a scan waits for its answer, and each scan has
\* the whole time to wait: whatever starts, stops or fails, and also inside a
\* callback (stats_scan_start, stats_scan_results_fetch).
THEOREM TimerAlwaysServes == Spec => []TimerServesScan
<1>1. ScanInv => TimerServesScan
  BY DEF ScanInv, TimerServesScan
<1> QED
  BY <1>1, ScanAlways, PTL

\* The reports of a client never sum up to more than it carried, in whatever
\* order its connections, resets of the driver's counters and readings come; and
\* they leave nothing out while the counters are sound (stats_clients_convert).
THEOREM TrafficAlwaysAccounted == Spec => []TrafficAccounted
<1>1. TrafficInv => TrafficAccounted
  BY DEF TrafficInv, CounterOK, TrafficAccounted
<1> QED
  BY <1>1, TrafficAlways, PTL

\* A channel's busy percentage is that of the interval between two readings, also
\* when a counter wrapped in between and in either kind of build, as long as the
\* driver did not restart its counters and the interval fits their width
\* (stats_survey_convert).
THEOREM PercentAlwaysCorrect == Spec => []PercentCorrect
<1>1. SurveyInv => PercentCorrect
  BY DEF SurveyInv, RecordOK, PercentCorrect
<1> QED
  BY <1>1, SurveyAlways, PTL

\* What the RDK logger is given is a message as it was sent, however the parts of
\* the sends interleave with the two reads and whichever process is restarted,
\* unless a message was given up on that connection; and no message is refused
\* because its process did not register (pl2rl_send, pl2rld_client_recv).
THEOREM MessagesAlwaysIntact == Spec => []MessagesIntact
<1>1. LogInv => MessagesIntact
  BY DEF LogInv
<1> QED
  BY <1>1, LogAlways, PTL

\* When XM has nothing to do, the RDK has each rule of OVSDB once, no other rule,
\* no empty row, and OVSDB's range of DHCP addresses; also its address and
\* netmask, where LAN management is synchronized: whatever the cloud and the web
\* page changed while XM started or was between the two calls of a job, and over
\* crashes.  Excepted is what a failed call, the web page or a netmask that
\* changed alone put out of step; lease time and DHCP options are never written
\* (connector_dm.c and its callers).
THEOREM AlwaysInSync == Spec => []InSyncWhenQuiet
<1>1. SyncInv => InSyncWhenQuiet
  BY SyncQuiet
<1> QED
  BY <1>1, SyncAlways, PTL

\* A scan's report has every access point the driver listed on a scanned channel
\* once per channel, and no other, for tables of any length that fit the array
\* (stats_scan_get, stats_scan_extract_neighbors_from_ssids).
THEOREM ReportAlwaysComplete == Spec => ReportComplete
<1> DEFINE Complete ==
      \A chan_list \in ChanLists :
         /\ stats_scan_get(chan_list)
         /\ g_scan_results_size <= STATS_SCAN_MAX_RECORDS
         => /\ {Key(report'[i]) : i \in DOMAIN report'}
                 = {Key(e) : e \in {n \in ToSet(g_scan_results) : n.chan \in chan_list}}
            /\ \A i, j \in DOMAIN report' :
                 Key(report'[i]) = Key(report'[j]) => i = j
<1>1. ScanTypesInv => Complete
  BY ReportStep
<1>2. ([][Complete]_scanVars) => ReportComplete
  BY DEF ReportComplete
<1> QED
  BY <1>1, <1>2, ScanTypesAlways, PTL

\* Every service keeps its types: the counters of the delays and retries within
\* their limits, what is written to a socket within its buffer, table rows
\* numbered, percentages and times within the driver's words.
THEOREM ServicesTypesAlwaysOK == Spec => []ServicesTypeOK
<1>1. Init => service \in Service
  BY DEF Init
<1>2. service \in Service /\ [Next]_vars => (service \in Service)'
  BY DEF Next, Step, vars
<1>3. DhcpInv /\ ScanTypesInv => DhcpTypeOK /\ ScanTypeOK
  BY DEF DhcpInv, ScanTypesInv
<1>4. /\ service \in Service /\ DhcpInv /\ LogInv /\ LogMore /\ SyncInv /\ SyncMore
      /\ ScanTypesInv /\ TrafficInv /\ SurveyInv /\ DeltasMore
      => ServicesTypeOK
  BY <1>3, LogTypeOK, SyncTypeOK, DeltasTypes DEF ServicesTypeOK
<1> QED
  BY <1>1, <1>2, <1>4, DhcpAlways, LogAlways, LogMoreAlways, SyncAlways, SyncMoreAlways,
     ScanTypesAlways, TrafficAlways, SurveyAlways, DeltasMoreAlways, PTL DEF Spec
=============================================================================
