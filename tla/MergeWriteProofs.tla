---------------------------- MODULE MergeWriteProofs ----------------------------
(***************************************************************************)
(* Proofs about MergeWrite: the batches of the stream do not matter, and   *)
(* both merges implement MergeContract.                                    *)
(*                                                                         *)
(* What has been processed always ends where a run ends.  So the first row *)
(* of a run that is processed later is found without looking back, and the *)
(* last one without looking ahead.                                         *)
(*                                                                         *)
(* The sorted rows hold each stored and each new row once (SortedMerges),  *)
(* the rows of one key side by side and in the order of their positions.   *)
(* So a run is a key, its kept row is the last new row of the key, or else *)
(* the last stored one (KeptValue), and the test for a change, which looks *)
(* at the seam of stored and new rows, compares it with what the table     *)
(* serves (ChangedValue).                                                  *)
(***************************************************************************)
EXTENDS MergeWrite, FiniteSetTheorems, SequenceTheorems, TLAPS

(* A run of the stream ends at row c, or nothing precedes it.              *)
Boundary(t, c) == c = 0 \/ ~Same(t, c)

(* Tables and the stream are sequences of some rows.                       *)
Table(t) == \E S : t \in Seq(S)

Stands == /\ cut \in Nat /\ read \in Nat
          /\ read <= Len(stream) /\ cut <= read /\ (cut = read => cut = 0)
          /\ Boundary(stream, cut)
          /\ kept = {p \in Kept(stream, 1, Len(stream)) : p <= cut}
          /\ changed = {p \in Changed(stream, 1, Len(stream), Len(store)) : p <= cut}

MergeInv == /\ Table(store) /\ Table(new) /\ Table(stream)
            /\ phase = "stream" => Stands
            /\ ChunksDoNotMatter

-----------------------------------------------------------------------------
LEMMA TableLen == ASSUME NEW t, Table(t) PROVE Len(t) \in Nat
BY LenProperties DEF Table

(* A function on 1 to n is a table.                                        *)
LEMMA FunctionTable ==
    ASSUME NEW n \in Nat, NEW S, NEW t \in [1..n -> S] PROVE Table(t)
<1>1. t \in Seq(S)
  OBVIOUS
<1>2. QED
  BY <1>1 DEF Table

(* What sorting and writing return is a table again.                       *)
LEMMA SortedTable == ASSUME Table(store), Table(new) PROVE Table(Sorted)
<1>1. Len(store) + Len(new) \in Nat
  BY TableLen
<1>2. \E S : Sorted \in [1..(Len(store) + Len(new)) -> S]
  <2> DEFINE S == {Sorted[p] : p \in 1..(Len(store) + Len(new))}
  <2>1. Sorted \in [1..(Len(store) + Len(new)) -> S]
    BY DEF Sorted, InOrder
  <2>2. QED
    BY <2>1
<1>3. QED
  BY <1>1, <1>2, FunctionTable

LEMMA WrittenTable ==
    ASSUME NEW t, NEW n \in Nat, NEW K \in SUBSET (1..n) PROVE Table(Written(t, K))
<1>1. Cardinality(K) \in Nat
  <2>1. IsFiniteSet(1..n)
    BY FS_Interval
  <2>2. IsFiniteSet(K)
    BY <2>1, FS_Subset
  <2>3. QED
    BY <2>2, FS_CardinalityType
<1>2. \E S : Written(t, K) \in [1..Cardinality(K) -> S]
  <2> DEFINE S == {Written(t, K)[p] : p \in 1..Cardinality(K)}
  <2>1. Written(t, K) \in [1..Cardinality(K) -> S]
    BY DEF Written
  <2>2. QED
    BY <2>1
<1>3. QED
  BY <1>1, <1>2, FunctionTable

(* The last rows of the runs of the rows a to b, where a run starts at a   *)
(* and one ends at b, are those of the whole stream's runs.                *)
LEMMA KeptLocally ==
    ASSUME NEW t, NEW n \in Nat, NEW a \in 1..(n + 1), NEW b \in (a - 1)..n,
           b = n \/ Boundary(t, b)
    PROVE  Kept(t, a, b) = {p \in Kept(t, 1, n) : a <= p /\ p <= b}
BY DEF Kept, Boundary

(* A run may be looked for from any row at which one starts.               *)
LEMMA RunLocally ==
    ASSUME NEW t, NEW a \in Nat \ {0}, NEW p \in Nat, a <= p, Boundary(t, a - 1)
    PROVE  RunOf(t, a, p) = RunOf(t, 1, p)
<1>1. ASSUME NEW q \in RunOf(t, a, p) PROVE q \in RunOf(t, 1, p)
  BY <1>1 DEF RunOf, Boundary
<1>2. ASSUME NEW q \in RunOf(t, 1, p) PROVE q \in RunOf(t, a, p)
  <2>1. /\ q \in 1..p /\ (q = 1 \/ ~Same(t, q - 1))
        /\ \A i \in q..(p - 1) : Same(t, i)
    BY DEF RunOf
  <2>2. ASSUME q < a PROVE FALSE
    <3>1. a - 1 \in q..(p - 1)
      BY <2>1, <2>2
    <3>2. Same(t, a - 1) /\ a - 1 # 0
      BY <2>1, <2>2, <3>1
    <3>3. QED
      BY <3>2 DEF Boundary
  <2>3. q \in a..p
    BY <2>1, <2>2
  <2>4. QED
    BY <2>1, <2>3 DEF RunOf
<1>3. QED
  BY <1>1, <1>2

(* The same of the rows whose value is not the stored one.                 *)
LEMMA ChangedLocally ==
    ASSUME NEW t, NEW n \in Nat, NEW a \in 1..(n + 1), NEW b \in (a - 1)..n, NEW old,
           b = n \/ Boundary(t, b), Boundary(t, a - 1)
    PROVE  Changed(t, a, b, old) = {p \in Changed(t, 1, n, old) : a <= p /\ p <= b}
<1>1. Kept(t, a, b) = {p \in Kept(t, 1, n) : a <= p /\ p <= b}
  BY KeptLocally
<1>2. \A p \in Kept(t, a, b) : RunOf(t, a, p) = RunOf(t, 1, p)
  BY RunLocally DEF Kept
<1>3. QED
  BY <1>1, <1>2 DEF Changed

(* Processing up to the end of a run, or of the stream.                    *)
LEMMA EmitStands ==
    ASSUME Table(stream), Stands, NEW b \in cut..Len(stream),
           b = Len(stream) \/ Boundary(stream, b), Emit(b)
    PROVE  /\ cut' = b
           /\ kept' = {p \in Kept(stream, 1, Len(stream)) : p <= b}
           /\ changed' = {p \in Changed(stream, 1, Len(stream), Len(store)) : p <= b}
<1> DEFINE N == Len(stream)
           a == cut + 1
<1>1. /\ N \in Nat /\ cut \in Nat /\ a \in 1..(N + 1) /\ b \in (a - 1)..N
      /\ b = N \/ Boundary(stream, b)
  BY TableLen DEF Stands
<1>a. a - 1 = cut /\ Boundary(stream, a - 1)
  <2>1. a - 1 = cut
    BY <1>1
  <2>2. QED
    BY <2>1 DEF Stands
<1> HIDE DEF N, a
<1>2. Kept(stream, a, b) = {p \in Kept(stream, 1, N) : a <= p /\ p <= b}
  BY <1>1, KeptLocally
<1>3. Changed(stream, a, b, Len(store))
        = {p \in Changed(stream, 1, N, Len(store)) : a <= p /\ p <= b}
  <2>1. ASSUME NEW old
        PROVE  Changed(stream, a, b, old) = {p \in Changed(stream, 1, N, old) : a <= p /\ p <= b}
    BY <1>1, <1>a, ChangedLocally
  <2>2. QED
    BY <2>1
<1>4. \A p \in Kept(stream, 1, N) : p \in Nat
  BY <1>1 DEF Kept
<1>5. \A p \in Changed(stream, 1, N, Len(store)) : p \in Nat
  BY <1>4 DEF Changed
<1>6. kept' = {p \in Kept(stream, 1, N) : p <= b}
  BY <1>1, <1>2, <1>4 DEF Emit, Stands, N, a
<1>7. changed' = {p \in Changed(stream, 1, N, Len(store)) : p <= b}
  BY <1>1, <1>3, <1>5 DEF Emit, Stands, N, a
<1>8. QED
  BY <1>6, <1>7 DEF Emit, N

-----------------------------------------------------------------------------
LEMMA MergeInit == Init => MergeInv
<1> SUFFICES ASSUME Init PROVE MergeInv
  OBVIOUS
<1>1. Table(store)
  <2>1. PICK m \in 0..MaxStored : store \in [1..m -> Rows]
    BY DEF Init, TablesUpTo
  <2>2. QED
    BY <2>1, MergeAssumption, FunctionTable
<1>2. Table(<<>>)
  <2>1. <<>> \in Seq(Rows)
    OBVIOUS
  <2>2. QED
    BY <2>1 DEF Table
<1>3. QED
  BY <1>1, <1>2 DEF Init, MergeInv, ChunksDoNotMatter

(* The end of a call.                                                      *)
LEMMA EndInv == ASSUME End, Table(store') PROVE MergeInv'
<1>1. <<>> \in Seq(Rows)
  OBVIOUS
<1>2. Table(<<>>)
  BY <1>1 DEF Table
<1>3. QED
  BY <1>2 DEF End, MergeInv, ChunksDoNotMatter

LEMMA MergeNext == MergeInv /\ [Next]_vars => MergeInv'
<1> SUFFICES ASSUME MergeInv, [Next]_vars PROVE MergeInv'
  OBVIOUS
<1> DEFINE N == Len(stream)
<1>0. N \in Nat /\ Len(store) \in Nat /\ Len(new) \in Nat
  BY TableLen DEF MergeInv
<1>1. CASE UNCHANGED vars
  BY <1>1 DEF vars, streaming, MergeInv, Stands, ChunksDoNotMatter
<1>2. ASSUME NEW t \in TablesUpTo(MaxNew), Call(t) PROVE MergeInv'
  <2>1. PICK m \in 0..MaxNew : t \in [1..m -> Rows]
    BY DEF TablesUpTo
  <2>2. Table(t)
    BY <2>1, MergeAssumption, FunctionTable
  <2>3. QED
    BY <1>2, <2>2 DEF Call, MergeInv, ChunksDoNotMatter, streaming
<1>3. CASE MergeWhole
  <2> DEFINE t == Sorted
             K == Kept(t, 1, Len(t))
  <2>1. End /\ store' = Written(t, K)
    BY <1>3 DEF MergeWhole, Publish
  <2>2. Len(t) \in Nat
    BY SortedTable, TableLen DEF MergeInv
  <2>3. Table(Written(t, K))
    BY <2>2, WrittenTable DEF Kept
  <2>4. QED
    BY <2>1, <2>3, EndInv
<1>4. CASE Open
  <2>1. /\ stream' = Sorted /\ phase' = "stream" /\ store' = store /\ new' = new
        /\ read' = 0 /\ cut' = 0 /\ kept' = {} /\ changed' = {}
    BY <1>4 DEF Open
  <2>2. Table(stream') /\ Len(stream') \in Nat
    BY <2>1, SortedTable, TableLen DEF MergeInv
  <2>3. \A p \in Kept(stream', 1, Len(stream')) : ~(p <= 0)
    BY <2>2 DEF Kept
  <2>4. Stands'
    BY <2>1, <2>2, <2>3 DEF Stands, Boundary, Changed
  <2>5. QED
    BY <2>1, <2>2, <2>4 DEF MergeInv, ChunksDoNotMatter
<1>5. ASSUME NEW r \in 1..Len(stream), NextBatch(r) PROVE MergeInv'
  <2>1. Stands /\ phase' = "stream" /\ UNCHANGED <<store, new, stream>> /\ read' = r
        /\ r \in Nat /\ read < r /\ r <= N
    BY <1>0, <1>5 DEF NextBatch, MergeInv, Stands
  <2>2. PICK c \in BeforeTrailingRun(r) : Emit(c)
    BY <1>5 DEF NextBatch
  <2>3. /\ c \in cut..(r - 1) /\ cut \in Nat /\ c \in Nat /\ c < r /\ c \in cut..N
        /\ Boundary(stream, c)
    BY <1>0, <2>1, <2>2 DEF BeforeTrailingRun, Stands, Boundary
  <2>4. /\ cut' = c
        /\ kept' = {p \in Kept(stream, 1, N) : p <= c}
        /\ changed' = {p \in Changed(stream, 1, N, Len(store)) : p <= c}
    BY <2>1, <2>2, <2>3, EmitStands DEF MergeInv
  <2>5. Stands'
    BY <2>1, <2>3, <2>4 DEF Stands
  <2>6. QED
    BY <2>1, <2>5 DEF MergeInv, ChunksDoNotMatter
<1>6. CASE LastRun
  <2>1. /\ Stands /\ phase' = "written" /\ UNCHANGED <<store, new, stream, read>>
        /\ read = N /\ Emit(N)
    BY <1>6 DEF LastRun, MergeInv
  <2>2. N \in cut..N
    BY <1>0, <2>1 DEF Stands
  <2>3. /\ kept' = {p \in Kept(stream, 1, N) : p <= N}
        /\ changed' = {p \in Changed(stream, 1, N, Len(store)) : p <= N}
    BY <2>1, <2>2, EmitStands DEF MergeInv
  <2>4. \A p \in Kept(stream, 1, N) : p <= N
    BY <1>0 DEF Kept
  <2>5. /\ kept' = Kept(stream, 1, N)
        /\ changed' = Changed(stream, 1, N, Len(store))
    BY <2>3, <2>4 DEF Changed
  <2>6. QED
    BY <2>1, <2>5 DEF MergeInv, ChunksDoNotMatter
<1>7. CASE Commit
  <2>1. /\ End /\ store' = Written(stream, kept)
        /\ kept = Kept(stream, 1, N)
    BY <1>7 DEF Commit, Publish, MergeInv, ChunksDoNotMatter
  <2>2. Table(Written(stream, kept))
    BY <1>0, <2>1, WrittenTable DEF Kept
  <2>3. QED
    BY <2>1, <2>2, EndInv
<1>8. CASE Fail
  BY <1>8, EndInv DEF Fail, MergeInv
<1>9. QED
  BY <1>1, <1>2, <1>3, <1>4, <1>5, <1>6, <1>7, <1>8 DEF Next

(* The streamed merge keeps and reports what the merge in memory does, for *)
(* all tables and batches.                                                 *)
THEOREM MergeChunksDoNotMatter == Spec => []ChunksDoNotMatter
<1>1. MergeInv => ChunksDoNotMatter
  BY DEF MergeInv
<1>2. QED
  BY <1>1, MergeInit, MergeNext, PTL DEF Spec

-----------------------------------------------------------------------------
(* What InOrder returns: elements have the ranks that the numbers of       *)
(* elements below them say.                                                *)

(* lower maps each of finitely many elements to those below it, in a       *)
(* strict total order.                                                     *)
Orders(lower) ==
    /\ IsFiniteSet(DOMAIN lower)
    /\ \A x \in DOMAIN lower : lower[x] \subseteq DOMAIN lower /\ x \notin lower[x]
    /\ \A x, y, z \in DOMAIN lower : x \in lower[y] /\ y \in lower[z] => x \in lower[z]
    /\ \A x, y \in DOMAIN lower : x = y \/ x \in lower[y] \/ y \in lower[x]

(* What is below has a smaller rank.                                       *)
LEMMA RankGrows ==
    ASSUME NEW lower, Orders(lower), NEW x \in DOMAIN lower, NEW y \in DOMAIN lower,
           x \in lower[y]
    PROVE  Cardinality(lower[x]) < Cardinality(lower[y])
<1>1. lower[x] \subseteq lower[y] /\ x \notin lower[x]
  BY DEF Orders
<1>2. IsFiniteSet(lower[y])
  <2>1. IsFiniteSet(DOMAIN lower) /\ lower[y] \in SUBSET DOMAIN lower
    BY DEF Orders
  <2>2. QED
    BY <2>1, FS_Subset
<1>3. /\ IsFiniteSet(lower[x]) /\ Cardinality(lower[x]) <= Cardinality(lower[y])
      /\ Cardinality(lower[x]) # Cardinality(lower[y])
  BY <1>1, <1>2, FS_Subset
<1>4. Cardinality(lower[x]) \in Nat /\ Cardinality(lower[y]) \in Nat
  BY <1>2, <1>3, FS_CardinalityType
<1>5. QED
  BY <1>3, <1>4

(* Every rank below the number of elements is taken.                       *)
LEMMA RankTaken ==
    ASSUME NEW lower, Orders(lower)
    PROVE  LET n == Cardinality(DOMAIN lower)
           IN  /\ n \in Nat
               /\ \A x \in DOMAIN lower : Cardinality(lower[x]) \in 0..(n - 1)
               /\ \A r \in 0..(n - 1) : \E x \in DOMAIN lower : Cardinality(lower[x]) = r
<1> DEFINE A == DOMAIN lower
           n == Cardinality(A)
           rank == [x \in A |-> Cardinality(lower[x])]
<1>1. IsFiniteSet(A) /\ n \in Nat
  BY FS_CardinalityType DEF Orders
<1>2. ASSUME NEW x \in A PROVE Cardinality(lower[x]) \in 0..(n - 1)
  <2>1. lower[x] \in SUBSET A /\ lower[x] # A
    BY DEF Orders
  <2>2. /\ IsFiniteSet(lower[x]) /\ Cardinality(lower[x]) <= n /\ Cardinality(lower[x]) # n
    BY <1>1, <2>1, FS_Subset
  <2>3. Cardinality(lower[x]) \in Nat
    BY <2>2, FS_CardinalityType
  <2>4. QED
    BY <1>1, <2>2, <2>3
<1>3. rank \in [A -> 0..(n - 1)]
  BY <1>2
<1>4. ASSUME NEW x \in A, NEW y \in A, rank[x] = rank[y] PROVE x = y
  <2>1. ~(x \in lower[y]) /\ ~(y \in lower[x])
    <3>1. Cardinality(lower[x]) = Cardinality(lower[y]) /\ Cardinality(lower[x]) \in Int
      BY <1>2, <1>4
    <3>2. QED
      BY <3>1, RankGrows
  <2>2. QED
    BY <2>1 DEF Orders
<1>5. rank \in Injection(A, 0..(n - 1))
  BY <1>3, <1>4 DEF Injection, IsInjective
<1>6. IsFiniteSet(0..(n - 1)) /\ Cardinality(0..(n - 1)) = n
  BY <1>1, FS_Interval
<1>7. rank \in Surjection(A, 0..(n - 1))
  <2> HIDE DEF rank, n
  <2>1. QED
    BY <1>5, <1>6, FS_Injection DEF n
<1>8. \A r \in 0..(n - 1) : \E x \in A : Cardinality(lower[x]) = r
  BY <1>7 DEF Surjection
<1>9. QED
  BY <1>1, <1>2, <1>8

(* InOrder enumerates all of the elements, each of them once, in order.    *)
LEMMA InOrderFacts ==
    ASSUME NEW lower, Orders(lower)
    PROVE  LET n == Cardinality(DOMAIN lower)
               t == InOrder(n, lower)
           IN  /\ n \in Nat
               /\ t \in [1..n -> DOMAIN lower]
               /\ \A x \in DOMAIN lower : \E p \in 1..n : t[p] = x
               /\ \A p, q \in 1..n : t[p] \in lower[t[q]] <=> p < q
<1> DEFINE A == DOMAIN lower
           n == Cardinality(A)
           t == InOrder(n, lower)
           Rank(x) == Cardinality(lower[x])
<1>1. /\ n \in Nat
      /\ \A x \in A : Rank(x) \in 0..(n - 1)
      /\ \A r \in 0..(n - 1) : \E x \in A : Rank(x) = r
  BY RankTaken
<1> HIDE DEF n
<1>2. ASSUME NEW p \in 1..n PROVE t[p] \in A /\ Rank(t[p]) = p - 1
  <2>1. t[p] = CHOOSE x \in A : Rank(x) = p - 1
    BY DEF InOrder
  <2>2. p - 1 \in 0..(n - 1)
    BY <1>1
  <2>3. \E x \in A : Rank(x) = p - 1
    BY <1>1, <2>2
  <2> HIDE DEF t, Rank, A
  <2>4. QED
    BY <2>1, <2>3
<1>3. t \in [1..n -> A]
  BY <1>2 DEF InOrder
<1>4. \A x, y \in A : x \in lower[y] => Rank(x) < Rank(y)
  BY RankGrows
<1>5. \A x, y \in A : x = y \/ x \in lower[y] \/ y \in lower[x]
  BY DEF Orders
<1> HIDE DEF t, Rank
<1>6. ASSUME NEW x \in A PROVE \E p \in 1..n : t[p] = x
  <2>1. Rank(x) \in 0..(n - 1)
    BY <1>1
  <2>2. Rank(x) + 1 \in 1..n
    BY <1>1, <2>1
  <2>3. t[Rank(x) + 1] \in A /\ Rank(t[Rank(x) + 1]) = Rank(x)
    BY <1>2, <2>1, <2>2
  <2>4. t[Rank(x) + 1] = x
    BY <1>4, <1>5, <2>1, <2>3
  <2>5. QED
    BY <2>2, <2>4
<1>7. ASSUME NEW p \in 1..n, NEW q \in 1..n PROVE t[p] \in lower[t[q]] <=> p < q
  <2>1. /\ t[p] \in A /\ Rank(t[p]) = p - 1
        /\ t[q] \in A /\ Rank(t[q]) = q - 1
    BY <1>2
  <2>2. t[p] \in lower[t[q]] => p < q
    BY <1>4, <2>1
  <2>3. t[q] \in lower[t[p]] => q < p
    BY <1>4, <2>1
  <2>4. t[p] = t[q] => p = q
    BY <2>1
  <2>5. p < q => t[p] # t[q]
    BY <2>1
  <2>6. QED
    BY <1>5, <2>1, <2>2, <2>3, <2>4, <2>5
<1>8. QED
  BY <1>1, <1>3, <1>6, <1>7 DEF t, n

(* So a nonempty finite set of integers has a greatest and a least element.*)
LEMMA GreatestAndLeast ==
    ASSUME NEW S \in SUBSET Int, IsFiniteSet(S), S # {}
    PROVE  /\ \E x \in S : \A y \in S : y <= x
           /\ \E x \in S : \A y \in S : x <= y
<1> DEFINE lower == [x \in S |-> {y \in S : y < x}]
           n == Cardinality(S)
           t == InOrder(n, lower)
<1>1. DOMAIN lower = S /\ Orders(lower)
  BY DEF Orders
<1>2. /\ n \in Nat
      /\ t \in [1..n -> S]
      /\ \A x \in S : \E p \in 1..n : t[p] = x
      /\ \A p, q \in 1..n : t[p] \in lower[t[q]] <=> p < q
  <2> HIDE DEF lower
  <2>1. QED
    BY <1>1, InOrderFacts
<1>3. \A p, q \in 1..n : t[p] < t[q] <=> p < q
  BY <1>2
<1> HIDE DEF t, n, lower
<1>4. n # 0
  BY <1>2
<1>5. 1 \in 1..n /\ n \in 1..n
  BY <1>2, <1>4
<1>6. ASSUME NEW y \in S PROVE y <= t[n] /\ t[1] <= y
  <2>1. PICK p \in 1..n : t[p] = y
    BY <1>2
  <2>2. ~(t[n] < t[p]) /\ ~(t[p] < t[1])
    BY <1>2, <1>3, <1>5
  <2>3. t[n] \in Int /\ t[1] \in Int /\ t[p] \in Int
    BY <1>2, <1>5
  <2>4. QED
    BY <2>1, <2>2, <2>3
<1>8. QED
  BY <1>2, <1>5, <1>6

-----------------------------------------------------------------------------
(* What Sorted returns: every row, stored or new, once, in the order of the *)
(* keys and of the positions.                                              *)

Streamed == [s : Series, d : Dates, v : Vals, i : Nat]

SameKey(x, y) == x.s = y.s /\ x.d = y.d

RowAt(i) == IF i <= Len(store) THEN Placed(store[i], i)
                               ELSE Placed(new[i - Len(store)], i)

Total == Len(store) + Len(new)

Merges(t) ==
    /\ t \in [1..Total -> Streamed]
    /\ \A p \in 1..Total : t[p].i \in 1..Total /\ t[p] = RowAt(t[p].i)
    /\ \A i \in 1..Total : \E p \in 1..Total : t[p].i = i
    /\ \A p, q \in 1..Total : Before(t[p], t[q]) <=> p < q

LEMMA Lengths ==
    ASSUME store \in Seq(Rows), new \in Seq(Rows)
    PROVE  /\ Len(store) \in Nat /\ Len(new) \in Nat /\ Total \in Nat
           /\ \A i \in 1..Len(store) : store[i] \in Rows
           /\ \A i \in 1..Len(new) : new[i] \in Rows
BY LenProperties, ElementOfSeq DEF Total

(* RowAt numbers the stored rows first, then the new ones.                 *)
LEMMA RowAtFacts ==
    ASSUME store \in Seq(Rows), new \in Seq(Rows), NEW i \in 1..Total
    PROVE  /\ RowAt(i) \in Streamed /\ RowAt(i).i = i
           /\ i <= Len(store) => /\ i \in 1..Len(store) /\ RowAt(i).v = store[i].v
                                 /\ SameKey(RowAt(i), store[i])
           /\ i > Len(store) => /\ i - Len(store) \in 1..Len(new)
                                /\ RowAt(i).v = new[i - Len(store)].v
                                /\ SameKey(RowAt(i), new[i - Len(store)])
<1>1. CASE i <= Len(store)
  <2>1. i \in 1..Len(store) /\ i \in Nat /\ ~(i > Len(store))
    BY <1>1, Lengths DEF Total
  <2>2. store[i] \in Rows /\ RowAt(i) = Placed(store[i], i)
    BY <1>1, <2>1, Lengths DEF RowAt
  <2>3. QED
    BY <2>1, <2>2 DEF Placed, Rows, Streamed, SameKey
<1>2. CASE i > Len(store)
  <2>1. i - Len(store) \in 1..Len(new) /\ i \in Nat /\ ~(i <= Len(store))
    BY <1>2, Lengths DEF Total
  <2>2. /\ new[i - Len(store)] \in Rows
        /\ RowAt(i) = Placed(new[i - Len(store)], i)
    BY <2>1, Lengths DEF RowAt
  <2>3. QED
    BY <2>1, <2>2 DEF Placed, Rows, Streamed, SameKey
<1>3. QED
  BY <1>1, <1>2, Lengths

(* Before is a strict order of rows, total where positions differ.         *)
LEMMA BeforeOrders ==
    ASSUME NEW x \in Streamed, NEW y \in Streamed, NEW z \in Streamed
    PROVE  /\ ~Before(x, x)
           /\ Before(x, y) /\ Before(y, z) => Before(x, z)
           /\ x.i # y.i => Before(x, y) \/ Before(y, x)
           /\ Before(x, y) /\ SameKey(x, y) => x.i < y.i
           /\ Before(x, y) /\ Before(y, z) /\ SameKey(x, z) => SameKey(y, x)
<1>1. /\ x.s \in Nat /\ y.s \in Nat /\ z.s \in Nat
      /\ x.d \in Nat /\ y.d \in Nat /\ z.d \in Nat
      /\ x.i \in Nat /\ y.i \in Nat /\ z.i \in Nat
  <2>1. Series \subseteq Nat /\ Dates \subseteq Nat
    BY MergeAssumption DEF Dates
  <2>2. /\ x.s \in Series /\ y.s \in Series /\ z.s \in Series
        /\ x.d \in Dates /\ y.d \in Dates /\ z.d \in Dates
        /\ x.i \in Nat /\ y.i \in Nat /\ z.i \in Nat
    BY DEF Streamed
  <2>3. QED
    BY <2>1, <2>2
<1>2. QED
  BY <1>1 DEF Before, DateBefore, SameKey

(* Sorted holds the row of each number once, in order.                     *)
LEMMA SortedMerges == ASSUME store \in Seq(Rows), new \in Seq(Rows) PROVE Merges(Sorted)
<1> DEFINE all == {RowAt(i) : i \in 1..Total}
           lower == [x \in all |-> {y \in all : Before(y, x)}]
<1>1. all = {Placed(store[i], i) : i \in 1..Len(store)}
                \cup {Placed(new[i], Len(store) + i) : i \in 1..Len(new)}
  <2>1. ASSUME NEW i \in 1..Len(store) PROVE Placed(store[i], i) \in all
    <3>1. i \in 1..Total /\ i <= Len(store)
      BY Lengths DEF Total
    <3>2. RowAt(i) = Placed(store[i], i)
      BY <3>1 DEF RowAt
    <3>3. QED
      BY <3>1, <3>2
  <2>2. ASSUME NEW i \in 1..Len(new) PROVE Placed(new[i], Len(store) + i) \in all
    <3>1. /\ Len(store) + i \in 1..Total /\ ~(Len(store) + i <= Len(store))
          /\ (Len(store) + i) - Len(store) = i
      BY Lengths DEF Total
    <3>2. RowAt(Len(store) + i) = Placed(new[i], Len(store) + i)
      BY <3>1 DEF RowAt
    <3>3. QED
      BY <3>1, <3>2
  <2>3. ASSUME NEW i \in 1..Total
        PROVE  \/ \E j \in 1..Len(store) : RowAt(i) = Placed(store[j], j)
               \/ \E j \in 1..Len(new) : RowAt(i) = Placed(new[j], Len(store) + j)
    <3>1. CASE i <= Len(store)
      <4>1. i \in 1..Len(store) /\ RowAt(i) = Placed(store[i], i)
        BY <3>1, Lengths DEF Total, RowAt
      <4>2. QED
        BY <4>1
    <3>2. CASE ~(i <= Len(store))
      <4>1. /\ i - Len(store) \in 1..Len(new) /\ Len(store) + (i - Len(store)) = i
            /\ RowAt(i) = Placed(new[i - Len(store)], i)
        BY <3>2, Lengths DEF Total, RowAt
      <4>2. QED
        BY <4>1
    <3>3. QED
      BY <3>1, <3>2
  <2>4. QED
    BY <2>1, <2>2, <2>3
<1>2. Sorted = InOrder(Total, lower)
  BY <1>1 DEF Sorted, Total
<1>3. \A x \in all : x \in Streamed /\ x.i \in 1..Total /\ x = RowAt(x.i)
  BY RowAtFacts
<1>4. \A i \in 1..Total : RowAt(i) \in all /\ RowAt(i).i = i
  BY RowAtFacts
<1> HIDE DEF all
<1>5. IsFiniteSet(all) /\ Cardinality(all) = Total
  <2> DEFINE f == [i \in 1..Total |-> RowAt(i)]
  <2>1. f \in Bijection(1..Total, all)
    BY <1>3, <1>4 DEF Bijection, Injection, Surjection, IsInjective
  <2>2. IsFiniteSet(1..Total) /\ Cardinality(1..Total) = Total
    BY Lengths, FS_Interval
  <2> HIDE DEF f
  <2>3. QED
    BY <2>1, <2>2, FS_Bijection DEF ExistsBijection
<1>6. Orders(lower)
  <2>1. \A x, y, z \in all : Before(x, y) /\ Before(y, z) => Before(x, z)
    BY <1>3, BeforeOrders
  <2>2. \A x, y \in all : x = y \/ Before(x, y) \/ Before(y, x)
    BY <1>3, BeforeOrders
  <2>3. \A x \in all : ~Before(x, x)
    BY <1>3, BeforeOrders
  <2>4. DOMAIN lower = all /\ \A x, y \in all : y \in lower[x] <=> Before(y, x)
    OBVIOUS
  <2>5. \A x \in all : lower[x] \subseteq all
    OBVIOUS
  <2> HIDE DEF lower
  <2>6. QED
    BY <1>5, <2>1, <2>2, <2>3, <2>4, <2>5 DEF Orders
<1>7. DOMAIN lower = all
  OBVIOUS
<1>8. \A x, y \in all : y \in lower[x] <=> Before(y, x)
  OBVIOUS
<1> DEFINE t == Sorted
<1>9. /\ t \in [1..Total -> all]
      /\ \A x \in all : \E p \in 1..Total : t[p] = x
      /\ \A p, q \in 1..Total : t[p] \in lower[t[q]] <=> p < q
  <2> HIDE DEF lower
  <2>1. QED
    BY <1>2, <1>5, <1>6, <1>7, InOrderFacts
<1> HIDE DEF lower, t
<1>10. \A p \in 1..Total : t[p] \in all
  BY <1>9
<1>11. t \in [1..Total -> Streamed]
  BY <1>3, <1>9
<1>12. \A p \in 1..Total : t[p].i \in 1..Total /\ t[p] = RowAt(t[p].i)
  BY <1>3, <1>10
<1>13. ASSUME NEW i \in 1..Total PROVE \E p \in 1..Total : t[p].i = i
  <2>1. PICK p \in 1..Total : t[p] = RowAt(i)
    BY <1>4, <1>9
  <2>2. t[p].i = i
    BY <1>4, <2>1
  <2>3. QED
    BY <2>2
<1>14. \A p, q \in 1..Total : Before(t[p], t[q]) <=> p < q
  BY <1>8, <1>9, <1>10
<1>15. Merges(t)
  BY <1>11, <1>12, <1>13, <1>14 DEF Merges
<1>16. QED
  BY <1>15 DEF t

-----------------------------------------------------------------------------
(* The runs of the sorted rows: one for each key.                          *)

LEMMA KeysInOrder ==
    ASSUME store \in Seq(Rows), new \in Seq(Rows), NEW t, Merges(t),
           NEW p \in 1..Total, NEW q \in 1..Total, NEW r \in 1..Total
    PROVE  /\ t[p] \in Streamed /\ p \in Nat
           /\ SameKey(t[p], t[q]) => (t[p].i < t[q].i <=> p < q)
           /\ p < q /\ q < r /\ SameKey(t[p], t[r]) => SameKey(t[q], t[p])
<1>1. Total \in Nat
  BY Lengths
<1>2. t[p] \in Streamed /\ t[q] \in Streamed /\ t[r] \in Streamed
  BY DEF Merges
<1>3. /\ Before(t[p], t[q]) <=> p < q
      /\ Before(t[q], t[p]) <=> q < p
      /\ Before(t[q], t[r]) <=> q < r
  BY DEF Merges
<1>4. /\ p < q /\ SameKey(t[p], t[q]) => t[p].i < t[q].i
      /\ q < p /\ SameKey(t[q], t[p]) => t[q].i < t[p].i
      /\ p < q /\ q < r /\ SameKey(t[p], t[r]) => SameKey(t[q], t[p])
  BY <1>2, <1>3, BeforeOrders
<1>5. t[p].i \in Nat /\ t[q].i \in Nat
  BY <1>2 DEF Streamed
<1>6. SameKey(t[p], t[q]) => SameKey(t[q], t[p])
  BY DEF SameKey
<1>7. SameKey(t[p], t[q]) => (t[p].i < t[q].i <=> p < q)
  <2>1. p < q \/ q < p \/ p = q
    OBVIOUS
  <2>2. CASE p = q
    BY <1>5, <2>2
  <2>3. CASE p < q
    BY <1>4, <2>3
  <2>4. CASE q < p
    BY <1>4, <1>5, <1>6, <2>4
  <2>5. QED
    BY <2>1, <2>2, <2>3, <2>4
<1>8. p \in Nat
  BY <1>1
<1>9. QED
  BY <1>2, <1>4, <1>7, <1>8

(* Same is equality of the keys.                                           *)
LEMMA SameIsSameKey == ASSUME NEW t, NEW p PROVE Same(t, p) <=> SameKey(t[p], t[p + 1])
BY DEF Same, SameKey

(* Kept: the last row of each key.                                         *)
LEMMA KeptIsLast ==
    ASSUME store \in Seq(Rows), new \in Seq(Rows), NEW t, Merges(t),
           NEW p \in 1..Total
    PROVE  p \in Kept(t, 1, Total) <=>
           \A q \in 1..Total : SameKey(t[q], t[p]) => q <= p
<1>0. Total \in Nat
  BY Lengths
<1>1. ASSUME p \in Kept(t, 1, Total), NEW q \in 1..Total, SameKey(t[q], t[p]), ~(q <= p)
      PROVE  FALSE
  <2>1. p + 1 \in 1..Total /\ p < q /\ p # Total /\ p < p + 1
    BY <1>0, <1>1
  <2>2. ~SameKey(t[p], t[p + 1])
    BY <1>1, <2>1, SameIsSameKey DEF Kept
  <2>3. p + 1 < q
    <3>1. p + 1 # q
      BY <1>1, <2>2 DEF SameKey
    <3>2. QED
      BY <1>0, <2>1, <3>1
  <2>4. SameKey(t[p], t[q])
    BY <1>1 DEF SameKey
  <2>5. SameKey(t[p + 1], t[p])
    BY <2>1, <2>3, <2>4, KeysInOrder
  <2>6. QED
    BY <2>2, <2>5 DEF SameKey
<1>2. ASSUME \A q \in 1..Total : SameKey(t[q], t[p]) => q <= p PROVE p \in Kept(t, 1, Total)
  <2>1. SUFFICES ASSUME p # Total, Same(t, p) PROVE FALSE
    BY DEF Kept
  <2>2. p + 1 \in 1..Total /\ ~(p + 1 <= p)
    BY <1>0, <2>1
  <2>3. SameKey(t[p + 1], t[p])
    BY <2>1, SameIsSameKey DEF SameKey
  <2>4. QED
    BY <1>2, <2>2, <2>3
<1>3. QED
  BY <1>1, <1>2

(* Each key has one.                                                       *)
LEMMA KeptForKey ==
    ASSUME store \in Seq(Rows), new \in Seq(Rows), NEW t, Merges(t)
    PROVE  /\ \A p \in 1..Total : \E q \in Kept(t, 1, Total) : SameKey(t[q], t[p])
           /\ \A p, q \in Kept(t, 1, Total) : SameKey(t[q], t[p]) => p = q
           /\ Kept(t, 1, Total) \subseteq 1..Total
<1>0. Total \in Nat /\ Kept(t, 1, Total) \subseteq 1..Total
  BY Lengths DEF Kept
<1>1. ASSUME NEW p \in 1..Total PROVE \E q \in Kept(t, 1, Total) : SameKey(t[q], t[p])
  <2> DEFINE S == {q \in 1..Total : SameKey(t[q], t[p])}
  <2>1. S \in SUBSET Int /\ p \in S /\ S \in SUBSET (1..Total)
    BY DEF SameKey
  <2>2. IsFiniteSet(S)
    <3>1. IsFiniteSet(1..Total)
      BY <1>0, FS_Interval
    <3>2. QED
      BY <2>1, <3>1, FS_Subset
  <2>3. \E q \in S : \A r \in S : r <= q
    <3> HIDE DEF S
    <3>1. S # {}
      BY <2>1
    <3>2. QED
      BY <2>1, <2>2, <3>1, GreatestAndLeast
  <2>4. PICK q \in S : \A r \in S : r <= q
    BY <2>3
  <2>5. \A r \in 1..Total : SameKey(t[r], t[q]) => r <= q
    BY <2>4 DEF SameKey
  <2>6. q \in Kept(t, 1, Total)
    BY <2>4, <2>5, KeptIsLast
  <2>7. QED
    BY <2>4, <2>6
<1>2. ASSUME NEW p \in Kept(t, 1, Total), NEW q \in Kept(t, 1, Total), SameKey(t[q], t[p])
      PROVE  p = q
  <2>1. q <= p
    BY <1>0, <1>2, KeptIsLast
  <2>2. p <= q
    BY <1>0, <1>2, KeptIsLast DEF SameKey
  <2>3. QED
    BY <1>0, <2>1, <2>2
<1>3. QED
  BY <1>0, <1>1, <1>2

(* The run of a kept row has all of the rows of its key.                   *)
LEMMA RunOfKept ==
    ASSUME store \in Seq(Rows), new \in Seq(Rows), NEW t, Merges(t),
           NEW p \in Kept(t, 1, Total)
    PROVE  \E q \in 1..p : /\ RunOf(t, 1, p) = {q}
                           /\ \A i \in 1..Total : SameKey(t[i], t[p]) <=> i \in q..p
<1>0. Total \in Nat /\ p \in 1..Total /\ \A i \in 1..p : i \in 1..Total
  BY Lengths DEF Kept
<1> DEFINE S == {i \in 1..Total : SameKey(t[i], t[p])}
<1>1. S \in SUBSET Int /\ p \in S /\ S \in SUBSET (1..Total)
  BY <1>0 DEF SameKey
<1>2. IsFiniteSet(S)
  <2>1. IsFiniteSet(1..Total)
    BY <1>0, FS_Interval
  <2>2. QED
    BY <1>1, <2>1, FS_Subset
<1>3. \E q \in S : \A i \in S : q <= i
  <2> HIDE DEF S
  <2>1. S # {}
    BY <1>1
  <2>2. QED
    BY <1>1, <1>2, <2>1, GreatestAndLeast
<1>4. PICK q \in S : \A i \in S : q <= i
  BY <1>3
<1>5. q \in 1..p /\ q \in 1..Total /\ SameKey(t[q], t[p])
  BY <1>0, <1>1, <1>4
<1>6. ASSUME NEW i \in 1..Total PROVE SameKey(t[i], t[p]) <=> i \in q..p
  <2>1. SameKey(t[i], t[p]) => q <= i
    BY <1>4
  <2>2. SameKey(t[i], t[p]) => i <= p
    BY <1>0, KeptIsLast
  <2>3. ASSUME i \in q..p PROVE SameKey(t[i], t[p])
    <3>1. CASE i = q \/ i = p
      BY <1>5, <3>1 DEF SameKey
    <3>2. CASE q < i /\ i < p
      <4>1. SameKey(t[i], t[q])
        BY <1>0, <1>5, <3>2, KeysInOrder
      <4>2. QED
        BY <1>5, <4>1 DEF SameKey
    <3>3. QED
      BY <1>0, <1>5, <2>3, <3>1, <3>2
  <2>4. QED
    BY <1>0, <1>5, <2>1, <2>2, <2>3
<1> HIDE DEF S
<1>7. q \in RunOf(t, 1, p)
  <2>1. q = 1 \/ ~Same(t, q - 1)
    <3>1. SUFFICES ASSUME q # 1, Same(t, q - 1) PROVE FALSE
      OBVIOUS
    <3>2. q - 1 \in 1..Total /\ (q - 1) + 1 = q /\ ~(q - 1 \in q..p)
      BY <1>0, <1>5, <3>1
    <3>3. SameKey(t[q - 1], t[p])
      BY <1>5, <3>1, <3>2 DEF Same, SameKey
    <3>4. QED
      BY <1>6, <3>2, <3>3
  <2>2. ASSUME NEW i \in q..(p - 1) PROVE Same(t, i)
    <3>1. i \in 1..Total /\ i + 1 \in 1..Total /\ i \in q..p /\ i + 1 \in q..p
      BY <1>0, <1>5
    <3>2. SameKey(t[i], t[p]) /\ SameKey(t[i + 1], t[p])
      BY <1>6, <3>1
    <3>3. QED
      BY <3>2 DEF Same, SameKey
  <2>3. QED
    BY <1>5, <2>1, <2>2 DEF RunOf
<1>8. ASSUME NEW j \in RunOf(t, 1, p) PROVE j = q
  <2>1. /\ j \in 1..p /\ (j = 1 \/ ~Same(t, j - 1)) /\ j \in 1..Total
        /\ \A i \in j..(p - 1) : Same(t, i)
    BY <1>0 DEF RunOf
  <2>2. CASE q < j
    <3>1. /\ j - 1 \in 1..Total /\ (j - 1) + 1 = j /\ j # 1
          /\ j - 1 \in q..p /\ j \in q..p
      BY <1>0, <1>5, <2>1, <2>2
    <3>2. SameKey(t[j - 1], t[p]) /\ SameKey(t[j], t[p])
      BY <1>6, <2>1, <3>1
    <3>3. Same(t, j - 1)
      BY <3>1, <3>2 DEF Same, SameKey
    <3>4. QED
      BY <2>1, <3>1, <3>3
  <2>3. CASE j < q
    <3>1. /\ q - 1 \in j..(p - 1) /\ q - 1 \in 1..Total /\ (q - 1) + 1 = q
          /\ ~(q - 1 \in q..p)
      BY <1>0, <1>5, <2>1, <2>3
    <3>2. Same(t, q - 1)
      BY <2>1, <3>1
    <3>3. SameKey(t[q - 1], t[p])
      BY <1>5, <3>1, <3>2 DEF Same, SameKey
    <3>4. QED
      BY <1>6, <3>1, <3>3
  <2>4. QED
    BY <1>5, <2>1, <2>2, <2>3
<1>9. RunOf(t, 1, p) = {q}
  BY <1>7, <1>8
<1>10. QED
  BY <1>5, <1>6, <1>9

-----------------------------------------------------------------------------
(* The values: of the stored rows, of the new ones, and of the kept ones.  *)

HasKey(x, k) == x.s = k[1] /\ x.d = k[2]

(* A table gives the value of the last row of a key, if it has one.        *)
LEMMA ServedFacts ==
    ASSUME NEW table \in Seq(Rows), NEW k \in Keys
    PROVE  /\ Served(table)[k] \in Vals \cup {None}
           /\ (\A i \in 1..Len(table) : ~HasKey(table[i], k)) => Served(table)[k] = None
           /\ (\E i \in 1..Len(table) : HasKey(table[i], k)) =>
                \E g \in 1..Len(table) :
                    /\ HasKey(table[g], k)
                    /\ \A i \in 1..Len(table) : HasKey(table[i], k) => i <= g
                    /\ Served(table)[k] = table[g].v /\ table[g].v \in Vals
<1> DEFINE at == {i \in 1..Len(table) : table[i].s = k[1] /\ table[i].d = k[2]}
<1>0. Len(table) \in Nat /\ \A i \in 1..Len(table) : table[i] \in Rows
  BY LenProperties, ElementOfSeq
<1>1. Served(table)[k] = IF at = {} THEN None
                         ELSE table[CHOOSE i \in at : \A j \in at : j <= i].v
  BY DEF Served
<1>2. \A i \in 1..Len(table) : i \in at <=> HasKey(table[i], k)
  BY DEF HasKey
<1>3. at \in SUBSET (1..Len(table)) /\ at \in SUBSET Int
  OBVIOUS
<1> HIDE DEF at
<1>4. ASSUME at # {}
      PROVE  \E g \in at : (\A i \in at : i <= g) /\ Served(table)[k] = table[g].v
  <2>1. IsFiniteSet(at)
    <3>1. IsFiniteSet(1..Len(table))
      BY <1>0, FS_Interval
    <3>2. QED
      BY <1>3, <3>1, FS_Subset
  <2>2. \E g \in at : \A i \in at : i <= g
    BY <1>3, <1>4, <2>1, GreatestAndLeast
  <2> DEFINE g == CHOOSE i \in at : \A j \in at : j <= i
  <2>3. g \in at /\ \A i \in at : i <= g
    BY <2>2
  <2>4. Served(table)[k] = table[g].v
    BY <1>1, <1>4
  <2>5. QED
    BY <2>3, <2>4
<1>5. \A g \in at : g \in 1..Len(table) /\ table[g].v \in Vals
  BY <1>0, <1>3 DEF Rows
<1>6. at = {} => Served(table)[k] = None
  BY <1>1
<1>7. Served(table)[k] \in Vals \cup {None}
  BY <1>4, <1>5, <1>6
<1>8. QED
  BY <1>2, <1>3, <1>4, <1>5, <1>6, <1>7

(* Where the stored and the new rows are among the sorted ones.            *)
LEMMA Positions ==
    ASSUME store \in Seq(Rows), new \in Seq(Rows), NEW t, Merges(t)
    PROVE  /\ \A p \in 1..Total : t[p].i \in Nat /\ t[p].v \in Vals
           /\ \A p \in 1..Total : t[p].i <= Len(store) =>
                /\ t[p].i \in 1..Len(store) /\ t[p].v = store[t[p].i].v
                /\ SameKey(t[p], store[t[p].i])
           /\ \A p \in 1..Total : t[p].i > Len(store) =>
                /\ t[p].i - Len(store) \in 1..Len(new)
                /\ t[p].v = new[t[p].i - Len(store)].v
                /\ SameKey(t[p], new[t[p].i - Len(store)])
           /\ \A i \in 1..Len(store) : \E u \in 1..Total : t[u].i = i
           /\ \A i \in 1..Len(new) : \E u \in 1..Total : t[u].i = Len(store) + i
<1>1. \A p \in 1..Total : t[p].i \in 1..Total /\ t[p] = RowAt(t[p].i)
  BY DEF Merges
<1>2. ASSUME NEW p \in 1..Total PROVE t[p].i \in Nat /\ t[p].v \in Vals
  BY DEF Merges, Streamed
<1>3. ASSUME NEW p \in 1..Total, t[p].i <= Len(store)
      PROVE  /\ t[p].i \in 1..Len(store) /\ t[p].v = store[t[p].i].v
             /\ SameKey(t[p], store[t[p].i])
  BY <1>1, <1>3, RowAtFacts
<1>4. ASSUME NEW p \in 1..Total, t[p].i > Len(store)
      PROVE  /\ t[p].i - Len(store) \in 1..Len(new)
             /\ t[p].v = new[t[p].i - Len(store)].v
             /\ SameKey(t[p], new[t[p].i - Len(store)])
  BY <1>1, <1>4, RowAtFacts
<1>5. \A i \in 1..Len(store) : i \in 1..Total
  BY Lengths DEF Total
<1>6. \A i \in 1..Len(new) : Len(store) + i \in 1..Total
  BY Lengths DEF Total
<1>7. \A i \in 1..Total : \E u \in 1..Total : t[u].i = i
  BY DEF Merges
<1>8. QED
  BY <1>2, <1>3, <1>4, <1>5, <1>6, <1>7

(* A kept row has the new value of its key, or else the stored one.        *)
LEMMA KeptValue ==
    ASSUME store \in Seq(Rows), new \in Seq(Rows), NEW t, Merges(t),
           NEW p \in Kept(t, 1, Total), NEW k \in Keys, HasKey(t[p], k)
    PROVE  t[p].v = IF Served(new)[k] = None THEN Served(store)[k] ELSE Served(new)[k]
<1>0. /\ Len(store) \in Nat /\ Len(new) \in Nat /\ p \in 1..Total /\ t[p].i \in Nat
      /\ Kept(t, 1, Total) \subseteq 1..Total
  BY Lengths, KeptForKey, Positions
<1>1. CASE \E j \in 1..Len(new) : HasKey(new[j], k)
  <2>1. PICK g \in 1..Len(new) :
            /\ HasKey(new[g], k)
            /\ \A j \in 1..Len(new) : HasKey(new[j], k) => j <= g
            /\ Served(new)[k] = new[g].v /\ new[g].v \in Vals
    BY <1>1, ServedFacts
  <2>2. PICK u \in 1..Total : t[u].i = Len(store) + g
    BY Positions
  <2>3. /\ t[u].i > Len(store) /\ t[u].i - Len(store) = g
        /\ SameKey(t[u], new[g])
    <3>1. t[u].i > Len(store) /\ t[u].i - Len(store) = g
      BY <1>0, <2>2
    <3>2. QED
      BY <3>1, Positions
  <2>4. SameKey(t[u], t[p])
    BY <2>1, <2>3 DEF SameKey, HasKey
  <2>5. u <= p
    BY <1>0, <2>4, KeptIsLast
  <2>6. t[u].i <= t[p].i
    <3>1. CASE u = p
      BY <1>0, <3>1
    <3>2. CASE u < p
      <4>1. t[u].i < t[p].i
        BY <1>0, <2>4, <3>2, KeysInOrder
      <4>2. QED
        BY <1>0, <2>2, <4>1
    <3>3. QED
      BY <1>0, <2>5, <3>1, <3>2
  <2>7. t[p].i > Len(store)
    BY <1>0, <2>2, <2>6
  <2>8. /\ t[p].i - Len(store) \in 1..Len(new)
        /\ t[p].v = new[t[p].i - Len(store)].v
        /\ SameKey(t[p], new[t[p].i - Len(store)])
    BY <1>0, <2>7, Positions
  <2>9. t[p].i - Len(store) <= g
    BY <2>1, <2>8 DEF SameKey, HasKey
  <2>10. t[p].i - Len(store) = g
    BY <1>0, <2>2, <2>6, <2>9
  <2>11. QED
    BY <2>1, <2>8, <2>10, MergeAssumption
<1>2. CASE ~\E j \in 1..Len(new) : HasKey(new[j], k)
  <2>1. Served(new)[k] = None
    BY <1>2, ServedFacts
  <2>2. ~(t[p].i > Len(store))
    <3>1. SUFFICES ASSUME t[p].i > Len(store) PROVE FALSE
      OBVIOUS
    <3>2. /\ t[p].i - Len(store) \in 1..Len(new)
          /\ SameKey(t[p], new[t[p].i - Len(store)])
      BY <1>0, <3>1, Positions
    <3>3. QED
      BY <1>2, <3>2 DEF SameKey, HasKey
  <2>3. t[p].i <= Len(store)
    BY <1>0, <2>2
  <2>4. /\ t[p].i \in 1..Len(store) /\ t[p].v = store[t[p].i].v
        /\ SameKey(t[p], store[t[p].i])
    BY <1>0, <2>3, Positions
  <2>5. HasKey(store[t[p].i], k)
    BY <2>4 DEF SameKey, HasKey
  <2>6. PICK g \in 1..Len(store) :
            /\ HasKey(store[g], k)
            /\ \A i \in 1..Len(store) : HasKey(store[i], k) => i <= g
            /\ Served(store)[k] = store[g].v
    BY <2>4, <2>5, ServedFacts
  <2>7. PICK u \in 1..Total : t[u].i = g
    BY Positions
  <2>8. SameKey(t[u], t[p])
    <3>1. t[u].i <= Len(store)
      BY <1>0, <2>7
    <3>2. SameKey(t[u], store[g])
      BY <2>7, <3>1, Positions
    <3>3. QED
      BY <2>6, <3>2 DEF SameKey, HasKey
  <2>9. u <= p
    BY <1>0, <2>8, KeptIsLast
  <2>10. g <= t[p].i
    <3>1. CASE u = p
      BY <1>0, <2>7, <3>1
    <3>2. CASE u < p
      <4>1. t[u].i < t[p].i
        BY <1>0, <2>8, <3>2, KeysInOrder
      <4>2. QED
        BY <1>0, <2>7, <4>1
    <3>3. QED
      BY <1>0, <2>9, <3>1, <3>2
  <2>11. t[p].i <= g
    BY <2>4, <2>5, <2>6
  <2>12. t[p].i = g
    BY <1>0, <2>10, <2>11
  <2>13. QED
    BY <2>1, <2>4, <2>6, <2>12
<1>3. QED
  BY <1>1, <1>2

(* A key of no row has no value.                                           *)
LEMMA NoRowNoValue ==
    ASSUME store \in Seq(Rows), new \in Seq(Rows), NEW t, Merges(t), NEW k \in Keys,
           \A p \in 1..Total : ~HasKey(t[p], k)
    PROVE  Served(store)[k] = None /\ Served(new)[k] = None
<1>0. Len(store) \in Nat /\ Len(new) \in Nat
  BY Lengths
<1>1. ASSUME NEW i \in 1..Len(store), HasKey(store[i], k) PROVE FALSE
  <2>1. PICK u \in 1..Total : t[u].i = i
    BY Positions
  <2>2. t[u].i <= Len(store)
    BY <1>0, <2>1
  <2>3. SameKey(t[u], store[i])
    BY <2>1, <2>2, Positions
  <2>4. QED
    BY <1>1, <2>3 DEF SameKey, HasKey
<1>2. ASSUME NEW i \in 1..Len(new), HasKey(new[i], k) PROVE FALSE
  <2>1. PICK u \in 1..Total : t[u].i = Len(store) + i
    BY Positions
  <2>2. t[u].i > Len(store) /\ t[u].i - Len(store) = i
    BY <1>0, <2>1
  <2>3. SameKey(t[u], new[i])
    BY <2>2, Positions
  <2>4. QED
    BY <1>2, <2>3 DEF SameKey, HasKey
<1>3. QED
  BY <1>1, <1>2, ServedFacts

(* A kept row is reported just when its value is not the stored one.       *)
LEMMA ChangedValue ==
    ASSUME store \in Seq(Rows), new \in Seq(Rows), NEW t, Merges(t),
           NEW p \in Kept(t, 1, Total), NEW k \in Keys, HasKey(t[p], k)
    PROVE  p \in Changed(t, 1, Total, Len(store)) <=> Served(store)[k] # t[p].v
<1> DEFINE old == Len(store)
<1>0. /\ old \in Nat /\ Total \in Nat /\ p \in 1..Total /\ t[p].i \in Nat
      /\ \A i \in 1..Total : t[i].i \in Nat
  BY Lengths, KeptForKey, Positions
<1>1. PICK q \in 1..p : /\ RunOf(t, 1, p) = {q}
                        /\ \A i \in 1..Total : SameKey(t[i], t[p]) <=> i \in q..p
  BY RunOfKept
<1>2. p \in Changed(t, 1, Total, old) <=>
        \/ t[q].i > old
        \/ \E i \in q..(p - 1) : t[i].i <= old /\ t[i + 1].i > old /\ t[i].v # t[p].v
  BY <1>1 DEF Changed
<1>3. q \in 1..Total /\ q \in q..p /\ \A i \in q..p : i \in 1..Total
  BY <1>0, <1>1
(* Within the run, rows are in the order of their positions.               *)
<1>4. \A i, j \in q..p : t[i].i < t[j].i <=> i < j
  <2>1. TAKE i, j \in q..p
  <2>2. SameKey(t[i], t[p]) /\ SameKey(t[j], t[p])
    BY <1>1, <1>3
  <2>3. SameKey(t[i], t[j])
    BY <2>2 DEF SameKey
  <2>4. QED
    BY <1>3, <2>3, KeysInOrder
<1>5. CASE t[q].i > old
  <2>1. ASSUME NEW i \in 1..Len(store), HasKey(store[i], k) PROVE FALSE
    <3>1. PICK u \in 1..Total : t[u].i = i
      BY Positions
    <3>2. t[u].i <= old
      BY <1>0, <3>1
    <3>3. SameKey(t[u], store[i])
      BY <3>1, <3>2, Positions
    <3>4. u \in q..p
      BY <1>1, <2>1, <3>3 DEF SameKey, HasKey
    <3>5. ~(u < q)
      BY <1>0, <3>4
    <3>6. u = q \/ t[q].i < t[u].i
      BY <1>0, <1>3, <1>4, <3>4
    <3>7. QED
      BY <1>0, <1>3, <1>5, <3>2, <3>6
  <2>2. Served(store)[k] = None
    BY <2>1, ServedFacts
  <2>3. t[p].v \in Vals
    BY <1>0, Positions
  <2>4. QED
    BY <1>2, <1>5, <2>2, <2>3, MergeAssumption
<1>6. CASE ~(t[q].i > old)
  <2>1. t[q].i <= old
    BY <1>0, <1>3, <1>6
  <2>2. HasKey(t[q], k)
    BY <1>1, <1>3 DEF SameKey, HasKey
  <2>3. t[q].i \in 1..Len(store) /\ HasKey(store[t[q].i], k)
    BY <1>3, <2>1, <2>2, Positions DEF SameKey, HasKey
  <2>4. PICK g \in 1..Len(store) :
            /\ HasKey(store[g], k)
            /\ \A i \in 1..Len(store) : HasKey(store[i], k) => i <= g
            /\ Served(store)[k] = store[g].v
    BY <2>3, ServedFacts
  <2>5. PICK u \in 1..Total : t[u].i = g
    BY Positions
  <2>6. /\ t[u].i <= old /\ t[u].v = Served(store)[k] /\ SameKey(t[u], store[g])
    <3>1. t[u].i <= old
      BY <1>0, <2>5
    <3>2. t[u].v = store[g].v /\ SameKey(t[u], store[g])
      BY <2>5, <3>1, Positions
    <3>3. QED
      BY <2>4, <3>1, <3>2
  <2>7. u \in q..p
    BY <1>1, <2>4, <2>6 DEF SameKey, HasKey
  (* No stored row of the run has a position after that of u.              *)
  <2>8. ASSUME NEW i \in q..p, t[i].i <= old PROVE t[i].i <= g
    <3>1. t[i].i \in 1..Len(store) /\ SameKey(t[i], store[t[i].i])
      BY <1>3, <2>8, Positions
    <3>2. HasKey(store[t[i].i], k)
      BY <1>1, <1>3, <3>1 DEF SameKey, HasKey
    <3>3. QED
      BY <2>4, <3>1, <3>2
  <2>9. ASSUME NEW i \in q..(p - 1), t[i].i <= old, t[i + 1].i > old
        PROVE  i = u
    <3>1. i \in q..p /\ i + 1 \in q..p
      BY <1>0, <1>3
    <3>2. t[i].i <= g /\ g < t[i + 1].i
      <4>1. t[i + 1].i \in Nat
        BY <1>0, <1>3, <3>1
      <4>2. QED
        BY <1>0, <2>5, <2>6, <2>8, <2>9, <3>1, <4>1
    <3>3. u < i + 1
      BY <1>4, <2>5, <2>7, <3>1, <3>2
    <3>4. ~(u < i)
      <4>1. ~(t[u].i < t[i].i)
        BY <1>0, <1>3, <2>5, <3>1, <3>2
      <4>2. QED
        BY <1>4, <2>7, <3>1, <4>1
    <3>5. QED
      BY <1>0, <1>3, <2>7, <3>1, <3>3, <3>4
  <2>10. CASE u = p
    <3>1. ~\E i \in q..(p - 1) : t[i].i <= old /\ t[i + 1].i > old /\ t[i].v # t[p].v
      <4>1. \A i \in q..(p - 1) : i # p
        BY <1>0
      <4>2. QED
        BY <2>9, <2>10, <4>1
    <3>2. QED
      BY <1>2, <1>6, <2>6, <2>10, <3>1
  <2>11. CASE u # p
    <3>1. u \in q..(p - 1) /\ u + 1 \in q..p /\ u < u + 1
      BY <1>0, <1>3, <2>7, <2>11
    <3>2. t[u].i < t[u + 1].i
      BY <1>4, <2>7, <3>1
    <3>3. ~(t[u + 1].i <= old)
      <4>1. SUFFICES ASSUME t[u + 1].i <= old PROVE FALSE
        OBVIOUS
      <4>2. t[u + 1].i <= g
        BY <2>8, <3>1, <4>1
      <4>3. QED
        BY <1>0, <1>3, <2>5, <3>1, <3>2, <4>2
    <3>4. t[u + 1].i > old
      BY <1>0, <1>3, <3>1, <3>3
    <3>5. p \in Changed(t, 1, Total, old) <=> t[u].v # t[p].v
      BY <1>2, <1>6, <2>6, <2>9, <3>1, <3>4
    <3>6. QED
      BY <2>6, <3>5
  <2>12. QED
    BY <2>10, <2>11
<1>7. QED
  BY <1>5, <1>6

(* What is published serves the new values over the old ones.              *)
LEMMA WrittenServes ==
    ASSUME store \in Seq(Rows), new \in Seq(Rows), NEW t, Merges(t)
    PROVE  /\ Written(t, Kept(t, 1, Total)) \in Seq(Rows)
           /\ Served(Written(t, Kept(t, 1, Total))) = Contract!Overlay
<1> DEFINE K == Kept(t, 1, Total)
           m == Cardinality(K)
           lower == [p \in K |-> {q \in K : q < p}]
           at == InOrder(m, lower)
           w == Written(t, K)
<1>0. Total \in Nat /\ K \in SUBSET (1..Total) /\ K \in SUBSET Int
  <2>1. Total \in Nat /\ K \in SUBSET (1..Total)
    BY Lengths, KeptForKey
  <2>2. QED
    BY <2>1
<1>1. IsFiniteSet(K)
  <2>1. IsFiniteSet(1..Total)
    BY <1>0, FS_Interval
  <2>2. QED
    BY <1>0, <2>1, FS_Subset
<1>2. w = [n \in 1..m |-> Plain(t[at[n]])]
  BY DEF Written
<1> HIDE DEF K
<1>3. DOMAIN lower = K /\ Orders(lower)
  BY <1>0, <1>1 DEF Orders
<1>4. \A p, q \in K : q \in lower[p] <=> q < p
  OBVIOUS
<1>5. /\ m \in Nat
      /\ at \in [1..m -> K]
      /\ \A p \in K : \E n \in 1..m : at[n] = p
      /\ \A a, b \in 1..m : at[a] \in lower[at[b]] <=> a < b
  <2> HIDE DEF lower
  <2>1. QED
    BY <1>3, InOrderFacts
<1>6. \A a, b \in 1..m : at[a] < at[b] <=> a < b
  BY <1>4, <1>5
<1>7. \A p \in K : t[p] \in Streamed
  BY <1>0 DEF Merges
<1> HIDE DEF m, lower, at, w
<1>8. /\ w \in [1..m -> Rows]
      /\ \A n \in 1..m : w[n].v = t[at[n]].v /\ SameKey(w[n], t[at[n]])
  <2>1. ASSUME NEW n \in 1..m
        PROVE  w[n] \in Rows /\ w[n].v = t[at[n]].v /\ SameKey(w[n], t[at[n]])
    <3>1. w[n] = Plain(t[at[n]]) /\ t[at[n]] \in Streamed
      BY <1>2, <1>5, <1>7
    <3>2. QED
      BY <3>1 DEF Plain, Streamed, Rows, SameKey
  <2>2. QED
    BY <1>2, <2>1
<1>9. w \in Seq(Rows) /\ Len(w) = m
  BY <1>5, <1>8
<1>10. ASSUME NEW k \in Keys
       PROVE  Served(w)[k] = IF Served(new)[k] = None THEN Served(store)[k] ELSE Served(new)[k]
  <2>1. CASE \E p \in 1..Total : HasKey(t[p], k)
    <3>1. PICK p \in K : HasKey(t[p], k)
      <4>1. PICK r \in 1..Total : HasKey(t[r], k)
        BY <2>1
      <4>2. PICK p \in K : SameKey(t[p], t[r])
        BY KeptForKey DEF K
      <4>3. QED
        BY <4>1, <4>2 DEF SameKey, HasKey
    <3>2. PICK n \in 1..m : at[n] = p
      BY <1>5
    <3>3. HasKey(w[n], k)
      BY <1>8, <3>1, <3>2 DEF SameKey, HasKey
    <3>4. PICK g \in 1..m : HasKey(w[g], k) /\ Served(w)[k] = w[g].v
      BY <1>9, <3>3, ServedFacts
    <3>5. at[g] \in K /\ SameKey(t[at[g]], t[p])
      BY <1>5, <1>8, <3>1, <3>4 DEF SameKey, HasKey
    <3>6. at[g] = p
      BY <3>5, KeptForKey DEF K
    <3>7. Served(w)[k] = t[p].v
      BY <1>8, <3>4, <3>6
    <3>8. QED
      BY <3>1, <3>7, KeptValue DEF K
  <2>2. CASE ~\E p \in 1..Total : HasKey(t[p], k)
    <3>1. ASSUME NEW n \in 1..m PROVE ~HasKey(w[n], k)
      <4>1. at[n] \in 1..Total
        BY <1>0, <1>5
      <4>2. ~HasKey(t[at[n]], k) /\ SameKey(w[n], t[at[n]])
        BY <1>8, <2>2, <4>1
      <4>3. QED
        BY <4>2 DEF SameKey, HasKey
    <3>2. Served(w)[k] = None
      BY <1>9, <3>1, ServedFacts
    <3>3. QED
      BY <2>2, <3>2, NoRowNoValue
  <2>3. QED
    BY <2>1, <2>2
<1>11. Served(w) = Contract!Overlay
  <2>1. Served(w) = [k \in Keys |-> Served(w)[k]]
    BY DEF Served
  <2>2. Contract!Overlay = [k \in Keys |-> IF Served(new)[k] = None THEN Served(store)[k]
                                                                  ELSE Served(new)[k]]
    BY DEF Contract!Overlay, Contract!Keys, Keys
  <2>3. QED
    BY <1>10, <2>1, <2>2
<1>12. QED
  BY <1>9, <1>11 DEF w, K

(* The newest of some dates is one of them.                                *)
LEMMA NewestIsDate ==
    ASSUME NEW D \in SUBSET Dates
    PROVE  Newest(D) \in Dates \cup {Absent}
<1>1. D \in SUBSET Int /\ IsFiniteSet(D)
  <2>1. MaxDate \in Nat
    BY MergeAssumption
  <2>2. IsFiniteSet(0..MaxDate)
    BY <2>1, FS_Interval
  <2>3. D \in SUBSET (0..MaxDate)
    BY DEF Dates
  <2>4. IsFiniteSet(D)
    BY <2>2, <2>3, FS_Subset
  <2>5. QED
    BY <2>1, <2>3, <2>4
<1>2. CASE D = {}
  BY <1>2 DEF Newest
<1>3. CASE D # {}
  <2>1. \E d \in D : \A e \in D : e <= d
    BY <1>1, <1>3, GreatestAndLeast
  <2>2. Newest(D) \in D
    BY <1>3, <2>1 DEF Newest
  <2>3. QED
    BY <2>2
<1>4. QED
  BY <1>2, <1>3

(* The report: the series, and of each the newest date, of the keys that   *)
(* serve another value.                                                    *)
LEMMA ReportIsExact ==
    ASSUME store \in Seq(Rows), new \in Seq(Rows), NEW t, Merges(t)
    PROVE  LET R == Reported(t, Changed(t, 1, Total, Len(store)))
           IN  /\ R \in [Series -> Dates \cup {Absent}]
               /\ R = Contract!Changes(Served(store), Contract!Overlay)
<1> DEFINE C == Changed(t, 1, Total, Len(store))
           over == Contract!Overlay
           Old(s) == {d \in Dates : Served(store)[<<s, d>>] # over[<<s, d>>]}
           Told(s) == {t[p].d : p \in {q \in C : t[q].s = s}}
<1>1. C \subseteq Kept(t, 1, Total) /\ Kept(t, 1, Total) \subseteq 1..Total
  BY KeptForKey DEF Changed
<1>2. \A p \in 1..Total : t[p].s \in Series /\ t[p].d \in Dates
  BY DEF Merges, Streamed
<1>3. \A k \in Keys : over[k] = IF Served(new)[k] = None THEN Served(store)[k]
                                                        ELSE Served(new)[k]
  BY DEF Contract!Overlay, Contract!Keys, Keys
<1> HIDE DEF C, over
<1>4. ASSUME NEW s \in Series PROVE Told(s) = Old(s)
  <2>1. ASSUME NEW p \in C, t[p].s = s PROVE t[p].d \in Old(s)
    <3> DEFINE k == <<s, t[p].d>>
    <3>1. p \in Kept(t, 1, Total) /\ k \in Keys /\ HasKey(t[p], k) /\ t[p].d \in Dates
      BY <1>1, <1>2, <2>1 DEF Keys, HasKey
    <3> HIDE DEF k
    <3>2. over[k] = t[p].v
      BY <1>3, <3>1, KeptValue
    <3>3. Served(store)[k] # t[p].v
      BY <3>1, ChangedValue DEF C
    <3>4. Served(store)[k] # over[k]
      BY <3>2, <3>3
    <3>5. QED
      BY <3>1, <3>4 DEF k
  <2>2. ASSUME NEW d \in Old(s) PROVE \E p \in C : t[p].s = s /\ t[p].d = d
    <3> DEFINE k == <<s, d>>
    <3>1. k \in Keys /\ Served(store)[k] # over[k] /\ k[1] = s /\ k[2] = d
      BY DEF Keys
    <3> HIDE DEF k
    <3>2. PICK r \in 1..Total : HasKey(t[r], k)
      <4>1. SUFFICES ASSUME \A r \in 1..Total : ~HasKey(t[r], k) PROVE FALSE
        OBVIOUS
      <4>2. Served(store)[k] = None /\ Served(new)[k] = None
        BY <3>1, <4>1, NoRowNoValue
      <4>3. QED
        BY <1>3, <3>1, <4>2
    <3>3. PICK p \in Kept(t, 1, Total) : SameKey(t[p], t[r])
      BY KeptForKey
    <3>4. HasKey(t[p], k)
      BY <3>2, <3>3 DEF SameKey, HasKey
    <3>5. over[k] = t[p].v
      BY <1>3, <3>1, <3>4, KeptValue
    <3>6. p \in C
      BY <3>1, <3>4, <3>5, ChangedValue DEF C
    <3>7. QED
      BY <3>1, <3>4, <3>6 DEF HasKey
  <2>3. QED
    BY <2>1, <2>2
<1>5. Reported(t, C) = [s \in Series |-> Newest(Told(s))]
  BY DEF Reported
<1>6. Contract!Changes(Served(store), over) = [s \in Series |-> Newest(Old(s))]
  BY DEF Contract!Changes, Contract!Newest, Newest, Contract!Absent, Absent
<1>7. \A s \in Series : Newest(Old(s)) \in Dates \cup {Absent}
  <2>1. \A s : Old(s) \in SUBSET Dates
    OBVIOUS
  <2> HIDE DEF Old
  <2>2. QED
    BY <2>1, NewestIsDate
<1>8. \A s \in Series : Newest(Told(s)) = Newest(Old(s))
  <2> HIDE DEF Old, Told
  <2>1. QED
    BY <1>4
<1> HIDE DEF Old, Told
<1>9. QED
  BY <1>5, <1>6, <1>7, <1>8 DEF C, over

-----------------------------------------------------------------------------
(* The types of the variables, and what the phases say of them.            *)
Phases ==
    /\ store \in Seq(Rows) /\ new \in Seq(Rows)
    /\ phase \in {"idle", "called", "stream", "written"}
    /\ raised \in BOOLEAN /\ report \in [Series -> Dates \cup {Absent}]
    /\ phase = "idle" => new = <<>>
    /\ phase \in {"idle", "called"} =>
         stream = <<>> /\ read = 0 /\ cut = 0 /\ kept = {} /\ changed = {}
    /\ phase \in {"stream", "written"} => stream = Sorted
    /\ phase = "written" => read = Len(stream) /\ cut = read

FullInv == MergeInv /\ Phases

LEMMA TablesAreSequences ==
    ASSUME NEW m \in Nat, NEW t \in TablesUpTo(m) PROVE t \in Seq(Rows)
BY DEF TablesUpTo

LEMMA NothingIsReport == Nothing \in [Series -> Dates \cup {Absent}]
BY DEF Nothing

LEMMA EmptyTable == <<>> \in Seq(Rows)
OBVIOUS

LEMMA SortedLen ==
    ASSUME store \in Seq(Rows), new \in Seq(Rows)
    PROVE  Len(Sorted) = Total /\ Sorted \in Seq(Streamed)
<1> DEFINE t == Sorted
<1>1. t \in [1..Total -> Streamed] /\ Total \in Nat
  BY SortedMerges, Lengths DEF Merges
<1> HIDE DEF t
<1>2. Len(t) = Total /\ t \in Seq(Streamed)
  BY <1>1
<1>3. QED
  BY <1>2 DEF t

(* The publish of the merge of all the rows is that of the contract.       *)
LEMMA PublishIsContract ==
    ASSUME Phases, NEW t, t = Sorted, phase # "idle",
           Publish(t, Kept(t, 1, Len(t)), Changed(t, 1, Len(t), Len(store)))
    PROVE  /\ store' \in Seq(Rows) /\ raised' \in BOOLEAN
           /\ report' \in [Series -> Dates \cup {Absent}]
           /\ Served(store') = Contract!Overlay
           /\ \/ /\ raised' = FALSE
                 /\ report' = Contract!Changes(Served(store), Contract!Overlay)
              \/ Unheard /\ raised' = TRUE /\ report' = Nothing
<1>0. store \in Seq(Rows) /\ new \in Seq(Rows)
  BY DEF Phases
<1>1. Merges(t) /\ Len(t) = Total
  BY <1>0, SortedMerges, SortedLen
<1>2. /\ Written(t, Kept(t, 1, Total)) \in Seq(Rows)
      /\ Served(Written(t, Kept(t, 1, Total))) = Contract!Overlay
  BY <1>0, <1>1, WrittenServes
<1>3. /\ Reported(t, Changed(t, 1, Total, Len(store))) \in [Series -> Dates \cup {Absent}]
      /\ Reported(t, Changed(t, 1, Total, Len(store)))
            = Contract!Changes(Served(store), Contract!Overlay)
  BY <1>0, <1>1, ReportIsExact
<1>4. /\ store' = Written(t, Kept(t, 1, Total))
      /\ \/ raised' = FALSE /\ report' = Reported(t, Changed(t, 1, Total, Len(store)))
         \/ Unheard /\ raised' = TRUE /\ report' = Nothing
  BY <1>1 DEF Publish
<1>5. QED
  BY <1>2, <1>3, <1>4, NothingIsReport

LEMMA EndPhases ==
    ASSUME End, store' \in Seq(Rows), raised' \in BOOLEAN,
           report' \in [Series -> Dates \cup {Absent}]
    PROVE  Phases'
BY EmptyTable DEF End, Phases

LEMMA FullInit == Init => FullInv
<1> SUFFICES ASSUME Init PROVE FullInv
  OBVIOUS
<1>1. store \in Seq(Rows)
  BY TablesAreSequences, MergeAssumption DEF Init
<1>2. Phases
  BY <1>1, EmptyTable, NothingIsReport DEF Init, Phases
<1>3. QED
  BY <1>2, MergeInit DEF FullInv

(* The commit of the stream publishes what the merge in memory would.      *)
LEMMA CommitIsPublish ==
    ASSUME FullInv, Commit
    PROVE  /\ stream = Sorted
           /\ Publish(stream, Kept(stream, 1, Len(stream)),
                      Changed(stream, 1, Len(stream), Len(store)))
<1>1. /\ phase = "written" /\ kept = Kept(stream, 1, Len(stream))
      /\ changed = Changed(stream, 1, Len(stream), Len(store))
  BY DEF Commit, FullInv, MergeInv, ChunksDoNotMatter
<1>2. QED
  BY <1>1 DEF Commit, FullInv, Phases

(* The invariant is inductive: one step per action.                        *)
LEMMA FullNext == FullInv /\ [Next]_vars => FullInv'
<1> SUFFICES ASSUME FullInv, [Next]_vars PROVE Phases'
  BY MergeNext DEF FullInv
<1> USE DEF FullInv
<1>1. CASE UNCHANGED vars
  BY <1>1 DEF vars, streaming, Phases, Sorted
<1>2. ASSUME NEW t \in TablesUpTo(MaxNew), Call(t) PROVE Phases'
  <2>1. t \in Seq(Rows)
    BY TablesAreSequences, MergeAssumption
  <2>2. QED
    BY <1>2, <2>1, NothingIsReport DEF Call, Phases, streaming
<1>3. CASE MergeWhole
  <2>1. /\ phase # "idle" /\ End
        /\ Publish(Sorted, Kept(Sorted, 1, Len(Sorted)),
                   Changed(Sorted, 1, Len(Sorted), Len(store)))
    BY <1>3 DEF MergeWhole, Publish
  <2>2. QED
    BY <2>1, PublishIsContract, EndPhases
<1>4. CASE Open
  BY <1>4 DEF Open, Phases, Sorted
<1>5. ASSUME NEW r \in 1..Len(stream), NextBatch(r) PROVE Phases'
  BY <1>5 DEF NextBatch, Phases, Sorted
<1>6. CASE LastRun
  BY <1>6 DEF LastRun, Emit, Phases, Sorted
<1>7. CASE Commit
  <2>1. phase # "idle" /\ End
    BY <1>7 DEF Commit, Publish
  <2>2. QED
    BY <1>7, <2>1, CommitIsPublish, PublishIsContract, EndPhases
<1>8. CASE Fail
  BY <1>8, EndPhases, NothingIsReport DEF Fail, Phases
<1>9. QED
  BY <1>1, <1>2, <1>3, <1>4, <1>5, <1>6, <1>7, <1>8 DEF Next

(* Every variable keeps its type, for all tables: what is kept and what is *)
(* changed are rows already processed, of a stream of well-formed rows.    *)
THEOREM MergeTypeCorrect == Spec => []TypeOK
<1>1. FullInv => TypeOK
  <2> SUFFICES ASSUME FullInv PROVE TypeOK
    OBVIOUS
  <2>1. stream \in Seq(Streamed) /\ Len(stream) \in Nat
    <3>1. stream \in Seq(Streamed)
      <4>1. <<>> \in Seq(Streamed)
        OBVIOUS
      <4>2. QED
        BY <4>1, SortedLen DEF FullInv, Phases
    <3>2. QED
      BY <3>1, LenProperties
  <2>2. /\ cut \in 0..read /\ read \in 0..Len(stream)
        /\ kept \subseteq 1..cut /\ changed \subseteq kept
    <3>1. CASE phase \in {"idle", "called"}
      BY <3>1 DEF FullInv, Phases
    <3>2. CASE phase = "stream"
      <4>1. Stands
        BY <3>2 DEF FullInv, MergeInv
      <4>2. QED
        BY <2>1, <4>1 DEF Stands, Kept, Changed
    <3>3. CASE phase = "written"
      <4>1. /\ kept = Kept(stream, 1, Len(stream)) /\ read = Len(stream) /\ cut = read
            /\ changed = Changed(stream, 1, Len(stream), Len(store))
        BY <3>3 DEF FullInv, Phases, MergeInv, ChunksDoNotMatter
      <4>2. QED
        BY <2>1, <4>1 DEF Kept, Changed
    <3>4. QED
      BY <3>1, <3>2, <3>3 DEF FullInv, Phases
  <2>3. QED
    BY <2>1, <2>2 DEF TypeOK, FullInv, Phases, Streamed
<1>2. QED
  BY <1>1, FullInit, FullNext, PTL DEF Spec

-----------------------------------------------------------------------------
(* What a table serves is a table of the contract.                         *)
LEMMA ServedIsTable ==
    ASSUME NEW table \in Seq(Rows) PROVE Served(table) \in Contract!Tables
<1>1. \A k \in Keys : Served(table)[k] \in Vals \cup {None}
  BY ServedFacts
<1>2. Served(table) = [k \in Keys |-> Served(table)[k]]
  BY DEF Served
<1>3. Served(table) \in [Keys -> Vals \cup {None}]
  BY <1>1, <1>2
<1>4. QED
  BY <1>3 DEF Contract!Tables, Contract!Keys, Keys

LEMMA ServedOfEmpty == Served(<<>>) = Contract!Empty
<1>1. ASSUME NEW k \in Keys PROVE Served(<<>>)[k] = None
  <2>1. 1..Len(<<>>) = {}
    OBVIOUS
  <2>2. \A i \in 1..Len(<<>>) : ~HasKey(<<>>[i], k)
    BY <2>1
  <2> DEFINE table == <<>>
  <2>3. table \in Seq(Rows) /\ \A i \in 1..Len(table) : ~HasKey(table[i], k)
    BY <2>2, EmptyTable
  <2> HIDE DEF table
  <2>4. Served(table)[k] = None
    BY <2>3, ServedFacts
  <2>5. QED
    BY <2>4 DEF table
<1>2. Served(<<>>) = [k \in Keys |-> Served(<<>>)[k]]
  BY DEF Served
<1>3. QED
  BY <1>1, <1>2 DEF Contract!Empty, Contract!Keys, Keys

LEMMA NothingIsNothing == Contract!Nothing = Nothing
BY DEF Contract!Nothing, Nothing, Contract!Absent, Absent

LEMMA ContractInit == Init => Contract!Init
<1> SUFFICES ASSUME Init PROVE Contract!Init
  OBVIOUS
<1>1. Served(store) \in Contract!Tables
  BY FullInit, ServedIsTable DEF FullInv, Phases
<1>2. QED
  BY <1>1, ServedOfEmpty, NothingIsNothing DEF Init, Contract!Init

(* The end of a call that published.                                       *)
LEMMA ContractPublish ==
    ASSUME Phases, NEW t, t = Sorted, phase # "idle",
           Publish(t, Kept(t, 1, Len(t)), Changed(t, 1, Len(t), Len(store)))
    PROVE  Contract!Publish
<1>1. phase' = "idle" /\ new' = <<>>
  BY DEF Publish, End
<1>2. /\ Served(store') = Contract!Overlay
      /\ \/ /\ raised' = FALSE
            /\ report' = Contract!Changes(Served(store), Contract!Overlay)
         \/ Unheard /\ raised' = TRUE /\ report' = Nothing
  BY PublishIsContract
<1>3. QED
  BY <1>1, <1>2, ServedOfEmpty, NothingIsNothing DEF Contract!Publish

(* Each end of a call is one of the contract, all else but Call a stutter. *)
LEMMA ContractNext == FullInv /\ [Next]_vars => [Contract!Next]_(Contract!vars)
<1> SUFFICES ASSUME FullInv, [Next]_vars
             PROVE  Contract!Next \/ UNCHANGED Contract!vars
  OBVIOUS
<1>1. CASE UNCHANGED vars
  BY <1>1 DEF vars, Contract!vars
<1>2. ASSUME NEW t \in TablesUpTo(MaxNew), Call(t) PROVE Contract!Call
  <2>1. Served(t) \in Contract!Tables
    BY TablesAreSequences, ServedIsTable, MergeAssumption
  <2>2. QED
    BY <1>2, <2>1, NothingIsNothing DEF Call, Contract!Call
<1>3. CASE MergeWhole
  <2>1. /\ phase # "idle"
        /\ Publish(Sorted, Kept(Sorted, 1, Len(Sorted)),
                   Changed(Sorted, 1, Len(Sorted), Len(store)))
    BY <1>3 DEF MergeWhole
  <2>2. Contract!Publish
    BY <2>1, ContractPublish DEF FullInv
  <2>3. QED
    BY <2>2 DEF Contract!Next
<1>4. CASE Open
  BY <1>4 DEF Open, Contract!vars
<1>5. ASSUME NEW r \in 1..Len(stream), NextBatch(r) PROVE UNCHANGED Contract!vars
  BY <1>5 DEF NextBatch, Contract!vars
<1>6. CASE LastRun
  BY <1>6 DEF LastRun, Contract!vars
<1>7. CASE Commit
  <2>1. phase # "idle"
    BY <1>7 DEF Commit
  <2>2. Contract!Publish
    BY <1>7, <2>1, CommitIsPublish, ContractPublish DEF FullInv
  <2>3. QED
    BY <2>2 DEF Contract!Next
<1>8. CASE Fail
  <2>1. Contract!Refuse
    BY <1>8, ServedOfEmpty, NothingIsNothing DEF Fail, End, Contract!Refuse
  <2>2. QED
    BY <2>1 DEF Contract!Next
<1>9. QED
  BY <1>1, <1>2, <1>3, <1>4, <1>5, <1>6, <1>7, <1>8 DEF Next, Contract!Next

(* Both merges do what merge.py promises its callers, for all tables and   *)
(* batches: the new values over the old ones and an exact report of what   *)
(* serves something else now, or a raise that left the table alone.        *)
THEOREM MergeImplementsContract == Spec => ImplementsContract
<1>1. Spec => []FullInv
  BY FullInit, FullNext, PTL DEF Spec
<1>2. QED
  BY <1>1, ContractInit, ContractNext, PTL DEF Spec, ImplementsContract, Contract!Spec
=============================================================================
