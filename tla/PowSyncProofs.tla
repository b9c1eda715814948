--------------------------- MODULE PowSyncProofs ---------------------------
(***************************************************************************)
(* Proofs about PowSync for every set of chains that fork above the last   *)
(* checkpoint, every forged block, window length and cut into answers.     *)
(***************************************************************************)
EXTENDS PowSync, TLAPS, FiniteSetTheorems, SequenceTheorems,
        WellFoundedInduction

-----------------------------------------------------------------------------
(* The invariant *)

(***************************************************************************)
(* Both tables hold one chain c: `pows` up to p, `blocks` up to p and at x,*)
(* which is the last checkpoint while that is ahead and -1 afterwards.     *)
(* With the checkpoint ahead p is never just below it: the blocks would    *)
(* then reach the checkpoint without its proof of work.                    *)
(***************************************************************************)
TablesOf(bs, ps, c, p, x) ==
    /\ x = -1 \/ (x = Checkpoint /\ p >= 0 /\ p < Checkpoint - 1)
    /\ ps = [h \in Heights |-> IF h <= p THEN c[h] ELSE NoBlock]
    /\ bs = [h \in Heights |-> IF h <= p \/ h = x THEN c[h] ELSE NoBlock]

Tables(c, p, x) == TablesOf(blocks, pows, c, p, x)

\* Where the rows may end (-1 when a rollback took the genesis block as well),
\* and the checkpoint.
Ends == (-1)..MaxHeight
Ahead == {-1, Checkpoint}

\* An answer of the daemon, or the blocks of a scan thread.
Pending(b) ==
    /\ b.start \in Heights /\ b.last \in Heights /\ b.start < b.last
    /\ b.chain \in Chains

\* The rows the windows of a batch hold when it starts on the chain.
DiffRows(c, s) == IF s = 0 THEN <<>> ELSE Rows(c, First(s), s)
TimeRows(c, s) ==
    IF s = 0 \/ s < Median THEN <<>> ELSE Rows(c, s - (Median - 1), s)

\* The windows were read from the chain of the batch, unless the block it
\* starts from is not (or no longer) ours.
WindowsRead(b) ==
    blocks[b.start] = b.chain[b.start] =>
        b.diffs = DiffRows(b.chain, b.start) /\ b.times = TimeRows(b.chain, b.start)

\* What depends on the height of the tables: a request names the genesis block
\* and, with the checkpoint ahead, no block without a proof of work; the copy
\* of the scan threads is not above the rows, unless it is stale; once a
\* synchronisation has ended the checkpoint is no longer ahead.
Reaches(p, x) ==
    /\ pc = "request" =>
          /\ 0 \in DOMAIN known /\ DOMAIN known \subseteq Heights
          /\ \A c \in Chains : known[0] = c[0]
          /\ x = Checkpoint => \A h \in DOMAIN known : h <= p
    /\ pc = "verify" => (x = Checkpoint => batch.start <= p)
    /\ pc = "scan" /\ ~stale => last_pow <= p
    /\ running => x = -1

\* A table of blocks without a forged one above the last checkpoint.
Honest(bs) == \A h \in Heights : h > Checkpoint => bs[h] \notin Forged

\* What holds until an answer ends one block below the last checkpoint.
PowInv ==
    /\ chain \in Chains /\ tip \in Heights /\ last_pow \in Heights
    /\ pc \in {"synced", "scan"} => running
    /\ \E c \in Chains, p \in Ends, x \in Ahead : Tables(c, p, x) /\ Reaches(p, x)
    /\ pc = "verify" => Pending(batch) /\ WindowsRead(batch)
    /\ job # NoBatch => pc = "scan" /\ Pending(job) /\ WindowsRead(job)
    /\ ~stale => Honest(blocks)

-----------------------------------------------------------------------------
(* Heights and chains *)

\* A non-empty set of natural numbers has a least element ...
LEMMA LeastNatural ==
    ASSUME NEW T, T \subseteq Nat, T # {}
    PROVE  \E x \in T : \A y \in T : x <= y
<1> DEFINE R == OpToRel(<, Nat)
<1>1. IsWellFoundedOn(R, Nat)
  BY NatLessThanWellFounded
<1>2. \A x, y \in Nat : <<y, x>> \in R <=> y < x
  BY DEF OpToRel
<1> HIDE DEF R
<1>3. PICK x \in T : \A y \in T : ~ (<<y, x>> \in R)
  BY <1>1, WFMin
<1>4. \A y \in T : y \in Nat /\ x \in Nat /\ ~(y < x)
  BY <1>2, <1>3
<1>5. \A y \in T : x <= y
  BY <1>4
<1> QED
  BY <1>5

\* ... and a non-empty set of heights a greatest one.
LEMMA GreatestHeight ==
    ASSUME NEW T, T \subseteq Heights, T # {}
    PROVE  \E x \in T : \A y \in T : y <= x
<1>1. MaxHeight \in Nat
  BY PowAssumption
<1> DEFINE U == {MaxHeight - x : x \in T}
<1>2. U \subseteq Nat /\ U # {}
  <2>1. \A x \in T : MaxHeight - x \in Nat
    BY <1>1 DEF Heights
  <2> QED
    BY <2>1
<1>3. PICK u \in U : \A v \in U : u <= v
  BY <1>2, LeastNatural
<1>4. PICK x \in T : u = MaxHeight - x
  OBVIOUS
<1>5. ASSUME NEW y \in T PROVE y <= x
  <2>1. MaxHeight - x <= MaxHeight - y
    BY <1>3, <1>4
  <2> QED
    BY <1>1, <2>1 DEF Heights
<1> QED
  BY <1>5

\* A chain has a block at every height.
LEMMA ChainBlocks ==
    ASSUME NEW c \in Chains, NEW h \in Heights
    PROVE  c[h] \in Hash /\ c[h] # NoBlock
  BY PowAssumption DEF Heights

\* Chains that share a block share what is below it.
LEMMA Agree ==
    ASSUME NEW c \in Chains, NEW d \in Chains, NEW h \in Heights, c[h] = d[h],
           NEW k \in 0..h
    PROVE  c[k] = d[k]
<1>1. MaxHeight \in Nat /\ h \in Nat /\ k \in Nat /\ h <= MaxHeight
  BY PowAssumption DEF Heights
<1> DEFINE T == {i \in 0..h : c[h - i] # d[h - i]}
<1>2. CASE T = {}
  <2>1. h - k \in 0..h /\ h - (h - k) = k
    BY <1>1
  <2> QED
    BY <1>2, <2>1
<1>3. CASE T # {}
  <2>1. T \subseteq Nat
    BY <1>1
  <2>2. PICK i \in T : \A j \in T : i <= j
    BY <1>3, <2>1, LeastNatural
  <2>3. i \in 0..h /\ c[h - i] # d[h - i]
    OBVIOUS
  <2>4. i # 0
    BY <1>1, <2>3
  <2>5. i - 1 \in 0..h /\ ~(i <= i - 1)
    BY <1>1, <2>3, <2>4
  <2>6. i - 1 \notin T
    BY <2>2, <2>5
  <2>7. c[h - (i - 1)] = d[h - (i - 1)]
    BY <2>5, <2>6
  <2>8. h - (i - 1) \in 1..MaxHeight /\ (h - (i - 1)) - 1 = h - i
    BY <1>1, <2>3, <2>4
  <2>9. c[(h - (i - 1)) - 1] = d[(h - (i - 1)) - 1]
    BY <2>7, <2>8, PowAssumption
  <2> QED
    BY <2>3, <2>8, <2>9
<1> QED
  BY <1>2, <1>3

\* All chains are the same up to the last checkpoint.
LEMMA AgreeBelow ==
    ASSUME NEW c \in Chains, NEW d \in Chains, NEW k \in 0..Checkpoint
    PROVE  c[k] = d[k] /\ Checkpoint \in Heights
<1>1. Checkpoint \in Heights /\ c[Checkpoint] = d[Checkpoint]
  BY PowAssumption DEF Heights
<1> QED
  BY <1>1, Agree

\* Where the tables end.
LEMMA Tops ==
    ASSUME NEW c \in Chains, NEW p \in Ends, NEW x, Tables(c, p, x)
    PROVE  /\ Stored(pows) = 0..p
           /\ p >= 0 => Top(pows) = p /\ Stored(pows) # {} /\ Stored(blocks) # {}
           /\ p >= 0 /\ x = -1 => Top(blocks) = p
           /\ p = -1 => Stored(pows) = {} /\ Stored(blocks) = {}
<1>1. MaxHeight \in Nat /\ Checkpoint \in Heights /\ Checkpoint \in Nat /\ p \in Int
      /\ p >= -1 /\ p <= MaxHeight
  BY PowAssumption DEF Heights, Ends
<1>2. Stored(pows) = 0..p
  BY <1>1, ChainBlocks DEF Tables, TablesOf, Stored, Heights
<1>3. /\ x = -1 => Stored(blocks) = 0..p
      /\ 0..p \subseteq Stored(blocks)
      /\ p = -1 => Stored(blocks) = 0..p
  <2>1. \A h \in Heights : blocks[h] # NoBlock <=> h <= p \/ h = x
    BY ChainBlocks DEF Tables, TablesOf
  <2>2. \A h \in Heights : h \in 0..p <=> h <= p
    BY <1>1 DEF Heights
  <2>3. 0..p \subseteq Heights
    BY <1>1 DEF Heights
  <2>4. x = -1 => \A h \in Heights : h # x
    BY DEF Heights
  <2>5. p = -1 => x = -1
    BY <1>1 DEF Tables, TablesOf
  <2> QED
    BY <2>1, <2>2, <2>3, <2>4, <2>5 DEF Stored
<1>4. ASSUME NEW T, T = 0..p, p >= 0
      PROVE  (CHOOSE h \in T : \A k \in T : k <= h) = p
  <2>1. p \in T /\ \A k \in T : k <= p
    BY <1>1, <1>4
  <2>2. \A h \in T : (\A k \in T : k <= h) => h = p
    BY <1>1, <1>4, <2>1
  <2> QED
    BY <2>1, <2>2
<1>5. p >= 0 => Top(pows) = p
  BY <1>2, <1>4 DEF Top
<1>6. p >= 0 /\ x = -1 => Top(blocks) = p
  BY <1>3, <1>4 DEF Top
<1>7. p >= 0 => 0 \in 0..p
  BY <1>1
<1>8. p = -1 => 0..p = {}
  OBVIOUS
<1> QED
  BY <1>2, <1>3, <1>5, <1>6, <1>7, <1>8

-----------------------------------------------------------------------------
(* The windows that are read *)

\* Below the end of `pows` the cursor's rows are those of the heights.
LEMMA WalkRows ==
    ASSUME NEW c \in Chains, NEW p \in Ends, NEW x, Tables(c, p, x),
           NEW a \in Nat, NEW b \in Nat, a <= b, b <= p
    PROVE  Walk(a, b) = Rows(c, a, b)
<1>1. p \in Nat /\ p <= MaxHeight /\ MaxHeight \in Nat
  BY PowAssumption DEF Ends
<1>2. Stored(pows) = 0..p
  BY Tops
<1> DEFINE N(h) == Cardinality({k \in Stored(pows) : a <= k /\ k <= h})
<1>3. \A h \in 0..p : N(h) = IF a > h THEN 0 ELSE h - a + 1
  <2> TAKE h \in 0..p
  <2>1. {k \in Stored(pows) : a <= k /\ k <= h} = a..h
    BY <1>1, <1>2
  <2>2. Cardinality(a..h) = IF a > h THEN 0 ELSE h - a + 1
    BY <1>1, FS_Interval
  <2> QED
    BY <2>1, <2>2
<1> DEFINE at(i) == CHOOSE h \in Stored(pows) : N(h) = i
<1>4. ASSUME NEW i \in 1..(b - a + 1)
      PROVE  at(i) = a + i - 1 /\ pows[at(i)] = c[a + i - 1]
  <2>1. a + i - 1 \in 0..p /\ a + i - 1 \in Heights
    BY <1>1 DEF Heights
  <2>2. N(a + i - 1) = i
    BY <1>1, <1>3, <2>1
  <2>3. \A h \in Stored(pows) : N(h) = i => h = a + i - 1
    BY <1>1, <1>2, <1>3
  <2> HIDE DEF N
  <2>4. at(i) = a + i - 1
    BY <1>2, <2>1, <2>2, <2>3
  <2>5. pows[a + i - 1] = c[a + i - 1]
    BY <1>1, <2>1 DEF Tables, TablesOf
  <2> HIDE DEF at
  <2> QED
    BY <2>4, <2>5
<1>5. Walk(a, b) = [i \in 1 .. b - a + 1 |-> pows[at(i)]]
  BY DEF Walk
<1> HIDE DEF at
<1> QED
  BY <1>4, <1>5 DEF Rows

\* A window can be read when `pows` reaches its end.
LEMMA WalkReaches ==
    ASSUME NEW c \in Chains, NEW p \in Ends, NEW x, Tables(c, p, x),
           NEW a \in Heights, NEW b \in Heights, a <= b, CanWalk(a, b)
    PROVE  b <= p
<1>1. p \in Int /\ p <= MaxHeight /\ MaxHeight \in Nat /\ a \in Nat /\ b \in Nat
  BY PowAssumption DEF Heights, Ends
<1>2. Stored(pows) = 0..p
  BY Tops
<1>3. {k \in Stored(pows) : a <= k} = a..p
  BY <1>1, <1>2
<1>4. Cardinality(a..p) = IF a > p THEN 0 ELSE p - a + 1
  BY <1>1, FS_Interval
<1>5. Cardinality({k \in Stored(pows) : a <= k}) > b - a
  BY DEF CanWalk
<1>6. Cardinality(a..p) > b - a
  BY <1>3, <1>5
<1> QED
  BY <1>1, <1>4, <1>6

\* Where the window for the difficulty begins.
LEMMA FirstBounds ==
    ASSUME NEW s \in Heights
    PROVE  /\ First(s) \in Heights /\ First(s) <= s
           /\ s >= Median => s - (Median - 1) \in Heights /\ s - (Median - 1) <= s
  BY PowAssumption DEF First, Heights

\* The windows that are read for a batch are those of its chain, if it
\* starts from our block.
LEMMA ReadsWindows ==
    ASSUME NEW c \in Chains, NEW p \in Ends, NEW x, Tables(c, p, x),
           NEW d \in Chains, NEW s \in Heights, HasWindow(s), blocks[s] = d[s]
    PROVE  pow_window(s) = DiffRows(d, s) /\ median_window(s) = TimeRows(d, s)
<1>1. s \in Nat /\ MaxHeight \in Nat /\ Median \in Nat \ {0}
  BY PowAssumption DEF Heights
<1>2. CASE s = 0
  BY <1>2 DEF pow_window, median_window, DiffRows, TimeRows
<1>3. CASE s # 0
  <2>1. First(s) \in Heights /\ First(s) <= s
    BY FirstBounds
  <2>2. CanWalk(First(s), s)
    BY <1>3 DEF HasWindow
  <2>3. s <= p
    BY <2>1, <2>2, WalkReaches
  <2>4. c[s] = d[s]
    BY <2>3 DEF Tables, TablesOf
  <2>5. \A k \in 0..s : c[k] = d[k]
    BY <2>4, Agree
  <2>6. ASSUME NEW a \in Nat, a <= s
        PROVE  Walk(a, s) = Rows(d, a, s)
    <3>1. Walk(a, s) = Rows(c, a, s)
      BY <1>1, <2>3, <2>6, WalkRows
    <3>2. \A i \in 1 .. s - a + 1 : c[a + i - 1] = d[a + i - 1]
      <4> TAKE i \in 1 .. s - a + 1
      <4>1. a + i - 1 \in 0..s
        BY <1>1, <2>6
      <4> QED
        BY <2>5, <4>1
    <3> QED
      BY <3>1, <3>2 DEF Rows
  <2>7. pow_window(s) = DiffRows(d, s)
    BY <1>3, <2>1, <2>6 DEF pow_window, DiffRows, Heights
  <2>8. median_window(s) = TimeRows(d, s)
    <3>1. CASE s < Median
      BY <3>1 DEF median_window, TimeRows
    <3>2. CASE ~(s < Median)
      <4>1. s - (Median - 1) \in Nat /\ s - (Median - 1) <= s
        BY <1>1, <3>2
      <4> QED
        BY <1>3, <2>6, <3>2, <4>1 DEF median_window, TimeRows
    <3> QED
      BY <3>1, <3>2
  <2> QED
    BY <2>7, <2>8
<1> QED
  BY <1>2, <1>3

-----------------------------------------------------------------------------
(* The windows that judge a block *)

\* The rows of an interval are a sequence of blocks.
LEMMA RowsType ==
    ASSUME NEW c \in Chains, NEW a \in Nat, NEW b \in Heights, a <= b + 1
    PROVE  /\ Rows(c, a, b) \in Seq(Hash) /\ Len(Rows(c, a, b)) = b - a + 1
           /\ \A i \in 1 .. b - a + 1 : Rows(c, a, b)[i] = c[a + i - 1]
<1>1. b \in Nat /\ b <= MaxHeight /\ MaxHeight \in Nat
  BY PowAssumption DEF Heights
<1>2. ASSUME NEW i \in 1 .. b - a + 1 PROVE c[a + i - 1] \in Hash
  <2>1. a + i - 1 \in Heights
    BY <1>1 DEF Heights
  <2> QED
    BY <2>1, ChainBlocks
<1>3. b - a + 1 \in Nat
  BY <1>1
<1> QED
  BY <1>2, <1>3 DEF Rows

\* Rows of neighbouring intervals, one after the other.
LEMMA RowsConcat ==
    ASSUME NEW c \in Chains, NEW a \in Nat, NEW s \in Heights, NEW b \in Heights,
           a <= s + 1, s <= b
    PROVE  Rows(c, a, s) \o Rows(c, s + 1, b) = Rows(c, a, b)
<1>1. s \in Nat /\ b \in Nat /\ s + 1 \in Nat /\ s + 1 <= b + 1 /\ a <= b + 1
  BY PowAssumption DEF Heights
<1> DEFINE x == Rows(c, a, s) y == Rows(c, s + 1, b) z == Rows(c, a, b)
<1>2. /\ x \in Seq(Hash) /\ Len(x) = s - a + 1
      /\ \A i \in 1 .. s - a + 1 : x[i] = c[a + i - 1]
  BY <1>1, RowsType
<1>3. /\ y \in Seq(Hash) /\ Len(y) = b - (s + 1) + 1
      /\ \A i \in 1 .. b - (s + 1) + 1 : y[i] = c[s + 1 + i - 1]
  BY <1>1, RowsType
<1>4. /\ z \in Seq(Hash) /\ Len(z) = b - a + 1
      /\ \A i \in 1 .. b - a + 1 : z[i] = c[a + i - 1]
  BY <1>1, RowsType
<1> HIDE DEF x, y, z
<1>5. /\ x \o y \in Seq(Hash) /\ Len(x \o y) = Len(x) + Len(y)
      /\ \A i \in 1..(Len(x) + Len(y)) :
            (x \o y)[i] = IF i <= Len(x) THEN x[i] ELSE y[i - Len(x)]
  BY <1>2, <1>3, ConcatProperties
<1>6. Len(x \o y) = Len(z)
  BY <1>1, <1>2, <1>3, <1>4, <1>5
<1>7. ASSUME NEW i \in 1..Len(x \o y) PROVE (x \o y)[i] = z[i]
  <2>1. i \in 1 .. b - a + 1
    BY <1>4, <1>6
  <2>2. z[i] = c[a + i - 1]
    BY <1>4, <2>1
  <2>3. CASE i <= Len(x)
    <3>1. i \in 1 .. s - a + 1
      BY <1>1, <1>2, <2>1, <2>3
    <3> QED
      BY <1>2, <1>5, <2>2, <2>3, <3>1
  <2>4. CASE ~(i <= Len(x))
    <3>1. /\ i - Len(x) \in 1 .. b - (s + 1) + 1
          /\ s + 1 + (i - Len(x)) - 1 = a + i - 1
      BY <1>1, <1>2, <2>1, <2>4
    <3>2. y[i - Len(x)] = c[a + i - 1]
      BY <1>3, <3>1
    <3> QED
      BY <1>5, <2>2, <2>4, <3>2
  <2> QED
    BY <2>3, <2>4
<1>8. x \o y = z
  BY <1>4, <1>5, <1>6, <1>7, SeqEqual
<1> QED
  BY <1>8 DEF x, y, z

\* The last n of the rows of an interval.
LEMMA LastOfRows ==
    ASSUME NEW c \in Chains, NEW a \in Nat, NEW b \in Heights, NEW n \in Nat,
           n # 0, n <= b - a + 1
    PROVE  LastOf(Rows(c, a, b), n) = Rows(c, b - n + 1, b)
<1>1. b \in Nat /\ a <= b + 1
  BY PowAssumption DEF Heights
<1> DEFINE x == Rows(c, a, b) m == b - a + 1
<1>2. /\ x \in Seq(Hash) /\ Len(x) = m
      /\ \A i \in 1 .. m : x[i] = c[a + i - 1]
  BY <1>1, RowsType
<1>3. CASE m <= n
  <2>1. a = b - n + 1
    BY <1>1, <1>3
  <2>2. LastOf(x, n) = x
    BY <1>2, <1>3 DEF LastOf
  <2> QED
    BY <2>1, <2>2
<1>4. CASE ~(m <= n)
  <2> DEFINE y == Rows(c, b - n + 1, b)
  <2>1. b - n + 1 \in Nat /\ b - n + 1 <= b + 1 /\ b - (b - n + 1) + 1 = n
    BY <1>1
  <2>2. /\ y \in Seq(Hash) /\ Len(y) = n
        /\ \A i \in 1 .. n : y[i] = c[b - n + 1 + i - 1]
    BY <2>1, RowsType
  <2>3. LastOf(x, n) = SubSeq(x, m - n + 1, m)
    BY <1>2, <1>4 DEF LastOf
  <2>4. m \in Nat /\ m - n + 1 \in 1..(m + 1) /\ m \in (m - n)..m /\ n < m
    BY <1>1, <1>4
  <2> HIDE DEF x, y, m
  <2>5. /\ SubSeq(x, m - n + 1, m) \in Seq(Hash)
        /\ Len(SubSeq(x, m - n + 1, m)) = n
        /\ \A i \in 1..n : SubSeq(x, m - n + 1, m)[i] = x[m - n + 1 + i - 1]
    BY <1>2, <2>4
  <2>6. ASSUME NEW i \in 1..n PROVE SubSeq(x, m - n + 1, m)[i] = y[i]
    <3>1. m - n + 1 + i - 1 \in 1..m /\ a + (m - n + 1 + i - 1) - 1 = b - n + 1 + i - 1
      BY <1>1, <2>4 DEF m
    <3>2. x[m - n + 1 + i - 1] = c[b - n + 1 + i - 1]
      BY <1>2, <3>1
    <3> QED
      BY <2>2, <2>5, <3>2
  <2>7. SubSeq(x, m - n + 1, m) = y
    BY <2>2, <2>5, <2>6, SeqEqual
  <2> QED
    BY <2>3, <2>7 DEF x, y
<1> QED
  BY <1>3, <1>4

\* Windows that start from the rows of the chain end as the consensus rules
\* have them.
LEMMA DiffsExact ==
    ASSUME NEW c \in Chains, NEW s \in Heights, NEW h \in Heights, s < h,
           s = 0 \/ h > Count
    PROVE  LastOf(DiffRows(c, s) \o Rows(c, s + 1, h - 1), Count) =
              ConsensusDiffs(c, h)
<1>1. /\ s \in Nat /\ h \in Nat /\ h - 1 \in Heights /\ h - 1 \in Nat /\ s <= h - 1
      /\ Count \in Nat /\ Count # 0
  BY PowAssumption DEF Heights
<1>2. CASE s = 0
  <2>1. Rows(c, 1, h - 1) \in Seq(Hash)
    BY <1>1, RowsType
  <2>2. <<>> \o Rows(c, 1, h - 1) = Rows(c, 1, h - 1)
    BY <2>1, ConcatEmptySeq
  <2> QED
    BY <1>2, <2>2 DEF DiffRows, ConsensusDiffs
<1>3. CASE s # 0
  <2>1. First(s) \in Nat /\ First(s) <= s + 1 /\ Count <= (h - 1) - First(s) + 1
    <3>1. CASE Count < s
      BY <1>1, <3>1 DEF First
    <3>2. CASE ~(Count < s)
      BY <1>1, <1>3, <3>2 DEF First
    <3> QED
      BY <3>1, <3>2
  <2>2. DiffRows(c, s) \o Rows(c, s + 1, h - 1) = Rows(c, First(s), h - 1)
    BY <1>1, <1>3, <2>1, RowsConcat DEF DiffRows
  <2>3. LastOf(Rows(c, First(s), h - 1), Count) = Rows(c, (h - 1) - Count + 1, h - 1)
    BY <1>1, <2>1, LastOfRows
  <2>4. 1 \in Nat /\ Count <= (h - 1) - 1 + 1
    BY <1>1, <1>3
  <2>5. LastOf(Rows(c, 1, h - 1), Count) = Rows(c, (h - 1) - Count + 1, h - 1)
    BY <1>1, <2>4, LastOfRows
  <2> QED
    BY <2>2, <2>3, <2>5 DEF ConsensusDiffs
<1> QED
  BY <1>2, <1>3

\* The same for the timestamps.
LEMMA TimesExact ==
    ASSUME NEW c \in Chains, NEW s \in Heights, NEW h \in Heights, s < h,
           s >= Median \/ h > s + Median
    PROVE  LastOf(TimeRows(c, s) \o Rows(c, s + 1, h - 1), Median) =
              ConsensusTimes(c, h)
<1>1. /\ s \in Nat /\ h \in Nat /\ h - 1 \in Heights /\ h - 1 \in Nat /\ s <= h - 1
      /\ Median \in Nat /\ Median # 0 /\ s + 1 \in Nat /\ s + 1 <= (h - 1) + 1
  BY PowAssumption DEF Heights
<1>2. 0 \in Nat /\ Median <= (h - 1) - 0 + 1
  BY <1>1
<1>3. LastOf(Rows(c, 0, h - 1), Median) = Rows(c, (h - 1) - Median + 1, h - 1)
  BY <1>1, <1>2, LastOfRows
<1>4. CASE s >= Median
  <2> DEFINE a == s - (Median - 1)
  <2>1. a \in Nat /\ a <= s + 1 /\ Median <= (h - 1) - a + 1 /\ ~(s = 0 \/ s < Median)
    BY <1>1, <1>4
  <2>2. TimeRows(c, s) = Rows(c, a, s)
    BY <2>1 DEF TimeRows
  <2> HIDE DEF a
  <2>3. Rows(c, a, s) \o Rows(c, s + 1, h - 1) = Rows(c, a, h - 1)
    BY <1>1, <2>1, RowsConcat
  <2>4. LastOf(Rows(c, a, h - 1), Median) = Rows(c, (h - 1) - Median + 1, h - 1)
    BY <1>1, <2>1, LastOfRows
  <2> QED
    BY <1>3, <2>2, <2>3, <2>4 DEF ConsensusTimes
<1>5. CASE ~(s >= Median)
  <2>1. TimeRows(c, s) = <<>>
    BY <1>1, <1>5 DEF TimeRows
  <2>2. Rows(c, s + 1, h - 1) \in Seq(Hash)
    BY <1>1, RowsType
  <2>3. <<>> \o Rows(c, s + 1, h - 1) = Rows(c, s + 1, h - 1)
    BY <2>2, ConcatEmptySeq
  <2>4. Median <= (h - 1) - (s + 1) + 1
    BY <1>1, <1>5
  <2>5. LastOf(Rows(c, s + 1, h - 1), Median) = Rows(c, (h - 1) - Median + 1, h - 1)
    BY <1>1, <2>4, LastOfRows
  <2> QED
    BY <1>3, <2>1, <2>3, <2>5 DEF ConsensusTimes
<1> QED
  BY <1>4, <1>5

\* So windows read from the chain of a batch judge every block of it.
LEMMA ReadIsExact ==
    ASSUME NEW b, Pending(b), WindowsRead(b)
    PROVE  Exact(b)
<1> SUFFICES ASSUME blocks[b.start] = b.chain[b.start],
                    NEW h \in b.start + 1 .. b.last
             PROVE  /\ b.start = 0 \/ h > Count =>
                          DiffsFor(b, h) = ConsensusDiffs(b.chain, h)
                    /\ b.start >= Median \/ h > b.start + Median =>
                          TimesFor(b, h) = ConsensusTimes(b.chain, h)
  BY DEF Exact
<1>1. b.start \in Heights /\ h \in Heights /\ b.start < h /\ b.chain \in Chains
  BY PowAssumption DEF Pending, Heights
<1>2. /\ b.diffs = DiffRows(b.chain, b.start)
      /\ b.times = TimeRows(b.chain, b.start)
  BY DEF WindowsRead
<1> QED
  BY <1>1, <1>2, DiffsExact, TimesExact DEF DiffsFor, TimesFor

-----------------------------------------------------------------------------
(* Storing blocks *)

\* Blocks that continue the stored ones are appended to both tables.
LEMMA Appends ==
    ASSUME NEW bs, NEW ps, NEW c \in Chains, NEW p \in Heights, NEW x,
           TablesOf(bs, ps, c, p, x), NEW b, Pending(b), b.last > p,
           ~(x = Checkpoint /\ b.last = Checkpoint - 1), c[p] = b.chain[p]
    PROVE  \E y \in Ahead : /\ TablesOf(AppendBlocks(bs, p + 1, b), AppendPow(ps, p + 1, b),
                                         b.chain, b.last, y)
                            /\ x = -1 => y = -1
<1> DEFINE d == b.chain q == b.last
           y == IF x = Checkpoint /\ q < Checkpoint - 1 THEN Checkpoint ELSE -1
<1>1. /\ p \in Nat /\ q \in Nat /\ q \in Heights /\ d \in Chains
      /\ Checkpoint \in Nat /\ MaxHeight \in Nat
      /\ x = -1 \/ x = Checkpoint
  BY PowAssumption DEF Pending, Heights, TablesOf
<1>2. \A h \in Heights : h <= p => c[h] = d[h]
  <2> TAKE h \in Heights
  <2> HAVE h <= p
  <2>1. h \in 0..p
    BY <1>1 DEF Heights
  <2> QED
    BY <1>1, <2>1, Agree
<1>3. c[Checkpoint] = d[Checkpoint]
  BY <1>1, PowAssumption
<1>4. AppendBlocks(bs, p + 1, b) =
         [h \in Heights |-> IF h \in (p + 1)..q THEN d[h] ELSE bs[h]]
  BY DEF AppendBlocks
<1>5. AppendPow(ps, p + 1, b) =
         [h \in Heights |-> IF h \in (p + 1)..q /\ ps[h] = NoBlock
                              THEN d[h] ELSE ps[h]]
  BY DEF AppendPow
<1>6. ASSUME NEW h \in Heights
      PROVE  (IF h \in (p + 1)..q THEN d[h] ELSE bs[h]) =
                IF h <= q \/ h = y THEN d[h] ELSE NoBlock
  <2>1. h \in Nat
    BY DEF Heights
  <2>2. bs[h] = IF h <= p \/ h = x THEN c[h] ELSE NoBlock
    BY DEF TablesOf
  <2>3. q > p /\ ~(x = Checkpoint /\ q = Checkpoint - 1)
    OBVIOUS
  <2> HIDE DEF d, q, y
  <2>4. CASE h <= p
    BY <1>1, <1>2, <2>1, <2>2, <2>3, <2>4
  <2>5. CASE h > p /\ h <= q
    BY <1>1, <2>1, <2>5
  <2>6. CASE h > q
    <3>1. h = y <=> h = x
      BY <1>1, <2>1, <2>3, <2>6 DEF y
    <3>2. h = x => h = Checkpoint
      BY <1>1, <2>1
    <3> QED
      BY <1>1, <1>3, <2>1, <2>2, <2>3, <2>6, <3>1, <3>2
  <2> QED
    BY <1>1, <2>1, <2>4, <2>5, <2>6
<1>7. ASSUME NEW h \in Heights
      PROVE  (IF h \in (p + 1)..q /\ ps[h] = NoBlock THEN d[h] ELSE ps[h]) =
                IF h <= q THEN d[h] ELSE NoBlock
  <2>1. h \in Nat /\ q > p
    BY DEF Heights
  <2>2. ps[h] = IF h <= p THEN c[h] ELSE NoBlock
    BY DEF TablesOf
  <2> HIDE DEF d, q
  <2>3. CASE h <= p
    BY <1>1, <1>2, <2>1, <2>2, <2>3
  <2>4. CASE h > p /\ h <= q
    BY <1>1, <2>1, <2>2, <2>4
  <2>5. CASE h > q
    BY <1>1, <2>1, <2>2, <2>5
  <2> QED
    BY <1>1, <2>1, <2>3, <2>4, <2>5
<1>8. /\ y = -1 \/ (y = Checkpoint /\ q >= 0 /\ q < Checkpoint - 1)
      /\ x = -1 => y = -1
  BY <1>1
<1> HIDE DEF d, q, y
<1>9. TablesOf(AppendBlocks(bs, p + 1, b), AppendPow(ps, p + 1, b), d, q, y)
  BY <1>4, <1>5, <1>6, <1>7, <1>8 DEF TablesOf
<1> QED
  BY <1>8, <1>9 DEF d, q, Ahead

\* rollback_chain cuts both tables, at any height that has a block.
LEMMA Cuts ==
    ASSUME NEW c \in Chains, NEW p \in Ends, NEW x, Tables(c, p, x),
           NEW k \in Heights, blocks[k] # NoBlock
    PROVE  /\ k <= p \/ k = Checkpoint
           /\ TablesOf(Cut(blocks, k), CutPows(k), c, IF k <= p THEN k - 1 ELSE p, -1)
<1>1. k \in Nat /\ p \in Int /\ p >= -1 /\ Checkpoint \in Nat /\ MaxHeight \in Nat
      /\ k <= MaxHeight
  BY PowAssumption DEF Heights, Ends
<1>2. k <= p \/ k = x
  BY DEF Tables, TablesOf
<1>3. x = -1 \/ x = Checkpoint
  BY DEF Tables, TablesOf
<1>4. pows[k] # NoBlock <=> k <= p
  BY ChainBlocks DEF Tables, TablesOf
<1> DEFINE q == IF k <= p THEN k - 1 ELSE p
<1>5. \A h \in Heights : (h < k /\ (h <= p \/ h = x)) <=> (h <= q \/ h = -1)
  <2> TAKE h \in Heights
  <2>1. h \in Nat
    BY DEF Heights
  <2>2. CASE k <= p
    <3>1. x = -1 \/ x > p
      BY <1>1, <1>3 DEF Tables, TablesOf
    <3> QED
      BY <1>1, <2>1, <2>2, <3>1
  <2>3. CASE ~(k <= p)
    BY <1>1, <1>2, <2>1, <2>3
  <2> QED
    BY <2>2, <2>3
<1>6. \A h \in Heights : h <= q => h <= p
  BY <1>1 DEF Heights
<1>7. \A h \in Heights : (h < k /\ h <= p) <=> h <= q
  BY <1>1 DEF Heights
<1>8. q < k
  BY <1>1
<1> HIDE DEF q
<1>9. Cut(blocks, k) = [h \in Heights |-> IF h <= q \/ h = -1 THEN c[h] ELSE NoBlock]
  BY <1>5 DEF Cut, Tables, TablesOf
<1>10. CutPows(k) = [h \in Heights |-> IF h <= q THEN c[h] ELSE NoBlock]
  <2>1. CASE k <= p
    BY <1>4, <1>7, <2>1 DEF CutPows, Cut, Tables, TablesOf
  <2>2. CASE ~(k <= p)
    BY <1>4, <2>2 DEF CutPows, Tables, TablesOf, q
  <2> QED
    BY <2>1, <2>2
<1>11. TablesOf(Cut(blocks, k), CutPows(k), c, q, -1)
  BY <1>9, <1>10 DEF TablesOf
<1> QED
  BY <1>1, <1>2, <1>3, <1>11 DEF q

\* Where the stored chain and a batch part.
LEMMA CurrentIs ==
    ASSUME NEW b, Pending(b)
    PROVE  LET k == Current(b) IN
           /\ k \in b.start + 1 .. b.last + 1
           /\ k = b.last + 1 \/ blocks[k] # b.chain[k]
           /\ \A j \in b.start + 1 .. k - 1 : blocks[j] = b.chain[j]
<1>1. b.start \in Nat /\ b.last \in Nat /\ b.start < b.last
  BY DEF Pending, Heights
<1> DEFINE K == {k \in b.start + 1 .. b.last + 1 :
                    k = b.last + 1 \/ blocks[k] # b.chain[k]}
<1>2. K \subseteq Nat /\ b.last + 1 \in K
  BY <1>1
<1>3. PICK k \in K : \A j \in K : k <= j
  BY <1>2, LeastNatural
<1>4. k \in b.start + 1 .. b.last + 1 /\ (k = b.last + 1 \/ blocks[k] # b.chain[k])
  OBVIOUS
<1>5. \A j \in b.start + 1 .. k - 1 : blocks[j] = b.chain[j]
  <2> TAKE j \in b.start + 1 .. k - 1
  <2>1. j \in b.start + 1 .. b.last + 1 /\ ~(k <= j) /\ j # b.last + 1
    BY <1>1, <1>4
  <2>2. j \notin K
    BY <1>3, <2>1
  <2> QED
    BY <2>1, <2>2
<1> HIDE DEF K
<1> QED
  BY <1>4, <1>5 DEF Current

\* Nothing is appended when every block of the batch is stored.
LEMMA AppendsNone ==
    ASSUME NEW c \in Chains, NEW p \in Ends, NEW x, Tables(c, p, x), NEW b, Pending(b)
    PROVE  /\ AppendBlocks(blocks, b.last + 1, b) = blocks
           /\ AppendPow(pows, b.last + 1, b) = pows
<1>1. \A h \in Heights : ~(h \in b.last + 1 .. b.last)
  BY DEF Pending, Heights
<1>2. /\ blocks = [h \in Heights |-> blocks[h]]
      /\ pows = [h \in Heights |-> pows[h]]
  BY DEF Tables, TablesOf
<1>3. /\ AppendBlocks(blocks, b.last + 1, b) = [h \in Heights |-> blocks[h]]
      /\ AppendPow(pows, b.last + 1, b) = [h \in Heights |-> pows[h]]
  BY <1>1 DEF AppendBlocks, AppendPow
<1> QED
  BY <1>2, <1>3

\* Cutting the table, or appending checked blocks, keeps it honest.
LEMMA HonestKept ==
    ASSUME NEW bs, Honest(bs), NEW k
    PROVE  /\ Honest(Cut(bs, k))
           /\ \A b : (\A h \in Heights : h > Checkpoint /\ h \in k .. b.last =>
                          b.chain[h] \notin Forged) =>
                     Honest(AppendBlocks(bs, k, b))
<1>1. NoBlock \notin Forged
  BY PowAssumption
<1> QED
  BY <1>1 DEF Honest, Cut, AppendBlocks

\* The batch that starts from a stored block starts where `pows` has a row,
\* and the first block it does not share comes at most one row later.
LEMMA BatchMeets ==
    ASSUME NEW c \in Chains, NEW p \in Ends, NEW x, Tables(c, p, x), NEW b, Pending(b),
           x = Checkpoint => b.start <= p, blocks[b.start] = b.chain[b.start]
    PROVE  LET k == Current(b) IN
           /\ k \in b.start + 1 .. b.last + 1 /\ k - 1 <= p
           /\ k - 1 \in Heights /\ c[k - 1] = b.chain[k - 1]
<1> DEFINE s == b.start d == b.chain l == b.last k == Current(b)
<1>1. /\ s \in Nat /\ l \in Nat /\ s < l /\ d \in Chains /\ s \in Heights /\ l \in Heights
      /\ p \in Int /\ Checkpoint \in Nat /\ MaxHeight \in Nat /\ l <= MaxHeight
      /\ x = -1 \/ (x = Checkpoint /\ p >= 0 /\ p < Checkpoint - 1)
  BY PowAssumption DEF Pending, Heights, Ends, Tables, TablesOf
<1>2. /\ k \in s + 1 .. l + 1
      /\ \A j \in s + 1 .. k - 1 : blocks[j] = d[j]
  BY CurrentIs
<1>3. \A j \in Heights : blocks[j] = d[j] => j <= p \/ j = x
  BY <1>1, ChainBlocks DEF Tables, TablesOf
<1>4. \A j \in Heights : j <= p => blocks[j] = c[j]
  BY DEF Tables, TablesOf
<1> HIDE DEF s, d, l, k
<1>5. blocks[s] = d[s] /\ (x = Checkpoint => s <= p)
  BY DEF s, d
<1>6. s <= p
  BY <1>1, <1>3, <1>5
<1>7. k - 1 \in Heights /\ k \in Nat /\ s <= k - 1
  BY <1>1, <1>2 DEF Heights
<1>8. blocks[k - 1] = d[k - 1]
  <2>1. CASE k - 1 = s
    BY <1>5, <2>1
  <2>2. CASE k - 1 # s
    <3>1. k - 1 \in s + 1 .. k - 1
      BY <1>1, <1>7, <2>2
    <3> QED
      BY <1>2, <3>1
  <2> QED
    BY <2>1, <2>2
<1>9. k - 1 <= p
  <2> SUFFICES ASSUME k - 1 > p PROVE FALSE
    BY <1>1, <1>7
  <2>1. k - 1 = Checkpoint /\ x = Checkpoint
    BY <1>1, <1>3, <1>7, <1>8
  <2>2. p + 1 \in s + 1 .. k - 1 /\ p + 1 \in Heights /\ p + 1 # x
    BY <1>1, <1>6, <1>7, <2>1 DEF Heights
  <2>3. blocks[p + 1] = d[p + 1]
    BY <1>2, <2>2
  <2> QED
    BY <1>1, <1>3, <2>2, <2>3
<1>10. c[k - 1] = d[k - 1]
  BY <1>4, <1>7, <1>8, <1>9
<1> QED
  BY <1>2, <1>7, <1>9, <1>10 DEF s, d, l, k

\* The tables of a new database.
LEMMA NewTables ==
    ASSUME chain \in Chains
    PROVE  TablesOf(NewBlocks, NewPows, chain, 0, Checkpoint) /\ Honest(NewBlocks)
<1>1. /\ Checkpoint \in Nat /\ Checkpoint > 1 /\ NoBlock \notin Forged
      /\ chain[Checkpoint] = CheckpointHash
      /\ \A h \in Heights : h \in Nat
  BY PowAssumption DEF Heights
<1>2. NewPows = [h \in Heights |-> IF h <= 0 THEN chain[h] ELSE NoBlock]
  BY <1>1 DEF NewPows
<1>3. NewBlocks = [h \in Heights |-> IF h <= 0 \/ h = Checkpoint THEN chain[h] ELSE NoBlock]
  BY <1>1 DEF NewBlocks
<1>4. Honest(NewBlocks)
  BY <1>1, <1>3 DEF Honest
<1> QED
  BY <1>1, <1>2, <1>3, <1>4 DEF TablesOf

-----------------------------------------------------------------------------
(* Steps *)

\* What the tables hold, whatever happens to the rest.
LEMMA Held ==
    ASSUME PowInv
    PROVE  \E c \in Chains, p \in Ends, x \in Ahead : Tables(c, p, x) /\ Reaches(p, x)
  BY DEF PowInv

\* Starting or giving up the synchronisation, starting or resetting the scan
\* threads and a move of the daemon leave both tables alone.
LEMMA QuietStep ==
    ASSUME PowInv,
           \/ SyncStart \/ SyncTimesOut \/ ScanStart \/ ScanReset
           \/ \E c \in Chains, t \in Heights : DaemonMoves(c, t)
    PROVE  PowInv'
<1>1. /\ MaxHeight \in Nat /\ Checkpoint \in Nat /\ 0 \in Heights
      /\ \A h \in Heights : h \in Nat /\ 0..h \subseteq Heights
  BY PowAssumption DEF Heights
<1>2. PICK c \in Chains, p \in Ends, x \in Ahead : Tables(c, p, x) /\ Reaches(p, x)
  BY Held
<1>3. /\ p = -1 \/ (p \in Heights /\ p \in Nat /\ p >= 0)
      /\ p # -1 => Top(pows) = p /\ Stored(pows) # {}
      /\ p = -1 => Stored(pows) = {}
  BY <1>1, <1>2, Tops DEF Ends, Heights
<1>4. blocks' = blocks /\ pows' = pows
  BY DEF SyncStart, SyncTimesOut, ScanStart, ScanReset, DaemonMoves
<1>5. Tables(c, p, x)'
  BY <1>2, <1>4 DEF Tables
<1>6. Reaches(p, x)'
  <2>0. running' = running /\ (running => x = -1)
    BY <1>2 DEF SyncStart, SyncTimesOut, ScanStart, ScanReset, DaemonMoves, Reaches
  <2>1. CASE SyncStart
    <3>1. CASE pc' = "exit"
      BY <2>0, <3>1 DEF Reaches
    <3>2. CASE pc' # "exit"
      <4>1. p # -1 /\ pc' = "request" /\ known' = [h \in 0..p |-> blocks[h]]
        BY <1>3, <2>1, <3>2 DEF SyncStart
      <4>2. 0 \in 0..p /\ 0..p \subseteq Heights /\ \A h \in 0..p : h <= p
        BY <1>1, <1>3, <4>1
      <4>3. ASSUME NEW e \in Chains PROVE known'[0] = e[0]
        <5>1. blocks[0] = c[0]
          BY <1>1, <1>2, <4>2 DEF Tables, TablesOf
        <5>2. c[0] = e[0]
          BY <1>1, AgreeBelow
        <5> QED
          BY <4>1, <4>2, <5>1, <5>2
      <4>4. DOMAIN known' = 0..p
        BY <4>1
      <4> QED
        BY <2>0, <4>1, <4>2, <4>3, <4>4 DEF Reaches
    <3> QED
      BY <3>1, <3>2
  <2>2. CASE SyncTimesOut
    <3>1. pc' \in {"synced", "exit"}
      BY <2>2 DEF SyncTimesOut
    <3> QED
      BY <2>0, <3>1 DEF Reaches
  <2>3. CASE ScanStart
    <3>1. pc' = "exit" \/ (p # -1 /\ pc' = "scan" /\ last_pow' = p)
      BY <1>3, <2>3 DEF ScanStart
    <3>2. p # -1 => p <= p
      BY <1>3
    <3> QED
      BY <2>0, <3>1, <3>2 DEF Reaches
  <2>4. CASE ScanReset
    BY <2>0, <2>4 DEF ScanReset, Reaches
  <2>5. CASE \E e \in Chains, t \in Heights : DaemonMoves(e, t)
    BY <1>2, <2>0, <2>5 DEF DaemonMoves, Reaches
  <2> QED
    BY <2>1, <2>2, <2>3, <2>4, <2>5
<1>7. chain' \in Chains /\ tip' \in Heights /\ stale' = stale /\ last_pow' \in Heights
  BY <1>3 DEF PowInv, SyncStart, SyncTimesOut, ScanStart, ScanReset, DaemonMoves
<1>8. ~stale' => Honest(blocks')
  BY <1>4, <1>7 DEF PowInv
<1>9. pc' = "verify" => pc = "verify" /\ batch' = batch
  BY DEF SyncStart, SyncTimesOut, ScanStart, ScanReset, DaemonMoves
<1>10. job' # NoBatch => job' = job /\ (pc = "scan" => pc' = "scan")
  BY DEF SyncStart, SyncTimesOut, ScanStart, ScanReset, DaemonMoves
<1>11. pc' = "verify" => Pending(batch') /\ WindowsRead(batch)'
  BY <1>4, <1>9 DEF PowInv, WindowsRead
<1>12. job' # NoBatch => pc' = "scan" /\ Pending(job') /\ WindowsRead(job)'
  BY <1>4, <1>10 DEF PowInv, WindowsRead
<1>13. pc' \in {"synced", "scan"} => running'
  BY DEF PowInv, SyncStart, SyncTimesOut, ScanStart, ScanReset, DaemonMoves
<1> QED
  BY <1>5, <1>6, <1>7, <1>8, <1>11, <1>12, <1>13 DEF PowInv, Pending

\* A new process finds the tables as they are, or fills empty ones.
LEMMA RestartStep ==
    ASSUME PowInv, Restart
    PROVE  PowInv'
<1>1. PICK c \in Chains, p \in Ends, x \in Ahead : Tables(c, p, x) /\ Reaches(p, x)
  BY Held
<1>2. /\ pc' = "start" /\ running' = FALSE /\ job' = NoBatch
      /\ blocks' = (IF Stored(blocks) = {} THEN NewBlocks ELSE blocks)
      /\ pows' = (IF Stored(pows) = {} THEN NewPows ELSE pows)
      /\ UNCHANGED <<chain, tip, last_pow, stale>>
  BY DEF Restart
<1>3. /\ MaxHeight \in Nat /\ Checkpoint \in Nat /\ Checkpoint > 1 /\ 0 \in Ends
      /\ chain \in Chains /\ tip \in Heights /\ last_pow \in Heights
  BY PowAssumption DEF PowInv, Ends
<1>4. \E e \in Chains, q \in Ends, y \in Ahead : TablesOf(blocks', pows', e, q, y)
  <2>1. CASE p = -1
    <3>1. blocks' = NewBlocks /\ pows' = NewPows
      BY <1>1, <1>2, <2>1, Tops
    <3>2. TablesOf(NewBlocks, NewPows, chain, 0, Checkpoint)
      BY <1>3, NewTables
    <3> QED
      BY <1>3, <3>1, <3>2 DEF Ahead
  <2>2. CASE p # -1
    <3>1. p >= 0
      BY <2>2 DEF Ends
    <3>2. blocks' = blocks /\ pows' = pows
      BY <1>1, <1>2, <3>1, Tops
    <3> QED
      BY <1>1, <3>2 DEF Tables
  <2> QED
    BY <2>1, <2>2
<1>5. PICK e \in Chains, q \in Ends, y \in Ahead : TablesOf(blocks', pows', e, q, y)
  BY <1>4
<1>6. Tables(e, q, y)' /\ Reaches(q, y)'
  BY <1>2, <1>5 DEF Tables, Reaches
<1>7. ~stale' => Honest(blocks')
  <2>1. Honest(NewBlocks)
    BY <1>3, NewTables
  <2> QED
    BY <1>2, <2>1 DEF PowInv
<1> QED
  BY <1>2, <1>3, <1>6, <1>7 DEF PowInv

\* An answer starts at a block both have, and is judged by the windows that
\* end there.
LEMMA AnswerStep ==
    ASSUME PowInv, NEW n \in Sizes, SyncAnswer(n)
    PROVE  PowInv'
<1>1. /\ MaxHeight \in Nat /\ Checkpoint \in Nat /\ 0 \in Heights /\ n \in Nat /\ n > 0
      /\ chain \in Chains /\ tip \in Heights /\ tip \in Nat /\ tip <= MaxHeight
      /\ \A h \in Heights : h \in Nat
  BY PowAssumption DEF PowInv, Heights
<1>2. PICK c \in Chains, p \in Ends, x \in Ahead : Tables(c, p, x) /\ Reaches(p, x)
  BY Held
<1>3. /\ pc = "request" /\ 0 \in DOMAIN known /\ DOMAIN known \subseteq Heights
      /\ known[0] = chain[0]
      /\ x = Checkpoint => \A h \in DOMAIN known : h <= p
      /\ running => x = -1
  BY <1>1, <1>2 DEF SyncAnswer, Reaches
<1>4. UNCHANGED <<chain, tip, blocks, pows, known, job, last_pow, stale>>
  BY DEF SyncAnswer
<1> DEFINE S == {h \in DOMAIN known : h <= tip /\ known[h] = chain[h]}
           s == CHOOSE h \in S : \A k \in S : k <= h
<1>5. 0 \in S /\ S \subseteq Heights
  BY <1>1, <1>3
<1>6. PICK g \in S : \A k \in S : k <= g
  BY <1>5, GreatestHeight
<1>7. s \in S
  BY <1>6
<1> DEFINE b == Answered(n)
<1>8. b = [start |-> s, last |-> Lesser(s + n, tip), chain |-> chain,
           diffs |-> <<>>, times |-> <<>>]
  BY DEF Answered
<1>9. s \in Heights /\ s \in Nat /\ s <= tip /\ (x = Checkpoint => s <= p)
  BY <1>1, <1>3, <1>7
<1> HIDE DEF S, s
<1>10. b.start = s /\ b.last = Lesser(s + n, tip) /\ b.chain = chain
  BY <1>8
<1>11. Lesser(s + n, tip) \in Heights /\ (Lesser(s + n, tip) # s => s < Lesser(s + n, tip))
  BY <1>1, <1>9 DEF Lesser, Heights
<1> DEFINE ends == b.start >= Checkpoint /\ blocks[b.start] = b.chain[b.start]
<1>12. \/ pc' = "exit" /\ (running' => (running \/ ends))
       \/ pc' = "synced" /\ ends /\ running'
       \/ /\ pc' = "verify" /\ batch' = WithWindows(b) /\ b.last # b.start /\ HasWindow(b.start)
          /\ running' = running
  BY DEF SyncAnswer
<1>13. ends => x = -1
  <2>1. ASSUME ends, x # -1 PROVE FALSE
    <3>1. /\ x = Checkpoint /\ p < Checkpoint - 1
          /\ p \in Int
      BY <1>2, <2>1 DEF Tables, TablesOf, Ends
    <3>2. s >= Checkpoint /\ s <= p
      BY <1>9, <1>10, <2>1, <3>1
    <3> QED
      BY <1>1, <1>9, <3>1, <3>2
  <2> QED
    BY <2>1
<1> HIDE DEF b, ends
<1>14. ASSUME pc' = "verify"
       PROVE  Pending(batch') /\ WindowsRead(batch)' /\ batch'.start = s
  <2>1. batch' = [b EXCEPT !.diffs = pow_window(s), !.times = median_window(s)]
        /\ b.last # s /\ HasWindow(s)
    BY <1>10, <1>12, <1>14 DEF WithWindows
  <2>2. batch' = [start |-> s, last |-> Lesser(s + n, tip), chain |-> chain,
                  diffs |-> pow_window(s), times |-> median_window(s)]
    BY <1>8, <2>1
  <2>3. /\ batch'.start = s /\ batch'.last = Lesser(s + n, tip) /\ batch'.chain = chain
        /\ batch'.diffs = pow_window(s) /\ batch'.times = median_window(s)
    BY <2>2
  <2>4. Pending(batch')
    BY <1>1, <1>9, <1>10, <1>11, <2>1, <2>3 DEF Pending
  <2>5. blocks[s] = chain[s] =>
           pow_window(s) = DiffRows(chain, s) /\ median_window(s) = TimeRows(chain, s)
    BY <1>1, <1>2, <1>9, <2>1, ReadsWindows
  <2> QED
    BY <1>4, <2>3, <2>4, <2>5 DEF WindowsRead
<1>15. Tables(c, p, x)'
  BY <1>2, <1>4 DEF Tables
<1>16. Reaches(p, x)'
  <2>1. running' => x = -1
    BY <1>3, <1>12, <1>13
  <2> QED
    BY <1>9, <1>12, <1>14, <2>1 DEF Reaches
<1>17. job' = NoBatch
  BY <1>3, <1>4 DEF PowInv
<1>18. pc' \in {"synced", "scan"} => running'
  BY <1>12
<1>19. /\ chain' \in Chains /\ tip' \in Heights /\ last_pow' \in Heights
       /\ ~stale' => Honest(blocks')
  BY <1>4 DEF PowInv
<1> QED
  BY <1>14, <1>15, <1>16, <1>17, <1>18, <1>19 DEF PowInv

\* The blocks of a scan thread, and the windows read for them.
LEMMA FetchStep ==
    ASSUME PowInv, NEW s \in Heights, NEW n \in Sizes, ScanFetch(s, n)
    PROVE  PowInv'
<1>1. /\ MaxHeight \in Nat /\ Checkpoint \in Nat /\ n \in Nat /\ n > 0
      /\ chain \in Chains /\ tip \in Nat /\ tip <= MaxHeight /\ s \in Nat
  BY PowAssumption DEF PowInv, Heights
<1>2. PICK c \in Chains, p \in Ends, x \in Ahead : Tables(c, p, x) /\ Reaches(p, x)
  BY Held
<1>3. /\ pc = "scan" /\ s < tip /\ job = NoBatch
      /\ UNCHANGED <<chain, tip, blocks, pows, running, known, batch, last_pow, stale>>
  BY DEF ScanFetch
<1> DEFINE l == Lesser(s + n, tip)
<1>4. \/ pc' = "exit" /\ job' = job
      \/ /\ pc' = pc /\ HasWindow(s)
         /\ job' = [start |-> s, last |-> l, chain |-> chain,
                    diffs |-> pow_window(s), times |-> median_window(s)]
  BY DEF ScanFetch, WithWindows
<1>5. l \in Heights /\ s < l
  BY <1>1, <1>3 DEF Lesser, Heights
<1> HIDE DEF l
<1>6. Tables(c, p, x)'
  BY <1>2, <1>3 DEF Tables
<1>7. Reaches(p, x)'
  BY <1>2, <1>3, <1>4 DEF Reaches
<1>8. ASSUME job' # NoBatch
      PROVE  pc' = "scan" /\ Pending(job') /\ WindowsRead(job)'
  <2>1. /\ pc' = "scan" /\ HasWindow(s)
        /\ job'.start = s /\ job'.last = l /\ job'.chain = chain
        /\ job'.diffs = pow_window(s) /\ job'.times = median_window(s)
    BY <1>3, <1>4, <1>8
  <2>2. Pending(job')
    BY <1>1, <1>5, <2>1 DEF Pending
  <2>3. blocks[s] = chain[s] =>
           pow_window(s) = DiffRows(chain, s) /\ median_window(s) = TimeRows(chain, s)
    BY <1>1, <1>2, <2>1, ReadsWindows
  <2> QED
    BY <1>3, <2>1, <2>2, <2>3 DEF WindowsRead
<1>9. pc' # "verify" /\ (pc' \in {"synced", "scan"} => running')
  BY <1>3, <1>4 DEF PowInv
<1>10. /\ chain' \in Chains /\ tip' \in Heights /\ last_pow' \in Heights
       /\ ~stale' => Honest(blocks')
  BY <1>3 DEF PowInv
<1> QED
  BY <1>6, <1>7, <1>8, <1>9, <1>10 DEF PowInv

\* sync_pow: the answer is refused, is stored already, continues the stored
\* chain, or replaces what is above the block where they part.
LEMMA StoreStep ==
    ASSUME PowInv, SyncStore, ~short'
    PROVE  PowInv'
<1> DEFINE b == batch k == Current(b) d == b.chain l == b.last
           replaces == k <= l /\ blocks[k] # NoBlock
<1>1. /\ pc = "verify" /\ Pending(b) /\ job = NoBatch
      /\ UNCHANGED <<chain, tip, running, batch, job, last_pow, stale>>
  BY DEF SyncStore, PowInv
<1>2. PICK c \in Chains, p \in Ends, x \in Ahead : Tables(c, p, x) /\ Reaches(p, x)
  BY Held
<1>3. /\ MaxHeight \in Nat /\ Checkpoint \in Nat /\ Checkpoint \in Heights /\ p \in Int
      /\ p <= MaxHeight /\ 0 \in Heights
      /\ b.start \in Nat /\ l \in Nat /\ l \in Heights /\ b.start < l /\ l <= MaxHeight
      /\ d \in Chains
      /\ \A h \in Heights : h \in Nat
      /\ x = -1 \/ (x = Checkpoint /\ p >= 0 /\ p < Checkpoint - 1)
      /\ running => x = -1
  BY <1>1, <1>2, PowAssumption DEF Pending, Heights, Ends, Tables, TablesOf, Reaches
<1>0. /\ chain' \in Chains /\ tip' \in Heights /\ last_pow' \in Heights
  BY <1>1 DEF PowInv
<1>4. CASE Refused(b) \/ BadChain(b)
  <2>1. pc' = "exit" /\ blocks' = blocks /\ pows' = pows
    BY <1>4 DEF SyncStore
  <2>2. Tables(c, p, x)' /\ Reaches(p, x)' /\ (~stale' => Honest(blocks'))
    BY <1>1, <1>2, <1>3, <2>1 DEF Tables, PowInv, Reaches
  <2> QED
    BY <1>0, <1>1, <2>1, <2>2 DEF PowInv
<1>5. CASE ~(Refused(b) \/ BadChain(b))
  <2>1. /\ blocks' = AppendBlocks(IF replaces THEN Cut(blocks, k) ELSE blocks, k, b)
        /\ pows' = AppendPow(IF replaces THEN CutPows(k) ELSE pows, k, b)
        /\ known' = [h \in {0} \cup b.start + 1 .. l |-> d[h]]
        /\ pc' = "request"
        /\ short' = (short \/ (l = Checkpoint - 1 /\ blocks[Checkpoint] # NoBlock))
    BY <1>5 DEF SyncStore, KnownNext
  <2>2. blocks[b.start] = d[b.start] /\ (x = Checkpoint => b.start <= p)
    BY <1>1, <1>2, <1>5 DEF BadChain, Reaches
  <2>3. k <= l /\ blocks[k] # NoBlock => ~(k <= Checkpoint)
    BY <1>5 DEF BadChain
  <2>4. \A h \in b.start + 1 .. l : h > Checkpoint => d[h] \notin Forged
    BY <1>5 DEF Refused
  <2>5. /\ k \in b.start + 1 .. l + 1 /\ k - 1 <= p
        /\ k - 1 \in Heights /\ c[k - 1] = d[k - 1]
    BY <1>1, <1>2, <2>2, BatchMeets
  <2>6. ~(x = Checkpoint /\ l = Checkpoint - 1)
    <3>1. x = Checkpoint => blocks[Checkpoint] # NoBlock
      BY <1>2, <1>3, ChainBlocks DEF Tables, TablesOf
    <3> QED
      BY <2>1, <3>1, Zenon
  <2> HIDE DEF k, replaces
  <2>7. \E e \in Chains, q \in Ends, y \in Ahead :
           TablesOf(blocks', pows', e, q, y) /\ l <= q /\ (x = -1 => y = -1)
    <3>0. l \in Ends /\ p \in Ends
      BY <1>3 DEF Ends
    <3>1. CASE k = l + 1
      <4>1. ~replaces /\ l <= p
        BY <1>3, <2>5, <3>1 DEF replaces
      <4>2. blocks' = blocks /\ pows' = pows
        BY <1>1, <1>2, <2>1, <3>1, <4>1, AppendsNone
      <4> QED
        BY <1>2, <3>0, <4>1, <4>2 DEF Tables
    <3>2. CASE k # l + 1 /\ blocks[k] = NoBlock
      <4>1. ~replaces /\ k <= l /\ k \in Heights /\ k \in Nat /\ k > 0
        BY <1>3, <2>5, <3>2 DEF replaces, Heights
      <4>2. ~(k <= p)
        BY <1>2, <3>2, <4>1, ChainBlocks DEF Tables, TablesOf
      <4>3. k = p + 1 /\ k - 1 = p /\ l > p /\ p \in Heights
        BY <1>3, <2>5, <4>1, <4>2
      <4>4. PICK y \in Ahead : /\ TablesOf(AppendBlocks(blocks, p + 1, b), AppendPow(pows, p + 1, b), d, l, y)
                               /\ x = -1 => y = -1
        BY <1>1, <1>2, <2>5, <2>6, <4>3, Appends DEF Tables
      <4> QED
        BY <1>3, <2>1, <3>0, <4>1, <4>3, <4>4
    <3>3. CASE k # l + 1 /\ blocks[k] # NoBlock
      <4>1. /\ replaces /\ k <= l /\ k \in Heights /\ k \in Nat /\ k > Checkpoint
            /\ (k - 1) + 1 = k /\ l > k - 1 /\ -1 # Checkpoint
        BY <1>3, <2>3, <2>5, <3>3 DEF replaces, Heights
      <4>2. k <= p
        BY <1>2, <1>3, <3>3, <4>1, Cuts
      <4>3. TablesOf(Cut(blocks, k), CutPows(k), c, k - 1, -1)
        BY <1>2, <3>3, <4>1, <4>2, Cuts
      <4>4. PICK y \in Ahead : /\ TablesOf(AppendBlocks(Cut(blocks, k), (k - 1) + 1, b),
                                            AppendPow(CutPows(k), (k - 1) + 1, b), d, l, y)
                               /\ -1 = -1 => y = -1
        BY <1>1, <2>5, <4>1, <4>3, Appends
      <4> QED
        BY <1>3, <2>1, <3>0, <4>1, <4>4
    <3> QED
      BY <3>1, <3>2, <3>3
  <2>8. PICK e \in Chains, q \in Ends, y \in Ahead :
           TablesOf(blocks', pows', e, q, y) /\ l <= q /\ (x = -1 => y = -1)
    BY <2>7
  <2>9. Tables(e, q, y)'
    BY <2>8 DEF Tables
  <2>10. Reaches(q, y)'
    <3>1. q \in Int
      BY DEF Ends
    <3>2. DOMAIN known' = {0} \cup b.start + 1 .. l
      BY <2>1
    <3>3. \A h \in DOMAIN known' : h \in Heights /\ h <= q
      BY <1>3, <2>8, <3>1, <3>2 DEF Heights
    <3>4. ASSUME NEW f \in Chains PROVE known'[0] = f[0]
      BY <1>3, <2>1, AgreeBelow
    <3>5. 0 \in DOMAIN known' /\ (running' => y = -1)
      BY <1>1, <1>3, <2>8, <3>2
    <3> QED
      BY <2>1, <3>3, <3>4, <3>5 DEF Reaches
  <2>11. ASSUME ~stale' PROVE Honest(blocks')
    <3>1. Honest(blocks)
      BY <1>1, <2>11 DEF PowInv
    <3>2. Honest(IF replaces THEN Cut(blocks, k) ELSE blocks)
      BY <3>1, HonestKept
    <3>3. \A h \in Heights : h > Checkpoint /\ h \in k..l => d[h] \notin Forged
      <4> TAKE h \in Heights
      <4> HAVE h > Checkpoint /\ h \in k..l
      <4>1. h \in b.start + 1 .. l
        BY <1>3, <2>5
      <4> QED
        BY <2>4, <4>1
    <3> QED
      BY <2>1, <3>2, <3>3, HonestKept
  <2> QED
    BY <1>0, <1>1, <2>1, <2>9, <2>10, <2>11 DEF PowInv
<1> QED
  BY <1>4, <1>5

\* storage::update: what a scan thread brings above the stored blocks
\* continues them, or is not stored.
LEMMA UpdateStep ==
    ASSUME PowInv, ScanStore
    PROVE  PowInv'
<1> DEFINE b == job d == b.chain l == b.last t == Top(blocks) same == LastSame(b)
<1>1. /\ pc = "scan" /\ Pending(b) /\ job' = NoBatch /\ running
      /\ UNCHANGED <<chain, tip, running, last_pow, stale>>
  BY DEF ScanStore, PowInv
<1>2. PICK c \in Chains, p \in Ends, x \in Ahead : Tables(c, p, x) /\ Reaches(p, x)
  BY Held
<1>3. /\ MaxHeight \in Nat /\ Checkpoint \in Nat /\ p \in Int /\ p >= -1
      /\ b.start \in Nat /\ l \in Nat /\ l \in Heights /\ b.start < l /\ l <= MaxHeight
      /\ d \in Chains
      /\ \A h \in Heights : h \in Nat
      /\ x = -1
  BY <1>1, <1>2, PowAssumption DEF Pending, Heights, Ends, Reaches
<1>4. chain' \in Chains /\ tip' \in Heights /\ last_pow' \in Heights
  BY <1>1 DEF PowInv
<1>5. CASE pc' \in {"exit", "start", "scan"} /\ blocks' = blocks /\ pows' = pows
  <2>1. Tables(c, p, x)' /\ Reaches(p, x)' /\ (~stale' => Honest(blocks'))
    BY <1>1, <1>2, <1>5 DEF Tables, PowInv, Reaches
  <2> QED
    BY <1>1, <1>4, <1>5, <2>1 DEF PowInv
<1>6. CASE /\ ~ScanRefused(b) /\ Stored(blocks) # {} /\ ~(t < b.start)
           /\ blocks[same] = d[same]
           /\ blocks' = AppendBlocks(blocks, same + 1, b)
           /\ pows' = AppendPow(pows, same + 1, b)
           /\ pc' = pc
  <2>1. p >= 0 /\ p \in Nat /\ t = p /\ p \in Heights /\ b.start <= p
    <3>1. p # -1 /\ (p >= 0 /\ x = -1 => t = p)
      BY <1>2, <1>6, Tops
    <3> HIDE DEF t
    <3> QED
      BY <1>3, <1>6, <3>1 DEF Heights, Ends
  <2>2. same = Lesser(p, l)
    BY <2>1 DEF LastSame
  <2> HIDE DEF t, same
  <2>3. CASE l <= p
    <3>1. same = l
      BY <1>3, <2>1, <2>2, <2>3 DEF Lesser
    <3>2. blocks' = blocks /\ pows' = pows
      BY <1>1, <1>2, <1>6, <3>1, AppendsNone
    <3> QED
      BY <1>1, <1>5, <1>6, <3>2
  <2>4. CASE ~(l <= p)
    <3>1. same = p
      BY <1>3, <2>1, <2>2, <2>4 DEF Lesser
    <3>2. blocks[p] = c[p]
      BY <1>2, <2>1 DEF Tables, TablesOf
    <3>3. c[p] = d[p] /\ l > p /\ x # Checkpoint
      BY <1>3, <1>6, <2>1, <2>4, <3>1, <3>2
    <3>4. PICK y \in Ahead : TablesOf(blocks', pows', d, l, y) /\ (x = -1 => y = -1)
      BY <1>1, <1>2, <1>6, <2>1, <3>1, <3>3, Appends DEF Tables
    <3>5. PICK e \in Chains, q \in Ends : e = d /\ q = l
      BY <1>3 DEF Ends
    <3>6. Tables(e, q, y)'
      BY <3>4, <3>5 DEF Tables
    <3>7. ~stale => last_pow <= p
      BY <1>1, <1>2 DEF Reaches
    <3>8. last_pow \in Nat
      BY <1>3 DEF PowInv
    <3>9. Reaches(q, y)'
      <4>1. ~stale => last_pow <= q
        BY <1>3, <2>1, <3>3, <3>5, <3>7, <3>8
      <4> QED
        BY <1>1, <1>3, <1>6, <3>4, <4>1 DEF Reaches
    <3>10. ASSUME ~stale' PROVE Honest(blocks')
      <4>1. Honest(blocks) /\ ~stale
        BY <1>1, <3>10 DEF PowInv
      <4>2. \A h \in Heights : h > Checkpoint /\ h \in p + 1 .. l => d[h] \notin Forged
        <5> TAKE h \in Heights
        <5> HAVE h > Checkpoint /\ h \in p + 1 .. l
        <5>1. h \in b.start + 1 .. l /\ h > last_pow
          BY <1>3, <2>1, <3>7, <3>8, <4>1
        <5> QED
          BY <1>6, <5>1 DEF ScanRefused
      <4> QED
        BY <1>6, <3>1, <4>1, <4>2, HonestKept
    <3> QED
      BY <1>1, <1>4, <1>6, <3>6, <3>9, <3>10 DEF PowInv
  <2> QED
    BY <2>3, <2>4
<1> QED
  BY <1>1, <1>5, <1>6 DEF ScanStore, UpdateFails

\* An administrator's rollback cuts both tables, and may make the copy of the
\* scan threads stale.
LEMMA RollbackStep ==
    ASSUME PowInv, NEW k \in Heights, Rollback(k)
    PROVE  PowInv'
<1>1. PICK c \in Chains, p \in Ends, x \in Ahead : Tables(c, p, x) /\ Reaches(p, x)
  BY Held
<1>2. /\ blocks[k] # NoBlock
      /\ blocks' = Cut(blocks, k) /\ pows' = CutPows(k)
      /\ stale' = (stale \/ (pc = "scan" /\ k <= last_pow))
      /\ UNCHANGED <<chain, tip, pc, running, known, batch, job, last_pow>>
  BY DEF Rollback
<1> DEFINE q == IF k <= p THEN k - 1 ELSE p
<1>3. TablesOf(blocks', pows', c, q, -1)
  BY <1>1, <1>2, Cuts
<1>4. /\ k \in Nat /\ Checkpoint \in Nat /\ last_pow \in Nat /\ p \in Int /\ q \in Ends
      /\ -1 # Checkpoint
  BY PowAssumption DEF PowInv, Heights, Ends
<1>5. Tables(c, q, -1)'
  BY <1>3 DEF Tables
<1>6. Reaches(q, -1)'
  <2>1. pc = "request" => /\ 0 \in DOMAIN known /\ DOMAIN known \subseteq Heights
                          /\ \A e \in Chains : known[0] = e[0]
    BY <1>1 DEF Reaches
  <2>2. ASSUME pc = "scan", ~stale' PROVE last_pow <= q
    <3>1. ~(k <= last_pow) /\ ~stale
      BY <1>2, <2>2, Zenon
    <3>2. last_pow <= p
      BY <1>1, <2>2, <3>1 DEF Reaches
    <3> QED
      BY <1>4, <3>1, <3>2
  <2> HIDE DEF q
  <2> QED
    BY <1>2, <1>4, <2>1, <2>2 DEF Reaches
<1>7. ASSUME NEW b, Pending(b), WindowsRead(b)
      PROVE  blocks'[b.start] = b.chain[b.start] =>
                /\ b.diffs = DiffRows(b.chain, b.start)
                /\ b.times = TimeRows(b.chain, b.start)
  <2>1. b.start \in Heights /\ b.chain[b.start] # NoBlock
    BY <1>7, ChainBlocks DEF Pending
  <2>2. blocks'[b.start] \in {blocks[b.start], NoBlock}
    BY <1>2, <2>1 DEF Cut
  <2> QED
    BY <1>7, <2>1, <2>2 DEF WindowsRead
<1>8. pc' = "verify" => Pending(batch') /\ WindowsRead(batch)'
  BY <1>2, <1>7 DEF PowInv, WindowsRead
<1>9. job' # NoBatch => pc' = "scan" /\ Pending(job') /\ WindowsRead(job)'
  BY <1>2, <1>7 DEF PowInv, WindowsRead
<1>10. ASSUME ~stale' PROVE Honest(blocks')
  <2>1. Honest(blocks)
    BY <1>2, <1>10 DEF PowInv
  <2> QED
    BY <1>2, <2>1, HonestKept
<1>11. /\ chain' \in Chains /\ tip' \in Heights /\ last_pow' \in Heights
       /\ pc' \in {"synced", "scan"} => running'
  BY <1>2 DEF PowInv
<1> HIDE DEF q
<1> QED
  BY <1>4, <1>5, <1>6, <1>8, <1>9, <1>10, <1>11 DEF PowInv, Pending, Ahead

-----------------------------------------------------------------------------
(* Theorems *)

\* The invariant holds when the database starts with the genesis block and
\* the last checkpoint.
LEMMA PowStarts ==
    ASSUME TrustedTop = Checkpoint, Init
    PROVE  PowInv
<1>1. /\ MaxHeight \in Nat /\ Checkpoint \in Nat /\ 0 \in Heights /\ 0 \in Ends
      /\ chain \in Chains /\ tip \in Heights /\ last_pow \in Heights
  BY PowAssumption DEF Init, Heights, Ends
<1>2. blocks = NewBlocks
  <2>1. \A h \in Checkpoint..TrustedTop : h = Checkpoint
    BY <1>1
  <2>2. chain[Checkpoint] = NewBlocks[Checkpoint]
    BY <1>1, PowAssumption DEF NewBlocks, Heights
  <2>3. NewBlocks = [h \in Heights |-> NewBlocks[h]]
    BY DEF NewBlocks
  <2>4. blocks = [h \in Heights |-> IF h \in Checkpoint..TrustedTop THEN chain[h] ELSE NewBlocks[h]]
    BY DEF Init
  <2> QED
    BY <2>1, <2>2, <2>3, <2>4
<1>3. Tables(chain, 0, Checkpoint) /\ Honest(blocks)
  BY <1>1, <1>2, NewTables DEF Init, Tables
<1>4. Reaches(0, Checkpoint)
  BY DEF Init, Reaches
<1>5. job = NoBatch /\ pc = "start"
  BY DEF Init
<1> QED
  BY <1>1, <1>3, <1>4, <1>5 DEF PowInv, Ahead

\* Every step keeps it, until an answer ends one block below the checkpoint.
LEMMA PowStep ==
    ASSUME short \/ PowInv, [Next]_vars
    PROVE  short' \/ PowInv'
<1>1. short => short'
  BY Zenon DEF Next, vars, Sync, SyncStart, SyncAnswer, SyncTimesOut, SyncStore,
        ScanStart, ScanFetch, ScanStore, ScanReset, DaemonMoves, Rollback, Restart
<1> SUFFICES ASSUME PowInv, ~short' PROVE PowInv'
  BY <1>1
<1>2. CASE SyncStart \/ SyncTimesOut \/ ScanStart \/ ScanReset
  BY <1>2, QuietStep
<1>3. CASE \E c \in Chains, t \in Heights : DaemonMoves(c, t)
  BY <1>3, QuietStep
<1>4. CASE \E n \in Sizes : SyncAnswer(n)
  BY <1>4, AnswerStep
<1>5. CASE SyncStore
  BY <1>5, StoreStep
<1>6. CASE ScanStore
  BY <1>6, UpdateStep
<1>7. CASE \E s \in Heights, n \in Sizes : ScanFetch(s, n)
  BY <1>7, FetchStep
<1>8. CASE \E h \in Heights : Rollback(h)
  BY <1>8, RollbackStep
<1>9. CASE Restart
  BY <1>9, RestartStep
<1>10. CASE UNCHANGED vars
  <2>1. UNCHANGED <<chain, tip, blocks, pows, pc, running, known, batch, job, last_pow, stale>>
    BY <1>10 DEF vars
  <2> QED
    BY <2>1 DEF PowInv, Tables, Reaches, WindowsRead, Pending
<1> QED
  BY <1>2, <1>3, <1>4, <1>5, <1>6, <1>7, <1>8, <1>9, <1>10 DEF Next, Sync

\* The invariant holds throughout.
LEMMA PowInvariant ==
    ASSUME TrustedTop = Checkpoint
    PROVE  Spec => [](short \/ PowInv)
<1>1. Init => short \/ PowInv
  BY PowStarts
<1>2. (short \/ PowInv) /\ [Next]_vars => (short \/ PowInv)'
  BY PowStep
<1> QED
  BY <1>1, <1>2, PTL DEF Spec

\* The rows of `pows` reach from the genesis block without a gap, each for
\* the block stored at its height, and end where the blocks end, through
\* every reorganisation, scan, rollback and restart, for a database that
\* begins with the last checkpoint, until an answer ends just below it.
THEOREM PowsFollow ==
    ASSUME TrustedTop = Checkpoint
    PROVE  Spec => []PowsFollowBlocks
<1>1. ASSUME short \/ PowInv PROVE PowsFollowBlocks
  <2> SUFFICES ASSUME PowInv PROVE PowsFollowBlocks
    BY <1>1 DEF PowsFollowBlocks
  <2>1. PICK c \in Chains, p \in Ends, x \in Ahead : Tables(c, p, x)
    BY Held
  <2>2. p \in Int /\ MaxHeight \in Nat /\ Checkpoint \in Nat /\ p <= MaxHeight
    BY PowAssumption DEF Ends
  <2>3. ASSUME NEW h \in Heights, pows[h] # NoBlock
        PROVE  /\ pows[h] = blocks[h] /\ \A k \in 0..h : pows[k] # NoBlock
               /\ h >= Checkpoint => Top(pows) = Top(blocks)
    <3>1. h \in Nat /\ h <= p
      BY <2>1, <2>2, <2>3 DEF Tables, TablesOf, Heights
    <3>2. pows[h] = blocks[h]
      BY <2>1, <3>1 DEF Tables, TablesOf
    <3>3. \A k \in 0..h : k \in Heights /\ k <= p
      BY <2>2, <3>1 DEF Heights
    <3>4. \A k \in 0..h : pows[k] # NoBlock
      BY <2>1, <3>3, ChainBlocks DEF Tables, TablesOf
    <3>5. h >= Checkpoint => p >= 0 /\ x = -1
      BY <2>1, <2>2, <3>1 DEF Tables, TablesOf
    <3> QED
      BY <2>1, <3>2, <3>4, <3>5, Tops
  <2> QED
    BY <2>3 DEF PowsFollowBlocks
<1> QED
  BY <1>1, PowInvariant, PTL

\* Every block sync_full or a scan thread judges is judged by the windows of
\* the consensus rules, until an answer ends just below the last checkpoint.
THEOREM WindowsAreExact ==
    ASSUME TrustedTop = Checkpoint
    PROVE  Spec => []WindowsExact
<1>1. short \/ PowInv => WindowsExact
  BY ReadIsExact DEF PowInv, WindowsExact
<1> QED
  BY <1>1, PowInvariant, PTL

\* No forged block above the last checkpoint is stored, unless a rollback
\* went below the height the running scan threads take as checked, or an
\* answer ended just below the checkpoint.
THEOREM NoForgery ==
    ASSUME TrustedTop = Checkpoint
    PROVE  Spec => []NoForgedStored
<1>1. short \/ PowInv => NoForgedStored
  BY DEF PowInv, NoForgedStored, Honest
<1> QED
  BY <1>1, PowInvariant, PTL
=============================================================================
