------------------------- MODULE TickPipelineProofs -------------------------
(***************************************************************************)
(* Proofs about the tick pipeline, for every number of ticks, segments and *)
(* faults, and every batch size and quota: closed segments never change,   *)
(* the running streamer forgets no tick, neither does a restart, no tick   *)
(* is stored twice without a fault, and the open segments stay.            *)
(*                                                                         *)
(* The parts: which segment the writer has open; lines and the stream      *)
(* buffer as sequences; what a reader has in front of it; the invariant;   *)
(* the steps of the collector; the steps of the streamer; the rows in the  *)
(* table; sizes and the quota.                                             *)
(***************************************************************************)
EXTENDS TickPipeline, SequenceTheorems, InductionTheorems

\* The writer only ever has the newest segment open, and nothing newer is
\* listed: what the two steps that touch segments rely on.
SegInv ==
    /\ opened \in Nat
    /\ files \subseteq 1..opened
    /\ current \in {NoFile, opened}

USE DEF NoFile

\* The streamer creates no segment, appends to none, and leaves the writer be.
LEMMA StreamerOnlyDeletes ==
    ASSUME StreamerLoop \/ TimerStep \/ StreamerFault \/ MachineFault
    PROVE  files' \subseteq files /\ UNCHANGED <<content, writerVars>>
<1> USE DEF NoDirChange, PurgeThenQuota, MaybeQuota
<1>1. CASE StreamerLoop
  BY <1>1 DEF StreamerLoop, StreamerStart, Scan, ReadLine, ReadFragment, ReadNothing, ListNewer,
              ListNone, FlushOk, SaveWatermark, Rotate, PurgeOld
<1>2. CASE TimerStep
  BY <1>2 DEF TimerStep, FlushFallsDue
<1>3. CASE StreamerFault
  BY <1>3 DEF StreamerFault, StreamerKilled, FlushFails
<1>4. CASE MachineFault
  BY <1>4 DEF MachineFault, SpaceChanges, EodCleanup
<1>5. QED  BY <1>1, <1>2, <1>3, <1>4

\* What a step of the collector does to the segments: nothing new, or one
\* segment newer than all others.
LEMMA WriterOpensNewest ==
    ASSUME SegInv, WriterStep \/ WriterFault
    PROVE  \/ files' = files /\ opened' = opened /\ current' \in {NoFile, current}
           \/ files' = files \cup {opened + 1} /\ opened' = opened + 1 /\ current' = opened + 1
<1>1. CASE WriteTick
  BY <1>1 DEF WriteTick, WriteHalted, WriteAppend, WriteRotate, WriteRotateFails, OpenNext
<1>2. CASE SegmentAges
  BY <1>2 DEF SegmentAges
<1>3. CASE WriterStart
  BY <1>3 DEF WriterStart, OpenNext
<1>4. CASE WriterStops \/ WriterKilled
  BY <1>4 DEF WriterStops, WriterKilled
<1>5. QED  BY <1>1, <1>2, <1>3, <1>4 DEF WriterStep, WriterFault

\* Either way it writes to the newest, or to none.
LEMMA WriterOrders ==
    ASSUME SegInv, WriterStep \/ WriterFault PROVE SegInv'
<1>1. \/ files' = files /\ opened' = opened /\ current' \in {NoFile, current}
      \/ files' = files \cup {opened + 1} /\ opened' = opened + 1 /\ current' = opened + 1
  BY WriterOpensNewest
<1>2. CASE files' = files /\ opened' = opened /\ current' \in {NoFile, current}
  BY <1>2 DEF SegInv
<1>3. CASE files' = files \cup {opened + 1} /\ opened' = opened + 1 /\ current' = opened + 1
  <2>1. opened' \in Nat /\ current' \in {NoFile, opened'}
    BY <1>3 DEF SegInv
  <2>2. 1..opened \subseteq 1..(opened + 1) /\ opened + 1 \in 1..(opened + 1)
    BY DEF SegInv
  <2>3. QED  BY <1>3, <2>1, <2>2 DEF SegInv
<1>4. QED  BY <1>1, <1>2, <1>3

\* A step of the collector appends to the open segment and to a new one only.
LEMMA WriterAppendsToCurrent ==
    ASSUME SegInv, WriterStep \/ WriterFault,
           NEW f \in Segment, f # current, f # opened + 1
    PROVE  content'[f] = content[f]
<1>0. \A s : Appended(current, s)[f] = content[f]
  BY DEF Appended
<1>1. CASE WriteTick
  <2>1. CASE WriteHalted
    BY <2>1 DEF WriteHalted
  <2>2. CASE WriteAppend
    BY <1>0, <2>2 DEF WriteAppend
  <2>3. CASE WriteRotate
    BY <1>0, <2>3 DEF WriteRotate, OpenNext
  <2>4. CASE WriteRotateFails
    BY <1>0, <2>4 DEF WriteRotateFails
  <2>5. QED  BY <1>1, <2>1, <2>2, <2>3, <2>4 DEF WriteTick
<1>2. CASE SegmentAges
  BY <1>2 DEF SegmentAges
<1>3. CASE WriterStart
  <2>1. CASE OpenNext(<<>>)
    BY <1>0, <2>1 DEF OpenNext, Appended
  <2>2. CASE UNCHANGED content
    BY <2>2
  <2>3. QED  BY <1>3, <2>1, <2>2 DEF WriterStart
<1>4. CASE WriterStops \/ WriterKilled
  BY <1>0, <1>4 DEF WriterStops, WriterKilled
<1>5. QED  BY <1>1, <1>2, <1>3, <1>4 DEF WriterStep, WriterFault

\* SegInv holds in every reachable state.
THEOREM SegmentsOrdered == Spec => []SegInv
<1>1. Init => SegInv
  BY DEF Init, DirInit, WriterInit, SegInv
<1>2. SegInv /\ [Next]_vars => SegInv'
  <2> SUFFICES ASSUME SegInv, [Next]_vars PROVE SegInv'
    OBVIOUS
  <2>1. CASE WriterStep \/ WriterFault
    BY <2>1, WriterOrders
  <2>2. CASE StreamerLoop \/ TimerStep \/ StreamerFault \/ MachineFault
    BY <2>2, StreamerOnlyDeletes DEF SegInv, writerVars
  <2>3. CASE UNCHANGED vars
    BY <2>3 DEF SegInv, vars, writerVars
  <2>4. QED  BY <2>1, <2>2, <2>3 DEF Next
<1>3. QED  BY <1>1, <1>2, PTL DEF Spec

\* A segment that has a newer one in the directory never changes again
\* (rotate_if_needed closes before it opens), which is what the streamer's
\* end-of-segment test relies on.
THEOREM SegmentsSealed == Spec => SealedSegments
<1>1. SegInv /\ [Next]_vars => [\A f \in Segment : HasNewer(f) => content'[f] = content[f]]_vars
  <2> SUFFICES ASSUME SegInv, Next, NEW f \in Segment, HasNewer(f)
               PROVE  content'[f] = content[f]
    OBVIOUS
  <2>1. f < opened
    BY DEF SegInv, HasNewer, Segment
  <2>2. CASE WriterStep \/ WriterFault
    BY <2>1, <2>2, WriterAppendsToCurrent DEF SegInv, Segment
  <2>3. CASE StreamerLoop \/ TimerStep \/ StreamerFault \/ MachineFault
    BY <2>3, StreamerOnlyDeletes
  <2>4. QED  BY <2>2, <2>3 DEF Next
<1>2. QED  BY <1>1, SegmentsOrdered, PTL DEF Spec, SealedSegments

-----------------------------------------------------------------------------
(* No tick is forgotten.  The two facts lean on each other: a restart finds  *)
(* what the watermark left ahead of it, and a watermark may move because     *)
(* what the running streamer has behind it is delivered or in its buffer.    *)

\* The halves of a line stand next to each other, and what the stream buffer
\* holds goes on where the file ends.
Paired(c) == \A i \in 1..Len(c) : i % 2 = 1 /\ i < Len(c) => c[i + 1] = c[i]

Continues(c, p) ==
    /\ (Len(c) + Len(p)) % 2 = 0
    /\ Len(c) % 2 = 1 => Len(p) > 0 /\ p[1] = c[Len(c)]
    /\ \A i \in 1..Len(p) : (Len(c) + i) % 2 = 1 /\ i < Len(p) => p[i + 1] = p[i]

Extends(a, b) == Len(a) <= Len(b) /\ \A i \in 1..Len(a) : b[i] = a[i]

\* The elements of a sequence.
LEMMA InSequence ==
    ASSUME NEW S, NEW s \in Seq(S), NEW t
    PROVE  t \in ToSet(s) <=> \E i \in 1..Len(s) : s[i] = t
BY DEF ToSet

\* Every element of a concatenation is one of a part.
LEMMA ConcatSet ==
    ASSUME NEW a \in Seq(Tick), NEW b \in Seq(Tick)
    PROVE  /\ ToSet(a \o b) = ToSet(a) \cup ToSet(b)
           /\ a \o b \in Seq(Tick) /\ Len(a \o b) = Len(a) + Len(b)
           /\ Extends(a, a \o b)
<1>1. /\ a \o b \in Seq(Tick) /\ Len(a \o b) = Len(a) + Len(b)
      /\ \A i \in 1..(Len(a) + Len(b)) :
             (a \o b)[i] = IF i <= Len(a) THEN a[i] ELSE b[i - Len(a)]
  BY ConcatProperties
<1>2. ToSet(a) \subseteq ToSet(a \o b)
  BY <1>1 DEF ToSet
<1>3. ToSet(b) \subseteq ToSet(a \o b)
  <2> SUFFICES ASSUME NEW i \in 1..Len(b) PROVE b[i] \in ToSet(a \o b)
    BY InSequence
  <2>0. Len(a) \in Nat /\ Len(b) \in Nat
    OBVIOUS
  <2>1. PICK k \in 1..(Len(a) + Len(b)) : k = Len(a) + i
    BY <2>0
  <2>2. k > Len(a) /\ k - Len(a) = i
    BY <2>0, <2>1
  <2>3. (a \o b)[k] = b[i]
    BY <1>1, <2>0, <2>1, <2>2
  <2>4. QED  BY <1>1, <2>3, InSequence
<1>4. ToSet(a \o b) \subseteq ToSet(a) \cup ToSet(b)
  <2> SUFFICES ASSUME NEW i \in 1..(Len(a) + Len(b)) PROVE (a \o b)[i] \in ToSet(a) \cup ToSet(b)
    BY <1>1 DEF ToSet
  <2>1. CASE i <= Len(a)
    BY <1>1, <2>1 DEF ToSet
  <2>2. CASE i > Len(a)
    <3>1. i - Len(a) \in 1..Len(b) /\ (a \o b)[i] = b[i - Len(a)]
      BY <1>1, <2>2
    <3>2. QED  BY <3>1 DEF ToSet
  <2>3. QED  BY <2>1, <2>2
<1>5. QED  BY <1>1, <1>2, <1>3, <1>4 DEF Extends

\* A sequence cut in two keeps its elements.
LEMMA CutSet ==
    ASSUME NEW s \in Seq(Tick), NEW n \in 0..Len(s)
    PROVE  /\ SubSeq(s, 1, n) \in Seq(Tick) /\ SubSeq(s, n + 1, Len(s)) \in Seq(Tick)
           /\ Len(SubSeq(s, 1, n)) = n /\ Len(SubSeq(s, n + 1, Len(s))) = Len(s) - n
           /\ \A i \in 1..n : SubSeq(s, 1, n)[i] = s[i]
           /\ \A i \in 1..(Len(s) - n) : SubSeq(s, n + 1, Len(s))[i] = s[n + i]
           /\ ToSet(s) = ToSet(SubSeq(s, 1, n)) \cup ToSet(SubSeq(s, n + 1, Len(s)))
<1> DEFINE a == SubSeq(s, 1, n)
           b == SubSeq(s, n + 1, Len(s))
<1>1. a \in Seq(Tick) /\ Len(a) = n /\ \A i \in 1..n : a[i] = s[i]
  BY SubSeqProperties
<1>2. b \in Seq(Tick) /\ Len(b) = Len(s) - n /\ \A i \in 1..(Len(s) - n) : b[i] = s[n + i]
  BY SubSeqProperties
<1> HIDE DEF a, b
<1>3. ToSet(a) \subseteq ToSet(s) /\ ToSet(b) \subseteq ToSet(s)
  <2>1. \A t \in ToSet(a) : t \in ToSet(s)
    BY <1>1, InSequence
  <2>2. \A i \in 1..(Len(s) - n) : n + i \in 1..Len(s)
    OBVIOUS
  <2>3. \A t \in ToSet(b) : t \in ToSet(s)
    BY <1>2, <2>2, InSequence
  <2>4. QED  BY <2>1, <2>3
<1>4. ToSet(s) \subseteq ToSet(a) \cup ToSet(b)
  <2> SUFFICES ASSUME NEW i \in 1..Len(s) PROVE s[i] \in ToSet(a) \cup ToSet(b)
    BY DEF ToSet
  <2>1. CASE i <= n
    BY <1>1, <2>1 DEF ToSet
  <2>2. CASE i > n
    <3>1. i - n \in 1..Len(b) /\ b[i - n] = s[i]
      BY <1>2, <2>2
    <3>2. QED  BY <1>2, <3>1 DEF ToSet
  <2>3. QED  BY <2>1, <2>2
<1>5. QED  BY <1>1, <1>2, <1>3, <1>4 DEF a, b

\* A flush of the whole stream buffer leaves whole lines.
LEMMA FlushPaired ==
    ASSUME NEW c \in Seq(Tick), NEW p \in Seq(Tick), Paired(c), Continues(c, p)
    PROVE  Paired(c \o p)
<1> SUFFICES ASSUME NEW j \in 1..(Len(c) + Len(p)), j % 2 = 1, j < Len(c) + Len(p)
             PROVE  (c \o p)[j + 1] = (c \o p)[j]
  BY ConcatProperties DEF Paired
<1>0. \A i \in 1..(Len(c) + Len(p)) :
          (c \o p)[i] = IF i <= Len(c) THEN c[i] ELSE p[i - Len(c)]
  BY ConcatProperties
<1>1. CASE j < Len(c)
  BY <1>0, <1>1 DEF Paired
<1>2. CASE j = Len(c)
  BY <1>0, <1>2 DEF Continues
<1>3. CASE j > Len(c)
  <2>1. j - Len(c) \in 1..Len(p) /\ j - Len(c) < Len(p) /\ (Len(c) + (j - Len(c))) % 2 = 1
    BY <1>3
  <2>2. p[(j - Len(c)) + 1] = p[j - Len(c)]
    BY <2>1 DEF Continues
  <2>3. QED  BY <1>0, <1>3, <2>1, <2>2
<1>4. QED  BY <1>1, <1>2, <1>3

\* So does a line more of which any number of half lines spill.
LEMMA SpillPaired ==
    ASSUME NEW c \in Seq(Tick), NEW p \in Seq(Tick), Paired(c), Continues(c, p),
           NEW t \in Tick, NEW n \in 0..(Len(p) + 2)
    PROVE  LET buf == p \o Line(t)
               a   == SubSeq(buf, 1, n)
               b   == SubSeq(buf, n + 1, Len(buf))
           IN  /\ buf \in Seq(Tick) /\ Len(buf) = Len(p) + 2
               /\ Paired(c \o a) /\ Continues(c \o a, b)
               /\ ToSet(p) \cup {t} \subseteq ToSet(a) \cup ToSet(b)
<1> DEFINE line == Line(t)
           buf == p \o line
           a   == SubSeq(buf, 1, n)
           b   == SubSeq(buf, n + 1, Len(buf))
<1>1. line \in Seq(Tick) /\ Len(line) = 2 /\ line[1] = t /\ line[2] = t
  BY DEF Line
<1> HIDE DEF line
<1>0. PICK L \in Nat, m \in Nat : L = Len(c) /\ m = Len(p)
  OBVIOUS
<1>2. /\ buf \in Seq(Tick) /\ Len(buf) = m + 2
      /\ \A i \in 1..(m + 2) : buf[i] = IF i <= m THEN p[i] ELSE t
  <2>0. /\ buf \in Seq(Tick) /\ Len(buf) = Len(p) + Len(line)
        /\ \A i \in 1..(Len(p) + Len(line)) :
               buf[i] = IF i <= Len(p) THEN p[i] ELSE line[i - Len(p)]
    BY <1>1, ConcatProperties
  <2>1. /\ buf \in Seq(Tick) /\ Len(buf) = m + 2
        /\ \A i \in 1..(m + 2) : buf[i] = IF i <= m THEN p[i] ELSE line[i - m]
    BY <1>0, <1>1, <2>0
  <2>2. \A i \in 1..(m + 2) : i > m => i - m \in {1, 2}
    OBVIOUS
  <2>3. QED  BY <1>1, <2>1, <2>2
<1>9. ToSet(p) \cup {t} \subseteq ToSet(buf)
  <2>1. ToSet(buf) = ToSet(p) \cup ToSet(line)
    BY <1>1, ConcatSet
  <2>2. t \in ToSet(line)
    BY <1>1, InSequence
  <2>3. QED  BY <2>1, <2>2
<1> HIDE DEF buf
<1>3. /\ a \in Seq(Tick) /\ b \in Seq(Tick) /\ Len(a) = n /\ Len(b) = m + 2 - n
      /\ \A i \in 1..n : a[i] = buf[i]
      /\ \A i \in 1..(m + 2 - n) : b[i] = buf[n + i]
      /\ ToSet(buf) = ToSet(a) \cup ToSet(b)
  BY <1>0, <1>2, CutSet
<1> HIDE DEF a, b
\* The file and the stream buffer as one.
<1> DEFINE all == L + m + 2
           w == [j \in 1..all |-> IF j <= L THEN c[j] ELSE buf[j - L]]
<1>4. \A j \in 1..all : j % 2 = 1 /\ j < all => w[j + 1] = w[j]
  <2> SUFFICES ASSUME NEW j \in 1..all, j % 2 = 1, j < all
               PROVE  w[j + 1] = w[j]
    OBVIOUS
  <2>1. CASE j < L
    <3>1. c[j + 1] = c[j]
      BY <1>0, <2>1 DEF Paired
    <3>2. j \in 1..all /\ j + 1 \in 1..all /\ j <= L /\ j + 1 <= L
      BY <1>0, <2>1
    <3>3. w[j] = c[j] /\ w[j + 1] = c[j + 1]
      BY <3>2
    <3>4. QED  BY <3>1, <3>3
  <2>2. CASE j = L
    <3>1. m > 0 /\ p[1] = c[L]
      BY <1>0, <2>2 DEF Continues
    <3>2. w[j] = c[L] /\ w[j + 1] = buf[1]
      BY <2>2
    <3>3. QED  BY <1>2, <3>1, <3>2
  <2>3. CASE j > L
    <3>1. PICK i \in 1..(m + 1) : i = j - L
      BY <2>3
    <3>2. w[j] = buf[i]
      BY <2>3, <3>1
    <3>3. (j + 1) - L = i + 1
      BY <3>1
    <3>4. w[j + 1] = buf[i + 1]
      <4>1. j + 1 \in 1..all /\ ~(j + 1 <= L)
        BY <2>3
      <4>2. w[j + 1] = buf[(j + 1) - L]
        BY <4>1
      <4>3. QED  BY <3>3, <4>2
    <3>5. (L + i) % 2 = 1
      BY <3>1
    <3>6. CASE i < m
      <4>1. p[i + 1] = p[i]
        BY <1>0, <3>1, <3>5, <3>6 DEF Continues
      <4>2. QED  BY <1>2, <3>1, <3>2, <3>4, <3>6, <4>1
    <3>7. i # m
      <4>1. (L + m) % 2 = 0
        BY <1>0 DEF Continues
      <4>2. QED  BY <3>5, <4>1
    <3>8. CASE i = m + 1
      BY <1>2, <3>2, <3>4, <3>8
    <3>9. QED  BY <3>1, <3>6, <3>7, <3>8
  <2>4. QED  BY <2>1, <2>2, <2>3
<1>5. /\ c \o a \in Seq(Tick) /\ Len(c \o a) = L + n
      /\ \A j \in 1..(L + n) : (c \o a)[j] = w[j]
  <2>0. /\ c \o a \in Seq(Tick) /\ Len(c \o a) = Len(c) + Len(a)
        /\ \A j \in 1..(Len(c) + Len(a)) :
               (c \o a)[j] = IF j <= Len(c) THEN c[j] ELSE a[j - Len(c)]
    <3>1. a \in Seq(Tick)
      BY <1>3
    <3>2. QED  BY ONLY <3>1, c \in Seq(Tick), ConcatProperties
  <2>1. /\ c \o a \in Seq(Tick) /\ Len(c \o a) = L + n
        /\ \A j \in 1..(L + n) : (c \o a)[j] = IF j <= L THEN c[j] ELSE a[j - L]
    BY <1>0, <1>3, <2>0
  <2>2. \A j \in 1..(L + n) : j \in 1..all /\ (j > L => j - L \in 1..n)
    BY <1>0
  <2>3. ASSUME NEW j \in 1..(L + n) PROVE (c \o a)[j] = w[j]
    <3>1. w[j] = IF j <= L THEN c[j] ELSE buf[j - L]
      BY <2>2
    <3>2. CASE j <= L
      BY <2>1, <3>1, <3>2
    <3>3. CASE ~(j <= L)
      BY <1>3, <2>1, <2>2, <3>1, <3>3
    <3>4. QED  BY <3>2, <3>3
  <2>4. QED  BY <2>1, <2>3
<1>6. \A i \in 1..(m + 2 - n) : b[i] = w[L + n + i]
  <2> TAKE i \in 1..(m + 2 - n)
  <2>1. PICK k \in 1..all : k = L + n + i
    BY <1>0
  <2>2. ~(k <= L) /\ k - L = n + i
    BY <1>0, <2>1
  <2>3. w[k] = buf[n + i]
    BY <2>2
  <2>4. b[i] = buf[n + i]
    BY <1>3
  <2>5. QED  BY <2>1, <2>3, <2>4
<1> HIDE DEF w
<1>7. Paired(c \o a)
  <2> SUFFICES ASSUME NEW j \in 1..(L + n), j % 2 = 1, j < L + n
               PROVE  (c \o a)[j + 1] = (c \o a)[j]
    BY <1>5 DEF Paired
  <2>1. j \in 1..all /\ j < all /\ j + 1 \in 1..(L + n)
    BY <1>0
  <2>2. QED  BY <1>4, <1>5, <2>1
<1>8. Continues(c \o a, b)
  <2>0. n \in Nat /\ n <= m + 2
    BY <1>0
  <2>1. ((L + n) + (m + 2 - n)) % 2 = 0
    BY <1>0, <2>0 DEF Continues
  <2>2. ASSUME (L + n) % 2 = 1
        PROVE  m + 2 - n > 0 /\ b[1] = (c \o a)[L + n]
    <3>1. n # m + 2 /\ L + n > 0
      BY <2>0, <2>1, <2>2
    <3>2. L + n \in 1..all /\ L + n < all
      BY <2>0, <3>1
    <3>3. w[(L + n) + 1] = w[L + n]
      BY <1>4, <2>2, <3>2
    <3>4. (c \o a)[L + n] = w[L + n]
      <4>1. L + n \in 1..(L + n)
        BY <2>0, <3>1
      <4>2. QED  BY <1>5, <4>1
    <3>5. b[1] = w[L + n + 1]
      BY <1>6, <2>0, <3>1
    <3>6. QED  BY <2>0, <3>1, <3>3, <3>4, <3>5
  <2>3. ASSUME NEW i \in 1..(m + 2 - n), ((L + n) + i) % 2 = 1, i < m + 2 - n
        PROVE  b[i + 1] = b[i]
    <3>1. (L + n) + i \in 1..all /\ (L + n) + i < all
      BY <2>0, <2>3
    <3>2. w[((L + n) + i) + 1] = w[(L + n) + i]
      BY <1>4, <2>3, <3>1
    <3>3. b[i] = w[L + n + i]
      BY <1>6, <2>3
    <3>4. b[i + 1] = w[L + n + (i + 1)]
      BY <1>6, <2>0, <2>3
    <3>5. L + n + (i + 1) = ((L + n) + i) + 1
      BY <2>0
    <3>6. QED  BY <3>2, <3>3, <3>4, <3>5
  <2>4. QED  BY <1>3, <1>5, <2>1, <2>2, <2>3 DEF Continues
<1>10. QED  BY <1>0, <1>2, <1>3, <1>7, <1>8, <1>9 DEF a, b, buf, line

-----------------------------------------------------------------------------
\* What a reader at offset o of segment f has in front of it, when F is listed
\* and the segments hold C: TicksAhead without its state.
Ahead(F, C, f, o) ==
    {t \in Tick : \/ f \in F /\ t \in TicksPast(C[f], o)
                  \/ \E g \in F : (f \notin F \/ g > f) /\ t \in ToSet(C[g])}

LEMMA AllPastZero ==
    ASSUME NEW c \in Seq(Tick), NEW o \in Nat
    PROVE  /\ TicksPast(c, 0) = ToSet(c)
           /\ TicksPast(c, o) \subseteq ToSet(c)
           /\ ToSet(c) \subseteq Tick
  BY DEF TicksPast, ToSet

LEMMA AheadMeans ==
    ASSUME NEW F \in SUBSET Segment, NEW C \in [Segment -> Seq(Tick)],
           NEW f \in Nat, NEW o \in Nat
    PROVE  UNION { CASE g = f -> TicksPast(C[g], o)
                     [] g < f /\ f \in F -> {}
                     [] OTHER -> TicksPast(C[g], 0) : g \in F } = Ahead(F, C, f, o)
<1> DEFINE Part(g) == CASE g = f -> TicksPast(C[g], o)
                        [] g < f /\ f \in F -> {}
                        [] OTHER -> TicksPast(C[g], 0)
<1>1. \A g \in F : /\ g \in Nat
                   /\ TicksPast(C[g], 0) = ToSet(C[g])
                   /\ TicksPast(C[g], o) \subseteq ToSet(C[g])
                   /\ ToSet(C[g]) \subseteq Tick
  BY AllPastZero, BoundsAssumption DEF Segment
<1>2. \A g \in F : Part(g) = IF g = f THEN TicksPast(C[g], o)
                             ELSE IF f \in F /\ ~(g > f) THEN {} ELSE ToSet(C[g])
  BY <1>1
<1> HIDE DEF Part
<1>3. ASSUME NEW t PROVE (\E g \in F : t \in Part(g)) <=> t \in Ahead(F, C, f, o)
  <2>1. ASSUME NEW g \in F, t \in Part(g) PROVE t \in Ahead(F, C, f, o)
    <3>1. CASE g = f
      BY <1>1, <1>2, <2>1, <3>1 DEF Ahead
    <3>2. CASE g # f
      BY <1>1, <1>2, <2>1, <3>2 DEF Ahead
    <3>3. QED  BY <3>1, <3>2
  <2>2. ASSUME f \in F, t \in TicksPast(C[f], o) PROVE \E g \in F : t \in Part(g)
    BY <1>2, <2>2
  <2>3. ASSUME NEW g \in F, f \notin F \/ g > f, t \in ToSet(C[g])
        PROVE  \E h \in F : t \in Part(h)
    BY <1>1, <1>2, <2>3
  <2>4. QED  BY <2>1, <2>2, <2>3 DEF Ahead
<1>4. QED  BY <1>3 DEF Part

\* More of the newest listed segment, or of one that is not listed.
LEMMA AheadGrows ==
    ASSUME NEW F \in SUBSET Segment, NEW C \in [Segment -> Seq(Tick)],
           NEW D \in [Segment -> Seq(Tick)], NEW f \in Nat, NEW o \in Nat,
           NEW e, NEW s \in Seq(Tick),
           \A g \in F : D[g] = IF g = e THEN C[g] \o s ELSE C[g],
           \A g \in F : g <= e,
           f \in F => o <= Len(C[f])
    PROVE  /\ Ahead(F, C, f, o) \subseteq Ahead(F, D, f, o)
           /\ e \in F => ToSet(s) \subseteq Ahead(F, D, f, o)
<1>0. \A g \in F : g \in Nat /\ C[g] \in Seq(Tick) /\ D[g] \in Seq(Tick)
  BY BoundsAssumption DEF Segment
<1>1. ASSUME NEW g \in F, g = e
      PROVE  /\ D[g] = C[g] \o s /\ Len(D[g]) = Len(C[g]) + Len(s)
             /\ \A i \in 1..Len(C[g]) : D[g][i] = C[g][i]
             /\ \A i \in 1..Len(s) : D[g][Len(C[g]) + i] = s[i]
             /\ ToSet(D[g]) = ToSet(C[g]) \cup ToSet(s)
  <2>1. D[g] = C[g] \o s
    BY <1>1
  <2>2. QED  BY <1>0, <2>1, ConcatSet, ConcatProperties
<1>2. \A g \in F : ToSet(C[g]) \subseteq ToSet(D[g])
  BY <1>1
<1>3. ASSUME f \in F
      PROVE  TicksPast(C[f], o) \subseteq TicksPast(D[f], o)
  <2>1. CASE f = e
    <3>1. \A i \in (o + 1)..Len(C[f]) : i \in (o + 1)..Len(D[f]) /\ D[f][i] = C[f][i]
      BY <1>0, <1>1, <1>3, <2>1
    <3>2. QED  BY <3>1 DEF TicksPast
  <2>2. CASE f # e
    BY <1>3, <2>2
  <2>3. QED  BY <2>1, <2>2
<1>4. Ahead(F, C, f, o) \subseteq Ahead(F, D, f, o)
  BY <1>2, <1>3 DEF Ahead
<1>5. ASSUME e \in F, NEW t \in ToSet(s) PROVE t \in Ahead(F, D, f, o)
  <2>0. t \in Tick /\ t \in ToSet(D[e])
    BY <1>1, <1>5, AllPastZero
  <2>1. CASE f = e
    <3>1. PICK i \in 1..Len(s) : t = s[i]
      BY <1>5 DEF ToSet
    <3>2. Len(C[f]) + i \in (o + 1)..Len(D[f]) /\ D[f][Len(C[f]) + i] = t
      BY <1>0, <1>1, <1>5, <2>1, <3>1
    <3>3. QED  BY <1>5, <2>0, <2>1, <3>2 DEF Ahead, TicksPast
  <2>2. CASE f # e
    <3>1. f \notin F \/ e > f
      BY <1>0, <1>5, <2>2
    <3>2. QED  BY <1>5, <2>0, <3>1 DEF Ahead
  <2>3. QED  BY <2>1, <2>2
<1>6. QED  BY <1>4, <1>5

\* A new segment after all others.
LEMMA AheadNew ==
    ASSUME NEW F \in SUBSET Segment, NEW C \in [Segment -> Seq(Tick)],
           NEW f \in Nat, NEW o \in Nat, NEW n \in Segment, f < n
    PROVE  Ahead(F, C, f, o) \cup ToSet(C[n]) \subseteq Ahead(F \cup {n}, C, f, o)
<1>1. n \in Nat /\ ToSet(C[n]) \subseteq Tick
  BY AllPastZero, BoundsAssumption DEF Segment
<1>2. f \in F \cup {n} <=> f \in F
  BY <1>1
<1>3. QED  BY <1>1, <1>2 DEF Ahead

\* Segments that go were behind the reader, or their ticks are in L.
LEMMA AheadDelete ==
    ASSUME NEW F \in SUBSET Segment, NEW G \in SUBSET F, NEW C \in [Segment -> Seq(Tick)],
           NEW f \in Nat, NEW o \in Nat, NEW L,
           \A g \in F \ G : ToSet(C[g]) \subseteq L \/ (f \in F /\ g < f)
    PROVE  Ahead(F, C, f, o) \subseteq Ahead(G, C, f, o) \cup L
<1> SUFFICES ASSUME NEW t \in Ahead(F, C, f, o), t \notin L PROVE t \in Ahead(G, C, f, o)
  OBVIOUS
<1>0. t \in Tick /\ (f \in F => TicksPast(C[f], o) \subseteq ToSet(C[f]))
  BY AllPastZero DEF Ahead
<1>1. CASE f \in F /\ t \in TicksPast(C[f], o)
  <2>1. f \in G
    BY <1>0, <1>1
  <2>2. QED  BY <1>0, <1>1, <2>1 DEF Ahead
<1>2. CASE \E g \in F : (f \notin F \/ g > f) /\ t \in ToSet(C[g])
  <2>1. PICK g \in F : (f \notin F \/ g > f) /\ t \in ToSet(C[g])
    BY <1>2
  <2>2. g \in Nat
    BY BoundsAssumption DEF Segment
  <2>3. g \in G
    BY <2>1, <2>2
  <2>4. QED  BY <1>0, <2>1, <2>3 DEF Ahead
<1>3. QED  BY <1>1, <1>2 DEF Ahead

\* A reader that starts earlier has at least as much in front of it.
LEMMA AheadEarlier ==
    ASSUME NEW F \in SUBSET Segment, NEW C \in [Segment -> Seq(Tick)],
           NEW f \in Nat, NEW g \in Nat, NEW o \in Nat,
           \A h \in F : h >= f,
           g < f \/ (g = f /\ o = 0)
    PROVE  Ahead(F, C, f, 0) \subseteq Ahead(F, C, g, o)
<1>1. f \in F => TicksPast(C[f], 0) = ToSet(C[f])
  BY AllPastZero
<1>2. g # f => g \notin F
  OBVIOUS
<1>3. QED  BY <1>1, <1>2 DEF Ahead

\* The next segment begins where the reader leaves the last one.
LEMMA AheadNext ==
    ASSUME NEW F \in SUBSET Segment, NEW C \in [Segment -> Seq(Tick)],
           NEW f \in Nat, NEW o \in Nat, NEW n \in Nat,
           \A h \in F : h >= f,
           \A h \in F : h <= f \/ h >= n, f < n
    PROVE  Ahead(F, C, f, o) \subseteq Ahead(F, C, n, 0) \cup TicksPast(C[f], o)
<1>1. n \in F => TicksPast(C[n], 0) = ToSet(C[n])
  BY AllPastZero
<1>2. ASSUME NEW h \in F, f \notin F \/ h > f PROVE h \in Nat /\ (h = n \/ h > n)
  BY <1>2, BoundsAssumption DEF Segment
<1>3. ASSUME NEW h \in F, h = n \/ h > n, NEW t \in ToSet(C[h])
      PROVE  t \in Ahead(F, C, n, 0)
  <2>1. t \in Tick
    BY AllPastZero
  <2>2. QED  BY <1>1, <1>3, <2>1 DEF Ahead
<1>4. QED  BY <1>2, <1>3 DEF Ahead

\* A step of readline passes one line or one half.
LEMMA AheadRead ==
    ASSUME NEW F \in SUBSET Segment, NEW C \in [Segment -> Seq(Tick)],
           NEW f \in Segment, NEW o \in Nat, Paired(C[f]), o < Len(C[f])
    PROVE  /\ LineEnd(C[f], o) \in Nat /\ LineEnd(C[f], o) <= Len(C[f])
           /\ Ahead(F, C, f, o) \subseteq
                  Ahead(F, C, f, LineEnd(C[f], o)) \cup {C[f][o + 1]}
<1> DEFINE c == C[f]
           e == LineEnd(c, o)
<1>0. c \in Seq(Tick) /\ Len(c) \in Nat
  OBVIOUS
<1>1. e \in Nat /\ e <= Len(c) /\ o < e
  BY <1>0 DEF LineEnd, WholeLine
<1>2. \A i \in (o + 1)..Len(c) : i \notin (e + 1)..Len(c) => c[i] = c[o + 1]
  <2> SUFFICES ASSUME NEW i \in (o + 1)..Len(c), i <= e PROVE c[i] = c[o + 1]
    BY <1>1
  <2>1. CASE ~WholeLine(c, o)
    BY <1>0, <2>1 DEF LineEnd
  <2>2. CASE WholeLine(c, o)
    <3>1. i \in {o + 1, (o + 1) + 1}
      BY <1>0, <2>2 DEF LineEnd
    <3>2. o + 1 \in 1..Len(c) /\ o + 1 < Len(c) /\ (o + 1) % 2 = 1
      BY <1>0, <2>2 DEF WholeLine
    <3>3. c[(o + 1) + 1] = c[o + 1]
      BY <3>2 DEF Paired
    <3>4. QED  BY <3>1, <3>3
  <2>3. QED  BY <2>1, <2>2
<1>3. TicksPast(c, o) \subseteq TicksPast(c, e) \cup {c[o + 1]}
  BY <1>2 DEF TicksPast
<1>4. QED  BY <1>1, <1>3 DEF Ahead

\* A set of numbers that is not empty has a least one.
LEMMA LeastListed ==
    ASSUME NEW F \in SUBSET Nat, F # {}
    PROVE  Min(F) \in F /\ \A g \in F : Min(F) <= g
<1>1. PICK x \in F : \A y \in F : x <= y
  BY LeastNumber
<1>2. QED  BY <1>1 DEF Min

-----------------------------------------------------------------------------
\* The inductive invariant.  Nothing counts ticks twice, so it knows neither
\* the batch size nor the quota.
Data ==
    /\ opened <= MaxSegments
    /\ content \in [Segment -> Seq(Tick)]
    /\ pending \in Seq(Tick)
    /\ nextTick \in Nat \ {0}

Places ==
    /\ pc \in Labels
    /\ reading \in 0..opened /\ offset \in Nat /\ target \in 0..opened
    /\ watermark \in [file : 0..opened, offset : Nat]
    /\ buffer \in Seq(Tick) /\ stored \in Seq(Tick)

Whole ==
    /\ \A f \in Segment : Paired(content[f])
    /\ current # NoFile => Continues(content[current], pending)
    /\ ~running => current = NoFile /\ pending = <<>>

\* A reader whose segment is gone finds only later ones.
Clear(f) == f \in files \/ \A g \in files : g > f

Order ==
    /\ Clear(watermark.file)
    /\ pc # "down" => watermark.file <= reading /\ Clear(reading)
    /\ pc \notin {"down", "purge"} => \A g \in files : g >= reading
    /\ pc \notin {"down", "scan"} => reading # NoFile
    /\ pc \in {"drain", "rotate"} =>
           Clear(target) /\ target > reading /\ \A g \in files : g <= reading \/ g >= target
    /\ pc = "purge" =>
           offset = 0 /\ (watermark.file < reading \/ watermark.offset = 0)

Offsets ==
    /\ reading # NoFile => offset <= Len(content[reading])
    /\ watermark.file # NoFile => watermark.offset <= Len(content[watermark.file])

Memory ==
    /\ exposed \subseteq ToSet(buffer)
    /\ pc \in {"rotate", "purge", "down"} => buffer = <<>>

Restartable ==
    Accepted \subseteq Ahead(files, content, watermark.file, watermark.offset)
                          \cup ToSet(pending) \cup InStore \cup exposed \cup lost
Kept ==
    pc # "down" =>
        Accepted \subseteq Ahead(files, content, reading, offset)
                              \cup ToSet(pending) \cup ToSet(buffer) \cup InStore \cup lost

WriterInv   == SegInv /\ Data /\ Whole
StreamerInv == Places /\ Order /\ Offsets /\ Memory /\ Restartable /\ Kept
Inv == WriterInv /\ StreamerInv

-----------------------------------------------------------------------------
\* What a step of the collector comes to: half lines s reach the open segment,
\* or they do and a new one begins with lead.
Fresh == Accepted' \ Accepted

Adds(s) ==
    /\ files' = files /\ opened' = opened
    /\ content' = Appended(current, s)
    /\ ToSet(pending) \cup Fresh \subseteq ToSet(s) \cup ToSet(pending') \cup lost'
    /\ Orphans(s) \subseteq lost'

Opens(s, lead) ==
    /\ opened < MaxSegments /\ files' = files \cup {opened + 1} /\ opened' = opened + 1
    /\ content' = [Appended(current, s) EXCEPT ![opened + 1] = lead]
    /\ ToSet(pending) \cup Fresh \subseteq ToSet(s) \cup ToSet(lead) \cup ToSet(pending') \cup lost'
    /\ Orphans(s) \subseteq lost'

Works ==
    /\ pending' \in Seq(Tick) /\ nextTick' \in Nat \ {0} /\ lost \subseteq lost'
    /\ \E s \in Seq(Tick) : Adds(s) \/ \E lead \in Seq(Tick) : Opens(s, lead)

LEMMA AppendNothing ==
    ASSUME Data PROVE Appended(current, <<>>) = content
<1>1. \A f \in Segment : content[f] \o <<>> = content[f]
  BY ConcatEmptySeq DEF Data
<1>2. QED  BY <1>1 DEF Appended, Data

LEMMA NothingIn == <<>> \in Seq(Tick) /\ ToSet(<<>>) = {} /\ Len(<<>>) = 0
  BY DEF ToSet

LEMMA LineIn ==
    ASSUME NEW t \in Tick
    PROVE  Line(t) \in Seq(Tick) /\ Len(Line(t)) = 2 /\ ToSet(Line(t)) = {t}
<1>1. Line(t) \in Seq(Tick) /\ Len(Line(t)) = 2 /\ DOMAIN Line(t) = 1..2
      /\ Line(t)[1] = t /\ Line(t)[2] = t
  BY DEF Line
<1>2. QED  BY <1>1 DEF ToSet

LEMMA TakenTick ==
    ASSUME Data, TakeTick
    PROVE  nextTick \in Tick /\ nextTick' \in Nat \ {0} /\ Fresh \subseteq {nextTick}
  BY BoundsAssumption DEF Data, TakeTick, Tick, Fresh, Accepted

\* A step that rotates: what the stream buffer held reaches the old segment,
\* and the new one has what spilled of the line.
LEMMA LineSpills ==
    ASSUME NEW t \in Tick, NEW n \in 0..2
    PROVE  LET a == SubSeq(Line(t), 1, n)
               b == SubSeq(Line(t), n + 1, 2)
           IN  /\ a \in Seq(Tick) /\ b \in Seq(Tick)
               /\ Paired(a) /\ Continues(a, b)
               /\ t \in ToSet(a) \cup ToSet(b)
<1> DEFINE line == Line(t)
           a == SubSeq(line, 1, n)
           b == SubSeq(line, n + 1, 2)
<1>1. line \in Seq(Tick) /\ Len(line) = 2 /\ line[1] = t /\ line[2] = t
      /\ ToSet(line) = {t}
  BY LineIn DEF Line
<1> HIDE DEF line
<1>2. n \in 0..Len(line) /\ b = SubSeq(line, n + 1, Len(line))
  BY <1>1
<1>3. /\ a \in Seq(Tick) /\ b \in Seq(Tick) /\ Len(a) = n /\ Len(b) = 2 - n
      /\ \A i \in 1..n : a[i] = line[i]
      /\ \A i \in 1..(2 - n) : b[i] = line[n + i]
      /\ {t} = ToSet(a) \cup ToSet(b)
  <2> DEFINE c == SubSeq(line, n + 1, Len(line))
  <2>1. /\ a \in Seq(Tick) /\ c \in Seq(Tick) /\ Len(a) = n /\ Len(c) = Len(line) - n
        /\ \A i \in 1..n : a[i] = line[i]
        /\ \A i \in 1..(Len(line) - n) : c[i] = line[n + i]
        /\ ToSet(line) = ToSet(a) \cup ToSet(c)
    BY <1>1, <1>2, CutSet
  <2>2. b = c
    BY <1>2
  <2> HIDE DEF a, b, c
  <2>3. QED  BY <1>1, <2>1, <2>2
<1>4. /\ \A i \in 1..n : a[i] = t
      /\ \A i \in 1..(2 - n) : b[i] = t
  <2>1. \A i \in 1..n : i \in {1, 2}
    OBVIOUS
  <2>2. \A i \in 1..(2 - n) : n + i \in {1, 2}
    OBVIOUS
  <2>3. QED  BY <1>1, <1>3, <2>1, <2>2
<1> HIDE DEF a, b
<1>5. Paired(a)
  BY <1>3, <1>4 DEF Paired
<1>6. Continues(a, b)
  <2>1. (n + (2 - n)) % 2 = 0
    OBVIOUS
  <2>2. n % 2 = 1 => 2 - n > 0 /\ n > 0
    OBVIOUS
  <2>3. QED  BY <1>3, <1>4, <2>1, <2>2 DEF Continues
<1>7. QED  BY <1>3, <1>5, <1>6 DEF a, b, line

\* Appending to the open segment, and beginning another, leave whole lines.
LEMMA AppendedWhole ==
    ASSUME Data, NEW f, NEW s \in Seq(Tick), f \in Segment => Paired(content[f] \o s),
           \A g \in Segment : Paired(content[g])
    PROVE  /\ Appended(f, s) \in [Segment -> Seq(Tick)]
           /\ \A g \in Segment : Paired(Appended(f, s)[g])
           /\ f \in Segment => Appended(f, s)[f] = content[f] \o s
<1>1. \A g \in Segment : content[g] \in Seq(Tick) /\ content[g] \o s \in Seq(Tick)
  BY ConcatSet DEF Data
<1>2. QED  BY <1>1 DEF Appended

\* The lines stay whole, and every tick a step takes is somewhere.
LEMMA WriterWorks ==
    ASSUME WriterInv, WriterStep \/ WriterFault
    PROVE  /\ Works /\ Data' /\ Whole'
           /\ UNCHANGED streamerVars
<1> USE DEF WriterInv, Works, Fresh
<1>0. /\ Appended(current, <<>>) = content /\ <<>> \in Seq(Tick) /\ ToSet(<<>>) = {}
      /\ UNCHANGED streamerVars
      /\ Orphans(<<>>) = {}
      /\ current \in Segment \cup {NoFile}
  <2>1. current \in Segment \cup {NoFile}
    BY BoundsAssumption DEF SegInv, Data, Segment
  <2>2. QED  BY <2>1, AppendNothing, NothingIn DEF WriterStep, WriterFault, Orphans
<1>a. ASSUME nextTick' = nextTick PROVE Accepted' \ Accepted = {}
  BY <1>a DEF Accepted
<1>1. CASE WriteHalted
  <2>1. /\ TakeTick /\ lost' = lost \cup {nextTick}
        /\ UNCHANGED <<running, current, pending, opened, files, content>>
    BY <1>1 DEF WriteHalted
  <2>2. Adds(<<>>)
    BY <1>0, <2>1, TakenTick DEF Adds
  <2>3. QED  BY <1>0, <2>1, <2>2, TakenTick DEF Data, Whole
<1>2. CASE WriteAppend
  <2>1. PICK n \in 0..(Len(pending) + 2) :
          /\ content' = Appended(current, SubSeq(pending \o Line(nextTick), 1, n))
          /\ pending' = SubSeq(pending \o Line(nextTick), n + 1, Len(pending \o Line(nextTick)))
          /\ lost' = lost \cup Orphans(SubSeq(pending \o Line(nextTick), 1, n))
    BY <1>2 DEF WriteAppend
  <2>2. /\ TakeTick /\ current # NoFile /\ UNCHANGED <<running, current, opened, files>>
    BY <1>2 DEF WriteAppend, ShouldRotate
  <2>3. /\ current \in Segment /\ content[current] \in Seq(Tick) /\ pending \in Seq(Tick)
        /\ nextTick \in Tick
        /\ Paired(content[current]) /\ Continues(content[current], pending)
    BY <1>0, <2>2, TakenTick DEF Data, Whole
  <2> DEFINE buf == pending \o Line(nextTick)
             a == SubSeq(buf, 1, n)
             b == SubSeq(buf, n + 1, Len(buf))
  <2>4. /\ buf \in Seq(Tick) /\ Len(buf) = Len(pending) + 2
        /\ Paired(content[current] \o a) /\ Continues(content[current] \o a, b)
        /\ ToSet(pending) \cup {nextTick} \subseteq ToSet(a) \cup ToSet(b)
    BY <2>3, SpillPaired
  <2>5. a \in Seq(Tick) /\ b \in Seq(Tick)
    BY <2>4, CutSet
  <2>6. content' = Appended(current, a) /\ pending' = b /\ lost' = lost \cup Orphans(a)
    BY <2>1
  <2> HIDE DEF a, b, buf
  <2>7. Adds(a)
    BY <2>2, <2>3, <2>4, <2>6, TakenTick DEF Adds, Data
  <2>8. Data'
    BY <2>2, <2>4, <2>5, <2>6, TakenTick, AppendedWhole DEF Data, Whole
  <2>9. Whole'
    BY <2>2, <2>3, <2>4, <2>5, <2>6, AppendedWhole DEF Whole
  <2>10. QED  BY <1>0, <2>2, <2>5, <2>6, <2>7, <2>8, <2>9, TakenTick DEF Data
<1>b. Paired(<<>>) /\ \A p \in Seq(Tick) : p = <<>> => Continues(<<>>, p)
  BY NothingIn DEF Paired, Continues
<1>c. current \in Segment => /\ Paired(content[current] \o pending)
  BY FlushPaired DEF Data, Whole, Segment
<1> DEFINE flushed == Appended(current, pending)
<1>d. /\ flushed \in [Segment -> Seq(Tick)] /\ \A g \in Segment : Paired(flushed[g])
  BY <1>c, AppendedWhole DEF Data, Whole
<1>e. ASSUME NEW lead \in Seq(Tick), OpenNext(lead), Paired(lead)
      PROVE  /\ opened < MaxSegments /\ opened + 1 \in Segment
             /\ current' = opened + 1 /\ opened' = opened + 1
             /\ content' = [flushed EXCEPT ![opened + 1] = lead]
             /\ content' \in [Segment -> Seq(Tick)]
             /\ \A g \in Segment : Paired(content'[g])
             /\ content'[opened + 1] = lead
             /\ opened' <= MaxSegments
  <2>1. /\ opened < MaxSegments /\ opened + 1 \in Segment
        /\ current' = opened + 1 /\ opened' = opened + 1
        /\ content' = [flushed EXCEPT ![opened + 1] = lead]
    BY <1>e, BoundsAssumption DEF OpenNext, SegInv, Segment
  <2> HIDE DEF flushed
  <2>2. /\ content' \in [Segment -> Seq(Tick)] /\ content'[opened + 1] = lead
        /\ \A g \in Segment : g # opened + 1 => content'[g] = flushed[g]
    BY <1>d, <2>1
  <2>3. opened' <= MaxSegments
    BY <2>1, BoundsAssumption DEF SegInv
  <2>4. QED  BY <1>d, <1>e, <2>1, <2>2, <2>3
<1>3. CASE WriteRotate
  <2>1. PICK n \in 0..2 : /\ OpenNext(SubSeq(Line(nextTick), 1, n))
                          /\ pending' = SubSeq(Line(nextTick), n + 1, 2)
    BY <1>3 DEF WriteRotate
  <2>2. /\ TakeTick /\ lost' = lost \cup Orphans(pending) /\ running /\ running' = running
    BY <1>3 DEF WriteRotate, TakeTick
  <2> DEFINE a == SubSeq(Line(nextTick), 1, n)
             b == SubSeq(Line(nextTick), n + 1, 2)
  <2>3. /\ a \in Seq(Tick) /\ b \in Seq(Tick) /\ Paired(a) /\ Continues(a, b)
        /\ nextTick \in ToSet(a) \cup ToSet(b)
    BY <2>2, LineSpills, TakenTick
  <2>4. OpenNext(a) /\ pending' = b
    BY <2>1
  <2> HIDE DEF a, b
  <2>5. Opens(pending, a)
    BY <1>e, <2>2, <2>3, <2>4, TakenTick DEF Opens, OpenNext
  <2>6. Data'
    BY <1>e, <2>2, <2>3, <2>4, TakenTick DEF Data
  <2>7. Whole'
    BY <1>e, <2>2, <2>3, <2>4 DEF Whole
  <2>8. QED  BY <1>0, <2>2, <2>3, <2>4, <2>5, <2>6, <2>7, TakenTick DEF Data
<1>4. CASE WriteRotateFails
  <2>1. /\ TakeTick /\ running /\ content' = flushed
        /\ lost' = lost \cup Orphans(pending) \cup {nextTick}
        /\ current' = NoFile /\ pending' = <<>>
        /\ UNCHANGED <<running, opened, files>>
    BY <1>4 DEF WriteRotateFails, TakeTick
  <2>2. Adds(pending)
    BY <2>1, TakenTick DEF Adds
  <2>3. Data' /\ Whole'
    BY <1>0, <1>d, <2>1, TakenTick DEF Data, Whole
  <2>4. QED  BY <1>0, <2>1, <2>2, <2>3 DEF Data
<1>5. CASE SegmentAges
  <2>1. UNCHANGED <<running, current, pending, opened, nextTick, lost, files, content>>
    BY <1>5 DEF SegmentAges
  <2>2. Adds(<<>>)
    BY <1>0, <1>a, <2>1 DEF Adds
  <2>3. QED  BY <1>0, <2>1, <2>2 DEF Data, Whole
<1>6. CASE WriterStart
  <2>1. /\ ~running /\ running' = TRUE /\ pending = <<>> /\ current = NoFile
        /\ UNCHANGED <<pending, nextTick, lost>>
    BY <1>6 DEF WriterStart, Whole
  <2>2. CASE OpenNext(<<>>)
    <3>1. Opens(pending, <<>>)
      BY <1>0, <1>a, <1>b, <1>e, <2>1, <2>2 DEF Opens, OpenNext
    <3>2. /\ content' \in [Segment -> Seq(Tick)] /\ \A g \in Segment : Paired(content'[g])
          /\ content'[opened + 1] = <<>> /\ current' = opened + 1 /\ opened' <= MaxSegments
      BY <1>0, <1>b, <1>e, <2>2
    <3>3. Continues(<<>>, pending')
      BY <1>b, <2>1 DEF Data
    <3>4. Data'
      BY <2>1, <3>2 DEF Data
    <3>5. Whole'
      BY <2>1, <3>2, <3>3 DEF Whole
    <3>6. QED  BY <1>0, <2>1, <3>1, <3>4, <3>5 DEF Data
  <2>3. CASE UNCHANGED <<current, opened, aged, files, content>>
    <3>1. Adds(<<>>)
      BY <1>0, <1>a, <2>1, <2>3 DEF Adds
    <3>2. QED  BY <1>0, <2>1, <2>3, <3>1 DEF Data, Whole
  <2>4. QED  BY <1>6, <2>2, <2>3 DEF WriterStart
<1>7. CASE WriterKilled
  <2>1. /\ running' = FALSE /\ current' = NoFile /\ pending' = <<>>
        /\ lost' = lost \cup ToSet(pending)
        /\ UNCHANGED <<opened, nextTick, files, content>>
    BY <1>7 DEF WriterKilled
  <2>2. Adds(<<>>)
    BY <1>0, <1>a, <2>1 DEF Adds
  <2>3. QED  BY <1>0, <2>1, <2>2 DEF Data, Whole
<1>8. CASE WriterStops
  <2>1. /\ running' = FALSE /\ current' = NoFile /\ pending' = <<>>
        /\ content' = flushed /\ lost' = lost \cup Orphans(pending)
        /\ UNCHANGED <<opened, nextTick, files>>
    BY <1>8 DEF WriterStops
  <2>2. Adds(pending)
    BY <1>a, <2>1 DEF Adds
  <2>3. Data' /\ Whole'
    BY <1>0, <1>d, <2>1 DEF Data, Whole
  <2>4. QED  BY <1>0, <2>1, <2>2, <2>3 DEF Data
<1>9. QED
  BY <1>1, <1>2, <1>3, <1>4, <1>5, <1>6, <1>7, <1>8 DEF WriterStep, WriterFault, WriteTick

\* What the collector does leaves everything in front of a reader where it is,
\* and puts what is new there, in its stream buffer, or in the ledger.
LEMMA WriterKeepsAhead ==
    ASSUME SegInv, Data, Data', Works, NEW f \in 0..opened, NEW o \in Nat,
           f # NoFile => o <= Len(content[f])
    PROVE  /\ Ahead(files, content, f, o) \cup ToSet(pending) \cup Fresh \subseteq
                  Ahead(files', content', f, o) \cup ToSet(pending') \cup lost'
           /\ f # NoFile => o <= Len(content'[f])
<1> PICK s \in Seq(Tick) : Adds(s) \/ \E lead \in Seq(Tick) : Opens(s, lead)
  BY DEF Works
<1> DEFINE e == IF current \in files THEN current ELSE opened + 1
<1>0. /\ files \in SUBSET Segment /\ f \in Nat /\ opened \in Nat /\ (f # NoFile => f \in Segment)
      /\ \A g \in files : g <= e /\ g <= opened
      /\ e \in files <=> current \in files
      /\ e \in files => e = current
  <2>1. files \in SUBSET Segment /\ f \in Nat /\ opened \in Nat /\ (f # NoFile => f \in Segment)
    BY BoundsAssumption DEF SegInv, Data, Segment
  <2>2. \A g \in files : g \in Nat /\ g <= opened
    BY DEF SegInv
  <2>3. CASE current \in files
    BY <2>1, <2>2, <2>3 DEF SegInv
  <2>4. CASE current \notin files
    BY <2>1, <2>2, <2>4
  <2>5. QED  BY <2>1, <2>2, <2>3, <2>4
<1>1. ASSUME NEW g \in Segment
      PROVE  /\ content[g] \in Seq(Tick) /\ content[g] \o s \in Seq(Tick)
             /\ Len(content[g]) \in Nat /\ Len(s) \in Nat
             /\ Len(content[g] \o s) = Len(content[g]) + Len(s)
  BY <1>1, ConcatSet DEF Data
<1>2. \A g \in Segment : g # opened + 1 =>
          content'[g] = IF g = current THEN content[g] \o s ELSE content[g]
  BY DEF Adds, Opens, Appended
<1>3. \A g \in files : content'[g] = IF g = e THEN content[g] \o s ELSE content[g]
  BY <1>0, <1>2
<1>4. f # NoFile => o <= Len(content'[f])
  <2>1. ASSUME f # NoFile PROVE o <= Len(content'[f])
    <3>1. f \in Segment /\ f # opened + 1
      BY <1>0, <2>1
    <3>2. Len(content'[f]) \in {Len(content[f]), Len(content[f]) + Len(s)}
      BY <1>1, <1>2, <3>1
    <3>3. QED  BY <1>1, <2>1, <3>1, <3>2
  <2>2. QED  BY <2>1
<1> HIDE DEF e
<1>5. f \in files => o <= Len(content[f])
  BY DEF SegInv
<1>6. /\ Ahead(files, content, f, o) \subseteq Ahead(files, content', f, o)
      /\ e \in files => ToSet(s) \subseteq Ahead(files, content', f, o)
  BY <1>0, <1>3, <1>5, AheadGrows DEF Data
<1>7. ToSet(s) \subseteq Ahead(files, content', f, o) \cup lost'
  BY <1>0, <1>6 DEF Adds, Opens, Orphans
<1>8. CASE Adds(s)
  BY <1>4, <1>6, <1>7, <1>8 DEF Adds
<1>9. CASE \E lead \in Seq(Tick) : Opens(s, lead)
  <2>1. PICK lead \in Seq(Tick) : Opens(s, lead)
    BY <1>9
  <2>2. /\ opened + 1 \in Segment /\ f < opened + 1 /\ files' = files \cup {opened + 1}
        /\ content'[opened + 1] = lead
    BY <1>0, <2>1, BoundsAssumption DEF Opens, Segment, Appended
  <2>3. Ahead(files, content', f, o) \cup ToSet(lead) \subseteq Ahead(files', content', f, o)
    BY <1>0, <2>2, AheadNew DEF Data
  <2>4. QED  BY <1>4, <1>6, <1>7, <2>1, <2>3 DEF Opens
<1>10. QED  BY <1>8, <1>9

\* The streamer's part of the invariant survives what the collector does.
LEMMA WriterKeepsInv ==
    ASSUME Inv, WriterStep \/ WriterFault PROVE Inv'
<1> USE DEF Inv, WriterInv, StreamerInv
<1>1. Works /\ Data' /\ Whole' /\ UNCHANGED streamerVars
  BY WriterWorks
<1>2. /\ SegInv' /\ opened' \in Nat /\ opened <= opened' /\ opened \in Nat
      /\ files \subseteq files' /\ \A g \in files' \ files : g = opened + 1
      /\ \A g \in files : g \in Nat /\ g <= opened
  <2>1. \/ files' = files /\ opened' = opened /\ current' \in {NoFile, current}
        \/ files' = files \cup {opened + 1} /\ opened' = opened + 1 /\ current' = opened + 1
    BY WriterOpensNewest
  <2>2. SegInv'
    BY WriterOrders
  <2>3. QED  BY <2>1, <2>2 DEF SegInv
<1> USE DEF streamerVars
<1>3. Places'
  BY <1>1, <1>2 DEF Places
<1>4. ASSUME NEW f \in 0..opened PROVE Clear(f) => Clear(f)'
  BY <1>2 DEF Clear
<1>5. /\ Clear(watermark.file)'
      /\ Clear(reading) => Clear(reading)'
      /\ Clear(target) => Clear(target)'
  BY <1>1, <1>2, <1>4 DEF Places, Order, Clear
<1>6. Order'
  <2>1. pc' \notin {"down", "purge"} => \A g \in files' : g >= reading'
    BY <1>1, <1>2 DEF Order, Places
  <2>2. pc' \in {"drain", "rotate"} => \A g \in files' : g <= reading' \/ g >= target'
    BY <1>1, <1>2 DEF Order, Places
  <2>3. QED  BY <1>1, <1>5, <2>1, <2>2 DEF Order
<1>7. /\ watermark.file \in 0..opened /\ watermark.offset \in Nat
      /\ reading \in 0..opened /\ offset \in Nat
  BY DEF Places
<1>8. /\ Ahead(files, content, watermark.file, watermark.offset) \cup ToSet(pending) \cup Fresh
            \subseteq Ahead(files', content', watermark.file, watermark.offset)
                          \cup ToSet(pending') \cup lost'
      /\ watermark.file # NoFile => watermark.offset <= Len(content'[watermark.file])
  BY <1>1, <1>7, WriterKeepsAhead DEF Offsets
<1>9. /\ Ahead(files, content, reading, offset) \cup ToSet(pending) \cup Fresh
            \subseteq Ahead(files', content', reading, offset) \cup ToSet(pending') \cup lost'
      /\ reading # NoFile => offset <= Len(content'[reading])
  BY <1>1, <1>7, WriterKeepsAhead DEF Offsets
<1>10. Offsets' /\ Memory'
  BY <1>1, <1>8, <1>9 DEF Offsets, Memory
<1>11. Restartable'
  BY <1>1, <1>8 DEF Restartable, Fresh, Works, InStore
<1>12. Kept'
  BY <1>1, <1>9 DEF Kept, Fresh, Works, InStore
<1>13. QED  BY <1>1, <1>2, <1>3, <1>6, <1>10, <1>11, <1>12

-----------------------------------------------------------------------------
\* The writer's part of the invariant survives whatever else happens.
LEMMA StreamerKeepsWriter ==
    ASSUME WriterInv, StreamerLoop \/ TimerStep \/ StreamerFault \/ MachineFault
    PROVE  /\ WriterInv' /\ files' \subseteq files
           /\ UNCHANGED <<content, opened, pending, Accepted>>
<1>1. files' \subseteq files /\ UNCHANGED <<content, writerVars>>
  BY StreamerOnlyDeletes
<1>2. QED
  BY <1>1 DEF WriterInv, SegInv, Data, Whole, writerVars, Accepted

\* The purge and the quota take what is behind the streamer, and note what
\* they take in front of it; the segment it reads stays.
LEMMA Purging ==
    ASSUME files \in SUBSET Nat, NEW f \in Nat, NEW P \in SUBSET files, PurgeThenQuota(P, f),
           \A g \in P : g < f, \A g \in files \ P : g >= f,
           \A g \in files : g > NoFile
    PROVE  /\ files' \subseteq files /\ content' = content /\ lost \subseteq lost'
           /\ \A g \in files' : g >= f
           /\ f \in files => f \in files'
           /\ \A g \in files \ files' : g < f \/ ToSet(content[g]) \subseteq lost'
<1> DEFINE F == files \ P
           E == Evicted(F, f)
<1>1. /\ files' = F \ E /\ lost' = lost \cup EvictedTicks(E, f) /\ content' = content
  BY DEF PurgeThenQuota
<1>2. E \subseteq F /\ (f # NoFile => f \notin E)
  BY DEF Evicted, Spared
<1> HIDE DEF E
<1>3. \A g \in E : g > f => ToSet(content[g]) \subseteq lost'
  BY <1>1 DEF EvictedTicks
<1>4. \A g \in E : g > f
  <2>1. ASSUME NEW g \in E PROVE g \in Nat /\ g # f /\ g >= f
    BY <1>2, <2>1
  <2>2. QED  BY <2>1
<1>5. f \in files => f \notin P /\ f \notin E
  BY <1>2
<1>6. QED  BY <1>1, <1>2, <1>3, <1>4, <1>5

\* What is in front of a reader at h, at or before f, is still there, or noted.
LEMMA PurgingKeeps ==
    ASSUME WriterInv, NEW f \in 0..opened, NEW P \in SUBSET files, PurgeThenQuota(P, f),
           \A g \in P : g < f, \A g \in files \ P : g >= f,
           NEW h \in 0..opened, NEW o \in Nat, h = f \/ P = {}, h <= f, Clear(h)
    PROVE  /\ Ahead(files, content, h, o) \subseteq Ahead(files', content', h, o) \cup lost'
           /\ Clear(h)'
           /\ \A g \in files' : g >= f
           /\ files' \subseteq files /\ lost \subseteq lost'
<1>0. /\ files \in SUBSET Segment /\ files \in SUBSET Nat /\ content \in [Segment -> Seq(Tick)]
      /\ \A g \in files : g \in Nat /\ g > NoFile
      /\ f \in Nat /\ h \in Nat
  BY BoundsAssumption DEF WriterInv, SegInv, Data, Segment
<1>1. /\ files' \subseteq files /\ content' = content /\ lost \subseteq lost'
      /\ \A g \in files' : g >= f
      /\ f \in files => f \in files'
      /\ \A g \in files \ files' : g < f \/ ToSet(content[g]) \subseteq lost'
  BY <1>0, Purging
<1>2. \A g \in files \ files' : ToSet(content[g]) \subseteq lost' \/ (h \in files /\ g < h)
  <2>1. CASE P = {}
    BY <1>0, <1>1, <2>1
  <2>2. CASE h = f
    BY <1>0, <1>1, <2>2 DEF Clear
  <2>3. QED  BY <2>1, <2>2
<1>3. Ahead(files, content, h, o) \subseteq Ahead(files', content, h, o) \cup lost'
  BY <1>0, <1>1, <1>2, AheadDelete
<1>4. Clear(h)'
  BY <1>0, <1>1 DEF Clear
<1>5. QED  BY <1>1, <1>3, <1>4

\* Facts every step starts from.
LEMMA Standing ==
    ASSUME Inv
    PROVE  /\ files \in SUBSET Segment /\ files \in SUBSET Nat
           /\ \A g \in files : g \in Nat /\ g > NoFile
           /\ content \in [Segment -> Seq(Tick)]
           /\ opened \in Nat
           /\ watermark.file \in 0..opened /\ watermark.offset \in Nat
           /\ reading \in 0..opened /\ (reading # NoFile => reading \in Segment)
           /\ target \in 0..opened
           /\ offset \in Nat
  BY BoundsAssumption DEF Inv, WriterInv, StreamerInv, SegInv, Data, Places, Segment

\* Steps that move nothing.
LEMMA QuietSteps ==
    ASSUME Inv, StreamerLoop \/ TimerStep \/ StreamerFault \/ MachineFault,
           ReadNothing \/ ListNone \/ FlushFallsDue \/ (SpaceChanges /\ UNCHANGED streamerVars)
    PROVE  StreamerInv'
<1> USE DEF Inv, StreamerInv
<1>1. UNCHANGED <<content, opened, pending, Accepted>>
  BY StreamerKeepsWriter
<1>2. UNCHANGED <<files, reading, offset, target, buffer, watermark, stored, exposed, lost>>
  BY DEF ReadNothing, ListNone, FlushFallsDue, SpaceChanges, NoDirChange, streamerVars
<1>3. /\ pc' \in Labels /\ (pc' = "down" <=> pc = "down") /\ (pc' = "scan" => pc = "scan")
      /\ (pc' = "purge" <=> pc = "purge")
      /\ pc' \in {"drain", "rotate"} => pc' = pc
      /\ pc = "scan" => pc' = "scan"
  BY DEF ReadNothing, ListNone, FlushFallsDue, SpaceChanges, streamerVars, Places, Labels
<1>4. Places' /\ Offsets' /\ Memory'
  BY <1>1, <1>2, <1>3 DEF Places, Offsets, Memory
<1>5. Order'
  BY <1>2, <1>3 DEF Order, Clear
<1>6. Restartable' /\ Kept'
  BY <1>1, <1>2, <1>3 DEF Restartable, Kept, InStore
<1>7. QED  BY <1>4, <1>5, <1>6

\* A restart takes up what the watermark left.
LEMMA StartSteps ==
    ASSUME Inv, UNCHANGED <<content, opened, pending, Accepted>>, StreamerStart
    PROVE  StreamerInv'
<1> USE DEF Inv, StreamerInv
<1> DEFINE P == {f \in files : f < watermark.file}
<1>1. /\ pc = "down" /\ pc' = "scan"
      /\ reading' = watermark.file /\ offset' = watermark.offset
      /\ PurgeThenQuota(P, watermark.file)
      /\ UNCHANGED <<target, buffer, watermark, stored, exposed>>
  BY DEF StreamerStart
<1>2. /\ Ahead(files, content, watermark.file, watermark.offset) \subseteq
             Ahead(files', content', watermark.file, watermark.offset) \cup lost'
      /\ Clear(watermark.file)'
      /\ \A g \in files' : g >= watermark.file
      /\ lost \subseteq lost'
  <2>1. \A g \in files \ P : g >= watermark.file
    BY Standing
  <2>2. Clear(watermark.file) /\ watermark.file <= watermark.file
    BY Standing DEF Order
  <2>3. /\ Ahead(files, content, watermark.file, watermark.offset) \subseteq
             Ahead(files', content', watermark.file, watermark.offset) \cup lost'
        /\ Clear(watermark.file)' /\ \A g \in files' : g >= watermark.file
        /\ files' \subseteq files /\ lost \subseteq lost'
    <3>1. PICK f \in 0..opened : f = watermark.file
      BY Standing
    <3>2. /\ PurgeThenQuota(P, f)
          /\ \A g \in P : g < f
          /\ \A g \in files \ P : g >= f
          /\ Clear(f) /\ f <= f /\ P \in SUBSET files
      BY <1>1, <2>1, <2>2, <3>1
    <3> HIDE DEF P
    <3>3. /\ Ahead(files, content, f, watermark.offset) \subseteq
                 Ahead(files', content', f, watermark.offset) \cup lost'
          /\ Clear(f)' /\ \A g \in files' : g >= f
          /\ files' \subseteq files /\ lost \subseteq lost'
      BY <1>1, <2>1, <3>1, <3>2, Standing, PurgingKeeps
    <3>4. QED  BY <1>1, <3>1, <3>3 DEF Clear
  <2>4. QED  BY <2>3
<1>3. Places' /\ Memory'
  BY <1>1, Standing DEF Places, Labels, Memory
<1>4. Order' /\ Offsets'
  BY <1>1, <1>2, Standing DEF Order, Offsets, Clear
<1>5. exposed = {}
  BY <1>1 DEF Memory, ToSet
<1>6. Restartable' /\ Kept'
  BY <1>1, <1>2, <1>5 DEF Restartable, Kept, InStore
<1>7. QED  BY <1>3, <1>4, <1>6

\* The streamer opens the segment it was at, or the oldest.
LEMMA ScanSteps ==
    ASSUME Inv, UNCHANGED <<content, opened, pending, Accepted>>, Scan
    PROVE  StreamerInv'
<1> USE DEF Inv, StreamerInv
<1>1. /\ pc = "scan" /\ files # {} /\ pc' = "read"
      /\ UNCHANGED <<target, buffer, due, watermark, stored, exposed, files, lost>>
  BY DEF Scan, NoDirChange
<1>2. Memory' /\ Restartable'
  BY <1>1 DEF Memory, Restartable, InStore
<1>3. CASE reading \in files
  <2>1. UNCHANGED <<reading, offset>>
    BY <1>3 DEF Scan
  <2>2. Places' /\ Offsets' /\ Order'
    BY <1>1, <1>3, <2>1, Standing DEF Places, Labels, Offsets, Order, Clear
  <2>3. Kept'
    BY <1>1, <2>1 DEF Kept, InStore
  <2>4. QED  BY <1>2, <2>2, <2>3
<1>4. CASE reading \notin files
  <2>1. reading' = Min(files) /\ offset' = 0
    BY <1>4 DEF Scan
  <2>2. /\ reading' \in files /\ \A g \in files : reading' <= g
        /\ reading' \in Segment /\ reading' \in Nat
    BY <1>1, <2>1, Standing, LeastListed
  <2>3. reading < reading' /\ reading' \in 0..opened
    BY <1>1, <1>4, <2>2 DEF Order, Clear, WriterInv, SegInv
  <2>4. Places' /\ Offsets'
    BY <1>1, <2>1, <2>2, <2>3, Standing DEF Places, Labels, Offsets, Data, WriterInv
  <2>5. Order'
    <3>0. watermark.file <= reading /\ watermark.file \in Nat /\ reading \in Nat
      BY <1>1, Standing DEF Order
    <3>1. watermark.file <= reading /\ watermark.file <= reading' /\ reading' # NoFile
      <4>1. watermark.file <= reading'
        BY <2>2, <2>3, <3>0
      <4>2. reading' # NoFile
        BY <2>2, Standing
      <4>3. QED  BY <3>0, <4>1, <4>2
    <3>2. Clear(watermark.file)' /\ Clear(reading)' /\ \A g \in files' : g >= reading'
      BY <1>1, <2>2, Standing DEF Order, Clear
    <3>3. QED  BY <1>1, <3>1, <3>2 DEF Order
  <2>6. Ahead(files, content, reading, offset) \subseteq Ahead(files, content, reading', 0)
    <3>1. ASSUME NEW t \in Tick, NEW g \in files, t \in ToSet(content[g])
          PROVE  t \in Ahead(files, content, reading', 0)
      <4>1. g = reading' \/ g > reading'
        BY <2>2, Standing
      <4>2. TicksPast(content[reading'], 0) = ToSet(content[reading'])
        BY <2>2, Standing, AllPastZero
      <4>3. QED  BY <2>2, <3>1, <4>1, <4>2 DEF Ahead
    <3>2. QED  BY <1>4, <3>1 DEF Ahead
  <2>7. Kept'
    BY <1>1, <2>1, <2>6 DEF Kept, InStore
  <2>8. QED  BY <1>2, <2>4, <2>5, <2>7
<1>5. QED  BY <1>3, <1>4

\* A quota enforced between two lines costs what it notes, no more.
LEMMA QuotaKeeps ==
    ASSUME Inv, UNCHANGED content, MaybeQuota, pc \notin {"down", "purge"}
    PROVE  /\ \A h \in {watermark.file, reading} :
                 /\ h \in files' \/ \A g \in files' : g > h
                 /\ \A o \in Nat : Ahead(files, content, h, o) \subseteq
                                       Ahead(files', content', h, o) \cup lost'
           /\ \A g \in files' : g >= reading
           /\ lost \subseteq lost'
<1> USE DEF Inv, StreamerInv
<1>1. PICK f \in 0..opened : f = reading
  BY Standing
<1>2. /\ \A g \in files : g >= f
      /\ \A h \in {watermark.file, reading} : h \in 0..opened /\ h <= f /\ Clear(h)
  BY <1>1, Standing DEF Order
<1>3. CASE NoDirChange
  BY <1>1, <1>2, <1>3 DEF NoDirChange, Clear
<1>4. CASE PurgeThenQuota({}, reading)
  <2>1. PurgeThenQuota({}, f)
    BY <1>1, <1>4
  <2>2. ASSUME NEW h \in {watermark.file, reading}, NEW o \in Nat
        PROVE  /\ Ahead(files, content, h, o) \subseteq Ahead(files', content', h, o) \cup lost'
               /\ h \in files' \/ \A g \in files' : g > h
               /\ \A g \in files' : g >= f
               /\ lost \subseteq lost'
    <3>1. PICK k \in 0..opened : k = h
      BY <1>2
    <3>2. k <= f /\ Clear(k)
      BY <1>2, <3>1
    <3>3. /\ Ahead(files, content, k, o) \subseteq Ahead(files', content', k, o) \cup lost'
          /\ Clear(k)' /\ \A g \in files' : g >= f
          /\ files' \subseteq files /\ lost \subseteq lost'
      BY <1>2, <2>1, <3>2, PurgingKeeps
    <3>4. QED  BY <3>1, <3>3 DEF Clear
  <2>3. 0 \in Nat
    OBVIOUS
  <2>4. QED  BY <1>1, <2>2, <2>3
<1>5. QED  BY <1>3, <1>4 DEF MaybeQuota

\* A line goes from in front of the streamer into its buffer.
LEMMA ReadLineSteps ==
    ASSUME Inv, UNCHANGED <<content, opened, pending, Accepted>>, ReadLine
    PROVE  StreamerInv'
<1> USE DEF Inv, StreamerInv
<1> DEFINE x == content[reading][offset + 1]
<1>1. /\ pc = "read" /\ pc' \in {"read", "flush"}
      /\ offset' = LineEnd(content[reading], offset) /\ buffer' = Append(buffer, x)
      /\ MaybeQuota
      /\ UNCHANGED <<reading, target, watermark, stored, exposed>>
  BY DEF ReadLine, MaybeQuota
<1>2. /\ reading \in Segment /\ offset < Len(content[reading])
      /\ Len(content[reading]) \in Nat /\ content[reading] \in Seq(Tick)
      /\ x \in Tick
  <2>1. reading \in Segment
    BY <1>1, Standing DEF Order
  <2>2. content[reading] \in Seq(Tick) /\ offset + 2 <= Len(content[reading])
    BY <2>1, Standing DEF ReadLine, WholeLine
  <2>3. QED  BY <2>1, <2>2, Standing
<1>3. /\ offset' \in Nat /\ offset' <= Len(content[reading])
      /\ Ahead(files, content, reading, offset) \subseteq
             Ahead(files, content, reading, offset') \cup {x}
  BY <1>1, <1>2, Standing, AheadRead DEF WriterInv, Whole
<1>4. buffer' \in Seq(Tick) /\ ToSet(buffer') = ToSet(buffer) \cup {x}
  <2>1. buffer \in Seq(Tick)
    BY DEF Places
  <2>2. /\ buffer' \in Seq(Tick) /\ Len(buffer') = Len(buffer) + 1
        /\ \A i \in 1..Len(buffer) : buffer'[i] = buffer[i]
        /\ buffer'[Len(buffer) + 1] = x
    BY <1>1, <1>2, <2>1, AppendProperties
  <2>3. QED  BY <2>1, <2>2 DEF ToSet
<1> HIDE DEF x
<1>5. /\ \A h \in {watermark.file, reading} :
            /\ h \in files' \/ \A g \in files' : g > h
            /\ \A o \in Nat : Ahead(files, content, h, o) \subseteq
                                  Ahead(files', content', h, o) \cup lost'
      /\ \A g \in files' : g >= reading
      /\ lost \subseteq lost'
  BY <1>1, QuotaKeeps
<1>6. Places' /\ Offsets' /\ Memory'
  BY <1>1, <1>2, <1>3, <1>4, Standing DEF Places, Labels, Offsets, Memory
<1>7. Order'
  BY <1>1, <1>5 DEF Order, Clear
<1>8. Restartable'
  BY <1>1, <1>5, Standing DEF Restartable, InStore
<1>9. Kept'
  <2>1. Ahead(files, content, reading, offset') \subseteq
            Ahead(files', content', reading, offset') \cup lost'
    BY <1>3, <1>5
  <2>2. Accepted \subseteq Ahead(files, content, reading, offset)
                              \cup ToSet(pending) \cup ToSet(buffer) \cup InStore \cup lost
    BY <1>1 DEF Kept
  <2>3. QED  BY <1>1, <1>3, <1>4, <1>5, <2>1, <2>2 DEF Kept, InStore
<1>10. QED  BY <1>6, <1>7, <1>8, <1>9

\* Half a line is noted as lost.
LEMMA ReadFragmentSteps ==
    ASSUME Inv, UNCHANGED <<content, opened, pending, Accepted>>, ReadFragment
    PROVE  StreamerInv'
<1> USE DEF Inv, StreamerInv
<1>1. /\ pc = "read" /\ offset < Len(content[reading])
      /\ offset' = LineEnd(content[reading], offset)
      /\ lost' = lost \cup {content[reading][offset + 1]}
      /\ UNCHANGED <<pc, reading, target, buffer, watermark, stored, exposed, files>>
  BY DEF ReadFragment
<1>2. reading \in Segment
  BY <1>1, Standing DEF Order
<1>3. /\ offset' \in Nat /\ offset' <= Len(content[reading])
      /\ Ahead(files, content, reading, offset) \subseteq
             Ahead(files, content, reading, offset') \cup {content[reading][offset + 1]}
  BY <1>1, <1>2, Standing, AheadRead DEF WriterInv, Whole
<1>4. Places' /\ Offsets' /\ Memory' /\ Order'
  BY <1>1, <1>3 DEF Places, Offsets, Memory, Order, Clear
<1>5. Restartable' /\ Kept'
  BY <1>1, <1>3 DEF Restartable, Kept, InStore
<1>6. QED  BY <1>4, <1>5

\* The segment to move to is the next one listed.
LEMMA ListNewerSteps ==
    ASSUME Inv, UNCHANGED <<content, opened, pending, Accepted>>, ListNewer
    PROVE  StreamerInv'
<1> USE DEF Inv, StreamerInv
<1> DEFINE G == {g \in files : reading \in files => g > reading}
<1>1. /\ pc = "list" /\ HasNewer(reading) /\ target' = Min(G)
      /\ pc' \in {"rotate", "drain"} /\ (pc' = "rotate" => buffer = <<>>)
      /\ UNCHANGED <<reading, offset, buffer, watermark, stored, exposed, files, lost>>
  BY DEF ListNewer, NextAfter, NoDirChange
<1>2. G # {} /\ G \in SUBSET Nat /\ \A g \in G : g \in files /\ g > reading
  BY <1>1, Standing DEF HasNewer, Order, Clear
<1>3. target' \in G /\ \A g \in G : target' <= g
  BY <1>1, <1>2, LeastListed
<1>4. \A g \in files : g <= reading \/ g >= target'
  BY <1>2, <1>3, Standing
<1>5. target' \in files /\ target' > reading /\ target' \in 0..opened
  BY <1>2, <1>3 DEF WriterInv, SegInv
<1>6. Places' /\ Offsets' /\ Memory'
  BY <1>1, <1>5 DEF Places, Labels, Offsets, Memory
<1>7. Order'
  BY <1>1, <1>4, <1>5 DEF Order, Clear
<1>8. Restartable' /\ Kept'
  BY <1>1 DEF Restartable, Kept, InStore
<1>9. QED  BY <1>6, <1>7, <1>8

\* An insert moves the buffer into the table; one that raises at least keeps it.
LEMMA FlushSteps ==
    ASSUME Inv, UNCHANGED <<content, opened, pending, Accepted>>,
           FlushOk \/ \E applied \in BOOLEAN : FlushFails(applied)
    PROVE  StreamerInv'
<1> USE DEF Inv, StreamerInv
<1>1. /\ pc \in Flushing
      /\ UNCHANGED <<reading, offset, target, watermark, files, lost>>
  BY DEF FlushOk, FlushFails, NoDirChange
<1>2. stored \o buffer \in Seq(Tick) /\ ToSet(stored \o buffer) = InStore \cup ToSet(buffer)
  BY ConcatSet DEF Places, InStore
<1>3. /\ pc' \in {"mark", "idlemark", "rotate", "read"}
      /\ pc' = "rotate" => pc = "drain" /\ FlushOk
  <2>1. CASE FlushOk
    <3>1. pc' = AfterFlush(pc, TRUE)
      BY <2>1 DEF FlushOk
    <3>2. CASE pc = "flush"
      BY <3>1, <3>2 DEF AfterFlush
    <3>3. CASE pc = "idleflush"
      BY <3>1, <3>3 DEF AfterFlush
    <3>4. CASE pc = "drain"
      BY <2>1, <3>1, <3>4 DEF AfterFlush
    <3>5. QED  BY <1>1, <3>2, <3>3, <3>4 DEF Flushing
  <2>2. CASE \E applied \in BOOLEAN : FlushFails(applied)
    <3>1. pc' = AfterFlush(pc, FALSE)
      BY <2>2 DEF FlushFails
    <3>2. CASE pc = "flush"
      BY <3>1, <3>2 DEF AfterFlush
    <3>3. CASE pc = "idleflush"
      BY <3>1, <3>3 DEF AfterFlush
    <3>4. CASE pc = "drain"
      BY <3>1, <3>4 DEF AfterFlush
    <3>5. QED  BY <1>1, <3>2, <3>3, <3>4 DEF Flushing
  <2>3. QED  BY <2>1, <2>2
<1>4. /\ buffer' \in Seq(Tick) /\ stored' \in Seq(Tick)
      /\ exposed' \subseteq ToSet(buffer') /\ exposed' \subseteq exposed
      /\ InStore \subseteq InStore'
      /\ ToSet(buffer) \subseteq ToSet(buffer') \cup InStore'
      /\ exposed \subseteq exposed' \cup InStore'
      /\ FlushOk => buffer' = <<>>
  <2>1. CASE FlushOk
    <3>1. buffer' = <<>> /\ stored' = stored \o buffer /\ exposed' = {}
      BY <2>1 DEF FlushOk
    <3>2. QED  BY <1>2, <3>1, NothingIn DEF Memory, InStore
  <2>2. CASE (\E applied \in BOOLEAN : FlushFails(applied)) /\ ~FlushOk
    <3>1. stored' \in {stored, stored \o buffer} /\ UNCHANGED <<buffer, exposed>>
      BY <2>2 DEF FlushFails
    <3>2. QED  BY <1>2, <2>2, <3>1 DEF Memory, InStore, Places
  <2>3. QED  BY <2>1, <2>2
<1>5. pc # "down" /\ pc \notin {"purge", "scan"}
  BY <1>1 DEF Flushing
<1>6. Places' /\ Offsets' /\ Memory'
  BY <1>1, <1>3, <1>4 DEF Places, Labels, Offsets, Memory
<1>7. Order'
  BY <1>1, <1>3, <1>5 DEF Order, Clear
<1>8. Restartable'
  BY <1>1, <1>4 DEF Restartable
<1>9. Kept'
  BY <1>1, <1>4, <1>5 DEF Kept
<1>10. QED  BY <1>6, <1>7, <1>8, <1>9

\* The watermark moves to where the streamer stands: what is behind it is
\* stored, or in the buffer and from now on exposed.
LEMMA SaveSteps ==
    ASSUME Inv, UNCHANGED <<content, opened, pending, Accepted>>, SaveWatermark
    PROVE  StreamerInv'
<1> USE DEF Inv, StreamerInv
<1>1. /\ pc \in {"mark", "idlemark"} /\ pc' = "read" /\ MaybeQuota
      /\ UNCHANGED <<reading, offset, target, buffer, stored>>
      /\ exposed' \subseteq exposed \cup ToSet(buffer)
  BY DEF SaveWatermark, MaybeQuota
<1>2. /\ \A h \in {watermark.file, reading} :
            /\ h \in files' \/ \A g \in files' : g > h
            /\ \A o \in Nat : Ahead(files, content, h, o) \subseteq
                                  Ahead(files', content', h, o) \cup lost'
      /\ \A g \in files' : g >= reading
      /\ lost \subseteq lost'
  BY <1>1, QuotaKeeps
<1>3. Kept'
  BY <1>1, <1>2, Standing DEF Kept, InStore
<1>4. \/ watermark' = [file |-> reading, offset |-> offset] /\ exposed' = exposed \cup ToSet(buffer)
      \/ watermark' = watermark /\ exposed' = exposed
  BY DEF SaveWatermark, Saved, SaveFails
<1>5. CASE watermark' = [file |-> reading, offset |-> offset] /\ exposed' = exposed \cup ToSet(buffer)
  <2>1. watermark'.file = reading /\ watermark'.offset = offset
    BY <1>5
  <2>2. Places' /\ Offsets' /\ Memory'
    BY <1>1, <1>5, <2>1, Standing DEF Places, Labels, Offsets, Memory
  <2>3. Order'
    BY <1>1, <1>2, <2>1, Standing DEF Order, Clear
  <2>4. Restartable'
    BY <1>1, <1>3, <1>5, <2>1 DEF Restartable, Kept
  <2>5. QED  BY <1>3, <2>2, <2>3, <2>4
<1>6. CASE watermark' = watermark /\ exposed' = exposed
  <2>1. Places' /\ Offsets' /\ Memory'
    BY <1>1, <1>6 DEF Places, Labels, Offsets, Memory
  <2>2. Order'
    BY <1>1, <1>2, <1>6, Standing DEF Order, Clear
  <2>3. Restartable'
    BY <1>1, <1>2, <1>6, Standing DEF Restartable, InStore
  <2>4. QED  BY <1>3, <2>1, <2>2, <2>3
<1>7. QED  BY <1>4, <1>5, <1>6

\* The streamer moves on with an empty buffer: what the old segment still
\* holds is noted, all else is in front of the next one.
LEMMA RotateSteps ==
    ASSUME Inv, UNCHANGED <<content, opened, pending, Accepted>>, Rotate
    PROVE  StreamerInv'
<1> USE DEF Inv, StreamerInv
<1>1. /\ pc = "rotate" /\ pc' = "purge" /\ reading' = target /\ offset' = 0
      /\ watermark' \in {watermark, [file |-> target, offset |-> 0]}
      /\ lost' = lost \cup TicksPast(content[reading], offset)
      /\ UNCHANGED <<target, buffer, stored, exposed, files>>
  BY DEF Rotate, Saved, SaveFails
<1>2. /\ Clear(target) /\ target > reading /\ target # NoFile
      /\ \A g \in files : g <= reading \/ g >= target
      /\ \A g \in files : g >= reading
      /\ watermark.file <= reading /\ Clear(watermark.file) /\ watermark.file < target
      /\ buffer = <<>> /\ ToSet(buffer) = {}
  BY <1>1, Standing DEF Order, Memory, ToSet
<1>3. Ahead(files, content, reading, offset) \subseteq Ahead(files, content, target, 0) \cup lost'
  <2>1. Ahead(files, content, reading, offset) \subseteq
            Ahead(files, content, target, 0) \cup TicksPast(content[reading], offset)
    <3>1. PICK f \in Nat, n \in Nat : f = reading /\ n = target
      BY Standing
    <3>2. /\ \A h \in files : h >= f
          /\ \A h \in files : h <= f \/ h >= n
          /\ f < n
      BY <1>2, <3>1
    <3>3. Ahead(files, content, f, offset) \subseteq
              Ahead(files, content, n, 0) \cup TicksPast(content[f], offset)
      BY <3>2, Standing, AheadNext
    <3>4. QED  BY <3>1, <3>3
  <2>2. QED  BY <1>1, <2>1
<1>4. Kept'
  BY <1>1, <1>2, <1>3 DEF Kept, InStore
<1>5. Len(content[target]) \in Nat
  <2>1. target \in Segment
    BY <1>2, Standing, BoundsAssumption DEF WriterInv, Data, Segment
  <2>2. QED  BY <2>1, Standing
<1>6. CASE watermark' = watermark
  <2>1. Places' /\ Offsets' /\ Memory'
    BY <1>1, <1>2, <1>5, <1>6 DEF Places, Labels, Offsets, Memory
  <2>2. Order'
    BY <1>1, <1>2, <1>6, Standing DEF Order, Clear
  <2>3. Restartable'
    BY <1>1, <1>6 DEF Restartable, InStore
  <2>4. QED  BY <1>4, <2>1, <2>2, <2>3
<1>7. CASE watermark' = [file |-> target, offset |-> 0]
  <2>1. watermark'.file = target /\ watermark'.offset = 0
    BY <1>7
  <2>2. Places' /\ Offsets' /\ Memory'
    BY <1>1, <1>2, <1>5, <1>7, <2>1, Standing DEF Places, Labels, Offsets, Memory
  <2>3. Order'
    BY <1>1, <1>2, <2>1, Standing DEF Order, Clear
  <2>4. Restartable'
    BY <1>1, <1>2, <1>4, <2>1 DEF Restartable, Kept
  <2>5. QED  BY <1>4, <2>2, <2>3, <2>4
<1>8. QED  BY <1>1, <1>6, <1>7

\* The old segment goes, also if the watermark still names it: with an empty
\* buffer everything is stored or in front of the new one.
LEMMA PurgeSteps ==
    ASSUME Inv, UNCHANGED <<content, opened, pending, Accepted>>, PurgeOld
    PROVE  StreamerInv'
<1> USE DEF Inv, StreamerInv
<1> DEFINE P == {f \in files : f < reading}
<1>1. /\ pc = "purge" /\ pc' = "scan" /\ target' = NoFile
      /\ PurgeThenQuota(P, reading)
      /\ UNCHANGED <<reading, offset, buffer, watermark, stored, exposed>>
  BY DEF PurgeOld
<1>2. /\ Clear(reading) /\ watermark.file <= reading /\ Clear(watermark.file)
      /\ watermark.file < reading \/ watermark.offset = 0
      /\ offset = 0
      /\ buffer = <<>> /\ ToSet(buffer) = {}
  BY <1>1 DEF Order, Memory, ToSet
<1>3. PICK f \in 0..opened : f = reading
  BY Standing
<1>4. /\ P \in SUBSET files
      /\ \A g \in P : g < f
      /\ \A g \in files \ P : g >= f
      /\ PurgeThenQuota(P, f) /\ Clear(f) /\ f <= f
  BY <1>1, <1>2, <1>3, Standing
<1> HIDE DEF P
<1>5. /\ Ahead(files, content, f, offset) \subseteq Ahead(files', content', f, offset) \cup lost'
      /\ Clear(f)' /\ \A g \in files' : g >= f
      /\ files' \subseteq files /\ lost \subseteq lost'
  BY <1>4, Standing, PurgingKeeps
<1>6. files' \in SUBSET Segment
  BY <1>5, Standing
<1>7. watermark.file \in files' \/ \A g \in files' : g > watermark.file
  <2>1. ASSUME NEW g \in files', watermark.file \notin files' PROVE g > watermark.file
    <3>1. g \in Nat /\ g >= f /\ g # watermark.file
      BY <1>5, <2>1, Standing
    <3>2. QED  BY <1>2, <1>3, <3>1, Standing
  <2>2. QED  BY <2>1
<1>8. Places' /\ Memory' /\ Offsets'
  BY <1>1, <1>2, Standing DEF Places, Labels, Memory, Offsets
<1>9. Order'
  BY <1>1, <1>2, <1>3, <1>5, <1>7 DEF Order, Clear
<1>10. Kept'
  BY <1>1, <1>3, <1>5 DEF Kept, InStore
<1>11. Ahead(files', content, f, 0) \subseteq
           Ahead(files', content, watermark.file, watermark.offset)
  <2>1. watermark.file < f \/ (watermark.file = f /\ watermark.offset = 0)
    BY <1>2, <1>3, Standing
  <2>2. PICK g \in Nat, o \in Nat : g = watermark.file /\ o = watermark.offset
    BY Standing
  <2>3. Ahead(files', content, f, 0) \subseteq Ahead(files', content, g, o)
    BY <1>5, <1>6, <2>1, <2>2, Standing, AheadEarlier
  <2>4. QED  BY <2>2, <2>3
<1>12. Restartable'
  BY <1>1, <1>2, <1>3, <1>10, <1>11 DEF Restartable, Kept
<1>13. QED  BY <1>8, <1>9, <1>10, <1>12

\* A streamer that dies leaves what its watermark has behind it in the ledger.
LEMMA KilledSteps ==
    ASSUME Inv, UNCHANGED <<content, opened, pending, Accepted>>, StreamerKilled
    PROVE  StreamerInv'
<1> USE DEF Inv, StreamerInv
<1>1. /\ pc' = "down" /\ reading' = NoFile /\ offset' = 0 /\ target' = NoFile
      /\ buffer' = <<>> /\ exposed' = {} /\ lost' = lost \cup (exposed \ InStore)
      /\ UNCHANGED <<watermark, stored, files>>
  BY DEF StreamerKilled, InStore
<1>2. Places' /\ Offsets' /\ Memory'
  BY <1>1, Standing, NothingIn DEF Places, Labels, Offsets, Memory
<1>3. Order'
  BY <1>1 DEF Order, Clear
<1>4. Restartable' /\ Kept'
  BY <1>1 DEF Restartable, Kept, InStore
<1>5. QED  BY <1>2, <1>3, <1>4

\* The cleanup notes what was in front of the streamer, or of the next one.
LEMMA CleanupSteps ==
    ASSUME Inv, UNCHANGED <<content, opened, pending, Accepted>>, EodCleanup
    PROVE  StreamerInv'
<1> USE DEF Inv, StreamerInv
<1>1. /\ files' = {} /\ watermark' = [file |-> NoFile, offset |-> 0]
      /\ exposed' = exposed \cup ToSet(buffer) /\ lost \subseteq lost'
      /\ UNCHANGED <<pc, reading, offset, target, buffer, stored>>
  BY DEF EodCleanup
<1>2. IF pc = "down" THEN Ahead(files, content, watermark.file, watermark.offset) \subseteq lost'
                     ELSE Ahead(files, content, reading, offset) \subseteq lost'
  <2>1. \A f \in Nat, o \in Nat : TicksAhead(f, o) = Ahead(files, content, f, o)
    BY Standing, AheadMeans DEF TicksAhead
  <2>2. QED  BY <2>1, Standing DEF EodCleanup
<1>3. watermark'.file = NoFile /\ watermark'.offset = 0
  BY <1>1
<1>4. Places' /\ Offsets' /\ Memory'
  BY <1>1, <1>3, Standing DEF Places, Offsets, Memory
<1>5. Order'
  BY <1>1, <1>3, Standing DEF Order, Clear
<1>6. Restartable'
  BY <1>1, <1>2 DEF Restartable, Kept, InStore
<1>7. Kept'
  BY <1>1, <1>2 DEF Kept, InStore
<1>8. QED  BY <1>4, <1>5, <1>6, <1>7

-----------------------------------------------------------------------------
LEMMA InvKept == Inv /\ [Next]_vars => Inv'
<1> SUFFICES ASSUME Inv, [Next]_vars PROVE Inv'
  OBVIOUS
<1>1. CASE WriterStep \/ WriterFault
  BY <1>1, WriterKeepsInv
<1>2. CASE StreamerLoop \/ TimerStep \/ StreamerFault \/ MachineFault
  <2>1. WriterInv' /\ UNCHANGED <<content, opened, pending, Accepted>>
    BY <1>2, StreamerKeepsWriter DEF Inv
  <2> SUFFICES StreamerInv'
    BY <2>1 DEF Inv
  <2>2. CASE StreamerLoop
    <3>1. CASE StreamerStart \/ Scan \/ ReadLine \/ ReadFragment \/ ReadNothing
      BY <1>2, <2>1, <3>1, StartSteps, ScanSteps, ReadLineSteps, ReadFragmentSteps, QuietSteps
    <3>2. CASE ListNewer \/ ListNone \/ FlushOk \/ SaveWatermark \/ Rotate \/ PurgeOld
      BY <1>2, <2>1, <3>2, ListNewerSteps, QuietSteps, FlushSteps, SaveSteps, RotateSteps, PurgeSteps
    <3>3. QED  BY <2>2, <3>1, <3>2 DEF StreamerLoop
  <2>3. CASE TimerStep
    BY <2>3, QuietSteps DEF TimerStep
  <2>4. CASE StreamerFault
    BY <2>1, <2>4, KilledSteps, FlushSteps DEF StreamerFault
  <2>5. CASE MachineFault
    BY <2>1, <2>5, QuietSteps, CleanupSteps DEF MachineFault
  <2>6. QED  BY <1>2, <2>2, <2>3, <2>4, <2>5
<1>3. CASE UNCHANGED vars
  <2> USE <1>3 DEF vars, writerVars, streamerVars
  <2>1. WriterInv'
    BY DEF Inv, WriterInv, SegInv, Data, Whole
  <2>2. Places' /\ Order' /\ Offsets' /\ Memory'
    BY DEF Inv, StreamerInv, Places, Order, Clear, Offsets, Memory
  <2>3. Restartable' /\ Kept'
    BY DEF Inv, StreamerInv, Restartable, Kept, Accepted, InStore
  <2>4. QED  BY <2>1, <2>2, <2>3 DEF Inv, StreamerInv
<1>4. QED  BY <1>1, <1>2, <1>3 DEF Next

LEMMA InvStarts == Init => Inv
<1> SUFFICES ASSUME Init PROVE Inv
  OBVIOUS
<1> USE DEF Init, DirInit, WriterInit, StreamerInit
<1>1. <<>> \in Seq(Tick) /\ Len(<<>>) = 0 /\ ToSet(<<>>) = {} /\ Paired(<<>>)
  BY NothingIn DEF Paired
<1>2. WriterInv
  BY <1>1, BoundsAssumption DEF WriterInv, SegInv, Data, Whole
<1>3. Places /\ Order /\ Offsets /\ Memory
  BY <1>1 DEF Places, Labels, Order, Clear, Offsets, Memory
<1>4. Accepted = {}
  BY DEF Accepted
<1>5. QED  BY <1>2, <1>3, <1>4 DEF Inv, StreamerInv, Restartable, Kept

\* What TicksAhead and the invariant call the same.
LEMMA AheadIsTicksAhead ==
    ASSUME Inv
    PROVE  /\ TicksAhead(watermark.file, watermark.offset)
                  = Ahead(files, content, watermark.file, watermark.offset)
           /\ TicksAhead(reading, offset) = Ahead(files, content, reading, offset)
<1>1. \A f \in Nat, o \in Nat : TicksAhead(f, o) = Ahead(files, content, f, o)
  BY Standing, AheadMeans DEF TicksAhead
<1>2. QED  BY <1>1, Standing

\* A streamer that restarts from its watermark can still deliver every tick
\* that is not delivered or lost to a named cause: the order insert, watermark,
\* delete of stream_from_wal, under kills, failed inserts and a full disk.
THEOREM RestartLosesNothing == Spec => []CrashSafe
<1>1. Inv => CrashSafe
  BY AheadIsTicksAhead DEF Inv, StreamerInv, Restartable, CrashSafe
<1>2. QED  BY <1>1, InvStarts, InvKept, PTL DEF Spec

\* While the streamer runs no tick is forgotten: rotations, quotas, purges and
\* retries neither skip a segment nor move past a row that is not stored.
THEOREM NoTickSkipped == Spec => []NothingSkipped
<1>1. Inv => NothingSkipped
  BY AheadIsTicksAhead DEF Inv, StreamerInv, Kept, NothingSkipped
<1>2. QED  BY <1>1, InvStarts, InvKept, PTL DEF Spec

-----------------------------------------------------------------------------
(* No tick is stored twice without a fault: the collector writes a line in   *)
(* one place only, and a streamer has what it is still to read neither in    *)
(* its buffer nor in the table, but for rows a fault put there.              *)

\* What the collector wrote to segment f, in the file or still in its buffer.
Held(f) == content[f] \o (IF f = current THEN pending ELSE <<>>)

\* A tick stands in c once, as the two halves of its line.
Once(c) == \A i, j \in 1..Len(c) : i < j /\ c[i] = c[j] => i % 2 = 1 /\ j = i + 1

Unique ==
    /\ \A f \in Segment : Once(Held(f)) /\ \A t \in ToSet(Held(f)) : t < nextTick
    /\ \A f, g \in Segment : f # g => ToSet(Held(f)) \cap ToSet(Held(g)) = {}

\* What a streamer at offset o of segment f has not read, whether or not the
\* segments are still listed.
Unread(f, o) ==
    {t \in Tick : \/ f \in Segment /\ t \in TicksPast(Held(f), o)
                  \/ \E g \in Segment : g > f /\ t \in ToSet(Held(g))
                  \/ t >= nextTick}

\* The faults that may store a tick again.
Repeats == faults["streamer"] + faults["applied"]

CopiesInv ==
    \A t \in Tick :
        /\ Copies(t) <= Repeats + 1
        /\ pc = "down" \/ t \in ToSet(buffer) \cup Unread(reading, offset)
               => Copies(t) <= Repeats

BufferInv ==
    /\ \A i, j \in 1..Len(buffer) : buffer[i] = buffer[j] => i = j
    /\ ToSet(buffer) \cap Unread(reading, offset) = {}

StoredInv == faults \in [FaultKind -> Nat] /\ Unique /\ BufferInv /\ CopiesInv

-----------------------------------------------------------------------------
\* Concatenation, at the type the segments have.
LEMMA Together ==
    ASSUME NEW a \in Seq(Tick), NEW b \in Seq(Tick)
    PROVE  /\ a \o b \in Seq(Tick) /\ Len(a \o b) = Len(a) + Len(b)
           /\ \A i \in 1..(Len(a) + Len(b)) :
                  (a \o b)[i] = IF i <= Len(a) THEN a[i] ELSE b[i - Len(a)]
  BY ConcatProperties

LEMMA Regrouped ==
    ASSUME NEW a \in Seq(Tick), NEW b \in Seq(Tick), NEW c \in Seq(Tick)
    PROVE  (a \o b) \o c = a \o (b \o c)
  BY ConcatAssociative

\* Another line, of a tick that is new to c, behind whole lines.
LEMMA OnceMore ==
    ASSUME NEW c \in Seq(Tick), Once(c), Len(c) % 2 = 0, NEW t \in Tick, t \notin ToSet(c)
    PROVE  /\ Once(c \o Line(t)) /\ ToSet(c \o Line(t)) = ToSet(c) \cup {t}
           /\ \A o \in Nat : TicksPast(c \o Line(t), o) \subseteq TicksPast(c, o) \cup {t}
<1> DEFINE d == c \o Line(t)
<1>1. /\ d \in Seq(Tick) /\ Len(d) = Len(c) + 2
      /\ \A i \in 1..(Len(c) + 2) : d[i] = IF i <= Len(c) THEN c[i] ELSE Line(t)[i - Len(c)]
  <2>1. Line(t) \in Seq(Tick) /\ Len(Line(t)) = 2
    BY LineIn
  <2>2. PICK l \in Seq(Tick) : l = Line(t) /\ Len(l) = 2
    BY <2>1
  <2>3. /\ c \o l \in Seq(Tick) /\ Len(c \o l) = Len(c) + 2
        /\ \A i \in 1..(Len(c) + 2) : (c \o l)[i] = IF i <= Len(c) THEN c[i] ELSE l[i - Len(c)]
    <3>1. /\ c \o l \in Seq(Tick) /\ Len(c \o l) = Len(c) + Len(l)
          /\ \A i \in 1..(Len(c) + Len(l)) :
                 (c \o l)[i] = IF i <= Len(c) THEN c[i] ELSE l[i - Len(c)]
      BY Together
    <3>2. Len(l) = 2
      BY <2>2
    <3> HIDE <2>2
    <3>3. QED  BY <3>1, <3>2
  <2>4. QED  BY <2>2, <2>3
<1>2. \A i \in 1..2 : Line(t)[i] = t
  BY DEF Line
<1>3. ToSet(d) = ToSet(c) \cup {t}
  BY LineIn, ConcatSet
<1> HIDE DEF d
<1>4. \A i \in 1..(Len(c) + 2) : IF i <= Len(c) THEN d[i] = c[i] ELSE d[i] = t
  <2> SUFFICES ASSUME NEW i \in 1..(Len(c) + 2), i > Len(c) PROVE d[i] = t
    BY <1>1
  <2>1. i - Len(c) \in 1..2
    OBVIOUS
  <2>2. QED  BY <1>1, <1>2, <2>1
<1>5. \A i \in 1..Len(c) : c[i] # t
  BY InSequence
<1>6. Once(d)
  <2> SUFFICES ASSUME NEW i \in 1..(Len(c) + 2), NEW j \in 1..(Len(c) + 2), i < j, d[i] = d[j]
               PROVE  i % 2 = 1 /\ j = i + 1
    BY <1>1 DEF Once
  <2>1. CASE j <= Len(c)
    BY <1>4, <2>1 DEF Once
  <2>2. CASE j > Len(c)
    <3>1. i > Len(c)
      BY <1>4, <1>5, <2>2
    <3>2. i = Len(c) + 1 /\ j = i + 1
      BY <3>1
    <3>3. QED  BY <3>2
  <2>3. QED  BY <2>1, <2>2
<1>7. ASSUME NEW o \in Nat PROVE TicksPast(d, o) \subseteq TicksPast(c, o) \cup {t}
  <2> SUFFICES ASSUME NEW i \in (o + 1)..(Len(c) + 2) PROVE d[i] \in TicksPast(c, o) \cup {t}
    BY <1>1 DEF TicksPast
  <2>1. QED  BY <1>4 DEF TicksPast
<1>8. QED  BY <1>3, <1>6, <1>7 DEF d

\* The front of a sequence has no more than the whole.
LEMMA OnceLess ==
    ASSUME NEW a \in Seq(Tick), NEW b \in Seq(Tick), Once(a \o b)
    PROVE  /\ Once(a) /\ ToSet(a) \subseteq ToSet(a \o b)
           /\ \A o \in Nat : TicksPast(a, o) \subseteq TicksPast(a \o b, o)
<1>1. /\ Len(a \o b) = Len(a) + Len(b) /\ ToSet(a) \subseteq ToSet(a \o b)
      /\ \A i \in 1..Len(a) : (a \o b)[i] = a[i] /\ i \in 1..(Len(a) + Len(b))
  BY ConcatSet DEF Extends
<1>2. Once(a)
  BY <1>1 DEF Once
<1>3. QED  BY <1>1, <1>2 DEF TicksPast

\* One line, and none.
LEMMA OnceLine ==
    ASSUME NEW t \in Tick
    PROVE  Once(Line(t)) /\ Once(<<>>)
<1>1. Len(Line(t)) = 2
  BY LineIn
<1>2. \A i, j \in 1..2 : i < j => i % 2 = 1 /\ j = i + 1
  OBVIOUS
<1>3. QED  BY <1>1, <1>2, NothingIn DEF Once

\* A sequence cut in two, and put together behind another.
LEMMA CutTogether ==
    ASSUME NEW c \in Seq(Tick), NEW s \in Seq(Tick), NEW n \in 0..Len(s)
    PROVE  (c \o SubSeq(s, 1, n)) \o SubSeq(s, n + 1, Len(s)) = c \o s
<1>1. SubSeq(s, 1, n) \in Seq(Tick) /\ SubSeq(s, n + 1, Len(s)) \in Seq(Tick)
  BY CutSet
<1>2. SubSeq(s, 1, n) \o SubSeq(s, n + 1, Len(s)) = s
  <2>1. 1 \in 1..(Len(s) + 1) /\ n \in (1 - 1)..Len(s) /\ Len(s) \in n..Len(s)
    OBVIOUS
  <2>2. SubSeq(s, 1, n) \o SubSeq(s, n + 1, Len(s)) = SubSeq(s, 1, Len(s))
    BY <2>1, ConcatAdjacentSubSeq
  <2>3. QED  BY <2>2, SubSeqFull
<1> DEFINE a == SubSeq(s, 1, n)
           b == SubSeq(s, n + 1, Len(s))
<1> HIDE DEF a, b
<1>3. (c \o a) \o b = c \o (a \o b)
  BY <1>1, Regrouped DEF a, b
<1>4. QED  BY <1>2, <1>3 DEF a, b

-----------------------------------------------------------------------------
\* What a step of the collector makes of what it wrote to segment f: nothing,
\* what had reached the file, another line, or a new segment.
Taken == nextTick \in Tick /\ nextTick' = nextTick + 1

HeldStep(f) ==
    \/ Held(f)' = Held(f)
    \/ Held(f)' = content[f]
    \/ f = current /\ f = current' /\ Taken /\ Held(f)' = Held(f) \o Line(nextTick)
    \/ f = opened + 1 /\ f = current' /\ Taken /\ Held(f)' = Line(nextTick)
    \/ f = opened + 1 /\ Held(f)' = <<>>

LEMMA HeldTyped ==
    ASSUME WriterInv
    PROVE  /\ \A f \in Segment : Held(f) \in Seq(Tick) /\ content[f] \in Seq(Tick)
           /\ current \in Segment => Len(Held(current)) % 2 = 0
           /\ \A f \in Segment : f # current => Held(f) = content[f]
           /\ current \in Segment \cup {NoFile}
           /\ opened + 1 # current /\ opened \in Nat
<1>1. \A f \in Segment : content[f] \in Seq(Tick)
  BY DEF WriterInv, Data
<1>2. pending \in Seq(Tick)
  BY DEF WriterInv, Data
<1>3. \A f \in Segment : f # current => Held(f) = content[f]
  BY <1>1, ConcatEmptySeq DEF Held
<1>4. current \in Segment => Len(Held(current)) % 2 = 0 /\ Held(current) \in Seq(Tick)
  <2> SUFFICES ASSUME current \in Segment
               PROVE  Len(Held(current)) % 2 = 0 /\ Held(current) \in Seq(Tick)
    OBVIOUS
  <2>1. Held(current) = content[current] \o pending
    BY DEF Held
  <2>2. current # NoFile
    BY DEF Segment
  <2>3. PICK a \in Seq(Tick), b \in Seq(Tick) : a = content[current] /\ b = pending
    BY <1>1, <1>2
  <2>4. Held(current) \in Seq(Tick) /\ Len(Held(current)) = Len(content[current]) + Len(pending)
    BY <2>1, <2>3, Together
  <2>5. (Len(content[current]) + Len(pending)) % 2 = 0
    BY <2>2 DEF WriterInv, Whole, Continues
  <2>6. QED  BY <2>4, <2>5
<1>5. current \in Segment \cup {NoFile} /\ opened + 1 # current /\ opened \in Nat
  BY BoundsAssumption DEF WriterInv, SegInv, Data, Segment
<1>6. QED  BY <1>1, <1>3, <1>4, <1>5

\* A new segment begins with lead; the others keep what was written to them.
LEMMA OpenedHeld ==
    ASSUME WriterInv, NEW lead \in Seq(Tick), OpenNext(lead)
    PROVE  /\ opened + 1 \in Segment /\ current' = opened + 1
           /\ \A f \in Segment : Held(f)' = IF f = opened + 1 THEN lead \o pending' ELSE Held(f)
<1>1. /\ opened + 1 \in Segment /\ current' = opened + 1
      /\ content' = [Appended(current, pending) EXCEPT ![opened + 1] = lead]
  BY BoundsAssumption DEF OpenNext, WriterInv, SegInv, Segment
<1>2. /\ content'[opened + 1] = lead
      /\ \A f \in Segment : f # opened + 1 => content'[f] = Appended(current, pending)[f]
  BY <1>1 DEF Appended
<1>3. \A f \in Segment : f # opened + 1 => content'[f] = Held(f)
  BY <1>2, HeldTyped DEF Appended, Held
<1>4. \A f \in Segment : f = opened + 1 => Held(f)' = lead \o pending'
  BY <1>1, <1>2 DEF Held
<1>5. \A f \in Segment : f # opened + 1 => Held(f)' = Held(f) \o <<>>
  BY <1>1, <1>3 DEF Held
<1>6. QED  BY <1>1, <1>4, <1>5, HeldTyped, ConcatEmptySeq

LEMMA WriterHolds ==
    ASSUME WriterInv, WriterStep \/ WriterFault
    PROVE  /\ nextTick' = nextTick \/ Taken
           /\ \A f \in Segment : HeldStep(f)
<1>0. /\ \A f \in Segment : Held(f) \in Seq(Tick) /\ content[f] \in Seq(Tick)
      /\ pending \in Seq(Tick) /\ <<>> \in Seq(Tick)
      /\ \A f \in Segment : f # current => Held(f) = content[f]
      /\ \A c \in Seq(Tick) : c \o <<>> = c
  BY HeldTyped, NothingIn, ConcatEmptySeq DEF WriterInv, Data
<1>1. TakeTick => Taken
  BY TakenTick DEF TakeTick, Taken, WriterInv
<1>2. ASSUME UNCHANGED <<content, current, pending>>, NEW f \in Segment
      PROVE  HeldStep(f)
  BY <1>2 DEF Held, HeldStep
<1>3. ASSUME content' = Appended(current, pending), pending' = <<>>, current' = NoFile
      PROVE  \A f \in Segment : Held(f)' = Held(f)
  <2> SUFFICES ASSUME NEW f \in Segment PROVE Held(f)' = Held(f)
    OBVIOUS
  <2>1. f # NoFile
    BY DEF Segment
  <2>2. content'[f] = Held(f)
    BY <1>0, <1>3 DEF Appended, Held
  <2>3. Held(f)' = Held(f) \o <<>>
    BY <1>3, <2>1, <2>2 DEF Held
  <2>4. QED  BY <1>0, <2>3
<1>4. CASE WriteHalted
  BY <1>1, <1>2, <1>4 DEF WriteHalted
<1>5. CASE WriteAppend
  <2>1. TakeTick /\ current # NoFile /\ current' = current /\ nextTick \in Tick
    BY <1>1, <1>5 DEF WriteAppend, ShouldRotate, Taken
  <2> DEFINE buf == pending \o Line(nextTick)
  <2>2. buf \in Seq(Tick) /\ Len(buf) = Len(pending) + 2
    <3>1. Line(nextTick) \in Seq(Tick) /\ Len(Line(nextTick)) = 2
      BY <2>1, LineIn
    <3>2. pending \in Seq(Tick)
      BY <1>0
    <3>3. PICK b \in Seq(Tick), l \in Seq(Tick) : b = pending /\ l = Line(nextTick)
      BY <3>1, <3>2
    <3>4. b \o l \in Seq(Tick) /\ Len(b \o l) = Len(b) + Len(l)
      BY Together
    <3>5. QED  BY <3>1, <3>3, <3>4
  <2>3. PICK n \in 0..Len(buf) : /\ content' = Appended(current, SubSeq(buf, 1, n))
                                 /\ pending' = SubSeq(buf, n + 1, Len(buf))
    BY <1>5, <2>2 DEF WriteAppend
  <2>4. current \in Segment
    BY <2>1, HeldTyped
  <2>5. Held(current)' = Held(current) \o Line(nextTick)
    <3>1. Held(current)' = (content[current] \o SubSeq(buf, 1, n)) \o SubSeq(buf, n + 1, Len(buf))
      BY <2>1, <2>3, <2>4 DEF Appended, Held
    <3>2. Held(current)' = content[current] \o buf
      BY <1>0, <2>2, <2>4, <3>1, CutTogether
    <3>3. Line(nextTick) \in Seq(Tick) /\ content[current] \in Seq(Tick)
      BY <1>0, <2>1, <2>4, LineIn
    <3>4. (content[current] \o pending) \o Line(nextTick) = content[current] \o buf
      <4>1. PICK a \in Seq(Tick), b \in Seq(Tick), l \in Seq(Tick) :
                a = content[current] /\ b = pending /\ l = Line(nextTick)
        BY <1>0, <3>3
      <4>2. (a \o b) \o l = a \o (b \o l)
        BY Regrouped
      <4>3. a \o (b \o l) = content[current] \o buf
        BY <4>1
      <4>4. (a \o b) \o l = (content[current] \o pending) \o Line(nextTick)
        BY <4>1
      <4>5. QED  BY <4>2, <4>3, <4>4
    <3>5. QED  BY <3>2, <3>4 DEF Held
  <2>6. ASSUME NEW f \in Segment, f # current PROVE Held(f)' = Held(f)
    BY <2>1, <2>3, <2>6 DEF Appended, Held
  <2>7. QED  BY <1>1, <2>1, <2>5, <2>6 DEF HeldStep
<1>6. CASE WriteRotate
  <2>1. PICK n \in 0..2 : /\ OpenNext(SubSeq(Line(nextTick), 1, n))
                          /\ pending' = SubSeq(Line(nextTick), n + 1, 2)
    BY <1>6 DEF WriteRotate
  <2>2. TakeTick /\ nextTick \in Tick /\ running
    BY <1>1, <1>6 DEF WriteRotate, Taken, TakeTick
  <2>3. Line(nextTick) \in Seq(Tick) /\ Len(Line(nextTick)) = 2
    BY <2>2, LineIn
  <2>4. SubSeq(Line(nextTick), 1, n) \in Seq(Tick)
    BY <2>3, CutSet
  <2>5. (<<>> \o SubSeq(Line(nextTick), 1, n)) \o SubSeq(Line(nextTick), n + 1, 2)
            = <<>> \o Line(nextTick)
    BY <1>0, <2>3, CutTogether
  <2>6. SubSeq(Line(nextTick), 1, n) \o SubSeq(Line(nextTick), n + 1, 2) = Line(nextTick)
    BY <2>3, <2>4, <2>5, ConcatEmptySeq
  <2>7. \A f \in Segment : Held(f)' = IF f = opened + 1 THEN Line(nextTick) ELSE Held(f)
    BY <2>1, <2>4, <2>6, OpenedHeld
  <2>8. current' = opened + 1
    BY <2>1 DEF OpenNext
  <2>9. QED  BY <1>1, <2>2, <2>7, <2>8 DEF HeldStep
<1>7. CASE WriteRotateFails
  BY <1>1, <1>3, <1>7 DEF WriteRotateFails, HeldStep
<1>8. CASE SegmentAges
  BY <1>2, <1>8 DEF SegmentAges
<1>9. CASE WriterStart
  <2>1. pending = <<>> /\ current = NoFile /\ pending' = pending /\ nextTick' = nextTick
    BY <1>9 DEF WriterStart, WriterInv, Whole
  <2>2. CASE OpenNext(<<>>)
    BY <1>0, <2>1, <2>2, OpenedHeld DEF HeldStep
  <2>3. CASE UNCHANGED <<current, content>>
    BY <1>2, <2>1, <2>3
  <2>4. QED  BY <1>9, <2>2, <2>3 DEF WriterStart
<1>10. CASE WriterKilled
  <2>1. current' = NoFile /\ content' = content /\ nextTick' = nextTick
    BY <1>10 DEF WriterKilled
  <2>2. ASSUME NEW f \in Segment PROVE Held(f)' = content[f]
    <3>1. f # NoFile
      BY DEF Segment
    <3>2. QED  BY <1>0, <2>1, <3>1 DEF Held
  <2>3. QED  BY <2>1, <2>2 DEF HeldStep
<1>11. CASE WriterStops
  BY <1>3, <1>11 DEF WriterStops, HeldStep
<1>12. QED
  BY <1>4, <1>5, <1>6, <1>7, <1>8, <1>9, <1>10, <1>11 DEF WriterStep, WriterFault, WriteTick

\* So a line is never written twice, and nothing that was read comes back.
LEMMA WriterUnique ==
    ASSUME WriterInv, Unique, WriterStep \/ WriterFault
    PROVE  /\ Unique'
           /\ \A f \in 0..opened, o \in Nat : Unread(f, o)' \subseteq Unread(f, o)
<1>0. /\ nextTick' = nextTick \/ Taken
      /\ \A f \in Segment : HeldStep(f)
  BY WriterHolds
<1>1. nextTick \in Nat /\ nextTick' \in Nat /\ nextTick <= nextTick' /\ opened \in Nat
  BY <1>0 DEF WriterInv, SegInv, Data, Taken
<1>2. ASSUME NEW f \in Segment
      PROVE  /\ Once(Held(f)')
             /\ \A t \in ToSet(Held(f)') :
                    t \in ToSet(Held(f)) \/ (t = nextTick /\ Taken /\ f = current')
             /\ f # opened + 1 => \A o \in Nat :
                    TicksPast(Held(f)', o) \subseteq TicksPast(Held(f), o) \cup {nextTick}
  <2>0. /\ Once(Held(f)) /\ \A t \in ToSet(Held(f)) : t < nextTick
        /\ Held(f) \in Seq(Tick) /\ content[f] \in Seq(Tick)
    BY HeldTyped DEF Unique
  <2>1. CASE Held(f)' = Held(f)
    BY <2>0, <2>1
  <2>2. CASE Held(f)' = content[f]
    <3>1. PICK b \in Seq(Tick) : Held(f) = content[f] \o b
      <4>1. pending \in Seq(Tick) /\ <<>> \in Seq(Tick)
        BY NothingIn DEF WriterInv, Data
      <4>2. QED  BY <4>1 DEF Held
    <3>2. QED  BY <2>0, <2>2, <3>1, OnceLess
  <2>3. CASE f = current /\ f = current' /\ Taken /\ Held(f)' = Held(f) \o Line(nextTick)
    <3>1. nextTick \notin ToSet(Held(f)) /\ nextTick \in Tick
      BY <1>1, <2>0, <2>3 DEF Taken
    <3>2. Len(Held(f)) % 2 = 0
      BY <2>3, HeldTyped
    <3>3. QED  BY <2>0, <2>3, <3>1, <3>2, OnceMore
  <2>4. CASE f = opened + 1 /\ f = current' /\ Taken /\ Held(f)' = Line(nextTick)
    BY <2>4, OnceLine, LineIn DEF Taken
  <2>5. CASE f = opened + 1 /\ Held(f)' = <<>>
    <3>1. Once(<<>>)
      BY NothingIn DEF Once
    <3>2. QED  BY <2>5, <3>1, NothingIn
  <2>6. QED  BY <1>0, <2>1, <2>2, <2>3, <2>4, <2>5 DEF HeldStep
<1>3. Unique'
  <2>1. ASSUME NEW f \in Segment, NEW t \in ToSet(Held(f)') PROVE t < nextTick'
    <3>1. CASE t \in ToSet(Held(f))
      <4>1. t < nextTick /\ t \in Tick
        BY <3>1, HeldTyped DEF Unique, ToSet
      <4>2. QED  BY <1>1, <4>1 DEF Tick
    <3>2. CASE t = nextTick /\ Taken
      BY <1>1, <3>2 DEF Taken
    <3>3. QED  BY <1>2, <3>1, <3>2
  <2>2. ASSUME NEW f \in Segment, NEW g \in Segment, f # g
        PROVE  ToSet(Held(f)') \cap ToSet(Held(g)') = {}
    <3> SUFFICES ASSUME NEW t, t \in ToSet(Held(f)'), t \in ToSet(Held(g)') PROVE FALSE
      OBVIOUS
    <3>1. \A h \in Segment : nextTick \notin ToSet(Held(h))
      BY <1>1 DEF Unique
    <3>2. QED  BY <1>2, <2>2, <3>1 DEF Unique
  <2>3. QED  BY <1>2, <2>1, <2>2 DEF Unique
<1>4. ASSUME NEW f \in 0..opened, NEW o \in Nat PROVE Unread(f, o)' \subseteq Unread(f, o)
  <2> SUFFICES ASSUME NEW t \in Tick, t \in Unread(f, o)', t < nextTick PROVE t \in Unread(f, o)
    BY <1>1 DEF Unread, Tick
  <2>1. f # opened + 1
    BY <1>1
  <2>2. CASE f \in Segment /\ t \in TicksPast(Held(f)', o)
    BY <1>1, <1>2, <2>1, <2>2 DEF Unread
  <2>3. CASE \E g \in Segment : g > f /\ t \in ToSet(Held(g)')
    BY <1>1, <1>2, <2>3 DEF Unread
  <2>4. CASE t >= nextTick'
    BY <1>1, <2>4 DEF Tick
  <2>5. QED  BY <2>2, <2>3, <2>4 DEF Unread
<1>5. QED  BY <1>3, <1>4

-----------------------------------------------------------------------------
\* Going on leaves less unread.
LEMMA UnreadShrinks ==
    ASSUME NEW f \in Nat, NEW o \in Nat, NEW h \in Nat, NEW e \in Nat,
           h > f \/ (h = f /\ e >= o)
    PROVE  Unread(h, e) \subseteq Unread(f, o)
<1>1. \A c, i : i \in Nat => TicksPast(c, i) \subseteq ToSet(c) \cup TicksPast(c, i)
  OBVIOUS
<1>2. \A c : e >= o => TicksPast(c, e) \subseteq TicksPast(c, o)
  BY DEF TicksPast
<1>3. CASE h = f /\ e >= o
  BY <1>2, <1>3 DEF Unread
<1>4. CASE h > f
  <2> SUFFICES ASSUME NEW t \in Tick, t \in Unread(h, e) PROVE t \in Unread(f, o)
    BY DEF Unread
  <2>1. ASSUME h \in Segment, t \in TicksPast(Held(h), e) PROVE t \in ToSet(Held(h))
    BY <2>1 DEF TicksPast, ToSet
  <2>2. \A g \in Segment : g > h => g > f
    BY <1>4 DEF Segment
  <2>3. QED  BY <1>4, <2>1, <2>2 DEF Unread
<1>5. QED  BY <1>3, <1>4

\* A step of the streamer leaves what was written alone.
LEMMA UnreadStays ==
    ASSUME UNCHANGED <<content, writerVars>>
    PROVE  /\ \A f, o : Unread(f, o)' = Unread(f, o)
           /\ Unique => Unique'
  BY DEF writerVars, Held, Unread, Unique

\* A step that moves the streamer on, and neither fills nor empties anything.
LEMMA MovesOn ==
    ASSUME Inv, StoredInv, Unique', faults' \in [FaultKind -> Nat], Repeats' = Repeats,
           UNCHANGED <<buffer, stored>>,
           (pc' = "down") = (pc = "down"),
           Unread(reading, offset)' \subseteq Unread(reading, offset)
    PROVE  StoredInv'
<1>1. BufferInv'
  BY DEF StoredInv, BufferInv
<1>2. \A t \in Tick : Copies(t)' = Copies(t)
  BY DEF Copies
<1>3. CopiesInv'
  BY <1>2 DEF StoredInv, CopiesInv
<1>4. QED  BY <1>1, <1>3 DEF StoredInv

\* Where the streamer stands only moves forward, but for a start or a death.
LEMMA GoesForward ==
    ASSUME Inv,
           \/ Scan \/ ReadFragment \/ ReadNothing \/ ListNewer \/ ListNone
           \/ SaveWatermark \/ Rotate \/ PurgeOld \/ FlushFallsDue
           \/ FlushFails(FALSE) \/ EodCleanup \/ (SpaceChanges /\ UNCHANGED streamerVars)
    PROVE  /\ pc' = "down" <=> pc = "down"
           /\ UNCHANGED <<buffer, stored>>
           /\ reading' \in Nat /\ offset' \in Nat
           /\ reading' > reading \/ (reading' = reading /\ offset' >= offset)
<1>0. /\ reading \in Nat /\ offset \in Nat /\ target \in Nat
      /\ files \in SUBSET Nat
  BY Standing
<1>1. CASE Scan
  <2>1. /\ pc # "down" /\ pc' # "down" /\ UNCHANGED <<buffer, stored>> /\ files # {}
        /\ \/ reading \in files /\ UNCHANGED <<reading, offset>>
           \/ reading \notin files /\ reading' = Min(files) /\ offset' = 0
    BY <1>1 DEF Scan
  <2>2. Min(files) \in files
    BY <1>0, <2>1, LeastListed
  <2>3. reading \notin files => Min(files) > reading
    BY <2>1, <2>2 DEF Inv, StreamerInv, Order, Clear
  <2>4. /\ UNCHANGED <<buffer, stored>>
        /\ pc' = "down" <=> pc = "down"
    BY <2>1
  <2>5. CASE reading \in files
    <3>1. reading' = reading /\ offset' = offset
      BY <2>1, <2>5
    <3>2. offset' >= offset /\ reading' \in Nat /\ offset' \in Nat
      BY <1>0, <3>1
    <3>3. QED  BY <2>4, <3>1, <3>2
  <2>6. CASE reading \notin files
    <3>1. reading' = Min(files) /\ offset' = 0
      BY <2>1, <2>6
    <3>2. reading' > reading /\ reading' \in Nat /\ offset' \in Nat
      BY <1>0, <2>2, <2>3, <2>6, <3>1
    <3>3. QED  BY <2>4, <3>2
  <2>7. QED  BY <2>5, <2>6
<1>2. CASE ReadFragment
  <2>1. offset' \in {offset + 1, offset + 2}
    BY <1>2 DEF ReadFragment, LineEnd
  <2>2. QED  BY <1>0, <1>2, <2>1 DEF ReadFragment
<1>3. CASE Rotate
  <2>1. target > reading
    BY <1>3 DEF Rotate, Inv, StreamerInv, Order
  <2>2. QED  BY <1>0, <1>3, <2>1 DEF Rotate
<1>4. CASE \/ ReadNothing \/ ListNewer \/ ListNone \/ SaveWatermark \/ PurgeOld
           \/ FlushFallsDue \/ FlushFails(FALSE) \/ EodCleanup
           \/ (SpaceChanges /\ UNCHANGED streamerVars)
  <2>1. UNCHANGED <<reading, offset, buffer, stored>>
    BY <1>4 DEF ReadNothing, ListNewer, ListNone, SaveWatermark, PurgeOld, FlushFallsDue,
                FlushFails, EodCleanup, SpaceChanges, streamerVars
  <2>2. pc' = "down" <=> pc = "down"
    BY <1>4 DEF ReadNothing, ListNewer, ListNone, SaveWatermark, PurgeOld, FlushFallsDue,
                FlushFails, EodCleanup, SpaceChanges, streamerVars, Flushing, AfterFlush
  <2>3. offset' >= offset
    BY <1>0, <2>1
  <2>4. reading' \in Nat /\ offset' \in Nat /\ reading' = reading
    BY <1>0, <2>1
  <2>5. UNCHANGED <<buffer, stored>>
    BY <2>1
  <2>6. QED  BY <2>2, <2>3, <2>4, <2>5
<1>5. QED  BY <1>1, <1>2, <1>3, <1>4

\* Where a tick stands in a sequence of rows.
Rows(s, t) == {i \in DOMAIN s : s[i] = t}

\* Rows that are appended to the table, each tick at most once.
LEMMA StoredMore ==
    ASSUME NEW s \in Seq(Tick), NEW b \in Seq(Tick), NEW t,
           \A i, j \in 1..Len(b) : b[i] = b[j] => i = j
    PROVE  /\ Cardinality(Rows(s, t)) \in Nat /\ Cardinality(Rows(s \o b, t)) \in Nat
           /\ Cardinality(Rows(s \o b, t)) <= Cardinality(Rows(s, t)) + 1
           /\ t \notin ToSet(b) => Rows(s \o b, t) = Rows(s, t)
<1> DEFINE old == Rows(s, t)
           new == Rows(s \o b, t)
<1>1. /\ s \o b \in Seq(Tick) /\ Len(s \o b) = Len(s) + Len(b)
      /\ \A i \in 1..(Len(s) + Len(b)) :
             (s \o b)[i] = IF i <= Len(s) THEN s[i] ELSE b[i - Len(s)]
  BY Together
<1>2. DOMAIN s = 1..Len(s) /\ DOMAIN (s \o b) = 1..(Len(s) + Len(b))
  BY <1>1
<1>3. Len(s) \in Nat /\ Len(b) \in Nat
  OBVIOUS
<1>4. \A i : i \in new <=> i \in old \/ (i \in 1..(Len(s) + Len(b)) /\ i > Len(s)
                                            /\ b[i - Len(s)] = t)
  BY <1>1, <1>2, <1>3 DEF Rows
<1>5. IsFiniteSet(old) /\ Cardinality(old) \in Nat
  <2>1. IsFiniteSet(1..Len(s))
    BY <1>3, FS_Interval
  <2>2. old \subseteq 1..Len(s)
    BY <1>2 DEF Rows
  <2>3. QED  BY <2>1, <2>2, FS_Subset, FS_CardinalityType
<1> SUFFICES /\ Cardinality(new) \in Nat /\ Cardinality(new) <= Cardinality(old) + 1
             /\ t \notin ToSet(b) => new = old
  BY <1>5
<1> HIDE DEF old, new
<1>6. CASE t \notin ToSet(b)
  <2>1. \A i \in 1..(Len(s) + Len(b)) : i > Len(s) => b[i - Len(s)] # t
    <3> SUFFICES ASSUME NEW i \in 1..(Len(s) + Len(b)), i > Len(s) PROVE b[i - Len(s)] # t
      OBVIOUS
    <3>1. i - Len(s) \in 1..Len(b)
      BY <1>3
    <3>2. QED  BY <1>6, <3>1, InSequence
  <2>2. new = old
    BY <1>4, <2>1
  <2>3. QED  BY <1>5, <2>2
<1>7. CASE t \in ToSet(b)
  <2>1. PICK k \in 1..Len(b) : b[k] = t
    BY <1>7, InSequence
  <2>2. new \subseteq old \cup {Len(s) + k}
    <3> SUFFICES ASSUME NEW i \in 1..(Len(s) + Len(b)), i > Len(s), b[i - Len(s)] = t
                 PROVE  i = Len(s) + k
      BY <1>4
    <3>1. i - Len(s) \in 1..Len(b)
      BY <1>3
    <3>2. i - Len(s) = k
      BY <2>1, <3>1
    <3>3. QED  BY <1>3, <3>2
  <2>3. IsFiniteSet(old \cup {Len(s) + k}) /\ Cardinality(old \cup {Len(s) + k}) <= Cardinality(old) + 1
    <3>1. PICK x : x = Len(s) + k
      OBVIOUS
    <3>2. /\ IsFiniteSet(old \cup {x})
          /\ Cardinality(old \cup {x}) \in {Cardinality(old), Cardinality(old) + 1}
      BY <1>5, FS_AddElement
    <3>3. QED  BY <1>5, <3>1, <3>2
  <2>4. IsFiniteSet(new) /\ Cardinality(new) <= Cardinality(old \cup {Len(s) + k})
    BY <2>2, <2>3, FS_Subset
  <2>5. Cardinality(new) \in Nat /\ Cardinality(old \cup {Len(s) + k}) \in Nat
    BY <2>3, <2>4, FS_CardinalityType
  <2>6. QED  BY <1>5, <1>7, <2>3, <2>4, <2>5
<1>8. QED  BY <1>6, <1>7

LEMMA CopiesTyped ==
    ASSUME Inv, StoredInv
    PROVE  Repeats \in Nat /\ \A t \in Tick : Copies(t) \in Nat
<1>1. Repeats \in Nat
  BY DEF StoredInv, FaultKind, Repeats
<1>2. ASSUME NEW t \in Tick PROVE Copies(t) \in Nat
  <2>1. stored \in Seq(Tick) /\ <<>> \in Seq(Tick) /\ Len(<<>>) = 0
    BY NothingIn DEF Inv, StreamerInv, Places
  <2>2. \A i, j \in 1..Len(<<>>) : <<>>[i] = <<>>[j] => i = j
    BY <2>1
  <2>3. Cardinality(Rows(stored, t)) \in Nat
    BY <2>1, <2>2, StoredMore
  <2>4. QED  BY <2>3 DEF Copies, Rows
<1>3. QED  BY <1>1, <1>2

\* A fault is counted; only two kinds may repeat a row.
LEMMA FaultCounts ==
    ASSUME StoredInv, NEW k \in FaultKind, Fault(k)
    PROVE  /\ faults' \in [FaultKind -> Nat]
           /\ Repeats' = IF k \in {"streamer", "applied"} THEN Repeats + 1 ELSE Repeats
<1>1. faults \in [FaultKind -> Nat] /\ faults' = [faults EXCEPT ![k] = @ + 1]
  BY DEF StoredInv, Fault
<1>2. faults[k] \in Nat
  BY <1>1
<1>3. faults' \in [FaultKind -> Nat]
  BY <1>1, <1>2
<1>4. "streamer" \in FaultKind /\ "applied" \in FaultKind
  BY DEF FaultKind
<1>5. /\ faults'["streamer"] = IF k = "streamer" THEN faults["streamer"] + 1 ELSE faults["streamer"]
      /\ faults'["applied"] = IF k = "applied" THEN faults["applied"] + 1 ELSE faults["applied"]
      /\ faults["streamer"] \in Nat /\ faults["applied"] \in Nat
  BY <1>1, <1>4
<1>6. QED  BY <1>3, <1>5 DEF Repeats

-----------------------------------------------------------------------------
\* The line that is read is the only one of its tick: it is not read again.
LEMMA ReadLineStores ==
    ASSUME Inv, StoredInv, Unique', faults' = faults, UNCHANGED <<content, writerVars>>, ReadLine
    PROVE  StoredInv'
<1> DEFINE c == Held(reading)
           t == content[reading][offset + 1]
<1>0. /\ pc = "read" /\ pc' # "down" /\ reading' = reading /\ stored' = stored
      /\ WholeLine(content[reading], offset)
      /\ offset' = LineEnd(content[reading], offset)
      /\ buffer' = Append(buffer, t)
  BY DEF ReadLine
<1>1. reading \in Segment /\ offset \in Nat
  BY <1>0, Standing DEF Inv, StreamerInv, Order
<1>2. /\ offset' = offset + 2 /\ offset % 2 = 0
      /\ content[reading] \in Seq(Tick) /\ offset + 2 <= Len(content[reading])
  BY <1>0, <1>1, Standing DEF LineEnd, WholeLine
<1>3. /\ c \in Seq(Tick) /\ t \in Tick /\ c[offset + 1] = t
      /\ offset + 2 <= Len(c) /\ Len(c) \in Nat
  <2>1. PICK b \in Seq(Tick) : c = content[reading] \o b
    <3>1. pending \in Seq(Tick) /\ <<>> \in Seq(Tick)
      BY NothingIn DEF Inv, WriterInv, Data
    <3>2. QED  BY <3>1 DEF Held
  <2>2. /\ c \in Seq(Tick) /\ Len(c) = Len(content[reading]) + Len(b)
        /\ \A i \in 1..(Len(content[reading]) + Len(b)) :
               c[i] = IF i <= Len(content[reading]) THEN content[reading][i]
                      ELSE b[i - Len(content[reading])]
    BY <1>2, <2>1, Together
  <2>3. Len(b) \in Nat /\ Len(content[reading]) \in Nat
    BY <1>2
  <2>4. offset + 1 \in 1..Len(content[reading]) /\ offset + 1 \in 1..(Len(content[reading]) + Len(b))
    BY <1>1, <1>2, <2>3
  <2>5. c[offset + 1] = content[reading][offset + 1]
    BY <2>2, <2>4
  <2>6. content[reading][offset + 1] \in Tick
    BY <1>2, <2>4
  <2>7. Len(c) \in Nat /\ offset + 2 <= Len(c)
    BY <1>1, <1>2, <2>2, <2>3
  <2>8. QED  BY <2>2, <2>5, <2>6, <2>7
<1>4. /\ Once(c) /\ \A u \in ToSet(c) : u < nextTick
      /\ \A g \in Segment : g # reading => ToSet(c) \cap ToSet(Held(g)) = {}
  BY <1>1 DEF StoredInv, Unique
<1> HIDE DEF c, t
<1>5. t \in TicksPast(c, offset) /\ t \in ToSet(c)
  <2>1. offset + 1 \in (offset + 1)..Len(c) /\ offset + 1 \in 1..Len(c)
    BY <1>1, <1>3
  <2>2. QED  BY <1>3, <2>1, InSequence DEF TicksPast
<1>6. t \in Unread(reading, offset)
  BY <1>1, <1>3, <1>5 DEF Unread, c
<1>7. t \notin TicksPast(c, offset + 2)
  <2> SUFFICES ASSUME NEW i \in (offset + 3)..Len(c), c[i] = t PROVE FALSE
    BY <1>1 DEF TicksPast
  <2>1. offset + 1 \in 1..Len(c) /\ i \in 1..Len(c) /\ offset + 1 < i
    BY <1>1, <1>3
  <2>2. i = offset + 2
    BY <1>1, <1>3, <1>4, <2>1 DEF Once
  <2>3. QED  BY <1>1, <2>2
<1>8. t \notin Unread(reading, offset + 2)
  <2>1. ~(t >= nextTick)
    BY <1>3, <1>4, <1>5 DEF Inv, WriterInv, Data, Tick
  <2>2. \A g \in Segment : g > reading => t \notin ToSet(Held(g))
    BY <1>1, <1>4, <1>5 DEF Segment
  <2>3. QED  BY <1>7, <2>1, <2>2 DEF Unread, c
<1>9. Unread(reading, offset)' = Unread(reading, offset + 2)
  BY <1>0, <1>2, UnreadStays
<1>10. Unread(reading, offset + 2) \subseteq Unread(reading, offset)
  BY <1>1, UnreadShrinks, Standing
<1>11. /\ buffer \in Seq(Tick) /\ t \notin ToSet(buffer)
       /\ \A i, j \in 1..Len(buffer) : buffer[i] = buffer[j] => i = j
  BY <1>6 DEF Inv, StreamerInv, Places, StoredInv, BufferInv
<1>12. /\ buffer' \in Seq(Tick) /\ Len(buffer') = Len(buffer) + 1
       /\ \A i \in 1..(Len(buffer) + 1) : IF i <= Len(buffer) THEN buffer'[i] = buffer[i]
                                                             ELSE buffer'[i] = t
  <2>1. buffer' = Append(buffer, t)
    BY <1>0 DEF t
  <2>2. QED  BY <1>3, <1>11, <2>1
<1>13. \A i \in 1..Len(buffer) : buffer[i] # t
  BY <1>11, InSequence
<1>14. \A i, j \in 1..Len(buffer') : buffer'[i] = buffer'[j] => i = j
  <2>1. Len(buffer) \in Nat
    BY <1>11
  <2>2. QED  BY <1>11, <1>12, <1>13, <2>1
<1>15. ToSet(buffer') = ToSet(buffer) \cup {t}
  <2>1. Len(buffer) \in Nat
    BY <1>11
  <2>2. \A u : u \in ToSet(buffer') <=> \E i \in 1..(Len(buffer) + 1) : buffer'[i] = u
    BY <1>12, InSequence
  <2>3. \A u : u \in ToSet(buffer) <=> \E i \in 1..Len(buffer) : buffer[i] = u
    BY <1>11, InSequence
  <2>4. Len(buffer) + 1 \in 1..(Len(buffer) + 1)
        /\ \A i \in 1..Len(buffer) : i \in 1..(Len(buffer) + 1)
    BY <2>1
  <2>5. QED  BY <1>12, <2>1, <2>2, <2>3, <2>4
<1>16. BufferInv'
  BY <1>8, <1>9, <1>10, <1>14, <1>15 DEF StoredInv, BufferInv
<1>17. \A u \in Tick : Copies(u)' = Copies(u)
  BY <1>0 DEF Copies
<1>18. CopiesInv'
  <2>1. Repeats' = Repeats
    BY DEF Repeats
  <2>2. ToSet(buffer') \cup Unread(reading, offset)' \subseteq ToSet(buffer) \cup Unread(reading, offset)
    BY <1>6, <1>9, <1>10, <1>15
  <2>3. pc # "down" /\ pc' # "down"
    BY <1>0
  <2>4. QED  BY <1>17, <2>1, <2>2, <2>3 DEF StoredInv, CopiesInv
<1>19. QED  BY <1>16, <1>18 DEF StoredInv

\* Rows reach the table, and the buffer is emptied or the fault is counted.
LEMMA FlushStores ==
    ASSUME Inv, StoredInv, Unique', faults' \in [FaultKind -> Nat],
           UNCHANGED <<content, writerVars>>,
           \/ FlushOk /\ Repeats' = Repeats
           \/ FlushFails(TRUE) /\ Repeats' = Repeats + 1
    PROVE  StoredInv'
<1>1. /\ pc # "down" /\ pc' # "down" /\ stored' = stored \o buffer
      /\ UNCHANGED <<reading, offset>> /\ buffer' \in {buffer, <<>>}
      /\ buffer' = <<>> \/ Repeats' = Repeats + 1
      /\ Repeats' \in {Repeats, Repeats + 1}
  BY DEF FlushOk, FlushFails, Flushing, AfterFlush
<1>2. /\ stored \in Seq(Tick) /\ buffer \in Seq(Tick)
      /\ \A i, j \in 1..Len(buffer) : buffer[i] = buffer[j] => i = j
  BY DEF Inv, StreamerInv, Places, StoredInv, BufferInv
<1>3. Unread(reading, offset)' = Unread(reading, offset)
  BY <1>1, UnreadStays
<1>4. BufferInv'
  BY <1>1, <1>3, NothingIn DEF StoredInv, BufferInv
<1>5. ASSUME NEW t \in Tick
      PROVE  /\ Copies(t)' \in Nat /\ Copies(t)' <= Copies(t) + 1
             /\ t \notin ToSet(buffer) => Copies(t)' = Copies(t)
  <2>1. /\ Cardinality(Rows(stored \o buffer, t)) \in Nat
        /\ Cardinality(Rows(stored \o buffer, t)) <= Cardinality(Rows(stored, t)) + 1
        /\ t \notin ToSet(buffer) => Rows(stored \o buffer, t) = Rows(stored, t)
    BY <1>2, StoredMore
  <2>2. Copies(t) = Cardinality(Rows(stored, t)) /\ Copies(t)' = Cardinality(Rows(stored', t))
    BY DEF Copies, Rows
  <2>3. QED  BY <1>1, <2>1, <2>2
<1>6. CopiesInv'
  <2> SUFFICES ASSUME NEW t \in Tick
               PROVE  /\ Copies(t)' <= Repeats' + 1
                      /\ t \in ToSet(buffer') \cup Unread(reading, offset)'
                             => Copies(t)' <= Repeats'
    BY <1>1 DEF CopiesInv
  <2>0. Repeats \in Nat /\ Copies(t) \in Nat
    BY CopiesTyped
  <2>1. CASE t \in ToSet(buffer)
    <3>1. Copies(t) <= Repeats /\ t \notin Unread(reading, offset)
      BY <2>1 DEF StoredInv, CopiesInv, BufferInv
    <3>2. CASE Repeats' = Repeats + 1
      BY <1>5, <2>0, <3>1, <3>2
    <3>3. CASE buffer' = <<>>
      BY <1>1, <1>3, <1>5, <2>0, <3>1, <3>3, NothingIn
    <3>4. QED  BY <1>1, <3>2, <3>3
  <2>2. CASE t \notin ToSet(buffer)
    <3>1. Copies(t) <= Repeats + 1 /\ (t \in Unread(reading, offset) => Copies(t) <= Repeats)
      BY <1>1 DEF StoredInv, CopiesInv
    <3>2. t \notin ToSet(buffer')
      BY <1>1, <2>2, NothingIn
    <3>3. QED  BY <1>1, <1>3, <1>5, <2>0, <2>2, <3>1, <3>2
  <2>3. QED  BY <2>1, <2>2
<1>7. QED  BY <1>4, <1>6 DEF StoredInv

\* A streamer that starts, and one that dies: what it had read it reads again.
LEMMA StartStores ==
    ASSUME Inv, StoredInv, Unique', faults' \in [FaultKind -> Nat],
           \/ StreamerStart /\ Repeats' = Repeats
           \/ StreamerKilled /\ Repeats' = Repeats + 1
    PROVE  StoredInv'
<1>1. stored' = stored /\ buffer' = <<>>
  BY DEF StreamerStart, StreamerKilled, Inv, StreamerInv, Memory
<1>2. BufferInv'
  BY <1>1, NothingIn DEF BufferInv
<1>3. ASSUME NEW t \in Tick PROVE Copies(t)' = Copies(t) /\ Copies(t)' <= Repeats'
  <2>1. Copies(t)' = Copies(t)
    BY <1>1 DEF Copies
  <2>2. CASE StreamerStart /\ Repeats' = Repeats
    BY <2>1, <2>2 DEF StreamerStart, StoredInv, CopiesInv
  <2>3. CASE Repeats' = Repeats + 1
    BY <2>1, <2>3 DEF StoredInv, CopiesInv
  <2>4. QED  BY <2>1, <2>2, <2>3
<1>4. Repeats' \in Nat
  BY DEF Repeats, FaultKind
<1>5. CopiesInv'
  <2> SUFFICES ASSUME NEW t \in Tick PROVE Copies(t)' <= Repeats' /\ Copies(t)' <= Repeats' + 1
    BY DEF CopiesInv
  <2>1. Copies(t)' \in Nat
    BY <1>3, CopiesTyped
  <2>2. QED  BY <1>3, <1>4, <2>1
<1>6. QED  BY <1>2, <1>5 DEF StoredInv

\* The steps that move the streamer on, or nothing at all.
LEMMA OtherStores ==
    ASSUME Inv, StoredInv, Unique', faults' \in [FaultKind -> Nat], Repeats' = Repeats,
           UNCHANGED <<content, writerVars>>,
           \/ Scan \/ ReadFragment \/ ReadNothing \/ ListNewer \/ ListNone
           \/ SaveWatermark \/ Rotate \/ PurgeOld \/ FlushFallsDue
           \/ FlushFails(FALSE) \/ EodCleanup \/ (SpaceChanges /\ UNCHANGED streamerVars)
    PROVE  StoredInv'
<1>1. /\ pc' = "down" <=> pc = "down"
      /\ UNCHANGED <<buffer, stored>>
      /\ reading' \in Nat /\ offset' \in Nat
      /\ reading' > reading \/ (reading' = reading /\ offset' >= offset)
  BY GoesForward
<1>2. reading \in Nat /\ offset \in Nat
  BY Standing
<1>3. PICK h, e : h = reading' /\ e = offset'
  OBVIOUS
<1>4. Unread(h, e) \subseteq Unread(reading, offset)
  BY <1>1, <1>2, <1>3, UnreadShrinks
<1>5. Unread(reading, offset)' = Unread(h, e)
  BY <1>3, UnreadStays
<1>6. (pc' = "down") = (pc = "down")
  BY <1>1
<1>7. QED  BY <1>1, <1>4, <1>5, <1>6, MovesOn

\* The writer, and a step that changes nothing.
LEMMA WriterStores ==
    ASSUME Inv, StoredInv, UNCHANGED streamerVars,
           \/ WriterStep \/ WriterFault
           \/ UNCHANGED vars
    PROVE  StoredInv'
<1>1. UNCHANGED <<pc, reading, offset, buffer, stored>>
  BY DEF streamerVars
<1>2. faults' \in [FaultKind -> Nat] /\ Repeats' = Repeats
  <2>1. CASE WriterFault
    BY <2>1, FaultCounts DEF WriterFault, FaultKind
  <2>2. CASE WriterStep \/ UNCHANGED vars
    BY <2>2 DEF WriterStep, vars, StoredInv, Repeats
  <2>3. QED  BY <2>1, <2>2
<1>3. Unique' /\ Unread(reading, offset)' \subseteq Unread(reading, offset)
  <2>1. CASE WriterStep \/ WriterFault
    <3>1. reading \in 0..opened /\ offset \in Nat
      BY Standing
    <3>2. PICK h, e : h = reading /\ e = offset
      OBVIOUS
    <3>3. Unique' /\ Unread(h, e)' \subseteq Unread(h, e)
      BY <2>1, <3>1, <3>2, WriterUnique DEF Inv, StoredInv
    <3>4. Unread(reading, offset)' = Unread(h, e)'
      BY <1>1, <3>2
    <3>5. QED  BY <3>2, <3>3, <3>4
  <2>2. CASE UNCHANGED vars
    BY <1>1, <2>2, UnreadStays DEF vars, StoredInv
  <2>3. QED  BY <2>1, <2>2
<1>4. QED  BY <1>1, <1>2, <1>3, MovesOn

LEMMA StoredKept == Inv /\ StoredInv /\ [Next]_vars => StoredInv'
<1> SUFFICES ASSUME Inv, StoredInv, [Next]_vars PROVE StoredInv'
  OBVIOUS
<1>1. CASE WriterStep \/ WriterFault \/ UNCHANGED vars
  BY <1>1, WriterStores DEF WriterStep, WriterFault, vars
<1>2. CASE StreamerLoop \/ TimerStep \/ StreamerFault \/ MachineFault
  <2>1. UNCHANGED <<content, writerVars>>
    BY <1>2, StreamerOnlyDeletes
  <2>2. Unique'
    BY <2>1, UnreadStays DEF StoredInv
  <2>3. CASE StreamerLoop \/ TimerStep
    <3>1. faults' = faults /\ faults' \in [FaultKind -> Nat] /\ Repeats' = Repeats
      BY <2>3 DEF StreamerLoop, TimerStep, StoredInv, Repeats
    <3>2. QED
      BY <2>1, <2>2, <2>3, <3>1, StartStores, ReadLineStores, FlushStores, OtherStores
         DEF StreamerLoop, TimerStep
  <2>4. CASE StreamerFault
    <3>1. CASE StreamerKilled /\ Fault("streamer")
      BY <2>1, <2>2, <3>1, FaultCounts, StartStores DEF FaultKind
    <3>2. CASE FlushFails(FALSE) /\ Fault("insert")
      BY <2>1, <2>2, <3>2, FaultCounts, OtherStores DEF FaultKind
    <3>3. CASE FlushFails(TRUE) /\ Fault("applied")
      BY <2>1, <2>2, <3>3, FaultCounts, FlushStores DEF FaultKind
    <3>4. QED  BY <2>4, <3>1, <3>2, <3>3 DEF StreamerFault
  <2>5. CASE MachineFault
    <3>1. CASE SpaceChanges /\ Fault("disk") /\ UNCHANGED streamerVars
      BY <2>1, <2>2, <3>1, FaultCounts, OtherStores DEF FaultKind
    <3>2. CASE EodCleanup /\ Fault("cleanup")
      BY <2>1, <2>2, <3>2, FaultCounts, OtherStores DEF FaultKind
    <3>3. QED  BY <2>5, <3>1, <3>2 DEF MachineFault
  <2>6. QED  BY <1>2, <2>3, <2>4, <2>5
<1>3. QED  BY <1>1, <1>2 DEF Next

LEMMA StoredStarts == Init => StoredInv
<1> SUFFICES ASSUME Init PROVE StoredInv
  OBVIOUS
<1> USE DEF Init, DirInit, WriterInit, StreamerInit
<1>1. <<>> \in Seq(Tick) /\ Len(<<>>) = 0 /\ ToSet(<<>>) = {}
  BY NothingIn
<1>2. \A f \in Segment : Held(f) = <<>>
  <2>1. <<>> \o <<>> = <<>>
    BY <1>1, ConcatEmptySeq
  <2>2. QED  BY <2>1 DEF Held
<1>3. Unique /\ BufferInv
  BY <1>1, <1>2 DEF Unique, Once, BufferInv
<1>4. faults \in [FaultKind -> Nat] /\ Repeats = 0
  BY DEF Repeats, FaultKind
<1>5. \A t \in Tick : Copies(t) = 0
  <2> SUFFICES ASSUME NEW t \in Tick PROVE Cardinality({i \in DOMAIN stored : stored[i] = t}) = 0
    BY DEF Copies
  <2>1. {i \in DOMAIN stored : stored[i] = t} = {}
    BY <1>1
  <2>2. QED  BY <2>1, FS_EmptySet
<1>6. QED  BY <1>3, <1>4, <1>5 DEF StoredInv, CopiesInv

\* ClickHouse holds a tick once more than the faults that may repeat it: the
\* streamer never inserts a row it still has to read, nor one it has inserted,
\* and the collector never writes a tick in two places.
THEOREM StoredOnceButForFaults == Spec => []BoundedDuplication
<1>1. StoredInv => BoundedDuplication
  <2> SUFFICES ASSUME StoredInv, NEW t \in Tick
               PROVE  Copies(t) <= 1 + faults["streamer"] + faults["applied"]
    BY DEF BoundedDuplication
  <2>1. Copies(t) <= Repeats + 1
    BY DEF StoredInv, CopiesInv
  <2>2. faults["streamer"] \in Nat /\ faults["applied"] \in Nat
    BY DEF StoredInv, FaultKind
  <2>3. Repeats + 1 = 1 + faults["streamer"] + faults["applied"]
    BY <2>2 DEF Repeats
  <2>4. QED  BY <2>1, <2>3
<1>2. QED  BY <1>1, InvStarts, InvKept, StoredStarts, StoredKept, PTL DEF Spec

-----------------------------------------------------------------------------
(* The open segments stay: the quota takes the oldest first and stops when   *)
(* what is left fits, and the segments both processes have open fit.         *)

\* A segment holds no more lines than the writer counts, half lines of the
\* stream buffer included, and the names to come have nothing in them.
Sizes ==
    /\ lines \in 0..SegmentLines
    /\ \A f \in Segment : /\ Len(Held(f)) <= 2 * SegmentLines
                          /\ f = current => Len(Held(f)) <= 2 * lines
                          /\ f > opened => Len(Held(f)) = 0

\* Nobody else has filled the disk.
Roomy == faults["disk"] = 0 => space = "ok"

\* Unless the cleanup has run, the segments in use are listed.
Listed ==
    faults["cleanup"] = 0 =>
        /\ pc \notin {"down", "scan"} => reading \in files
        /\ pc \in {"drain", "rotate"} => target \in files
        /\ faults["disk"] = 0 /\ current # NoFile => current \in files

OpenInv == faults \in [FaultKind -> Nat] /\ Sizes /\ Roomy /\ Listed

\* How a step of the collector changes the length of what it wrote to f.
Longer(f) ==
    \/ Len(Held(f)') <= Len(Held(f))
    \/ f = current /\ f = current' /\ Taken /\ Len(Held(f)') = Len(Held(f)) + 2
    \/ f = opened + 1 /\ f = current' /\ Taken /\ Len(Held(f)') = 2

\* It is all a step of the collector does to f.
LEMMA WriterLengthens ==
    ASSUME WriterInv, WriterStep \/ WriterFault, NEW f \in Segment
    PROVE  Longer(f) /\ Len(Held(f)) \in Nat /\ Len(Held(f)') \in Nat
<1>1. /\ Held(f) \in Seq(Tick) /\ content[f] \in Seq(Tick) /\ pending \in Seq(Tick)
      /\ f # current => Held(f) = content[f]
  BY HeldTyped DEF WriterInv, Data
<1>2. Len(content[f]) <= Len(Held(f)) /\ Len(content[f]) \in Nat /\ Len(Held(f)) \in Nat
  <2>1. CASE f # current
    BY <1>1, <2>1
  <2>2. CASE f = current
    <3>1. Held(f) = content[f] \o pending
      BY <2>2 DEF Held
    <3>2. Len(content[f] \o pending) = Len(content[f]) + Len(pending)
      BY <1>1, Together
    <3>3. QED  BY <1>1, <3>1, <3>2
  <2>3. QED  BY <2>1, <2>2
<1>3. HeldStep(f)
  BY WriterHolds
<1>4. CASE Held(f)' \in {Held(f), content[f], <<>>}
  BY <1>2, <1>4, NothingIn DEF Longer
<1>5. CASE f = current /\ f = current' /\ Taken /\ Held(f)' = Held(f) \o Line(nextTick)
  <2>1. Line(nextTick) \in Seq(Tick) /\ Len(Line(nextTick)) = 2
    BY <1>5, LineIn DEF Taken
  <2>2. Len(Held(f) \o Line(nextTick)) = Len(Held(f)) + Len(Line(nextTick))
    BY <1>1, <2>1, Together
  <2>3. QED  BY <1>2, <1>5, <2>1, <2>2 DEF Longer
<1>6. CASE f = opened + 1 /\ f = current' /\ Taken /\ Held(f)' = Line(nextTick)
  <2>1. Len(Line(nextTick)) = 2
    BY <1>6, LineIn DEF Taken
  <2>2. QED  BY <1>2, <1>6, <2>1 DEF Longer
<1>7. QED  BY <1>3, <1>4, <1>5, <1>6 DEF HeldStep

\* What the collector writes is counted.
LEMMA WriterSizes ==
    ASSUME Inv, Sizes, WriterStep \/ WriterFault
    PROVE  Sizes'
<1>0. /\ WriterInv /\ SegmentLines \in Nat /\ SegmentLines >= 1
      /\ lines \in Nat /\ lines <= SegmentLines
      /\ opened \in Nat /\ current \in {NoFile, opened}
  BY WriterAssumption DEF Inv, WriterInv, SegInv, Sizes
<1>1. \A f \in Segment : /\ f \in Nat /\ f # NoFile
                         /\ Longer(f) /\ Len(Held(f)) \in Nat /\ Len(Held(f)') \in Nat
                         /\ Len(Held(f)) <= 2 * SegmentLines
                         /\ f = current => Len(Held(f)) <= 2 * lines
                         /\ f > opened => Len(Held(f)) = 0
  <2>1. \A f \in Segment : f \in Nat /\ f # NoFile
    BY BoundsAssumption DEF Segment
  <2>2. \A f \in Segment : Longer(f) /\ Len(Held(f)) \in Nat /\ Len(Held(f)') \in Nat
    BY <1>0, WriterLengthens
  <2>3. QED  BY <2>1, <2>2 DEF Sizes
<1>2. /\ opened' \in Nat /\ opened <= opened' /\ current' \in {NoFile, opened'}
      /\ opened' = opened => current' \in {NoFile, current}
      /\ opened' # opened => opened' = opened + 1 /\ current' = opened + 1
  BY <1>0, WriterOpensNewest DEF WriterInv, SegInv
<1> SUFFICES ASSUME NEW f \in Segment
             PROVE  /\ lines' \in 0..SegmentLines
                    /\ Len(Held(f)') <= 2 * SegmentLines
                    /\ f = current' => Len(Held(f)') <= 2 * lines'
                    /\ f > opened' => Len(Held(f)') = 0
  <2>1. Sizes' <=> /\ lines' \in 0..SegmentLines
                   /\ \A f \in Segment : /\ Len(Held(f)') <= 2 * SegmentLines
                                         /\ f = current' => Len(Held(f)') <= 2 * lines'
                                         /\ f > opened' => Len(Held(f)') = 0
    BY DEF Sizes
  <2>2. lines' \in 0..SegmentLines
    <3>1. lines' \in {lines, 0, 1} \/ (lines' = lines + 1 /\ ~(lines >= SegmentLines))
      BY DEF WriterStep, WriterFault, WriteTick, WriteHalted, WriteAppend, WriteRotate,
             WriteRotateFails, SegmentAges, WriterStart, WriterStops, WriterKilled, ShouldRotate
    <3>2. QED  BY <1>0, <3>1
  <2>3. QED  BY <2>1, <2>2
<1>a. /\ f \in Nat /\ f # NoFile /\ Longer(f) /\ Len(Held(f)) \in Nat /\ Len(Held(f)') \in Nat
      /\ Len(Held(f)) <= 2 * SegmentLines
      /\ f = current => Len(Held(f)) <= 2 * lines
      /\ f > opened => Len(Held(f)) = 0
  BY <1>1
<1>3. CASE WriteAppend
  <2>1. lines' = lines + 1 /\ ~(lines >= SegmentLines) /\ current' = current /\ opened' = opened
    BY <1>3 DEF WriteAppend, ShouldRotate
  <2>2. QED  BY <1>0, <1>2, <1>a, <2>1 DEF Longer
<1>4. CASE WriteRotate
  <2>1. lines' = 1 /\ opened' = opened + 1 /\ current' = opened + 1
    BY <1>4 DEF WriteRotate, OpenNext
  <2>2. \/ Len(Held(f)') <= Len(Held(f))
        \/ f = opened + 1 /\ Len(Held(f)') = 2
    BY <1>0, <1>a, <2>1 DEF Longer
  <2>3. PICK l \in Nat, m \in Nat : l = Len(Held(f)) /\ m = Len(Held(f)')
    BY <1>a
  <2>4. /\ m <= l \/ (f = opened + 1 /\ m = 2)
        /\ l <= 2 * SegmentLines /\ (f > opened => l = 0)
    BY <1>a, <2>2, <2>3
  <2>5. m <= 2 * SegmentLines /\ (f = opened + 1 => m <= 2 * 1) /\ (f > opened + 1 => m = 0)
    BY <1>0, <1>a, <2>4
  <2>6. 1 \in 0..SegmentLines
    BY <1>0
  <2>7. QED  BY <2>1, <2>3, <2>5, <2>6
<1>5. CASE WriteHalted \/ SegmentAges
  <2>1. UNCHANGED <<content, current, pending, lines, opened>>
    BY <1>5 DEF WriteHalted, SegmentAges
  <2>2. Held(f)' = Held(f)
    BY <2>1 DEF Held
  <2>3. QED  BY <1>0, <1>a, <2>1, <2>2
<1>6. CASE WriterStart
  <2>1. lines' = 0 /\ nextTick' = nextTick /\ ~running
    BY <1>6 DEF WriterStart
  <2>2. ~Taken /\ current = NoFile
    BY <2>1 DEF Taken, Tick, Inv, WriterInv, Whole
  <2>3. QED  BY <1>0, <1>2, <1>a, <2>1, <2>2 DEF Longer
<1>7. CASE WriteRotateFails \/ WriterStops \/ WriterKilled
  <2>1. lines' = lines /\ current' = NoFile /\ opened' = opened
    BY <1>7 DEF WriteRotateFails, WriterStops, WriterKilled
  <2>2. QED  BY <1>0, <1>a, <2>1 DEF Longer
<1>8. QED
  BY <1>3, <1>4, <1>5, <1>6, <1>7 DEF WriterStep, WriterFault, WriteTick

\* A listed segment holds two half lines for each line it may have.
LEMMA SizeOfOpen ==
    ASSUME Inv, Sizes, NEW f \in Segment
    PROVE  Len(content[f]) \in Nat /\ Len(content[f]) <= 2 * SegmentLines
<1>1. /\ Held(f) \in Seq(Tick) /\ content[f] \in Seq(Tick) /\ pending \in Seq(Tick)
      /\ f # current => Held(f) = content[f]
      /\ Len(Held(f)) <= 2 * SegmentLines
      /\ SegmentLines \in Nat
  BY HeldTyped, WriterAssumption DEF Inv, WriterInv, Data, Sizes
<1>2. CASE f # current
  BY <1>1, <1>2
<1>3. CASE f = current
  <2>1. Held(f) = content[f] \o pending
    BY <1>3 DEF Held
  <2>2. Len(content[f] \o pending) = Len(content[f]) + Len(pending)
    BY <1>1, Together
  <2>3. QED  BY <1>1, <2>1, <2>2
<1>4. QED  BY <1>2, <1>3

\* Two segments at most are no larger than two full ones.
LEMMA SizeOfTwo ==
    ASSUME Inv, Sizes, NEW a \in Segment, NEW b \in Segment, NEW F \in SUBSET {a, b}
    PROVE  Size(F) \in Int /\ Size(F) <= 4 * SegmentLines
<1> DEFINE len == [f \in F |-> Len(content[f])]
<1>0. /\ SegmentLines \in Nat
      /\ \A f \in F : len[f] \in Nat /\ len[f] <= 2 * SegmentLines
      /\ DOMAIN len = F
  BY SizeOfOpen, WriterAssumption
<1>1. Size(F) = SumOf(len, F)
  BY DEF Size, SumFunction, SumOf
<1> HIDE DEF len
<1>2. IsFiniteSet(F)
  <2>1. IsFiniteSet({a, b})
    <3>1. IsFiniteSet({} \cup {a})
      BY FS_EmptySet, FS_AddElement
    <3>2. IsFiniteSet(({} \cup {a}) \cup {b}) /\ ({} \cup {a}) \cup {b} = {a, b}
      BY <3>1, FS_AddElement
    <3>3. QED  BY <3>2
  <2>2. QED  BY <2>1, FS_Subset
<1>3. Addable(len, F)
  BY <1>0, <1>2 DEF Addable
<1>4. SumOf(len, {}) = 0
  BY SumNothing
<1>5. CASE F = {}
  BY <1>0, <1>1, <1>4, <1>5
<1>6. ASSUME NEW x \in F, F \ {x} = {}
      PROVE  Size(F) \in Int /\ Size(F) <= 4 * SegmentLines
  BY <1>0, <1>1, <1>3, <1>4, <1>6, SumOne
<1>7. ASSUME NEW x \in F, NEW y \in F \ {x}, (F \ {x}) \ {y} = {}
      PROVE  Size(F) \in Int /\ Size(F) <= 4 * SegmentLines
  <2>1. Addable(len, F \ {x})
    BY <1>3, PartAddable
  <2>2. SumOf(len, F) = len[x] + SumOf(len, F \ {x})
    BY <1>3, SumOne
  <2>3. SumOf(len, F \ {x}) = len[y] + SumOf(len, (F \ {x}) \ {y})
    BY <2>1, SumOne
  <2>4. PICK m \in Nat, n \in Nat : m = len[x] /\ n = len[y]
    BY <1>0
  <2>5. Size(F) = m + (n + 0)
    BY <1>1, <1>4, <1>7, <2>2, <2>3, <2>4
  <2>6. m <= 2 * SegmentLines /\ n <= 2 * SegmentLines
    BY <1>0, <2>4
  <2>7. QED  BY <1>0, <2>4, <2>5, <2>6
<1>8. \/ F = {}
      \/ \E x \in F : F \ {x} = {}
      \/ \E x \in F : \E y \in F \ {x} : (F \ {x}) \ {y} = {}
  <2>1. CASE a \in F /\ b \in F \ {a}
    BY <2>1
  <2>2. CASE a \in F /\ b \notin F \ {a}
    BY <2>2
  <2>3. CASE a \notin F
    BY <2>3
  <2>4. QED  BY <2>1, <2>2, <2>3
<1>9. QED  BY <1>5, <1>6, <1>7, <1>8

\* With the disk never low, the quota spares the newest segment, and the one it
\* is given or, if it is given none, the newest again.
LEMMA QuotaSparesNewest ==
    ASSUME Inv, Sizes, space = "ok", NEW F \in SUBSET files, NEW f \in Nat,
           current \in F
    PROVE  current \notin Evicted(F, f)
<1> SUFFICES ASSUME current \in Evicted(F, f) PROVE FALSE
  OBVIOUS
<1> DEFINE spare == Spared(F, f)
           R == {g \in F : g >= current \/ g = spare}
<1>1. /\ current # spare /\ Size(R) > QuotaLow
  BY DEF Evicted
<1>2. \A g \in F : g \in Segment /\ g \in Nat /\ (g >= current <=> g = current)
  <2>1. /\ opened \in Nat /\ files \subseteq 1..opened /\ current \in {NoFile, opened}
        /\ files \subseteq Segment
    BY Standing DEF Inv, WriterInv, SegInv
  <2>2. \A g \in F : g \in 1..opened /\ g \in Segment
    BY <2>1
  <2>3. current = opened
    <3>1. current # NoFile
      BY <2>2
    <3>2. QED  BY <2>1, <3>1
  <2>4. QED  BY <2>1, <2>2, <2>3
<1> HIDE DEF spare
<1>3. /\ current \in Segment /\ R \in SUBSET Segment
      /\ \E b \in Segment : R \in SUBSET {current, b}
  <2>1. current \in Segment /\ R \in SUBSET Segment
    BY <1>2
  <2>2. CASE spare \in Segment
    BY <1>2, <2>1, <2>2
  <2>3. CASE spare \notin Segment
    BY <1>2, <2>1, <2>3
  <2>4. QED  BY <2>1, <2>2, <2>3
<1> HIDE DEF R
<1>4. Size(R) \in Int /\ Size(R) <= 4 * SegmentLines
  BY <1>3, SizeOfTwo
<1>5. QED
  BY <1>1, <1>4, QuotaAssumption, StreamerAssumption, WriterAssumption

\* So a deletion of older segments leaves the open ones.
LEMMA DeletionKeeps ==
    ASSUME Inv, Sizes, NEW P \in SUBSET files, NEW f \in Nat, PurgeThenQuota(P, f),
           \A g \in P : g < f \/ f = NoFile
    PROVE  /\ f \in files \ P => f \in files'
           /\ space = "ok" /\ current \in files \ P => current \in files'
<1>1. files' = (files \ P) \ Evicted(files \ P, f)
  BY DEF PurgeThenQuota
<1>2. f \in files => f # NoFile
  BY Standing
<1>3. f # NoFile => f \notin Evicted(files \ P, f)
  BY DEF Evicted, Spared
<1>4. space = "ok" /\ current \in files \ P => current \notin Evicted(files \ P, f)
  BY QuotaSparesNewest
<1>5. QED  BY <1>1, <1>2, <1>3, <1>4

\* A fault is counted.
LEMMA FaultAdds ==
    ASSUME faults \in [FaultKind -> Nat], NEW k \in FaultKind, Fault(k)
    PROVE  /\ faults' \in [FaultKind -> Nat] /\ faults'[k] # 0
           /\ \A j \in FaultKind : faults'[j] = 0 => faults[j] = 0
<1>1. faults' = [faults EXCEPT ![k] = @ + 1]
  BY DEF Fault
<1>2. \A j \in FaultKind : faults'[j] = (IF j = k THEN faults[j] + 1 ELSE faults[j]) /\ faults[j] \in Nat
  BY <1>1
<1>3. faults' \in [FaultKind -> Nat]
  BY <1>1, <1>2
<1>4. QED  BY <1>2, <1>3

\* Nothing happens to the directory, and the loop goes on with its segment.
LEMMA StillListed ==
    ASSUME Listed, UNCHANGED <<files, reading, target, current, faults>>,
           pc' \in {"down", "scan"} \/ pc \notin {"down", "scan"},
           pc' \in {"drain", "rotate"} => pc \in {"drain", "rotate"}
    PROVE  Listed'
  BY DEF Listed

\* Whatever the streamer deletes, the segment the collector writes stays while
\* the disk has room.
LEMMA NewestStays ==
    ASSUME Inv, Sizes, Roomy, NEW f \in Nat, NEW P \in SUBSET files,
           PurgeThenQuota(P, f), \A g \in P : g < f, f <= opened
    PROVE  /\ f \in files => f \in files'
           /\ faults["disk"] = 0 /\ current \in files => current \in files'
<1>1. /\ f \in files \ P => f \in files'
      /\ space = "ok" /\ current \in files \ P => current \in files'
  BY DeletionKeeps
<1>2. f \notin P
  BY Standing
<1>3. current \notin P
  <2>1. current \in {NoFile, opened} /\ opened \in Nat
    BY DEF Inv, WriterInv, SegInv
  <2>2. \A g \in P : g \in Nat /\ g > NoFile /\ g < opened
    BY <2>1, Standing
  <2>3. QED  BY <2>1, <2>2
<1>4. QED  BY <1>1, <1>2, <1>3 DEF Roomy

\* A step of the streamer's loop.
LEMMA LoopListed ==
    ASSUME Inv, Sizes, Roomy, Listed, UNCHANGED <<current, faults>>, StreamerLoop \/ TimerStep
    PROVE  Listed'
<1>0. /\ pc \in Labels /\ Order /\ opened \in Nat /\ files \subseteq 1..opened
      /\ watermark.file \in Nat /\ watermark.file <= opened
      /\ reading \in Nat /\ reading <= opened
  BY Standing DEF Inv, StreamerInv, Places, WriterInv, SegInv
<1>1. CASE ReadFragment \/ ReadNothing \/ ListNone \/ FlushOk \/ FlushFallsDue
  <2>1. /\ UNCHANGED <<files, reading, target>>
        /\ pc' \in {"down", "scan"} \/ pc \notin {"down", "scan"}
        /\ pc' \in {"drain", "rotate"} => pc \in {"drain", "rotate"}
    BY <1>1 DEF ReadFragment, ReadNothing, ListNone, FlushOk, FlushFallsDue, NoDirChange,
                AfterFlush, Flushing
  <2>2. QED  BY <2>1, StillListed
<1>2. CASE StreamerStart
  <2>1. /\ pc' = "scan" /\ UNCHANGED target
        /\ PurgeThenQuota({f \in files : f < watermark.file}, watermark.file)
        /\ pc = "down" /\ reading' = watermark.file
    BY <1>2 DEF StreamerStart
  <2>2. PICK f \in Nat : f = watermark.file
    BY <1>0
  <2> DEFINE P == {g \in files : g < f}
  <2>3. PurgeThenQuota(P, f) /\ f <= opened /\ P \in SUBSET files /\ \A g \in P : g < f
    BY <1>0, <2>1, <2>2
  <2> HIDE DEF P
  <2>4. faults["cleanup"] = 0 /\ faults["disk"] = 0 /\ current # NoFile => current \in files'
    BY <2>3, NewestStays DEF Listed
  <2>5. QED  BY <2>1, <2>4 DEF Listed
<1>3. CASE Scan
  <2>1. /\ pc' = "read" /\ files' = files /\ files # {}
        /\ reading' = reading \/ reading' = Min(files)
        /\ reading \in files => reading' = reading
        /\ reading \notin files => reading' = Min(files)
    BY <1>3 DEF Scan, NoDirChange
  <2>2. Min(files) \in files
    BY <2>1, Standing, LeastListed
  <2>3. QED  BY <2>1, <2>2 DEF Listed
<1>4. CASE ReadLine \/ SaveWatermark
  <2>1. /\ UNCHANGED <<reading, target>> /\ MaybeQuota
        /\ pc \notin {"down", "scan"} /\ pc' \in Labels \ {"down", "scan", "drain", "rotate"}
    BY <1>4 DEF ReadLine, SaveWatermark, MaybeQuota, Labels
  <2>2. CASE NoDirChange
    BY <2>1, <2>2, StillListed DEF NoDirChange
  <2>3. CASE PurgeThenQuota({}, reading)
    <3>1. PICK f \in Nat : f = reading /\ f <= opened
      BY <1>0
    <3>2. PurgeThenQuota({}, f)
      BY <2>3, <3>1
    <3>3. /\ f \in files => f \in files'
          /\ faults["disk"] = 0 /\ current \in files => current \in files'
      BY <3>1, <3>2, NewestStays
    <3>4. QED  BY <2>1, <3>1, <3>3 DEF Listed
  <2>4. QED  BY <2>1, <2>2, <2>3 DEF MaybeQuota
<1>5. CASE ListNewer
  <2>1. /\ pc = "list" /\ pc' \in {"drain", "rotate"} /\ HasNewer(reading)
        /\ target' = NextAfter(reading) /\ UNCHANGED <<reading, files>>
    BY <1>5 DEF ListNewer, NoDirChange
  <2>2. target' \in files
    <3> DEFINE later == {g \in files : reading \in files => g > reading}
    <3>1. later # {} /\ later \in SUBSET Nat
      BY <2>1, Standing DEF HasNewer
    <3>2. target' = Min(later)
      BY <2>1 DEF NextAfter
    <3> HIDE DEF later
    <3>3. target' \in later
      BY <3>1, <3>2, LeastListed
    <3>4. QED  BY <3>3 DEF later
  <2>3. QED  BY <2>1, <2>2 DEF Listed
<1>6. CASE Rotate
  <2>1. pc = "rotate" /\ pc' = "purge" /\ reading' = target /\ UNCHANGED <<target, files>>
    BY <1>6 DEF Rotate
  <2>2. QED  BY <2>1 DEF Listed
<1>7. CASE PurgeOld
  <2>1. pc' = "scan" /\ PurgeThenQuota({f \in files : f < reading}, reading)
    BY <1>7 DEF PurgeOld
  <2>2. PICK f \in Nat : f = reading /\ f <= opened
    BY <1>0
  <2> DEFINE P == {g \in files : g < f}
  <2>3. PurgeThenQuota(P, f) /\ P \in SUBSET files /\ \A g \in P : g < f
    BY <2>1, <2>2
  <2> HIDE DEF P
  <2>4. faults["cleanup"] = 0 /\ faults["disk"] = 0 /\ current # NoFile => current \in files'
    BY <2>2, <2>3, NewestStays DEF Listed
  <2>5. QED  BY <2>1, <2>4 DEF Listed
<1>8. QED
  BY <1>1, <1>2, <1>3, <1>4, <1>5, <1>6, <1>7 DEF StreamerLoop, TimerStep

\* What the streamer, its faults and the machine do.
LEMMA StreamerKeepsOpen ==
    ASSUME Inv, OpenInv, StreamerLoop \/ TimerStep \/ StreamerFault \/ MachineFault
    PROVE  OpenInv'
<1> USE DEF OpenInv
<1>0. UNCHANGED <<content, lines, opened, current, pending>>
  BY StreamerOnlyDeletes DEF writerVars
<1>1. Sizes'
  BY <1>0 DEF Sizes, Held
<1>2. {"streamer", "insert", "applied", "disk", "cleanup"} \subseteq FaultKind
  BY DEF FaultKind
<1>3. CASE StreamerLoop \/ TimerStep
  <2>1. faults' = faults
    BY <1>3 DEF StreamerLoop, TimerStep
  <2>2. space' = space
    BY <1>3 DEF StreamerLoop, TimerStep, StreamerStart, Scan, ReadLine, ReadFragment, ReadNothing,
                ListNewer, ListNone, FlushOk, FlushFallsDue, SaveWatermark, Rotate, PurgeOld,
                MaybeQuota, NoDirChange, PurgeThenQuota
  <2>3. QED  BY <1>0, <1>1, <1>3, <2>1, <2>2, LoopListed DEF Roomy
<1>4. CASE StreamerFault
  <2>1. PICK k \in FaultKind : Fault(k)
    BY <1>2, <1>4 DEF StreamerFault
  <2>2. /\ faults' \in [FaultKind -> Nat]
        /\ \A j \in FaultKind : faults'[j] = 0 => faults[j] = 0
    BY <2>1, FaultAdds
  <2>3. /\ files' = files /\ space' = space
        /\ \/ pc' = "down"
           \/ /\ UNCHANGED <<reading, target>> /\ pc \notin {"down", "scan"}
              /\ pc' \notin {"drain", "rotate"}
    BY <1>4 DEF StreamerFault, StreamerKilled, FlushFails, NoDirChange, AfterFlush, Flushing
  <2>4. QED  BY <1>0, <1>1, <1>2, <2>2, <2>3 DEF Roomy, Listed
<1>5. CASE MachineFault
  <2>1. CASE SpaceChanges /\ Fault("disk") /\ UNCHANGED streamerVars
    <3>1. /\ UNCHANGED <<files, pc, reading, target>>
      BY <2>1 DEF SpaceChanges, streamerVars
    <3>2. /\ faults' \in [FaultKind -> Nat] /\ faults'["disk"] # 0
          /\ faults'["cleanup"] = 0 => faults["cleanup"] = 0
      BY <1>2, <2>1, FaultAdds
    <3>3. QED  BY <1>1, <3>1, <3>2 DEF Roomy, Listed
  <2>2. CASE EodCleanup /\ Fault("cleanup")
    <3>1. space' = space
      BY <2>2 DEF EodCleanup
    <3>2. /\ faults' \in [FaultKind -> Nat] /\ faults'["cleanup"] # 0
          /\ faults'["disk"] = 0 => faults["disk"] = 0
      BY <1>2, <2>2, FaultAdds
    <3>3. QED  BY <1>1, <3>1, <3>2 DEF Roomy, Listed
  <2>3. QED  BY <1>5, <2>1, <2>2 DEF MachineFault
<1>6. QED  BY <1>3, <1>4, <1>5

\* What the collector does: it deletes nothing, and has open what it lists.
LEMMA WriterKeepsOpen ==
    ASSUME Inv, OpenInv, WriterStep \/ WriterFault
    PROVE  OpenInv'
<1> USE DEF OpenInv
<1>1. Sizes'
  BY WriterSizes
<1>2. UNCHANGED <<pc, reading, target>>
  BY DEF WriterStep, WriterFault, streamerVars
<1>3. space' = space
  BY DEF WriterStep, WriterFault, WriteTick, WriteHalted, WriteAppend, WriteRotate,
         WriteRotateFails, SegmentAges, WriterStart, WriterStops, WriterKilled
<1>4. /\ faults' \in [FaultKind -> Nat]
      /\ \A j \in FaultKind : faults'[j] = 0 => faults[j] = 0
  <2>1. "writer" \in FaultKind
    BY DEF FaultKind
  <2>2. CASE WriterStep
    BY <2>2 DEF WriterStep
  <2>3. CASE WriterFault
    BY <2>1, <2>3, FaultAdds DEF WriterFault
  <2>4. QED  BY <2>2, <2>3
<1>5. "disk" \in FaultKind /\ "cleanup" \in FaultKind
  BY DEF FaultKind
<1>6. files \subseteq files' /\ (current' \in files' \/ current' \in {NoFile, current})
  BY WriterOpensNewest DEF Inv, WriterInv
<1>7. QED  BY <1>1, <1>2, <1>3, <1>4, <1>5, <1>6 DEF Roomy, Listed

\* Every step keeps the open segments listed.
LEMMA OpenKept == Inv /\ OpenInv /\ [Next]_vars => OpenInv'
<1> SUFFICES ASSUME Inv, OpenInv, [Next]_vars PROVE OpenInv'
  OBVIOUS
<1>1. CASE UNCHANGED vars
  BY <1>1 DEF vars, writerVars, streamerVars, OpenInv, Sizes, Held, Roomy, Listed
<1>2. QED  BY <1>1, WriterKeepsOpen, StreamerKeepsOpen DEF Next

\* At first nothing is open, and nothing is written.
LEMMA OpenStarts == Init => OpenInv
<1> SUFFICES ASSUME Init PROVE OpenInv
  OBVIOUS
<1> USE DEF Init, DirInit, WriterInit, StreamerInit
<1>1. \A f \in Segment : Held(f) = <<>> \o <<>>
  BY DEF Held
<1>2. <<>> \o <<>> = <<>> /\ Len(<<>>) = 0
  BY NothingIn, ConcatEmptySeq
<1>3. Sizes
  BY <1>1, <1>2, WriterAssumption DEF Sizes
<1>4. QED  BY <1>3 DEF OpenInv, Roomy, Listed

\* The quota and the purge spare the segment the streamer has open and, while
\* the disk has room, the one the collector writes
\* (clickhouse_streamer.py, enforce_wal_disk_quota and purge_completed_wal_file).
THEOREM OpenOnesStay == Spec => []OpenSegmentsKept
<1>1. OpenInv => OpenSegmentsKept
  BY DEF OpenInv, Listed, OpenSegmentsKept
<1>2. QED  BY <1>1, InvStarts, InvKept, OpenStarts, OpenKept, PTL DEF Spec
=============================================================================
