-------------------------- MODULE ChunkWindowProofs --------------------------
(***************************************************************************)
(* The retained window and the consumer's stream on PostgreSQL, for every   *)
(* size of the window, every batch and any number of replicas.              *)
(***************************************************************************)
EXTENDS ChunkWindow, TLAPS, WellFoundedInduction, NaturalsInduction, SequenceTheorems

\* A cached or looked-up row never advertises more chunks than were appended.
KnownRow(r) == r \in StreamRow \cup {NoRow} /\ r.next <= row.next

\* The stream 1, 2, 3, ... without a hole.
Consecutive(s) == s \in Seq(Nat) /\ \A i \in 1 .. Len(s) : s[i] = i

\* The inductive invariant.  A final marker ends the stream, so received does not
\* grow behind it; every row a reader can use is a past or the present one.
IInv ==
    /\ row \in StreamRow /\ row.start <= row.next /\ 1 <= row.start
    /\ WindowMatchesTable
    /\ DOMAIN cache = Replicas /\ \A p \in Replicas : KnownRow(cache[p])
    /\ reader \in [phase : Phases, at : Replicas, row : StreamRow \cup {NoRow}]
    /\ KnownRow(reader.row)
    /\ Consecutive(received) /\ Len(received) < row.next
    /\ final \in Nat
    /\ final # 0 => final = Len(received) + 1 /\ reader.phase = "done"

\* The smallest element of a set of numbers, as Min picks it, is in the set.
LEMMA MinIsMember ==
    ASSUME NEW S \in SUBSET Nat, S # {}
    PROVE  Min(S) \in S /\ \A k \in S : Min(S) <= k
<1> DEFINE less == {ss \in Nat \X Nat : ss[1] < ss[2]}
<1>1. OpToRel(<, Nat) = less
  BY Zenon DEF OpToRel
<1>2. IsWellFoundedOn(less, Nat)
  BY <1>1, NatLessThanWellFounded, Zenon
<1>3. \A a, b \in Nat : a < b => <<a, b>> \in less
  BY Zenon
<1> HIDE DEF less
<1>4. PICK x \in S : \A y \in S : ~ (<<y, x>> \in less)
  BY <1>2, WFMin, Zenon
<1>5. \A y \in S : x <= y
  <2>1. SUFFICES ASSUME NEW y \in S, ~ (x <= y) PROVE FALSE
    BY ZenonT(40)
  <2>2. x \in Nat /\ y \in Nat /\ y < x
    BY <2>1
  <2> QED
    BY Zenon, <1>4, <1>3, <2>2
<1> QED
  BY Zenon, <1>5 DEF Min

\* The larger of two numbers.
LEMMA MaxOfTwo ==
    ASSUME NEW a \in Int, NEW b \in Int
    PROVE  Max({a, b}) = IF a >= b THEN a ELSE b
<1>1. CASE a >= b
  <2>1. a \in {a, b} /\ \A y \in {a, b} : a >= y
    BY <1>1
  <2>2. \A x \in {a, b} : (\A y \in {a, b} : x >= y) => x = a
    BY <1>1
  <2> QED
    BY <1>1, <2>1, <2>2 DEF Max
<1>2. CASE ~ (a >= b)
  <2>1. b \in {a, b} /\ \A y \in {a, b} : b >= y
    BY <1>2
  <2>2. \A x \in {a, b} : (\A y \in {a, b} : x >= y) => x = b
    BY Zenon, <1>2
  <2> QED
    BY Zenon, <1>2, <2>1, <2>2 DEF Max
<1> QED
  BY Zenon, <1>1, <1>2

\* One fenced append leaves a table without a hole, and the start it computes is
\* the table's: the DELETE of enforceChunkWindow removes a prefix.
LEMMA AppendKeepsWindow ==
    ASSUME ~ InMemory, NEW t, NEW start \in Nat, NEW next \in Nat, 1 <= start, start <= next,
           DOMAIN t = start .. (next - 1), NEW batch, Len(batch) \in Nat
    PROVE  LET u == AppendRequestChunksFenced(t, next, batch)
               n == next + Len(batch)
           IN  /\ WindowStart(u, n) \in Nat
               /\ start <= WindowStart(u, n) /\ WindowStart(u, n) <= n
               /\ DOMAIN u = WindowStart(u, n) .. (n - 1)
<1> DEFINE all == AddChunks(t, next, batch)
           u == AppendRequestChunksFenced(t, next, batch)
           n == next + Len(batch)
<1>1. DOMAIN all = start .. (n - 1)
  BY DEF AddChunks
<1>2. u = enforceChunkWindow(all)
  BY Zenon DEF AppendRequestChunksFenced
<1>3. \E k \in Nat : start <= k /\ k <= n /\ DOMAIN u = k .. (n - 1)
  <2>1. CASE Overflow(all) = {}
    BY <1>1, <1>2, <2>1 DEF enforceChunkWindow
  <2>2. CASE Overflow(all) # {}
    <3>1. Overflow(all) \subseteq DOMAIN all
      BY Zenon DEF Overflow
    <3>2. Min(Overflow(all)) \in start .. (n - 1)
      BY <1>1, <2>2, <3>1, MinIsMember
    <3>3. DOMAIN u = {k \in DOMAIN all : k > Min(Overflow(all))}
      BY ZenonT(40), <1>2, <2>2 DEF enforceChunkWindow, Above, Restrict
    <3>4. DOMAIN u = (Min(Overflow(all)) + 1) .. (n - 1)
      BY <1>1, <3>2, <3>3
    <3> QED
      BY <3>2, <3>4
  <2> QED
    BY Zenon, <2>1, <2>2
<1>4. PICK k \in Nat : start <= k /\ k <= n /\ DOMAIN u = k .. (n - 1)
  BY ZenonT(40), <1>3
<1> HIDE DEF u
<1>5. WindowStart(u, n) = k
  <2>1. CASE k = n
    BY <1>4, <2>1 DEF WindowStart
  <2>2. CASE k # n
    <3>1. DOMAIN u # {} /\ k \in DOMAIN u
      <4>1. n \in Nat
        OBVIOUS
      <4> HIDE DEF n
      <4>2. k \in k .. (n - 1)
        BY <1>4, <2>2, <4>1
      <4> QED
        BY Zenon, <1>4, <4>2
    <3>2. Min(DOMAIN u) \in DOMAIN u /\ Min(DOMAIN u) <= k
      <4>1. DOMAIN u \in SUBSET Nat
        BY <1>4
      <4> QED
        BY Zenon, <3>1, <4>1, MinIsMember
    <3> QED
      BY <1>4, <3>1, <3>2 DEF WindowStart
  <2> QED
    BY Zenon, <2>1, <2>2
<1> QED
  BY Zenon, <1>4, <1>5 DEF u

\* The n sequence numbers that follow a stream s of Len(s) chunks.
NextSeqs(s, n) == [i \in 1 .. n |-> Len(s) + i]

\* A reader with k chunks is sent n of a window that ends before wn.
LeftToSend(k, wn, n) ==
    /\ k + 1 < wn => n = wn - k - 1
    /\ k + 1 >= wn => n = 0

\* What a reader that is not refused is sent continues its stream: n chunks from
\* the one after its last, or nothing.
LEMMA ReplayContinues ==
    ASSUME IInv, NEW w \in [start : Nat, next : Nat], ~ Expired(w)
    PROVE  /\ LastSeq = Len(received) /\ LastSeq \in Nat
           /\ \E n \in Nat : /\ Replay(w) = NextSeqs(received, n)
                             /\ LeftToSend(Len(received), w.next, n)
<1>1. LastSeq = Len(received) /\ LastSeq \in Nat
  BY DEF IInv, Consecutive, LastSeq, LastOf, Last
<1>2. Max({LastSeq + 1, w.start}) = IF LastSeq + 1 >= w.start THEN LastSeq + 1 ELSE w.start
  BY <1>1, MaxOfTwo
<1>3. LastSeq + 1 < w.start => w.next <= LastSeq + 1
  <2>1. ~ (LastSeq + 1 < w.start /\ LastSeq + 1 < w.next)
    BY Zenon DEF Expired
  <2>2. w.start \in Nat /\ w.next \in Nat /\ LastSeq \in Nat
    BY Zenon, <1>1
  <2> QED
    BY <2>1, <2>2
<1> DEFINE first == Max({LastSeq + 1, w.start})
           n == Max({w.next - first, 0})
<1>4. first \in Nat /\ (LastSeq + 1 < w.next => first = LastSeq + 1) /\ first >= LastSeq + 1
  BY <1>1, <1>2, <1>3
<1>5. n = IF w.next - first >= 0 THEN w.next - first ELSE 0
  BY <1>4, MaxOfTwo
<1> HIDE DEF first, n
<1>6. /\ n \in Nat
      /\ LastSeq + 1 < w.next => n = w.next - LastSeq - 1 /\ first = LastSeq + 1
      /\ LastSeq + 1 >= w.next => n = 0
  BY <1>1, <1>4, <1>5
<1>7. Replay(w) = [i \in 1 .. n |-> first + i - 1]
  BY ZenonT(40) DEF Replay, first, n
<1>8. Replay(w) = NextSeqs(received, n)
  <2>1. CASE LastSeq + 1 < w.next
    BY <1>1, <1>6, <1>7, <2>1 DEF NextSeqs
  <2>2. CASE LastSeq + 1 >= w.next
    BY <1>1, <1>4, <1>6, <1>7, <2>2 DEF NextSeqs
  <2> QED
    BY <1>1, <2>1, <2>2
<1> QED
  BY Zenon, <1>1, <1>6, <1>8 DEF LeftToSend

\* A stream 1, 2, ..., k continued by k + 1, ..., k + m.
LEMMA ConsecutiveAppend ==
    ASSUME NEW s, Consecutive(s), NEW n \in Nat, NEW m \in 0 .. n
    PROVE  /\ Consecutive(s \o SubSeq(NextSeqs(s, n), 1, m))
           /\ Len(s \o SubSeq(NextSeqs(s, n), 1, m)) = Len(s) + m
<1> DEFINE r == NextSeqs(s, n)
           d == SubSeq(r, 1, m)
           t == s \o d
<1>0. s \in Seq(Nat) /\ Len(s) \in Nat /\ \A i \in 1 .. Len(s) : s[i] = i
  BY DEF Consecutive
<1>1. r \in Seq(Nat) /\ Len(r) = n /\ \A i \in 1 .. n : r[i] = Len(s) + i
  BY <1>0 DEF NextSeqs
<1>2. d \in Seq(Nat) /\ Len(d) = m /\ \A i \in 1 .. m : d[i] = Len(s) + i
  BY <1>0, <1>1
<1> HIDE DEF d
<1>4. /\ t \in Seq(Nat) /\ Len(t) = Len(s) + m
      /\ \A i \in 1 .. Len(t) : t[i] = IF i <= Len(s) THEN s[i] ELSE d[i - Len(s)]
  <2>1. /\ s \o d \in Seq(Nat) /\ Len(s \o d) = Len(s) + Len(d)
        /\ \A i \in 1 .. Len(s) + Len(d) : (s \o d)[i] = IF i <= Len(s) THEN s[i] ELSE d[i - Len(s)]
    BY <1>0, <1>2, ConcatProperties, Zenon
  <2> QED
    BY <1>2, <2>1, Zenon
<1> HIDE DEF t
<1>5. Consecutive(t) /\ Len(t) = Len(s) + m
  <2>1. ASSUME NEW i \in 1 .. Len(t) PROVE t[i] = i
    <3>1. CASE i <= Len(s)
      BY <1>0, <1>4, <3>1
    <3>2. CASE ~ (i <= Len(s))
      <4>1. i - Len(s) \in 1 .. m
        BY <1>0, <1>4, <3>2
      <4> QED
        BY <1>0, <1>2, <1>4, <3>2, <4>1
    <3> QED
      BY ZenonT(40), <3>1, <3>2
  <2> QED
    BY ZenonT(40), <1>4, <2>1 DEF Consecutive
<1> QED
  BY ZenonT(40), <1>5 DEF t, d

\* An append adds a natural number of chunks, a trailing submission one.
LEMMA BatchLength ==
    /\ \A batch \in Batches : Len(batch) \in Nat
    /\ \A size : Len(<<size>>) = 1
<1>1. ASSUME NEW batch \in Batches PROVE Len(batch) \in Nat
  <2>1. PICK m \in 0 .. MaxBatch : batch \in [1 .. m -> ChunkSizes]
    BY Zenon DEF Batches, SeqOf
  <2>2. m \in Nat
    BY BoundsAssumption
  <2> QED
    BY <2>1, <2>2
<1> QED
  BY ZenonT(40), <1>1

\* The initial states satisfy the invariant.
LEMMA InitIInv == Init => IInv
<1> SUFFICES ASSUME Init PROVE IInv
  BY ZenonT(40)
<1>1. row = [status |-> "open", start |-> 1, next |-> 1] /\ row \in StreamRow
  BY Zenon DEF Init, StreamRow
<1>2. WindowMatchesTable
  BY <1>1 DEF Init, WindowMatchesTable
<1>3. KnownRow(row) /\ KnownRow(NoRow)
  BY <1>1 DEF KnownRow, NoRow
<1>4. DOMAIN cache = Replicas /\ \A p \in Replicas : KnownRow(cache[p])
  BY Zenon, <1>3 DEF Init
<1>5. /\ reader \in [phase : Phases, at : Replicas, row : StreamRow \cup {NoRow}]
      /\ reader.row = NoRow
  BY DEF Init, Phases
<1>6. Consecutive(received) /\ Len(received) = 0 /\ final = 0
  BY DEF Init, Consecutive
<1> QED
  BY <1>1, <1>2, <1>3, <1>4, <1>5, <1>6 DEF IInv

\* A row somebody holds has a window, and a read of it on PostgreSQL shows no
\* more than the row advertises.
LEMMA KnownWindow ==
    ASSUME NEW r, KnownRow(r)
    PROVE  r.start \in Nat /\ r.next \in Nat
BY DEF KnownRow, StreamRow, NoRow

LEMMA LookedUpWindow ==
    ASSUME ~ InMemory, NEW r, KnownRow(r)
    PROVE  /\ GetRequestChunksByRequest(r) \in [start : Nat, next : Nat]
           /\ GetRequestChunksByRequest(r).next <= row.next
<1>1. r.start \in Nat /\ r.next \in Nat /\ r.next <= row.next
  BY Zenon, KnownWindow DEF KnownRow
<1>2. GetRequestChunksByRequest(r) = [start |-> r.start, next |-> r.next]
  BY Zenon DEF GetRequestChunksByRequest
<1> QED
  BY <1>1, <1>2

\* The last number of a stream without a hole is its length.
LEMMA LastIsLength ==
    ASSUME NEW s, Consecutive(s)
    PROVE  LastOf(s) = Len(s)
BY DEF Consecutive, LastOf, Last

\* A reader with k chunks gets m of the n that are left of a window that ends
\* before wn, of a row that advertises rn: it is still within the row, and with
\* all n it is at the end of the window.
SentOf(k, wn, rn, n, m) ==
    /\ k \in Nat /\ wn \in Nat /\ rn \in Nat /\ n \in Nat /\ m \in 0 .. n
    /\ k < rn /\ wn <= rn /\ LeftToSend(k, wn, n)

SentFits(k, wn, rn, n, m) ==
    /\ k + m < rn
    /\ m = n /\ k + m < wn => wn = k + m + 1

LEMMA SentCounts ==
    ASSUME NEW k, NEW wn, NEW rn, NEW n, NEW m, SentOf(k, wn, rn, n, m)
    PROVE  SentFits(k, wn, rn, n, m)
BY DEF SentOf, SentFits, LeftToSend

\* A step of a writer that commits a row which advertises no less than before.
LEMMA CommitKeepsIInv ==
    ASSUME IInv, NEW p \in Replicas, NEW newRow \in StreamRow, Commit(p, newRow), UNCHANGED consumer,
           newRow.start <= newRow.next, 1 <= newRow.start, row.next <= newRow.next,
           DOMAIN table' = newRow.start .. (newRow.next - 1)
    PROVE  IInv'
<1>1. row' = newRow /\ cache' = [cache EXCEPT ![p] = newRow]
  BY ZenonT(40) DEF Commit
<1>2. row.next \in Nat /\ newRow.next \in Nat
  BY Zenon DEF IInv, StreamRow
<1>3. ASSUME NEW r, KnownRow(r) PROVE KnownRow(r)'
  <2>1. r.next \in Nat
    BY Zenon, <1>3, KnownWindow
  <2> QED
    BY <1>1, <1>2, <1>3, <2>1 DEF KnownRow
<1>4. KnownRow(newRow)'
  BY <1>1, <1>2 DEF KnownRow
<1>5. DOMAIN cache' = Replicas /\ \A q \in Replicas : KnownRow(cache[q])'
  BY Zenon, <1>1, <1>3, <1>4 DEF IInv
<1>6. KnownRow(reader.row)'
  BY ZenonT(40), <1>3 DEF IInv, consumer
<1>7. Len(received)' < row'.next
  BY <1>1, <1>2 DEF IInv, consumer
<1>8. WindowMatchesTable'
  BY Zenon, <1>1 DEF WindowMatchesTable
<1> QED
  BY Zenon, <1>1, <1>5, <1>6, <1>7, <1>8 DEF IInv, consumer

\* The row that AddToWindow commits is a row with the new start and next.
LEMMA MovedWindow ==
    ASSUME NEW r \in StreamRow, NEW a \in Nat, NEW k \in Nat
    PROVE  LET moved == [r EXCEPT !.start = a, !.next = @ + k]
           IN  moved \in StreamRow /\ moved.start = a /\ moved.next = r.next + k
<1>1. r.next \in Nat /\ r.status \in {"open", "finished", "cancelled"}
  BY Zenon DEF StreamRow
<1> DEFINE q == [r EXCEPT !.start = a]
<1>2. q \in StreamRow /\ q.start = a /\ q.next = r.next
  BY Zenon DEF StreamRow
<1>3. [r EXCEPT !.start = a, !.next = @ + k] = [q EXCEPT !.next = r.next + k]
  BY Zenon, <1>1 DEF StreamRow
<1> HIDE DEF q
<1>4. /\ [q EXCEPT !.next = r.next + k] \in StreamRow
      /\ [q EXCEPT !.next = r.next + k].start = a
      /\ [q EXCEPT !.next = r.next + k].next = r.next + k
  BY <1>1, <1>2 DEF StreamRow
<1> QED
  BY Zenon, <1>3, <1>4

\* An append of any batch keeps the invariant (AppendRequestChunksFenced and the
\* trailing chunk of SubmitRequestResultFenced).
LEMMA AddKeepsIInv ==
    ASSUME ~ InMemory, IInv, NEW p \in Replicas, NEW batch, Len(batch) \in Nat, AddToWindow(p, batch)
    PROVE  IInv'
<1> DEFINE n == row.next + Len(batch)
           newRow == [row EXCEPT !.start = WindowStart(table', row.next + Len(batch)),
                                 !.next = @ + Len(batch)]
<1>1. row \in StreamRow /\ row.start \in Nat /\ row.next \in Nat
  BY ZenonT(40) DEF IInv, StreamRow
<1>2. /\ WindowStart(table', n) \in Nat
      /\ row.start <= WindowStart(table', n) /\ WindowStart(table', n) <= n
      /\ DOMAIN table' = WindowStart(table', n) .. (n - 1)
  <2>1. /\ 1 <= row.start /\ row.start <= row.next /\ DOMAIN table = row.start .. (row.next - 1)
        /\ table' = AppendRequestChunksFenced(table, row.next, batch)
    BY ZenonT(40) DEF IInv, WindowMatchesTable, AddToWindow
  <2> DEFINE u == AppendRequestChunksFenced(table, row.next, batch)
  <2>2. /\ WindowStart(u, n) \in Nat
        /\ row.start <= WindowStart(u, n) /\ WindowStart(u, n) <= n
        /\ DOMAIN u = WindowStart(u, n) .. (n - 1)
    BY <1>1, <2>1, AppendKeepsWindow
  <2> QED
    BY ZenonT(40), <2>1, <2>2
<1>3. Commit(p, newRow) /\ UNCHANGED consumer
  BY Zenon DEF AddToWindow
<1>4. newRow \in StreamRow /\ newRow.start = WindowStart(table', n) /\ newRow.next = n
  <2>1. ASSUME NEW a \in Nat
        PROVE  LET moved == [row EXCEPT !.start = a, !.next = @ + Len(batch)]
               IN  moved \in StreamRow /\ moved.start = a /\ moved.next = n
    BY ZenonT(40), <1>1, MovedWindow
  <2> QED
    BY <1>2, <2>1, Zenon
<1>5. 1 <= row.start /\ row.next <= n /\ n \in Nat
  BY <1>1 DEF IInv
<1>6. 1 <= WindowStart(table', n)
  BY <1>1, <1>2, <1>5
<1> HIDE DEF newRow, n
<1> QED
  BY ZenonT(40), <1>2, <1>3, <1>4, <1>5, <1>6, CommitKeepsIInv

\* A result, cancel or requeue leaves the window alone and keeps the invariant.
LEMMA StatusKeepsIInv ==
    ASSUME IInv, NEW p \in Replicas, NEW status \in {"open", "finished", "cancelled"},
           SetStatus(p, status)
    PROVE  IInv'
<1> DEFINE newRow == [row EXCEPT !.status = status]
<1>1. newRow \in StreamRow /\ newRow.start = row.start /\ newRow.next = row.next
  BY ZenonT(40) DEF IInv, StreamRow
<1>2. Commit(p, newRow) /\ UNCHANGED consumer /\ table' = table
  BY Zenon DEF SetStatus
<1>3. row.next \in Nat
  BY Zenon DEF IInv, StreamRow
<1> HIDE DEF newRow
<1> QED
  BY <1>1, <1>2, <1>3, CommitKeepsIInv DEF IInv, WindowMatchesTable

\* Steps of the connection that send nothing.
LEMMA ConnectionKeepsIInv ==
    ASSUME IInv, NEW phase \in Phases, NEW q \in Replicas, NEW r, KnownRow(r),
           reader.phase # "done",
           reader' = [reader EXCEPT !.phase = phase, !.at = q, !.row = r],
           UNCHANGED <<row, table, received, final>>,
           DOMAIN cache' = Replicas, \A u \in Replicas : KnownRow(cache'[u])
    PROVE  IInv'
<1>1. reader' \in [phase : Phases, at : Replicas, row : StreamRow \cup {NoRow}] /\ reader'.row = r
  BY ZenonT(40) DEF IInv, KnownRow
<1>2. final = 0
  BY Zenon DEF IInv
<1> QED
  BY Zenon, <1>1, <1>2 DEF IInv, KnownRow, WindowMatchesTable

\* Steps of the connection that send m chunks of the looked-up window.
LEMMA SendKeepsIInv ==
    ASSUME ~ InMemory, IInv, reader.phase = "chunks",
           NEW w, w = GetRequestChunksByRequest(reader.row), ~ Expired(w),
           NEW m \in 0 .. Len(Replay(w)), received' = received \o SubSeq(Replay(w), 1, m),
           NEW phase \in Phases, reader' = [reader EXCEPT !.phase = phase],
           UNCHANGED <<row, table, cache>>,
           \/ final' = final
           \/ phase = "done" /\ m = Len(Replay(w)) /\ LastOf(received') < w.next /\ final' = w.next
    PROVE  IInv'
<1>1. w \in [start : Nat, next : Nat] /\ w.next <= row.next
  BY ZenonT(40), LookedUpWindow DEF IInv
<1>2. PICK n \in Nat : Replay(w) = NextSeqs(received, n) /\ LeftToSend(Len(received), w.next, n)
  BY Zenon, <1>1, ReplayContinues
<1>3. /\ received \in Seq(Nat) /\ Len(received) \in Nat
      /\ row.next \in Nat /\ w.next \in Nat /\ Len(received) < row.next
  BY <1>1 DEF IInv, Consecutive, StreamRow
<1>4. Len(Replay(w)) = n /\ n \in Nat /\ m \in 0 .. n
  BY <1>2 DEF NextSeqs
<1>5. Consecutive(received') /\ Len(received') = Len(received) + m
  <2>1. Consecutive(received)
    BY ZenonT(40) DEF IInv
  <2>2. received' = received \o SubSeq(NextSeqs(received, n), 1, m)
    BY Zenon, <1>2
  <2> QED
    BY ZenonT(40), <1>4, <2>1, <2>2, ConsecutiveAppend
<1>6. /\ Len(received') < row.next
      /\ m = n /\ Len(received') < w.next => w.next = Len(received') + 1
  <2>1. /\ Len(received) + m < row.next
        /\ m = n /\ Len(received) + m < w.next => w.next = Len(received) + m + 1
    <3>1. SentOf(Len(received), w.next, row.next, n, m)
      BY Zenon, <1>1, <1>2, <1>3, <1>4 DEF SentOf
    <3>2. SentFits(Len(received), w.next, row.next, n, m)
      BY ZenonT(40), <3>1, SentCounts
    <3> QED
      BY Zenon, <3>2 DEF SentFits
  <2> QED
    BY ZenonT(40), <1>5, <2>1
<1>7. LastOf(received') = Len(received')
  BY ZenonT(40), <1>5, LastIsLength
<1>8. final = 0
  BY ZenonT(40) DEF IInv
<1>9. final' \in Nat /\ (final' # 0 => final' = Len(received') + 1 /\ phase = "done")
  BY <1>1, <1>4, <1>6, <1>7, <1>8
<1>10. /\ reader' \in [phase : Phases, at : Replicas, row : StreamRow \cup {NoRow}]
       /\ reader'.row = reader.row /\ reader'.phase = phase
  BY ZenonT(40) DEF IInv
<1> QED
  BY Zenon, <1>5, <1>6, <1>9, <1>10 DEF IInv, KnownRow, WindowMatchesTable

\* The invariant is inductive on PostgreSQL.
LEMMA NextKeepsIInv ==
    ASSUME ~ InMemory, IInv, [Next]_vars
    PROVE  IInv'
<1>1. ASSUME NEW p \in Replicas, Write(p) PROVE IInv'
  <2>1. CASE AppendRequestChunks(p)
    BY ZenonT(40), <2>1, BatchLength, AddKeepsIInv DEF AppendRequestChunks
  <2>2. CASE SubmitTrailingChunk(p)
    <3>1. PICK size \in TrailingSizes : AddToWindow(p, <<size>>)
      BY ZenonT(40), <2>2 DEF SubmitTrailingChunk
    <3>2. Len(<<size>>) \in Nat
      BY Zenon, BatchLength
    <3> QED
      BY ZenonT(40), <3>1, <3>2, AddKeepsIInv
  <2>3. CASE FinishRequest(p)
    BY Zenon, <2>3, StatusKeepsIInv DEF FinishRequest
  <2>4. CASE CancelRequest(p)
    BY ZenonT(40), <2>4, StatusKeepsIInv DEF CancelRequest
  <2>5. CASE RequeueRequest(p)
    BY ZenonT(40), <2>5, StatusKeepsIInv DEF RequeueRequest
  <2> QED
    BY ZenonT(40), <1>1, <2>1, <2>2, <2>3, <2>4, <2>5 DEF Write
<1>2. /\ reader \in [phase : Phases, at : Replicas, row : StreamRow \cup {NoRow}]
      /\ DOMAIN cache = Replicas /\ \A p \in Replicas : KnownRow(cache[p])
      /\ KnownRow(reader.row)
  BY ZenonT(40) DEF IInv
<1>3. KnownRow(row)
  BY DEF IInv, KnownRow, StreamRow
<1>4. ASSUME NEW p \in Replicas, OpenStream(p) PROVE IInv'
  <2>1. reader' = [reader EXCEPT !.phase = "lookup", !.at = p, !.row = reader.row]
    BY ZenonT(40), <1>2, <1>4 DEF OpenStream
  <2> QED
    BY Zenon, <1>2, <1>4, <2>1, ConnectionKeepsIInv DEF OpenStream, Phases
<1>5. CASE LookupRequest
  <2>1. reader' = [reader EXCEPT !.phase = "chunks", !.at = reader.at, !.row = row]
    BY ZenonT(40), <1>2, <1>5 DEF LookupRequest
  <2>2. DOMAIN cache' = Replicas /\ \A p \in Replicas : KnownRow(cache'[p])
    BY ZenonT(40), <1>2, <1>3, <1>5 DEF LookupRequest
  <2> QED
    BY ZenonT(40), <1>2, <1>3, <1>5, <2>1, <2>2, ConnectionKeepsIInv DEF LookupRequest, Phases
<1>6. CASE LookupCached
  <2>1. reader.at \in Replicas /\ KnownRow(cache[reader.at])
    BY Zenon, <1>2
  <2>2. CASE cache[reader.at] = NoRow
    <3>1. reader' = [reader EXCEPT !.phase = "idle", !.at = reader.at, !.row = reader.row]
      BY ZenonT(40), <1>2, <1>6, <2>2 DEF LookupCached
    <3> QED
      BY Zenon, <1>2, <1>6, <2>1, <3>1, ConnectionKeepsIInv DEF LookupCached, Phases
  <2>3. CASE cache[reader.at] # NoRow
    <3>1. reader' = [reader EXCEPT !.phase = "chunks", !.at = reader.at, !.row = cache[reader.at]]
      BY ZenonT(40), <1>2, <1>6, <2>3 DEF LookupCached
    <3> QED
      BY ZenonT(40), <1>2, <1>6, <2>1, <3>1, ConnectionKeepsIInv DEF LookupCached, Phases
  <2> QED
    BY ZenonT(40), <2>2, <2>3
<1>7. CASE StreamExpires
  <2>1. reader' = [reader EXCEPT !.phase = "expired", !.at = reader.at, !.row = reader.row]
    BY ZenonT(40), <1>2, <1>7 DEF StreamExpires
  <2> QED
    BY ZenonT(40), <1>2, <1>7, <2>1, ConnectionKeepsIInv DEF StreamExpires, Phases
<1> DEFINE w == GetRequestChunksByRequest(reader.row)
<1>8. ~ Expired(w) => /\ Len(Replay(w)) \in 0 .. Len(Replay(w))
                      /\ SubSeq(Replay(w), 1, Len(Replay(w))) = Replay(w)
  <2> SUFFICES ASSUME ~ Expired(w)
               PROVE  /\ Len(Replay(w)) \in 0 .. Len(Replay(w))
                      /\ SubSeq(Replay(w), 1, Len(Replay(w))) = Replay(w)
    BY ZenonT(40)
  <2>1. w \in [start : Nat, next : Nat]
    BY ZenonT(40), <1>2, LookedUpWindow
  <2>2. PICK n \in Nat : Replay(w) = NextSeqs(received, n)
    BY Zenon, <2>1, ReplayContinues
  <2>3. Len(received) \in Nat
    BY DEF IInv, Consecutive
  <2>4. NextSeqs(received, n) \in Seq(Nat) /\ Len(NextSeqs(received, n)) = n
    BY <2>2, <2>3 DEF NextSeqs
  <2> QED
    BY <2>2, <2>4
<1>9. CASE SendSnapshot
  <2> DEFINE m == Len(Replay(w))
             phase == IF IsTerminal(reader.row) THEN "done" ELSE "lookup"
  <2>1. reader.phase = "chunks" /\ ~ Expired(w) /\ received' = received \o Replay(w)
    BY ZenonT(40), <1>9 DEF SendSnapshot
  <2>2. m \in 0 .. Len(Replay(w)) /\ received' = received \o SubSeq(Replay(w), 1, m)
    BY ZenonT(40), <1>8, <2>1
  <2>3. phase \in Phases /\ reader' = [reader EXCEPT !.phase = phase] /\ UNCHANGED <<row, table, cache>>
    BY ZenonT(40), <1>9 DEF SendSnapshot, Phases
  <2>4. \/ final' = final
        \/ phase = "done" /\ m = Len(Replay(w)) /\ LastOf(received') < w.next /\ final' = w.next
    BY ZenonT(40), <1>9 DEF SendSnapshot
  <2> HIDE DEF m, phase, w
  <2> QED
    BY ZenonT(40), <2>1, <2>2, <2>3, <2>4, SendKeepsIInv DEF w
<1>10. CASE Disconnect
  <2>1. CASE reader.phase \in {"lookup", "chunks"} /\ UNCHANGED received
    <3>1. reader' = [reader EXCEPT !.phase = "idle", !.at = reader.at, !.row = reader.row]
      BY ZenonT(40), <1>2, <1>10 DEF Disconnect
    <3> QED
      BY ZenonT(40), <1>2, <1>10, <2>1, <3>1, ConnectionKeepsIInv DEF Disconnect, Phases
  <2>2. CASE ~ (reader.phase \in {"lookup", "chunks"} /\ UNCHANGED received)
    <3>1. /\ reader.phase = "chunks" /\ ~ Expired(w)
          /\ \E n \in 0 .. Len(Replay(w)) : received' = received \o SubSeq(Replay(w), 1, n)
      BY ZenonT(40), <1>10, <2>2 DEF Disconnect
    <3>2. /\ reader' = [reader EXCEPT !.phase = "idle"] /\ "idle" \in Phases
          /\ UNCHANGED <<row, table, cache>> /\ final' = final
      BY Zenon, <1>10 DEF Disconnect, Phases
    <3> HIDE DEF w
    <3> QED
      BY ZenonT(40), <3>1, <3>2, SendKeepsIInv DEF w
  <2> QED
    BY ZenonT(40), <2>1, <2>2
<1>11. CASE UNCHANGED vars
  BY Zenon, <1>11 DEF vars, IInv, KnownRow, WindowMatchesTable
<1> QED
  BY Zenon, <1>1, <1>4, <1>5, <1>6, <1>7, <1>9, <1>10, <1>11 DEF Next, Turn

\* Every reachable state satisfies the inductive invariant.
LEMMA Invariance ==
    ASSUME ~ InMemory
    PROVE  Spec => []IInv
<1>1. Init => IInv
  BY ZenonT(40), InitIInv
<1>2. IInv /\ [Next]_vars => IInv'
  BY Zenon, NextKeepsIInv
<1> QED
  BY <1>1, <1>2, PTL DEF Spec

\* On PostgreSQL the row of a request advertises exactly the chunks the table
\* holds, whatever the bounds of the window and the sizes of the batches.
THEOREM WindowCorrect ==
    ASSUME ~ InMemory
    PROVE  Spec => []WindowMatchesTable
<1>1. IInv => WindowMatchesTable
  BY ZenonT(40) DEF IInv
<1> QED
  BY <1>1, Invariance, PTL

\* On PostgreSQL a consumer gets the chunks of a request without a hole, in order
\* and once, over any number of connections, replicas and failed store reads.
THEOREM ReplayCorrect ==
    ASSUME ~ InMemory
    PROVE  Spec => []NoSilentSkip
<1>1. IInv => NoSilentSkip
  <2> SUFFICES ASSUME IInv PROVE NoSilentSkip
    BY ZenonT(40)
  <2>1. received \in Seq(Nat) /\ DOMAIN received = 1 .. Len(received)
    BY DEF IInv, Consecutive
  <2>2. \A i \in DOMAIN received : received[i] = i
    BY Zenon, <2>1 DEF IInv, Consecutive
  <2>3. LastSeq = Len(received)
    BY <2>1, <2>2 DEF LastSeq, LastOf, Last
  <2> QED
    BY ZenonT(40), <2>2, <2>3 DEF IInv, NoSilentSkip
<1> QED
  BY <1>1, Invariance, PTL
=============================================================================
