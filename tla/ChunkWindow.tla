---------------------------- MODULE ChunkWindow ----------------------------
(***************************************************************************)
(* The stream of one request: its chunks are appended by the lease holder,  *)
(* only a window of the newest ones is retained, and a consumer follows the *)
(* stream, loses its connection, and resumes after the last chunk it got    *)
(* (server/pkg/storage/requests_fenced.go, pkg/model/request.go, and the    *)
(* stream reads of pkg/service/requests.go and server.go).                  *)
(*                                                                         *)
(* A chunk is its sequence number and its size.  Of the request's status    *)
(* only what stream reads and writes tell apart is kept: "open" (pending,   *)
(* claimed or running), "finished" (done or failed), "cancelled".  Whether  *)
(* an open request has a lease holder that appends is left open here, and   *)
(* so is the retention sweep: RequestQueue models both.                     *)
(***************************************************************************)
EXTENDS Integers, Sequences, FiniteSets, FiniteSetsExt, Functions, SequencesExt

CONSTANTS Replicas,            \* server processes that share the store
          InMemory,            \* TRUE for storage/memory, FALSE for PostgreSQL
          WindowChunks,        \* MaxRequestStreamWindowChunks
          WindowBytes,         \* MaxRequestStreamWindowBytes
          ChunkSizes,          \* sizes an appended chunk can have
          BatchBytes,          \* MaxChunkBatchPayloadBytes
          TrailingSizes,       \* sizes a trailing chunk can have
          MaxBatch,            \* bound: chunks of one append
          MaxSeq               \* bound: chunks of the whole stream

ASSUME ReplicasAssumption == Replicas # {}
ASSUME StoreAssumption == InMemory \in BOOLEAN
ASSUME BoundsAssumption == /\ WindowChunks \in Nat \ {0}
                           /\ WindowBytes \in Nat \ {0}
                           /\ ChunkSizes \subseteq Nat
                           /\ BatchBytes \in Nat
                           /\ TrailingSizes \subseteq Nat
                           /\ MaxBatch \in Nat
                           /\ MaxSeq \in Nat

VARIABLES row,       \* status and window bookkeeping of the requests row
          table,     \* request_chunks: the size of every retained chunk
          history,   \* the size of every chunk ever appended (history variable)
          cache,     \* each replica's cached copy of the row
          reader,    \* the consumer's connection to a replica
          received,  \* the sequence numbers the consumer got, in order
          final      \* the sequence number of its final marker, 0 before it

vars == <<row, table, history, cache, reader, received, final>>
consumer == <<reader, received, final>>

StreamRow == [status : {"open", "finished", "cancelled"}, start : Nat, next : Nat]
NoRow == [status |-> "none", start |-> 0, next |-> 0]
Phases == {"idle", "lookup", "chunks", "done", "expired"}

\* IsTerminalStatus of the stream's row.
IsTerminal(r) == r.status \in {"finished", "cancelled"}

(***************************************************************************)
(* The retained window.                                                    *)
(***************************************************************************)

\* The sequence numbers that no longer fit a window of chunks t: counted from
\* the newest chunk down to s, the count or the bytes are over their bound.
Overflow(t) ==
    {s \in DOMAIN t : LET newer == {k \in DOMAIN t : k >= s}
                      IN  \/ Cardinality(newer) > WindowChunks
                          \/ SumFunctionOnSet(t, newer) > WindowBytes}

Above(t, s) == Restrict(t, {k \in DOMAIN t : k > s})

\* Mutant of trimStreamWindow: the first chunk over the bound is kept.
TrimKeepsOneMore(t) ==
    IF Overflow(t) = {} THEN t ELSE Above(t, Max(Overflow(t)) - 1)

\* The backward pass over the model's window: drop every chunk over a bound.
trimStreamWindow(t) == IF Overflow(t) = {} THEN t ELSE Above(t, Max(Overflow(t)))

\* The DELETE: up to the smallest sequence number over a bound (ORDER BY seq
\* ASC LIMIT 1).
enforceChunkWindow(t) == IF Overflow(t) = {} THEN t ELSE Above(t, Min(Overflow(t)))

\* MIN(seq), or nextSeq when no chunk survives.
WindowStart(t, next) == IF DOMAIN t = {} THEN next ELSE Min(DOMAIN t)

AddChunks(t, next, batch) ==
    [s \in DOMAIN t \cup next .. (next + Len(batch) - 1) |->
        IF s < next THEN t[s] ELSE batch[s - next + 1]]

\* AddStreamChunk for each chunk of the batch.
AddStreamChunks(t, next, batch) ==
    FoldLeftDomain(LAMBDA acc, i : trimStreamWindow(AddChunks(acc, next + i - 1, <<batch[i]>>)),
                   t, batch)

\* The memory store trims after each chunk, the PostgreSQL store once after the
\* batch.
AppendRequestChunksFenced(t, next, batch) ==
    IF InMemory THEN AddStreamChunks(t, next, batch)
                ELSE enforceChunkWindow(AddChunks(t, next, batch))

(***************************************************************************)
(* Writes.  The replica that serves a write mirrors the row it committed.  *)
(***************************************************************************)

Init ==
    /\ row = [status |-> "open", start |-> 1, next |-> 1]
    /\ table = << >>
    /\ history = << >>
    /\ \E p \in Replicas : cache = [q \in Replicas |-> IF q = p THEN row ELSE NoRow]
    /\ \E p \in Replicas : reader = [phase |-> "idle", at |-> p, row |-> NoRow]
    /\ received = << >>
    /\ final = 0

Commit(p, newRow) == row' = newRow /\ cache' = [cache EXCEPT ![p] = newRow]

SetStatus(p, status) ==
    /\ Commit(p, [row EXCEPT !.status = status])
    /\ UNCHANGED <<table, history, consumer>>

\* Mutant of AddToWindow: the row keeps the old start.
AddKeepsStart(p, batch) ==
    /\ row.next + Len(batch) - 1 <= MaxSeq
    /\ table' = AppendRequestChunksFenced(table, row.next, batch)
    /\ Commit(p, [row EXCEPT !.next = @ + Len(batch)])
    /\ history' = history \o batch
    /\ UNCHANGED consumer

AddToWindow(p, batch) ==
    /\ row.next + Len(batch) - 1 <= MaxSeq
    /\ table' = AppendRequestChunksFenced(table, row.next, batch)
    /\ Commit(p, [row EXCEPT !.start = WindowStart(table', row.next + Len(batch)),
                             !.next = @ + Len(batch)])
    /\ history' = history \o batch
    /\ UNCHANGED consumer

Batches == {b \in SeqOf(ChunkSizes, MaxBatch) : SumFunction(b) <= BatchBytes}

\* A fenced append.  The fence admits the holder of an open request and, by the
\* epoch, the last holder of a finished one.
AppendRequestChunks(p) ==
    /\ row.status # "cancelled"
    /\ \E batch \in Batches : AddToWindow(p, batch)

\* A streaming submission to a finished request appends one chunk, of any size.
SubmitTrailingChunk(p) ==
    /\ row.status = "finished"
    /\ \E size \in TrailingSizes : AddToWindow(p, <<size>>)

\* A result, or the dead letter of the reaper.
FinishRequest(p) == row.status = "open" /\ SetStatus(p, "finished")

CancelRequest(p) == row.status = "open" /\ SetStatus(p, "cancelled")

\* The capacity requeue of a finished request (RequestQueue, terminal_requeue).
RequeueRequest(p) == row.status = "finished" /\ SetStatus(p, "open")

(***************************************************************************)
(* The consumer.                                                           *)
(***************************************************************************)

LastOf(seqs) == IF seqs = << >> THEN 0 ELSE Last(seqs)
LastSeq == LastOf(received)

\* StreamExecuteTool, or ResumeStream after a lost connection or a refusal, on any
\* replica.
OpenStream(p) ==
    /\ reader.phase \in {"idle", "expired"}
    /\ reader' = [reader EXCEPT !.phase = "lookup", !.at = p]
    /\ UNCHANGED <<row, table, history, cache, received, final>>

\* Mutant of LookupRequest: the cached row wins when there is one.
LookupCacheFirst ==
    /\ reader.phase = "lookup"
    /\ LET p == reader.at
           found == IF cache[p] = NoRow THEN row ELSE cache[p]
       IN  /\ cache' = [cache EXCEPT ![p] = found]
           /\ reader' = [reader EXCEPT !.phase = "chunks", !.row = found]
    /\ UNCHANGED <<row, table, history, received, final>>

\* The loop of an open stream: the row is read from the store first ...
LookupRequest ==
    /\ reader.phase = "lookup"
    /\ cache' = [cache EXCEPT ![reader.at] = row]
    /\ reader' = [reader EXCEPT !.phase = "chunks", !.row = row]
    /\ UNCHANGED <<row, table, history, received, final>>

\* ... and from the cache when that read fails; a replica that has never seen
\* the request reports that it does not exist, and the connection ends.
LookupCached ==
    /\ reader.phase = "lookup"
    /\ ~ InMemory
    /\ LET found == cache[reader.at]
       IN  reader' = IF found = NoRow
                       THEN [reader EXCEPT !.phase = "idle"]
                       ELSE [reader EXCEPT !.phase = "chunks", !.row = found]
    /\ UNCHANGED <<row, table, history, cache, received, final>>

\* The window [start, next) that the looked-up row advertises.  The memory
\* store clamps it to what it holds.
GetRequestChunksByRequest(r) ==
    IF InMemory
      THEN [start |-> Max({r.start, row.start}), next |-> Min({r.next, row.next})]
      ELSE [start |-> r.start, next |-> r.next]

\* PostgreSQL only: a row of the advertised window is missing in the table.
ChunkWindowGap(w) == ~ (w.start .. (w.next - 1) \subseteq DOMAIN table)

\* Mutant of Expired: a reader behind the window continues at its start.
ExpiredNever(w) == ~ InMemory /\ ChunkWindowGap(w)

\* OUT_OF_RANGE: the window moved under the read, or past the reader.
Expired(w) ==
    \/ ~ InMemory /\ ChunkWindowGap(w)
    \/ LastSeq + 1 < w.start /\ LastSeq + 1 < w.next

\* The sequence numbers of window w that follow the reader's last one.
Replay(w) ==
    LET first == Max({LastSeq + 1, w.start})
    IN  [i \in 1 .. Max({w.next - first, 0}) |-> first + i - 1]

StreamExpires ==
    /\ reader.phase = "chunks"
    /\ Expired(GetRequestChunksByRequest(reader.row))
    /\ reader' = [reader EXCEPT !.phase = "expired"]
    /\ UNCHANGED <<row, table, history, cache, received, final>>

\* One turn of sendExecuteToolSnapshot: all chunks after the last one sent, and
\* the final marker after the last chunk of a terminal request.
SendSnapshot ==
    /\ reader.phase = "chunks"
    /\ LET w == GetRequestChunksByRequest(reader.row)
       IN  /\ ~ Expired(w)
           /\ received' = received \o Replay(w)
           /\ final' = IF IsTerminal(reader.row) /\ LastOf(received') < w.next THEN w.next ELSE final
    /\ reader' = [reader EXCEPT !.phase = IF IsTerminal(reader.row) THEN "done" ELSE "lookup"]
    /\ UNCHANGED <<row, table, history, cache>>

\* The connection breaks: between two turns, by a failed read of the chunks, or
\* with a part of a turn sent.
Disconnect ==
    /\ \/ reader.phase \in {"lookup", "chunks"} /\ UNCHANGED received
       \/ /\ reader.phase = "chunks"
          /\ LET w == GetRequestChunksByRequest(reader.row)
             IN  /\ ~ Expired(w)
                 /\ \E n \in 0 .. Len(Replay(w)) : received' = received \o SubSeq(Replay(w), 1, n)
    /\ reader' = [reader EXCEPT !.phase = "idle"]
    /\ UNCHANGED <<row, table, history, cache, final>>

Write(p) ==
    \/ AppendRequestChunks(p)
    \/ SubmitTrailingChunk(p)
    \/ FinishRequest(p)
    \/ CancelRequest(p)
    \/ RequeueRequest(p)

Turn == LookupRequest \/ LookupCached \/ StreamExpires \/ SendSnapshot

Next ==
    \/ \E p \in Replicas : Write(p) \/ OpenStream(p)
    \/ Turn
    \/ Disconnect

Spec == Init /\ [][Next]_vars

\* An open stream takes its turns: woken by a chunk or by the 2 s ticker.  The
\* store answers again and again.
FairSpec == Spec /\ WF_vars(Turn) /\ SF_vars(LookupRequest)

(***************************************************************************)
(* Properties.                                                             *)
(***************************************************************************)

\* Every variable keeps its type, and the table only holds assigned sequence
\* numbers.
WindowTypeOK ==
    /\ row \in StreamRow
    /\ received \in Seq(Nat)
    /\ DOMAIN table \subseteq 1 .. (row.next - 1)
    /\ Len(history) = row.next - 1
    /\ \A p \in Replicas : cache[p] \in StreamRow \cup {NoRow}
    /\ reader.phase \in Phases /\ reader.at \in Replicas /\ reader.row \in StreamRow \cup {NoRow}
    /\ final \in Nat

\* The window a committed row advertises is exactly what the chunk table holds,
\* with no hole: bookkeeping and trim of every append agree.
WindowMatchesTable == DOMAIN table = row.start .. (row.next - 1)

\* Over all its connections and replicas the consumer gets chunks 1, 2, 3, ... and
\* a final marker directly after the last of them: nothing is skipped, repeated
\* or reordered, and nothing is sent before it was appended, whatever rows its
\* lookups returned.
NoSilentSkip ==
    /\ \A i \in DOMAIN received : received[i] = i
    /\ LastSeq < row.next
    /\ final # 0 => final = Len(received) + 1

\* AddStreamChunk, which trims after every chunk and never sees again what it has
\* dropped, ends with the longest run of the newest chunks that fits both bounds,
\* whatever was appended: an oversized chunk empties the window, and the chunks
\* after it fill it again.
TrimKeepsNewest ==
    LET kept == AddStreamChunks(<< >>, 1, history)
    IN  \A s \in DOMAIN history : s \in DOMAIN kept <=> s \notin Overflow(history)

\* The retained window is the longest run of the newest chunks that fits both
\* bounds ("the newest MaxRequestStreamWindowChunks rows whose cumulative payload
\* fits MaxRequestStreamWindowBytes"), as if the whole history were trimmed at once.
NewestThatFit ==
    \A s \in DOMAIN history : s \in DOMAIN table <=> s \notin Overflow(history)

\* A reader is refused with OUT_OF_RANGE only if the chunk it needs next has left
\* the retained window.  Holds for the memory store only.
RefusedOnlyBehindWindow ==
    [][reader'.phase = "expired" /\ reader.phase # "expired" => LastSeq + 1 < row.start]_vars

\* The sequence number of a final marker is reserved: no chunk ever has it.
FinalSeqReserved == final # 0 => row.next <= final

\* An open stream of a terminal request ends, unless the request is reopened:
\* with the final marker, a refusal or a lost connection.
StreamEnds ==
    (IsTerminal(row) /\ reader.phase = "lookup") ~> (~ IsTerminal(row) \/ reader.phase \notin {"lookup", "chunks"})
=============================================================================
