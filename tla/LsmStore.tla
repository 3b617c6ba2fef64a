------------------------------- MODULE LsmStore -------------------------------
(***************************************************************************)
(* The LSM key-value store of 2026-09-02-c-lsm-kv-store: a memtable backed  *)
(* by a write-ahead log, flushed to immutable sstables that are compacted   *)
(* into one.  The store is a single sequential process, so the hard part    *)
(* is a crash of that process between two file operations of kv_put,        *)
(* kv_flush or kv_compact, and what kv_open makes of the files it finds.    *)
(*                                                                          *)
(* A step is one effect on the directory together with the memory updates   *)
(* that follow it; a crash may come between any two steps and inside the    *)
(* ones that write a file, and every file operation may fail.               *)
(***************************************************************************)
EXTENDS Naturals, Sequences, FiniteSets

CONSTANTS
    Keys,              \* keys, ordered like strcmp orders them
    Vals,              \* values
    None,              \* no record for the key
    Tomb,              \* a tombstone (REC_DEL record, NULL value)
    Garbage,           \* a value read from bytes of two records
    Fails,             \* the -1 of kv_open and kv_get
    FlushThreshold,    \* KV_MEMTABLE_FLUSH_THRESHOLD
    CompactThreshold,  \* KV_COMPACT_THRESHOLD
    MaxId,             \* bound on sstable ids handed out
    MaxLog,            \* bound on the records in the log
    Faults             \* which of the faults below may happen

\* Deaths inside a write to the log or to a table; errors that writing a
\* table, appending to the log, truncating it and removing a file report; and
\* a table cut short by an error that only fclose sees.
AllFaults == {"wal_tear", "sst_tear", "sst_error", "wal_error", "remove_error", "sst_short"}

ASSUME LsmAssumption ==
    /\ Keys \subseteq Nat
    /\ None \notin Vals /\ Tomb \notin Vals /\ Garbage \notin Vals
    /\ None # Tomb /\ None # Garbage /\ Tomb # Garbage
    /\ Fails \notin Vals \cup {None, Tomb, Garbage} /\ Fails \notin [Keys -> Vals \cup {None}]
    /\ FlushThreshold \in Nat \ {0}
    /\ CompactThreshold \in Nat \ {0, 1}
    /\ MaxId \in Nat /\ MaxLog \in Nat
    /\ Faults \subseteq AllFaults

VARIABLES
    wal,     \* wal.log: its records, a torn one marked by tear
    ondisk,  \* ids of the NNNNNN.sst files in the directory
    data,    \* what the file of each id holds for each key
    torn,    \* ids of the files that end inside a record
    mt,      \* db->mt
    tables,  \* db->sstables: ids, oldest first
    lost,    \* <<id, key>> of index entries whose record is not in the file
    nextId,  \* db->next_sstable_id
    nolog,   \* db->wal.fp is NULL behind a kv_flush that failed
    pc,      \* what the process is about to do
    acked    \* history: the map according to the records logged so far

dir == <<wal, ondisk, data, torn>>
memory == <<mt, tables, lost, nextId, nolog>>
vars == <<wal, ondisk, data, torn, mt, tables, lost, nextId, nolog, pc, acked>>

Ids == 0 .. MaxId
Entry == Vals \cup {None, Tomb, Garbage}
Table == [Keys -> Entry]
Empty == [k \in Keys |-> None]
Record == [key : Keys, val : Entry, tear : BOOLEAN]
-----------------------------------------------------------------------------
(* Reading *)

Latest(S) == CHOOSE m \in S : \A x \in S : x <= m

\* Positions of the whole records of key k that wal_replay reaches.
LogHits(w, k) ==
    {i \in 1 .. Len(w) : w[i].key = k /\ \A j \in 1 .. i : ~w[j].tear}

\* wal_replay: later records overwrite earlier ones, reading stops at the
\* first record that is not whole.
wal_replay(w) ==
    [k \in Keys |-> IF LogHits(w, k) = {} THEN None ELSE w[Latest(LogHits(w, k))].val]

\* Records appended behind an incomplete one: record_read loses its place.
Overrun(w) == \E i \in 1 .. Len(w) : w[i].tear /\ i < Len(w)

\* What kv_open may find in the log.  With bytes behind an incomplete record
\* the reader completes that record's value with them.
Replays(w) ==
    {wal_replay(w)} \cup
    IF Overrun(w)
    THEN {[wal_replay(w) EXCEPT ![w[i].key] = Garbage] :
             i \in {i \in 1 .. Len(w) : w[i].tear /\ \A j \in 1 .. (i - 1) : ~w[j].tear}}
    ELSE {}

\* Ids of a set S of files with contents d that have a record of k, and the
\* newest such record.
Live(d, S, k) == {i \in S : d[i][k] # None}
Newest(d, S, k) ==
    IF Live(d, S, k) = {} THEN None ELSE d[Latest(Live(d, S, k))][k]

Visible(e) == IF e = Tomb THEN None ELSE e

\* Variant: tables are searched from the oldest to the newest.
InTables_OldestFirst(k) ==
    LET hits == {i \in 1 .. Len(tables) : data[tables[i]][k] # None}
    IN IF hits = {} THEN None
       ELSE data[tables[CHOOSE m \in hits : \A x \in hits : m <= x]][k]

\* Positions of the open tables whose files hold a record of k.
TableHits(k) == {i \in 1 .. Len(tables) : data[tables[i]][k] # None}
InTables(k) ==
    IF TableHits(k) = {} THEN None ELSE data[tables[Latest(TableHits(k))]][k]

\* sstable_get: an index entry without its record is an error.
IndexHits(k) == TableHits(k) \cup {i \in 1 .. Len(tables) : <<tables[i], k>> \in lost}
sstable_get(k) ==
    IF IndexHits(k) = {} THEN None
    ELSE LET id == tables[Latest(IndexHits(k))]
         IN IF <<id, k>> \in lost THEN Fails ELSE data[id][k]

\* kv_get: the memtable first, then the tables from the newest to the oldest.
kv_get(k) == Visible(IF mt[k] # None THEN mt[k] ELSE sstable_get(k))

\* What the log and the whole records of the tables in the directory say of k.
Stored(k) ==
    LET m == wal_replay(wal)
    IN Visible(IF m[k] # None THEN m[k] ELSE Newest(data, ondisk, k))

\* What kv_get would return for each key if the process were killed now and
\* the store opened again: kv_open fails as soon as one table is torn.
Contents == IF torn = {} THEN [k \in Keys |-> Stored(k)] ELSE Fails
-----------------------------------------------------------------------------
Init ==
    /\ wal = <<>> /\ ondisk = {} /\ torn = {}
    /\ data = [i \in Ids |-> Empty]
    /\ mt = Empty /\ tables = <<>> /\ lost = {} /\ nextId = 0 /\ nolog = FALSE
    /\ pc = "down"
    /\ acked = Empty

MemLen(m) == Cardinality({k \in Keys : m[k] # None})

\* qsort(by_id): the position of an id is the number of smaller ids.
Rank(S, x) == Cardinality({y \in S : y < x})
ById(S) == [i \in 1 .. Cardinality(S) |-> CHOOSE x \in S : Rank(S, x) = i - 1]

\* sstable_open refuses a file that ends inside a record, and kv_open with it.
kv_open ==
    /\ pc = "down"
    /\ torn = {}
    /\ tables' = ById(ondisk)
    /\ nextId' = IF ondisk = {} THEN 0 ELSE Latest(ondisk) + 1
    /\ mt' \in Replays(wal)
    /\ pc' = "idle"
    /\ UNCHANGED <<dir, lost, nolog, acked>>

\* record_write + fflush on the log, then memtable_put, then the threshold.
Log(k, e) ==
    /\ pc = "idle" /\ ~nolog
    /\ Len(wal) < MaxLog
    /\ wal' = Append(wal, [key |-> k, val |-> e, tear |-> FALSE])
    /\ mt' = [mt EXCEPT ![k] = e]
    /\ pc' = IF MemLen(mt') >= FlushThreshold THEN "flush" ELSE "idle"
    /\ acked' = [acked EXCEPT ![k] = Visible(e)]
    /\ UNCHANGED <<ondisk, data, torn, tables, lost, nextId, nolog>>

kv_put(k, v) == Log(k, v)
kv_del(k) == Log(k, Tomb)

\* kv_flush and kv_compact called by the user.
kv_flush ==
    /\ pc = "idle" /\ mt # Empty
    /\ pc' = "flush"
    /\ UNCHANGED <<dir, memory, acked>>

kv_compact ==
    /\ pc = "idle" /\ Len(tables) > 1
    /\ pc' = "compact"
    /\ UNCHANGED <<dir, memory, acked>>

\* write_sstable to the end.
WriteFile(id, m) ==
    /\ ondisk' = ondisk \cup {id}
    /\ data' = [data EXCEPT ![id] = m]
    /\ torn' = torn \ {id}

\* Variant: a flush leaves tombstones out, as a compaction does.
sstable_flush_DropsTombs ==
    /\ pc = "flush"
    /\ nextId < MaxId
    /\ WriteFile(nextId, [k \in Keys |-> Visible(mt[k])])
    /\ tables' = Append(tables, nextId)
    /\ nextId' = nextId + 1
    /\ mt' = Empty
    /\ pc' = "truncate"
    /\ UNCHANGED <<wal, lost, nolog, acked>>

\* The first step of kv_flush: the memtable becomes the newest table.
sstable_flush ==
    /\ pc = "flush"
    /\ nextId < MaxId
    /\ WriteFile(nextId, mt)
    /\ tables' = Append(tables, nextId)
    /\ nextId' = nextId + 1
    /\ mt' = Empty
    /\ pc' = "truncate"
    /\ UNCHANGED <<wal, lost, nolog, acked>>

\* wal_close, wal_truncate, wal_open, then the compaction threshold.
wal_truncate ==
    /\ pc = "truncate"
    /\ wal' = <<>>
    /\ pc' = IF Len(tables) >= CompactThreshold THEN "compact" ELSE "idle"
    /\ UNCHANGED <<ondisk, data, torn, memory, acked>>

\* The merge of all open tables, tombstones dropped.
Merged == [k \in Keys |-> Visible(InTables(k))]

sstable_compact ==
    /\ pc = "compact"
    /\ nextId < MaxId
    /\ WriteFile(nextId, Merged)
    /\ nextId' = nextId + 1
    /\ pc' = "remove"
    /\ UNCHANGED <<wal, mt, tables, lost, nolog, acked>>

\* The rest of an iteration that has dropped table id and goes on with rest:
\* behind the last one the merged table takes their place.
Forget(id, rest) ==
    /\ tables' = IF Len(tables) > 1 THEN rest ELSE <<nextId - 1>>
    /\ lost' = {e \in lost : e[1] # id}
    /\ pc' = IF Len(tables) > 1 THEN "remove" ELSE "idle"
    /\ UNCHANGED <<wal, mt, nextId, nolog, acked>>

\* Variant: the newest of the old tables is removed first.
RemoveOld_NewestFirst ==
    LET last == tables[Len(tables)]
    IN /\ pc = "remove"
       /\ ondisk' = ondisk \ {last}
       /\ data' = [data EXCEPT ![last] = Empty]
       /\ torn' = torn \ {last}
       /\ Forget(last, SubSeq(tables, 1, Len(tables) - 1))

\* remove(old_path), oldest table first.
RemoveOld ==
    /\ pc = "remove"
    /\ ondisk' = ondisk \ {Head(tables)}
    /\ data' = [data EXCEPT ![Head(tables)] = Empty]
    /\ torn' = torn \ {Head(tables)}
    /\ Forget(Head(tables), Tail(tables))
-----------------------------------------------------------------------------
(* Failures *)

Stop ==
    /\ pc' = "down"
    /\ mt' = Empty /\ tables' = <<>> /\ lost' = {} /\ nextId' = 0 /\ nolog' = FALSE

\* The process dies between two steps, exits after kv_close, or dies because
\* kv_put writes to a log that is NULL or kv_get frees a key it never read.
Crash ==
    /\ pc # "down"
    /\ Stop
    /\ UNCHANGED <<dir, acked>>

\* A record of k that is cut short at the end of the log.
PartRecord(k) == wal' = Append(wal, [key |-> k, val |-> None, tear |-> TRUE])

\* The process dies inside record_write of kv_put or kv_del.
CrashInLog(k) ==
    /\ "wal_tear" \in Faults
    /\ pc = "idle" /\ ~nolog
    /\ Len(wal) < MaxLog
    /\ PartRecord(k)
    /\ Stop
    /\ UNCHANGED <<ondisk, data, torn, acked>>

\* record_write or fflush fails and kv_put or kv_del returns -1, with a part
\* of the record in the log (if there is none, nothing has changed).
LogError(k) ==
    /\ "wal_error" \in Faults
    /\ pc = "idle" /\ ~nolog
    /\ Len(wal) < MaxLog
    /\ PartRecord(k)
    /\ UNCHANGED <<ondisk, data, torn, memory, pc, acked>>

\* wal_truncate fails before it has emptied the log, or wal_open behind it.
TruncateError ==
    /\ "wal_error" \in Faults
    /\ pc = "truncate"
    /\ wal' \in {wal, <<>>}
    /\ nolog' = TRUE
    /\ pc' = "idle"
    /\ UNCHANGED <<ondisk, data, torn, mt, tables, lost, nextId, acked>>

\* A file of table m left unfinished: the records below key c are whole, the
\* record of c is cut short or missing.
PartFile(id, m) ==
    \E c \in {k \in Keys : m[k] # None}, cut \in BOOLEAN :
        /\ ondisk' = ondisk \cup {id}
        /\ data' = [data EXCEPT ![id] = [k \in Keys |-> IF k < c THEN m[k] ELSE None]]
        /\ torn' = IF cut THEN torn \cup {id} ELSE torn \ {id}

\* The process dies inside write_sstable.
CrashInFlush ==
    /\ "sst_tear" \in Faults
    /\ pc = "flush" /\ nextId < MaxId
    /\ PartFile(nextId, mt)
    /\ Stop
    /\ UNCHANGED <<wal, acked>>

CrashInCompact ==
    /\ "sst_tear" \in Faults
    /\ pc = "compact" /\ nextId < MaxId
    /\ PartFile(nextId, Merged)
    /\ Stop
    /\ UNCHANGED <<wal, acked>>

\* fopen or record_write fails inside write_sstable, in the second case an
\* unfinished file stays behind.
FailedFile(id, m) == PartFile(id, m) \/ UNCHANGED <<ondisk, data, torn>>

\* Variant: the log is truncated although the table was not written.
FlushError_Ignored ==
    /\ "sst_error" \in Faults
    /\ pc = "flush" /\ nextId < MaxId
    /\ FailedFile(nextId, mt)
    /\ pc' = "truncate"
    /\ UNCHANGED <<wal, memory, acked>>

\* write_sstable fails: kv_flush has not advanced next_sstable_id yet, so the
\* next flush overwrites the file; kv_compact has.
FlushError ==
    /\ "sst_error" \in Faults
    /\ pc = "flush" /\ nextId < MaxId
    /\ FailedFile(nextId, mt)
    /\ pc' = "idle"
    /\ UNCHANGED <<wal, memory, acked>>

CompactError ==
    /\ "sst_error" \in Faults
    /\ pc = "compact" /\ nextId < MaxId
    /\ FailedFile(nextId, Merged)
    /\ nextId' = nextId + 1
    /\ pc' = "idle"
    /\ UNCHANGED <<wal, mt, tables, lost, nolog, acked>>

\* The buffered bytes of a table fail to reach the file in fclose, whose result
\* write_sstable ignores: the index has entries for records that are not there.
ShortFile(id, m) ==
    /\ PartFile(id, m)
    /\ lost' = lost \cup {<<id, k>> : k \in {x \in Keys : m[x] # None /\ data'[id][x] = None}}

\* sstable_flush and sstable_compact that end in such a file go on as ever.
FlushShort ==
    /\ "sst_short" \in Faults
    /\ pc = "flush" /\ nextId < MaxId
    /\ ShortFile(nextId, mt)
    /\ tables' = Append(tables, nextId)
    /\ nextId' = nextId + 1
    /\ mt' = Empty
    /\ pc' = "truncate"
    /\ UNCHANGED <<wal, nolog, acked>>

CompactShort ==
    /\ "sst_short" \in Faults
    /\ pc = "compact" /\ nextId < MaxId
    /\ ShortFile(nextId, Merged)
    /\ nextId' = nextId + 1
    /\ pc' = "remove"
    /\ UNCHANGED <<wal, mt, tables, nolog, acked>>

\* remove fails, which kv_compact ignores.
RemoveError ==
    /\ "remove_error" \in Faults
    /\ pc = "remove"
    /\ Forget(Head(tables), Tail(tables))
    /\ UNCHANGED <<ondisk, data, torn>>
-----------------------------------------------------------------------------
Next ==
    \/ kv_open
    \/ \E k \in Keys : (\E v \in Vals : kv_put(k, v)) \/ kv_del(k)
    \/ kv_flush \/ sstable_flush \/ wal_truncate
    \/ kv_compact \/ sstable_compact \/ RemoveOld
    \/ Crash \/ CrashInFlush \/ CrashInCompact
    \/ \E k \in Keys : CrashInLog(k) \/ LogError(k)
    \/ FlushError \/ CompactError \/ TruncateError \/ RemoveError
    \/ FlushShort \/ CompactShort

Spec == Init /\ [][Next]_vars
-----------------------------------------------------------------------------
PCs == {"down", "idle", "flush", "truncate", "compact", "remove"}

\* The shape of the directory, of the memory of kv_store_t and of the process.
TypeOK ==
    /\ wal \in Seq(Record)
    /\ ondisk \subseteq Ids /\ torn \subseteq ondisk
    /\ data \in [Ids -> Table]
    /\ mt \in Table
    /\ tables \in Seq(Ids)
    /\ lost \subseteq Ids \X Keys
    /\ nextId \in Nat /\ nolog \in BOOLEAN
    /\ pc \in PCs
    /\ acked \in [Keys -> Vals \cup {None}]

\* Killing the process at any point and opening the store again yields, if
\* kv_open accepts the tables it finds, exactly the map of the records logged
\* so far: no step of flush, truncation, compaction or removal of old tables
\* loses a write or brings a deleted key back.
Durable == Contents # Fails => Contents = acked

\* "Every WAL append is fflush'd (survives a crashed process ...)"
\* (LEARNING.md:162): killing the process at any point and opening the store
\* again yields the map of the records logged so far.
SurvivesCrash == Contents = acked

\* Between operations kv_get returns what was last written to the key.
ReadsLatest == pc = "idle" => \A k \in Keys : kv_get(k) = acked[k]

\* The store seen through a restart is a map in which only kv_put and kv_del
\* change anything, one key at a time, until a death inside write_sstable makes
\* kv_open refuse the directory; from then on nothing changes any more.
Map == INSTANCE KvMap WITH dict <- Contents, Refused <- Fails
ImplementsMap == Map!Spec
-----------------------------------------------------------------------------
(* The inductive invariant behind Durable and ReadsLatest *)

Written == Vals \cup {None, Tomb}

\* No record is torn or mixed up: the log and the files hold what was written.
Clean ==
    /\ \A i \in 1 .. Len(wal) : ~wal[i].tear /\ wal[i].val \in Vals \cup {Tomb}
    /\ data \in [Ids -> [Keys -> Written]]
    /\ mt \in [Keys -> Written]

\* Every index entry has its record, and the log is open.
NoError == lost = {} /\ ~nolog

\* The directory holds what was logged, also when kv_open would refuse it.
OnDisk == \A k \in Keys : Stored(k) = acked[k]

Sorted(s) == \A i, j \in 1 .. Len(s) : i < j => s[i] < s[j]
Members(s) == {s[i] : i \in 1 .. Len(s)}

\* A running process has the files it knows in order, below next_sstable_id.
TablesInOrder ==
    pc # "down" =>
        /\ torn = {}
        /\ Sorted(tables)
        /\ \A i \in ondisk : i < nextId
        /\ pc # "remove" => Members(tables) = ondisk
        /\ pc = "compact" => tables # <<>>

\* The memtable is the replay of the log, until a flush has emptied it; then
\* the newest file holds what the log still says.
MemIsLog ==
    /\ pc \in {"idle", "flush", "compact", "remove"} => mt = wal_replay(wal)
    /\ pc = "truncate" =>
          /\ mt = Empty
          /\ \A k \in Keys : wal_replay(wal)[k] # None =>
                Newest(data, ondisk, k) = wal_replay(wal)[k]

\* While the inputs of a compaction are being removed, a key that the merged
\* table lacks is deleted or absent in the inputs that are left.
MergeCovers ==
    pc = "remove" =>
        LET merged == nextId - 1
        IN /\ tables # <<>> /\ nextId > 0 /\ merged \in Ids
           /\ ondisk = Members(tables) \cup {merged}
           /\ \A i \in Members(tables) : i < merged
           /\ \A k \in Keys :
                 \/ data[merged][k] # None
                 \/ Visible(Newest(data, Members(tables), k)) = None

\* The invariant that every step keeps although a crash may come between any
\* two calls of kv_put, kv_flush and kv_compact: the log and the files hold
\* what was written, the tables are in id order (store.c:52), the memtable is
\* the replay of the log (store.c:56), and the merged table of a compaction
\* stands for all its inputs while they are removed (store.c:117-122).
IInv == TypeOK /\ NoError /\ Clean /\ TablesInOrder /\ MemIsLog /\ MergeCovers /\ OnDisk
=============================================================================
