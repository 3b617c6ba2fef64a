------------------------------ MODULE LsmFaults ------------------------------
(***************************************************************************)
(* What is left of the store's guarantees under every fault of LsmStore:    *)
(* log records and tables that end inside a record, and files that cannot   *)
(* be written, truncated or removed.                                        *)
(***************************************************************************)
EXTENDS LsmStore

\* What kv_get returns for k once the operation under way is done; the merged
\* table stands for its inputs as soon as it is written.
AfterOp(k) ==
    Visible(CASE mt[k] # None -> mt[k]
              [] mt[k] = None /\ pc = "remove" -> data[nextId - 1][k]
              [] OTHER -> sstable_get(k))

\* The acknowledged values are on disk, and a running process finds them.
LiveOnDisk == \A k \in Keys : acked[k] # None => Stored(k) = acked[k]
LiveInMemory == \A k \in Keys : acked[k] # None => AfterOp(k) = acked[k]
LiveValues == LiveOnDisk /\ (pc # "down" => LiveInMemory)

\* What a restart finds, if kv_open accepts the directory.
LiveReopened == torn = {} => \A k \in Keys : acked[k] # None => Contents[k] = acked[k]

\* No record was appended behind a torn one, and every table that the process
\* has open has the records its index says.
Whole == ~Overrun(wal) /\ lost = {}

\* Deaths in the middle of a log record or a table, tables that cannot be
\* written, a log that cannot be written or truncated and files that cannot be
\* removed cost no value that was acknowledged: only a record appended behind
\* a torn one does, and a table cut short unnoticed.  (A key that was deleted
\* may come back, and a torn table keeps the store from being opened until it
\* is taken away.)  This is what is left of the guarantee the comment in
\* wal_replay speaks of (wal.c:48-50).
CostsNoValue == LiveValues /\ Whole /\ Whole' => LiveValues'
FaultsCostNoValue == [][CostsNoValue]_vars
-----------------------------------------------------------------------------
(* The inductive invariant behind it *)

\* A running process reads tables in id order below next_sstable_id.  Files it
\* does not know are below that id too, or the leftover of a flush that failed,
\* whose keys are still in the memtable.
FilesInOrder ==
    pc # "down" =>
        /\ Sorted(tables)
        /\ \A i \in Members(tables) : i < nextId
        /\ \A i \in ondisk : i <= nextId
        /\ nextId \in ondisk =>
              /\ pc \in {"idle", "flush", "compact"}
              /\ \A k \in Keys : data[nextId][k] # None => mt[k] # None
        /\ pc \in {"compact", "remove"} => tables # <<>>
        /\ pc = "remove" => /\ nextId - 1 \in ondisk
                            /\ \A i \in Members(tables) : i < nextId - 1

\* Unless a record was appended behind a torn one, the memtable is the replay
\* of the log, or a flush has emptied it: then the newest file says what the
\* log still says, or the log could not be opened again.
LogIsMem ==
    /\ \A i \in 1 .. Len(wal) : ~wal[i].tear => wal[i].val \in Vals \cup {Tomb}
    /\ pc = "truncate" \/ nolog => mt = Empty
    /\ nolog => pc \in {"idle", "compact", "remove"}
    /\ ~Overrun(wal) =>
          /\ pc \in {"idle", "flush", "compact", "remove"} => mt = wal_replay(wal) \/ nolog
          /\ pc = "truncate" /\ lost = {} =>
                \A k \in Keys : wal_replay(wal)[k] # None => Newest(data, ondisk, k) = wal_replay(wal)[k]

\* Of every state that the faults leave: the files the process knows are in
\* order (store.c:52) and the memtable is what the log says (store.c:56).
FaultInv == TypeOK /\ FilesInOrder /\ LogIsMem
=============================================================================
