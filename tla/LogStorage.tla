----------------------------- MODULE LogStorage -----------------------------
(***************************************************************************)
(* The scheduler's storage: in-memory stores whose transactions are        *)
(* written to a replicated log, with periodic snapshots, truncation and    *)
(* recovery by replay (storage/log/LogStorage.java, StreamManagerImpl.java,*)
(* EntrySerializer.java, SnapshotStoreImpl.java, log/mesos/MesosLog.java). *)
(*                                                                         *)
(* The write lock admits one transaction or snapshot at a time.  What is   *)
(* too large for one log entry is appended as a header and chunks, and the *)
(* process may die between any two of them.                                *)
(***************************************************************************)
EXTENDS StorageOps, Naturals, SequencesExt

CONSTANTS
  SlaveHost,               \* [Slaves -> Hosts]: where a slave runs
  ChunkCounts,             \* the numbers of chunks a large entry may need
  MaxOps,                  \* bound on the operations of a transaction
  TaskStoreTransactional,  \* -use_beta_db_task_store: DbTaskStore, not MemTaskStore
  WorkMayThrow             \* whether the callers' work may fail half way

ASSUME LogAssumption ==
  /\ SlaveHost \in [Slaves -> Hosts]
  /\ ChunkCounts \subseteq Nat \ {0, 1}
  /\ MaxOps \in Nat
  /\ TaskStoreTransactional \in BOOLEAN
  /\ WorkMayThrow \in BOOLEAN

VARIABLES
  log,       \* the replicated log, from its first position on
  memory,    \* the volatile stores
  undo,      \* the volatile stores when the transaction began
  ops,       \* the operations recorded by the open transaction
  frames,    \* what remains to be appended of a transaction or snapshot
  first,     \* where the snapshot being written begins in the log
  doing,     \* what the holder of the write lock does
  phase,     \* the process: down, starting (initialisation logic runs), up
  writer     \* whether the log writer is usable

logVars == <<log, memory, undo, ops, frames, first, doing, phase, writer>>

Noop == [type |-> "NOOP"]
TransactionEntry(o) == [type |-> "TRANSACTION", ops |-> o]
SnapshotEntry(s) == [type |-> "SNAPSHOT", store |-> s]

\* Frames.  A checksum is abstracted to the entry it was computed from.
Plain(e) == [frame |-> "none", entry |-> e]
Header(n, e) == [frame |-> "header", chunks |-> n, entry |-> e]
Chunk(i, e) == [frame |-> "chunk", part |-> i, entry |-> e]

\* serialize: one log entry, or a header followed by chunks; sizes are left open.
Serialize(e) ==
  {<<Plain(e)>>} \cup {<<Header(n, e)>> \o [i \in 1 .. n |-> Chunk(i, e)] : n \in ChunkCounts}

-----------------------------------------------------------------------------
(* Reading the log.                                                        *)

\* applySnapshot empties every store before it restores it, but for the framework
\* identifier, which is a single value.
ApplySnapshot(s, snapshot) ==
  IF snapshot.framework = None THEN [snapshot EXCEPT !.framework = s.framework]
                               ELSE snapshot

ReplayEntry(s, e) ==
  CASE e.type = "NOOP" -> s
    [] e.type = "TRANSACTION" -> FoldLeft(ReplayOp, s, e.ops)
    [] e.type = "SNAPSHOT" -> ApplySnapshot(s, e.store)

\* The reader between two positions: the chunks of an unfinished frame are kept.
NoHeader == [frame |-> "no header"]

Reader == [store |-> EmptyStore, header |-> NoHeader, chunks |-> <<>>, ok |-> TRUE]

FrameComplete(h, chunks) == Len(chunks) = h.chunks

ChecksumMatches(h, chunks) == \A i \in DOMAIN chunks : chunks[i] = Chunk(i, h.entry)

\* Mutation: the chunks of an aborted frame count for the next one.
ReadKeepingChunks(r, f) ==
  CASE f.frame = "none" -> [r EXCEPT !.store = ReplayEntry(@, f.entry)]
    [] f.frame = "header" -> [r EXCEPT !.header = f]
    [] f.frame = "chunk" ->
         IF r.header = NoHeader THEN r
         ELSE LET chunks == Append(r.chunks, f)
              IN  IF ~ FrameComplete(r.header, chunks) THEN [r EXCEPT !.chunks = chunks]
                  ELSE [store  |-> ReplayEntry(r.store, f.entry), header |-> NoHeader,
                        chunks |-> <<>>,
                        ok     |-> r.ok /\ ChecksumMatches(r.header, chunks)]

\* readFromBeginning and tryDecodeFrame: an entry or a header ends an unfinished
\* frame, which is dropped; a chunk without a header is skipped.
ReadFrame(r, f) ==
  CASE f.frame = "none" ->
         [r EXCEPT !.store = ReplayEntry(@, f.entry), !.header = NoHeader, !.chunks = <<>>]
    [] f.frame = "header" -> [r EXCEPT !.header = f, !.chunks = <<>>]
    [] f.frame = "chunk" ->
         IF r.header = NoHeader THEN r
         ELSE LET chunks == Append(r.chunks, f)
              IN  IF ~ FrameComplete(r.header, chunks) THEN [r EXCEPT !.chunks = chunks]
                  ELSE [store  |-> ReplayEntry(r.store, f.entry), header |-> NoHeader,
                        chunks |-> <<>>,
                        ok     |-> r.ok /\ ChecksumMatches(r.header, chunks)]

ReadAll(entries) == FoldLeft(ReadFrame, Reader, entries)

\* The state the next leader recovers.
Recoverable(entries) == ReadAll(entries).store

-----------------------------------------------------------------------------
(* The process.                                                            *)

Released ==
  /\ doing' = "idle"
  /\ ops' = <<>>
  /\ frames' = <<>>
  /\ first' = 0
  /\ undo' = EmptyStore

Dead ==
  /\ phase' = "down"
  /\ writer' = FALSE
  /\ memory' = EmptyStore
  /\ Released

Crash ==
  /\ phase # "down"
  /\ Dead
  /\ UNCHANGED log

\* readAll appends a no-op to become the coordinator; start then runs its
\* initialisation logic in a transaction of its own.
Start ==
  LET entries == Append(log, Plain(Noop))
  IN  /\ phase = "down"
      /\ ReadAll(entries).ok
      /\ log' = entries
      /\ memory' = Recoverable(entries)
      /\ undo' = Recoverable(entries)
      /\ phase' = "starting"
      /\ doing' = "work"
      /\ writer' = TRUE
      /\ UNCHANGED <<ops, frames, first>>

\* The append of the no-op times out: recovery fails.
StartFails ==
  /\ phase = "down"
  /\ log' = Append(log, Plain(Noop))
  /\ UNCHANGED <<memory, undo, ops, frames, first, doing, phase, writer>>

\* What the database rolls back; MemTaskStore keeps what was done to it.
RolledBack ==
  IF TaskStoreTransactional THEN undo ELSE [undo EXCEPT !.tasks = memory.tasks]

\* The transaction fails; while starting, this ends the process.
Rollback ==
  IF phase = "starting"
  THEN Dead
  ELSE memory' = RolledBack /\ Released /\ UNCHANGED phase

-----------------------------------------------------------------------------
(* Transactions.                                                           *)

Begin ==
  /\ phase = "up"
  /\ doing = "idle"
  /\ doing' = "work"
  /\ undo' = memory
  /\ UNCHANGED <<log, memory, ops, frames, first, phase, writer>>

\* StreamTransactionImpl.add
Add(recorded, op) ==
  IF recorded # <<>> /\ CanCoalesce(Last(recorded), op)
  THEN [recorded EXCEPT ![Len(recorded)] = Coalesce(@, op)]
  ELSE Append(recorded, op)

\* WriteAheadStorage: an operation is performed and recorded.
Perform(op) ==
  /\ doing = "work"
  /\ memory' = ReplayOp(memory, op)
  /\ ops' = Add(ops, op)
  /\ Len(ops') <= MaxOps
  /\ UNCHANGED <<log, undo, frames, first, doing, phase, writer>>

SaveTask(t, v) == Perform([type |-> "SAVE_TASKS", tasks |-> [u \in {t} |-> v]])

RemoveTask(t) == Perform([type |-> "REMOVE_TASKS", ids |-> {t}])

RegisterFramework(id) == Perform([type |-> "SAVE_FRAMEWORK_ID", id |-> id])

PutEntry(k, v) == Perform([type |-> "PUT", key |-> k, value |-> v])

\* saveHostAttributes records nothing when it changes nothing.
SaveHost(h, v) ==
  /\ memory.hosts[h] # v
  /\ Perform([type |-> "SAVE_HOST_ATTRIBUTES", host |-> h, value |-> v])

\* resourceOffers: an offer brings slave and attributes, and keeps the mode.
SaveOffer(slave, a) ==
  LET h == SlaveHost[slave]
  IN  SaveHost(h, [slave      |-> slave,
                   mode       |-> IF memory.hosts[h] = None THEN "NONE"
                                  ELSE memory.hosts[h].mode,
                   attributes |-> a])

\* A maintenance call changes the mode of a host once in its transaction.
SetMaintenanceMode(h, m) ==
  /\ memory.hosts[h] # None
  /\ \A i \in DOMAIN ops : ops[i].type = "SAVE_HOST_ATTRIBUTES" => ops[i].host # h
  /\ SaveHost(h, [memory.hosts[h] EXCEPT !.mode = m])

WorkThrows ==
  /\ WorkMayThrow
  /\ doing = "work"
  /\ Rollback
  /\ writer' = (writer /\ phase # "starting")
  /\ UNCHANGED log

\* commit: a transaction without operations is not written.
CommitEmpty ==
  /\ doing = "work"
  /\ ops = <<>>
  /\ phase' = "up"
  /\ Released
  /\ UNCHANGED <<log, memory, writer>>

Commit ==
  /\ doing = "work"
  /\ ops # <<>>
  /\ frames' \in Serialize(TransactionEntry(ops))
  /\ doing' = "commit"
  /\ UNCHANGED <<log, memory, undo, ops, first, phase, writer>>

-----------------------------------------------------------------------------
(* The log.                                                                *)

AppendFrame ==
  /\ doing \in {"commit", "snapshot"}
  /\ writer
  /\ log' = Append(log, Head(frames))
  /\ IF Len(frames) > 1
     THEN frames' = Tail(frames) /\ UNCHANGED <<undo, ops, first, doing, phase>>
     ELSE IF doing = "commit"
     THEN Released /\ phase' = "up"
     ELSE /\ doing' = "truncate"
          /\ frames' = <<>>
          /\ UNCHANGED <<undo, ops, first, phase>>
  /\ UNCHANGED <<memory, writer>>

\* A timeout or a failed writer disables the log and shuts the process down; the
\* entry may have been written all the same.  Later appends fail at once.
AppendFails ==
  /\ doing \in {"commit", "snapshot"}
  /\ log' \in {log} \cup (IF writer THEN {Append(log, Head(frames))} ELSE {})
  /\ Rollback
  /\ writer' = FALSE

\* doSnapshot: the state is captured and written under the write lock.
Snapshot ==
  /\ phase = "up"
  /\ doing = "idle"
  /\ frames' \in Serialize(SnapshotEntry(memory))
  /\ first' = Len(log) + 1
  /\ doing' = "snapshot"
  /\ undo' = memory
  /\ UNCHANGED <<log, memory, ops, phase, writer>>

\* Mutation: truncates to the last position that was written.
TruncatedToLast == <<Last(log)>>

\* truncateBefore: the first position the snapshot was written to stays.
Truncated == SubSeq(log, first, Len(log))

Truncate ==
  /\ doing = "truncate"
  /\ log' = Truncated
  /\ Released
  /\ UNCHANGED <<memory, phase, writer>>

TruncateFails ==
  /\ doing = "truncate"
  /\ log' \in {log, Truncated}
  /\ writer' = FALSE
  /\ Released
  /\ UNCHANGED <<memory, phase>>

-----------------------------------------------------------------------------

LogInit ==
  /\ log = <<>>
  /\ memory = EmptyStore
  /\ undo = EmptyStore
  /\ ops = <<>>
  /\ frames = <<>>
  /\ first = 0
  /\ doing = "idle"
  /\ phase = "down"
  /\ writer = FALSE

Mutation ==
  \/ \E t \in TaskIds : RemoveTask(t) \/ \E v \in Tasks : SaveTask(t, v)
  \/ \E id \in Frameworks : RegisterFramework(id)
  \/ \E k \in Keys, v \in Entries \cup {None} : PutEntry(k, v)
  \/ \E s \in Slaves, a \in Attributes : SaveOffer(s, a)
  \/ \E h \in Hosts, m \in MaintenanceMode : SetMaintenanceMode(h, m)

LogNext ==
  \/ Crash \/ Start \/ StartFails
  \/ Begin \/ Mutation \/ WorkThrows \/ CommitEmpty \/ Commit
  \/ AppendFrame \/ AppendFails
  \/ Snapshot \/ Truncate \/ TruncateFails

LogSpec == LogInit /\ [][LogNext]_logVars

-----------------------------------------------------------------------------
(* Properties.                                                             *)

(***************************************************************************)
(* No recovery ever fails its checksum, whichever transactions and         *)
(* snapshots were left unfinished by crashes and failed appends, and       *)
(* wherever the log was truncated.                                         *)
(***************************************************************************)
LogReadable == ReadAll(log).ok

(***************************************************************************)
(* Between transactions a leader that can still write has in memory what   *)
(* its successor would recover: every operation is recorded, coalescing    *)
(* loses nothing, and what failed was undone.                              *)
(***************************************************************************)
MemoryIsDurable ==
  phase = "up" /\ doing = "idle" /\ writer => memory = Recoverable(log)

(***************************************************************************)
(* The storage implements atomic, durable transactions.  The last frame of *)
(* an entry is its commit point, even if the caller is told that it failed *)
(* and even if the process dies; recovery, snapshots and truncation change *)
(* nothing.  A leader that can no longer write is of no account.           *)
(***************************************************************************)
Abstract ==
  INSTANCE DurableStore WITH
    stored  <- Recoverable(log),
    working <- IF doing \in {"work", "commit"} /\ writer THEN memory ELSE None

ImplementsDurableStore == Abstract!DurableSpec

=============================================================================
