----------------------------- MODULE LogStorage -----------------------------
(***************************************************************************)
(* One of the two log storages of a trade contract (positions or trades),  *)
(* with its storage canisters.                                             *)
(*                                                                         *)
(* New logs go to the end of a buffer.  When the buffer is long enough an  *)
(* activation of do_payouts flushes it, chunk by chunk, to the last of the *)
(* storage canisters, and first creates one when there is none or the last *)
(* one is full.  Each call on the way may fail.  Logs of positions are     *)
(* overwritten once, when the position is closed, by a run of _do_payouts, *)
(* wherever they are at that time.  storage_flush_lock keeps flushes and   *)
(* these runs apart.                                                       *)
(*                                                                         *)
(* A step is one message of the trade contract or of a storage canister.   *)
(* Sizes are counted in logs.                                              *)
(***************************************************************************)
EXTENDS Naturals, Sequences, FiniteSets, Functions

CONSTANTS
    MaxLogs,    \* bound: the number of logs that are made
    FlushAt,    \* FLUSH_STORAGE_BUFFER_AT_SIZE
    ChunkSize,  \* FLUSH_STORAGE_BUFFER_CHUNK_SIZE_BEFORE_MODULO
    Capacity,   \* MAX_STABLE_LOGS_STORAGE_BYTES
    Canister,   \* bound: the storage canisters that can be created
    Flusher,    \* bound: activations of do_payouts alive at once
    Updater,    \* bound: runs of _do_payouts alive at once
    Key,        \* bound: the positors, or the positions, that logs are indexed by
    IndexKeys,  \* index_keys_of_the_log_serialization: the keys of each log
    None        \* Option::None

ASSUME LogStorageAssumption ==
    /\ MaxLogs \in Nat /\ FlushAt \in Nat \ {0} /\ ChunkSize \in Nat \ {0} /\ Capacity \in Nat
    /\ None \notin Canister
    /\ IndexKeys \in [0 .. MaxLogs - 1 -> Seq(Key)]

VARIABLES
    id_counter,          \* the number of logs made
    storage_buffer,
    storage_canisters,   \* in the order of their creation
    storage_flush_lock,
    create_storage_canister_temp_holder,
    flush,               \* where each activation's flush_logs is
    update,              \* the updates of each run
    holds_lock,          \* the runs that set the flush lock
    created,             \* the canisters that the management canister made
    installed,           \* those that have the storage code
    stored,              \* the logs in each canister's stable memory
    map,                 \* each canister's index: the ids of the logs of a key
    first_log_id,        \* what each canister remembers as the id of its first log
    controller_mark_full

data == <<id_counter, storage_buffer, storage_canisters, storage_flush_lock,
          create_storage_canister_temp_holder>>
storage == <<created, installed, stored, map, first_log_id, controller_mark_full>>
vars == <<data, flush, update, holds_lock, storage>>

LogId == 0 .. MaxLogs - 1
Log == [id : LogId, final : BOOLEAN]
NewLog(id) == [id |-> id, final |-> FALSE]
FinalLog(id) == [id |-> id, final |-> TRUE]

StorageCanisterData ==
    [canister_id : Canister, first_log_id : Nat, length : Nat, is_full : BOOLEAN]

(* A flush waits for the management canister ("creating", "installing") or *)
(* for the storage canister ("sending"), or for the delivery of an answer  *)
(* that it already has.                                                    *)
FlushAtState == {"idle", "creating", "created", "createFailed", "installing", "installDone",
                 "installFailed", "sending", "sent", "full", "failed"}
Flush == [at : FlushAtState, canister : Canister \cup {None}, chunk_sizes : Seq(Nat)]
Idle == [at |-> "idle", canister |-> None, chunk_sizes |-> <<>>]

(* The update of a log, likewise: of a log in the buffer it is "done" at   *)
(* once, of a log on a canister it is a call.                              *)
Update == [at : {"none", "sent", "applied", "rejected", "done"}, canister : Canister \cup {None}]
NoUpdate == [at |-> "none", canister |-> None]
NoUpdates == [id \in LogId |-> NoUpdate]

Init ==
    /\ id_counter = 0
    /\ storage_buffer = <<>>
    /\ storage_canisters = <<>>
    /\ storage_flush_lock = FALSE
    /\ create_storage_canister_temp_holder = None
    /\ flush = [f \in Flusher |-> Idle]
    /\ update = [u \in Updater |-> NoUpdates]
    /\ holds_lock = {}
    /\ created = {}
    /\ installed = {}
    /\ stored = [c \in Canister |-> <<>>]
    /\ map = [c \in Canister |-> [k \in Key |-> <<>>]]
    /\ first_log_id = [c \in Canister |-> 0]
    /\ controller_mark_full = [c \in Canister |-> FALSE]

(* A new position or a settled trade log reaches the buffer.               *)
Extend ==
    /\ id_counter < MaxLogs
    /\ id_counter' = id_counter + 1
    /\ storage_buffer' = Append(storage_buffer, NewLog(id_counter))
    /\ UNCHANGED <<storage_canisters, storage_flush_lock, create_storage_canister_temp_holder,
                   flush, update, holds_lock, storage>>

-----------------------------------------------------------------------------
(* flush_logs                                                              *)

LastOf(s) == s[Len(s)]

(* The id after the last one that is on a storage canister.                *)
BufferFirstId ==
    IF storage_canisters = <<>> THEN 0
    ELSE LastOf(storage_canisters).first_log_id + LastOf(storage_canisters).length

(* The sizes of the chunks of a buffer of n logs.                          *)
ChunkSizes(n) ==
    LET chunks == (n + ChunkSize - 1) \div ChunkSize
    IN  [k \in 1 .. chunks |-> IF k < chunks THEN ChunkSize ELSE n - ChunkSize * (chunks - 1)]

(* The first chunk is sent to canister c.                                  *)
BeginSending(f, c) ==
    flush' = [flush EXCEPT ![f] =
                 [at |-> "sending", canister |-> c, chunk_sizes |-> ChunkSizes(Len(storage_buffer))]]

FlushEnds(f) ==
    /\ flush' = [flush EXCEPT ![f] = Idle]
    /\ storage_flush_lock' = FALSE

(* The last storage canister takes more logs.                              *)
HasRoom == storage_canisters # <<>> /\ ~LastOf(storage_canisters).is_full

FlushStart(f) ==
    /\ flush[f] = Idle
    /\ Len(storage_buffer) >= FlushAt
    /\ ~storage_flush_lock
    /\ UNCHANGED <<id_counter, storage_buffer, storage_canisters, update, holds_lock, storage>>
    /\ \/ /\ HasRoom
          /\ BeginSending(f, LastOf(storage_canisters).canister_id)
          /\ storage_flush_lock' = TRUE
          /\ UNCHANGED create_storage_canister_temp_holder
       \/ /\ ~HasRoom
          /\ create_storage_canister_temp_holder # None
          /\ create_storage_canister_temp_holder' = None
          /\ flush' = [flush EXCEPT ![f] =
                          [at |-> "installing", canister |-> create_storage_canister_temp_holder,
                           chunk_sizes |-> <<>>]]
          /\ storage_flush_lock' = TRUE
       \/ /\ ~HasRoom
          /\ create_storage_canister_temp_holder = None
          /\ UNCHANGED create_storage_canister_temp_holder
          /\ \/ /\ flush' = [flush EXCEPT ![f].at = "creating"]
                /\ storage_flush_lock' = TRUE
             \/ FlushEnds(f)   \* CyclesBalanceTooLow

CreateReply(f) ==
    /\ UNCHANGED <<id_counter, storage_buffer, storage_canisters,
                   create_storage_canister_temp_holder, update, holds_lock, storage>>
    /\ \/ /\ flush[f].at = "created"
          /\ flush' = [flush EXCEPT ![f].at = "installing"]
          /\ UNCHANGED storage_flush_lock
       \/ /\ flush[f].at = "createFailed"
          /\ FlushEnds(f)

(* The first_log_id of a new storage canister.                             *)
FirstLogId == BufferFirstId

(* What a failed installation leaves in the holder.                        *)
HeldForgotten(c) == None \* mutant: the canister is forgotten
Held(c) == c

InstallReply(f) ==
    /\ UNCHANGED <<id_counter, storage_buffer, update, holds_lock, storage>>
    /\ \/ /\ flush[f].at = "installDone"
          /\ storage_canisters' =
                Append(storage_canisters, [canister_id |-> flush[f].canister,
                                           first_log_id |-> FirstLogId,
                                           length |-> 0, is_full |-> FALSE])
          /\ BeginSending(f, flush[f].canister)
          /\ UNCHANGED <<storage_flush_lock, create_storage_canister_temp_holder>>
       \/ /\ flush[f].at = "installFailed"
          /\ create_storage_canister_temp_holder' = Held(flush[f].canister)
          /\ FlushEnds(f)
          /\ UNCHANGED storage_canisters

(* The number of logs counted for a chunk of n.                            *)
CountedMax(n) == ChunkSize \* mutant: the last chunk is shorter
Counted(n) == n

(* The buffer after a chunk of n logs is stored.                           *)
Drain(n) == SubSeq(storage_buffer, n + 1, Len(storage_buffer))

(* The answer to a flush call: the chunk is counted and drained and the    *)
(* next one is sent, or the flush ends.                                    *)
FlushReply(f) ==
    LET last == Len(storage_canisters)
        n == Head(flush[f].chunk_sizes)
    IN  /\ flush[f].at \in {"sent", "full", "failed"}
        /\ UNCHANGED <<id_counter, create_storage_canister_temp_holder, update, holds_lock, storage>>
        /\ storage_canisters' =
              CASE flush[f].at = "sent" -> [storage_canisters EXCEPT ![last].length = @ + Counted(n)]
                [] flush[f].at = "full" -> [storage_canisters EXCEPT ![last].is_full = TRUE]
                [] flush[f].at = "failed" -> storage_canisters
        /\ storage_buffer' = IF flush[f].at = "sent" THEN Drain(n) ELSE storage_buffer
        /\ IF flush[f].at = "sent" /\ Len(flush[f].chunk_sizes) > 1
           THEN /\ flush' = [flush EXCEPT ![f].at = "sending", ![f].chunk_sizes = Tail(@)]
                /\ UNCHANGED storage_flush_lock
           ELSE FlushEnds(f)

-----------------------------------------------------------------------------
(* The management canister and the storage canisters.                      *)

CreateCanister(f) ==
    /\ flush[f].at = "creating"
    /\ \/ /\ flush' = [flush EXCEPT ![f].at = "createFailed"]
          /\ UNCHANGED created
       \/ \E c \in Canister \ created :
            /\ created' = created \cup {c}
            /\ flush' = [flush EXCEPT ![f].at = "created", ![f].canister = c]
    /\ UNCHANGED <<data, update, holds_lock, installed, stored, map, first_log_id, controller_mark_full>>

InstallCode(f) ==
    /\ flush[f].at = "installing"
    /\ \/ /\ flush' = [flush EXCEPT ![f].at = "installFailed"]
          /\ UNCHANGED installed
       \/ /\ flush' = [flush EXCEPT ![f].at = "installDone"]
          /\ installed' = installed \cup {flush[f].canister}
    /\ UNCHANGED <<data, update, holds_lock, created, stored, map, first_log_id, controller_mark_full>>

(* The chunk that a flush call carries.                                    *)
Chunk(f) == SubSeq(storage_buffer, 1, Head(flush[f].chunk_sizes))

Fits(c, chunk) == Len(stored[c]) + Len(chunk) <= Capacity

(* The index with the logs of a chunk: a log is entered under each of its  *)
(* keys.                                                                   *)
FirstKey(id) == {IndexKeys[id][1]} \* mutant: under the first of its keys only
KeysOf(id) == Range(IndexKeys[id])
Indexed(index, chunk) ==
    [k \in Key |-> index[k] \o SelectSeq([j \in DOMAIN chunk |-> chunk[j].id],
                                        LAMBDA id : k \in KeysOf(id))]

(* The flush method of a storage canister, which may also not be reached,  *)
(* or find that its memory does not grow.                                  *)
StorageFlush(f) ==
    LET c == flush[f].canister
        chunk == Chunk(f)
    IN  /\ flush[f].at = "sending"
        /\ UNCHANGED <<data, update, holds_lock, created, installed, controller_mark_full>>
        /\ \/ /\ flush' = [flush EXCEPT ![f].at = "failed"]
              /\ UNCHANGED <<stored, map, first_log_id>>
           \/ /\ flush' = [flush EXCEPT ![f].at = "full"]
              /\ UNCHANGED <<stored, map, first_log_id>>
           \/ /\ ~controller_mark_full[c]
              /\ Fits(c, chunk)
              /\ stored' = [stored EXCEPT ![c] = @ \o chunk]
              /\ map' = [map EXCEPT ![c] = Indexed(@, chunk)]
              /\ first_log_id' = IF stored[c] = <<>>
                                 THEN [first_log_id EXCEPT ![c] = Head(chunk).id]
                                 ELSE first_log_id
              /\ flush' = [flush EXCEPT ![f].at = "sent"]

ControllerMarkFull(c) ==
    /\ c \in installed
    /\ controller_mark_full' = [controller_mark_full EXCEPT ![c] = ~@]
    /\ UNCHANGED <<data, flush, update, holds_lock, created, installed, stored, map, first_log_id>>

-----------------------------------------------------------------------------
(* do_update_storage_position, for the position logs that a run finalises. *)

(* The entry of the list that covers an id.                                *)
CoversNext(sc, id) == \* mutant: off by one
    id >= sc.first_log_id /\ id <= sc.first_log_id + sc.length
Covers(sc, id) == id >= sc.first_log_id /\ id < sc.first_log_id + sc.length
OnCanister(id) == \E k \in DOMAIN storage_canisters : Covers(storage_canisters[k], id)
CanisterOf(id) ==
    storage_canisters[CHOOSE k \in DOMAIN storage_canisters : Covers(storage_canisters[k], id)].canister_id

UpdateStartsWhileFlushing == TRUE \* mutant: ignores the flush lock
UpdateMayStart == ~storage_flush_lock

(* A run takes the lock, writes the logs that are in the buffer, and calls *)
(* the storage canisters for the others.                                   *)
StartUpdates(u, ids) ==
    /\ u \notin holds_lock
    /\ UpdateMayStart
    /\ ids # {} /\ ids \subseteq 0 .. id_counter - 1
    /\ storage_flush_lock' = TRUE
    /\ holds_lock' = holds_lock \cup {u}
    /\ update' = [update EXCEPT ![u] = [id \in LogId |->
                     IF id \notin ids THEN NoUpdate
                     ELSE IF OnCanister(id) THEN [at |-> "sent", canister |-> CanisterOf(id)]
                     ELSE [at |-> "done", canister |-> None]]]
    /\ storage_buffer' = [k \in DOMAIN storage_buffer |->
                             IF BufferFirstId + k - 1 \in ids /\ ~OnCanister(BufferFirstId + k - 1)
                             THEN FinalLog(BufferFirstId + k - 1) ELSE storage_buffer[k]]
    /\ UNCHANGED <<id_counter, storage_canisters, create_storage_canister_temp_holder, flush, storage>>

(* The place of an id in the stable memory of a storage canister.          *)
Place(c, id) == id - first_log_id[c] + 1
Found(c, id) == id >= first_log_id[c] /\ Place(c, id) \in DOMAIN stored[c]

(* cm_update_log                                                           *)
StorageUpdate(u, id) ==
    LET c == update[u][id].canister
    IN  /\ update[u][id].at = "sent"
        /\ \/ /\ update' = [update EXCEPT ![u][id].at = "rejected"]
              /\ UNCHANGED stored
           \/ /\ Found(c, id)
              /\ update' = [update EXCEPT ![u][id].at = "applied"]
              /\ stored' = [stored EXCEPT ![c][Place(c, id)] = FinalLog(id)]
        /\ UNCHANGED <<data, flush, holds_lock, created, installed, map, first_log_id,
                       controller_mark_full>>

UpdateReply(u, id) ==
    /\ update[u][id].at \in {"applied", "rejected"}
    /\ update' = [update EXCEPT ![u][id].at = "done"]
    /\ UNCHANGED <<data, flush, holds_lock, storage>>

(* The end of the run, when its payouts are answered too.                  *)
UpdatesEnd(u) ==
    /\ u \in holds_lock
    /\ \A id \in LogId : update[u][id].at \in {"none", "done"}
    /\ update' = [update EXCEPT ![u] = NoUpdates]
    /\ holds_lock' = holds_lock \ {u}
    /\ storage_flush_lock' = FALSE
    /\ UNCHANGED <<id_counter, storage_buffer, storage_canisters,
                   create_storage_canister_temp_holder, flush, storage>>

-----------------------------------------------------------------------------

FlushStep(f) == CreateReply(f) \/ InstallReply(f) \/ FlushReply(f)
CalleeStep(f) == CreateCanister(f) \/ InstallCode(f) \/ StorageFlush(f)

Next ==
    \/ Extend
    \/ \E f \in Flusher : FlushStart(f) \/ FlushStep(f) \/ CalleeStep(f)
    \/ \E c \in Canister : ControllerMarkFull(c)
    \/ \E u \in Updater :
         \/ \E ids \in SUBSET LogId : StartUpdates(u, ids)
         \/ \E id \in LogId : StorageUpdate(u, id) \/ UpdateReply(u, id)
         \/ UpdatesEnd(u)

Spec == Init /\ [][Next]_vars

-----------------------------------------------------------------------------
(* Properties.                                                             *)

TypeOK ==
    /\ id_counter \in 0 .. MaxLogs
    /\ storage_buffer \in Seq(Log)
    /\ storage_canisters \in Seq(StorageCanisterData)
    /\ \A k \in DOMAIN storage_canisters : storage_canisters[k].length <= Capacity
    /\ storage_flush_lock \in BOOLEAN
    /\ create_storage_canister_temp_holder \in Canister \cup {None}
    /\ flush \in [Flusher -> Flush]
    /\ update \in [Updater -> [LogId -> Update]]
    /\ holds_lock \subseteq Updater
    /\ installed \subseteq created /\ created \subseteq Canister
    /\ stored \in [Canister -> Seq(Log)]
    /\ first_log_id \in [Canister -> LogId \cup {0}]
    /\ controller_mark_full \in [Canister -> BOOLEAN]

(* The list of the storage canisters and then the buffer cover the ids     *)
(* without a gap and without an overlap, through every failure and every   *)
(* canister that fills up; and only the last canister takes more logs.     *)
Contiguous ==
    /\ \A k \in DOMAIN storage_canisters :
         storage_canisters[k].first_log_id =
             IF k = 1 THEN 0
             ELSE storage_canisters[k - 1].first_log_id + storage_canisters[k - 1].length
    /\ BufferFirstId + Len(storage_buffer) = id_counter
    /\ \A k \in 1 .. Len(storage_canisters) - 1 : storage_canisters[k].is_full

(* The chunk that a canister has stored and the contract does not know of. *)
Unacknowledged(c) ==
    IF \E f \in Flusher : flush[f].at = "sent" /\ flush[f].canister = c
    THEN Head(flush[CHOOSE f \in Flusher : flush[f].at = "sent" /\ flush[f].canister = c].chunk_sizes)
    ELSE 0

(* What the contract's list says of a storage canister is what its stable  *)
(* memory holds: the logs it counts, in order, besides a chunk whose       *)
(* answer is on its way; the two agree on the id of the first; and the     *)
(* list and the buffer follow on each other.                               *)
StoredWhereListed ==
    /\ TypeOK
    /\ Contiguous
    /\ \A k \in DOMAIN storage_canisters :
        LET sc == storage_canisters[k]
            c == sc.canister_id
        IN  /\ Len(stored[c]) = sc.length + Unacknowledged(c)
            /\ \A j \in DOMAIN stored[c] : stored[c][j].id = sc.first_log_id + j - 1
            /\ stored[c] # <<>> => first_log_id[c] = sc.first_log_id

(* cm_update_log never traps: a log is updated on the canister that has it. *)
UpdateFindsLog ==
    \A u \in Updater, id \in LogId :
        update[u][id].at = "sent" => Found(update[u][id].canister, id)

(* A canister that was created, for 20 trillion cycles, is never lost: it  *)
(* is in the list, in the holder, or in the hands of the one flush that    *)
(* installs it, and only in one of these places.                           *)
Listed(c) == \E k \in DOMAIN storage_canisters : storage_canisters[k].canister_id = c
HandledBy(f, c) ==
    /\ flush[f].canister = c
    /\ flush[f].at \in {"created", "installing", "installDone", "installFailed"}
NoCanisterLost ==
    \A c \in created :
        /\ Listed(c) \/ create_storage_canister_temp_holder = c \/ \E f \in Flusher : HandledBy(f, c)
        /\ ~(Listed(c) /\ create_storage_canister_temp_holder = c)
        /\ \A f \in Flusher :
             HandledBy(f, c) => ~Listed(c) /\ create_storage_canister_temp_holder # c

(* The storage is a log of records: whoever looks a record up by the list  *)
(* and the buffer finds it at its id at every moment, in its last version. *)
RecordOf(id) ==
    IF OnCanister(id) THEN stored[CanisterOf(id)][Place(CanisterOf(id), id)]
    ELSE storage_buffer[id - BufferFirstId + 1]

Records == INSTANCE RecordLog WITH
    size <- id_counter,
    record <- [id \in 0 .. id_counter - 1 |-> RecordOf(id)]

ImplementsRecordLog == Records!Spec

=============================================================================
