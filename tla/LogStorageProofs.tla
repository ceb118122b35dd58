-------------------------- MODULE LogStorageProofs --------------------------
(***************************************************************************)
(* Proofs about LogStorage, for any number of logs, canisters and          *)
(* activations: what the list of the storage canisters says is what they   *)
(* hold, no canister is lost, and the whole is a log of records.           *)
(***************************************************************************)
EXTENDS LogStorage, SequenceTheorems, FiniteSetTheorems, TLAPS

Active(f) == flush[f] # Idle
Installing(f) == flush[f].at \in {"created", "installing", "installDone", "installFailed"}
Creating(f) == Installing(f) \/ flush[f].at \in {"creating", "createFailed"}
Sending(f) == flush[f].at \in {"sending", "sent", "full", "failed"}

(* The flush lock has one holder at most, a flush or a run with updates.   *)
OneHolder ==
    /\ \A f, g \in Flusher : Active(f) /\ Active(g) => f = g
    /\ \A f \in Flusher : Active(f) => storage_flush_lock /\ holds_lock = {}
    /\ \A u, v \in holds_lock : u = v
    /\ holds_lock # {} => storage_flush_lock
    /\ \A u \in Updater \ holds_lock : update[u] = NoUpdates

(* The chunks left to send are the whole ones and then the last.           *)
ChunksFit(sizes, n) ==
    /\ sizes # <<>>
    /\ \A k \in 1 .. Len(sizes) - 1 : sizes[k] = ChunkSize
    /\ sizes[Len(sizes)] \in 1 .. ChunkSize
    /\ ChunkSize * (Len(sizes) - 1) + sizes[Len(sizes)] <= n

FlushOK ==
    \A f \in Flusher :
        /\ flush[f].at = "idle" => flush[f] = Idle
        /\ Creating(f) => /\ create_storage_canister_temp_holder = None
                          /\ ~HasRoom
                          /\ storage_buffer # <<>>
        /\ Installing(f) => flush[f].canister \in created /\ ~Listed(flush[f].canister)
        /\ Sending(f) => /\ storage_canisters # <<>>
                         /\ flush[f].canister = LastOf(storage_canisters).canister_id
                         /\ ChunksFit(flush[f].chunk_sizes, Len(storage_buffer))

EndOf(sc) == sc.first_log_id + sc.length

(* Each canister is in one place, and the ids below the buffer's are in    *)
(* one place each.                                                         *)
ListOK ==
    /\ \A k \in DOMAIN storage_canisters : storage_canisters[k].canister_id \in created
    /\ \A j, k \in DOMAIN storage_canisters :
         storage_canisters[j].canister_id = storage_canisters[k].canister_id => j = k
    /\ \A j, k \in DOMAIN storage_canisters :
         j < k => EndOf(storage_canisters[j]) <= storage_canisters[k].first_log_id
    /\ \A id \in 0 .. BufferFirstId - 1 : OnCanister(id)
    /\ create_storage_canister_temp_holder # None =>
         /\ create_storage_canister_temp_holder \in created
         /\ ~Listed(create_storage_canister_temp_holder)
    /\ \A c \in created :
         Listed(c) \/ create_storage_canister_temp_holder = c \/ \E f \in Flusher : HandledBy(f, c)

BufferOK ==
    \A k \in DOMAIN storage_buffer : storage_buffer[k].id = BufferFirstId + k - 1

(* The stable memory of a canister that is in the list, the chunk whose    *)
(* answer is on its way included, which the buffer still has as it is.     *)
StoredOK ==
    /\ \A c \in Canister : Len(stored[c]) <= Capacity
    /\ \A c \in Canister : ~Listed(c) => stored[c] = <<>>
    /\ \A k \in DOMAIN storage_canisters :
        LET sc == storage_canisters[k]
            c == sc.canister_id
        IN  /\ (k = Len(storage_canisters) => \A f \in Flusher : flush[f].at # "sent")
               => Len(stored[c]) = sc.length
            /\ \A j \in DOMAIN stored[c] : stored[c][j].id = sc.first_log_id + j - 1
            /\ stored[c] # <<>> => first_log_id[c] = sc.first_log_id
    /\ \A f \in Flusher : flush[f].at = "sent" =>
        LET sc == LastOf(storage_canisters)
            n == Head(flush[f].chunk_sizes)
        IN  /\ Len(stored[sc.canister_id]) = sc.length + n
            /\ \A j \in 1 .. n : stored[sc.canister_id][sc.length + j] = storage_buffer[j]

UpdatesOK ==
    \A u \in Updater, id \in LogId : update[u][id].at = "sent" =>
        \E k \in DOMAIN storage_canisters :
            /\ Covers(storage_canisters[k], id)
            /\ update[u][id].canister = storage_canisters[k].canister_id

LogStorageInv ==
    /\ TypeOK
    /\ OneHolder
    /\ FlushOK
    /\ Contiguous
    /\ ListOK
    /\ BufferOK
    /\ StoredOK
    /\ UpdatesOK

-----------------------------------------------------------------------------
(* The chunks of a buffer.                                                 *)

LEMMA Quotient ==
    ASSUME NEW a \in Nat, NEW b \in Nat \ {0}
    PROVE  /\ a \div b \in Nat
           /\ b * (a \div b) <= a
           /\ a < b * (a \div b) + b
  <1>1. a \div b \in Int /\ a % b \in 0 .. b - 1 /\ a = b * (a \div b) + (a % b)
    OBVIOUS
  <1>2. a \div b >= 0
    OBVIOUS
  <1> QED
    BY <1>1, <1>2

LEMMA ChunkSizesFit ==
    ASSUME NEW n \in Nat \ {0}
    PROVE  /\ ChunkSizes(n) \in Seq(Nat)
           /\ ChunksFit(ChunkSizes(n), n)
  <1> DEFINE chunks == (n + ChunkSize - 1) \div ChunkSize
             sizes == [k \in 1 .. chunks |->
                          IF k < chunks THEN ChunkSize ELSE n - ChunkSize * (chunks - 1)]
  <1>1. ChunkSize \in Nat \ {0} /\ n + ChunkSize - 1 \in Nat
    BY LogStorageAssumption
  <1>2. /\ chunks \in Nat
        /\ ChunkSize * chunks <= n + ChunkSize - 1
        /\ n + ChunkSize - 1 < ChunkSize * chunks + ChunkSize
    BY <1>1, Quotient
  <1>3. chunks # 0
    BY <1>1, <1>2
  <1>4. ChunkSizes(n) = sizes
    BY DEF ChunkSizes
  <1> HIDE DEF chunks
  <1>5. ChunkSize * (chunks - 1) = ChunkSize * chunks - ChunkSize
    BY <1>1, <1>2
  <1>6. n - ChunkSize * (chunks - 1) \in 1 .. ChunkSize
    BY <1>1, <1>2, <1>5
  <1>7. sizes \in Seq(Nat) /\ Len(sizes) = chunks
    BY <1>1, <1>2, <1>6
  <1>8. sizes # <<>>
    BY <1>2, <1>3, <1>7
  <1>9. sizes[chunks] = n - ChunkSize * (chunks - 1)
    BY <1>2, <1>3
  <1>10. ChunkSize * (chunks - 1) + sizes[chunks] <= n
    BY <1>1, <1>2, <1>5, <1>9
  <1>11. \A k \in 1 .. chunks - 1 : sizes[k] = ChunkSize
    BY <1>2
  <1> HIDE DEF sizes
  <1> QED
    BY <1>4, <1>6, <1>7, <1>8, <1>9, <1>10, <1>11 DEF ChunksFit

(* What fits a buffer fits a longer one.                                   *)
LEMMA LongerBuffer ==
    ASSUME NEW sizes \in Seq(Nat), NEW m \in Nat, NEW n \in Nat, m <= n, ChunksFit(sizes, m)
    PROVE  ChunksFit(sizes, n)
  <1>1. ChunkSize * (Len(sizes) - 1) + sizes[Len(sizes)] \in Int
    BY LogStorageAssumption DEF ChunksFit
  <1> QED
    BY <1>1 DEF ChunksFit

LEMMA TailFacts ==
    ASSUME NEW s \in Seq(Nat), Len(s) > 1
    PROVE  /\ Tail(s) \in Seq(Nat) /\ Len(Tail(s)) = Len(s) - 1 /\ Tail(s) # <<>>
           /\ \A k \in 1 .. Len(s) - 1 : Tail(s)[k] = s[k + 1]
  <1>1. s # <<>>
    BY SMT
  <1>2. /\ Tail(s) \in Seq(Nat) /\ Len(Tail(s)) = Len(s) - 1
        /\ \A k \in 1 .. Len(Tail(s)) : Tail(s)[k] = s[k + 1]
    BY <1>1, HeadTailProperties
  <1> DEFINE t == Tail(s)
             n == Len(s)
  <1>3. /\ n \in Nat /\ n > 1 /\ Len(t) = n - 1
        /\ \A k \in 1 .. Len(t) : t[k] = s[k + 1]
    BY <1>2
  <1>4. \A q : Len(q) # 0 => q # <<>>
    OBVIOUS
  <1> HIDE DEF t, n
  <1>7. Len(t) # 0 /\ \A k \in 1 .. n - 1 : t[k] = s[k + 1]
    BY <1>3
  <1>5. t # <<>>
    BY <1>4, <1>7, Zenon
  <1> QED
    BY <1>2, <1>5, <1>7 DEF t, n

(* The first chunk is in the buffer, and the others fit what is left.      *)
LEMMA FirstChunk ==
    ASSUME NEW sizes \in Seq(Nat), NEW m \in Nat, ChunksFit(sizes, m)
    PROVE  /\ Head(sizes) \in 1 .. ChunkSize /\ Head(sizes) <= m
           /\ Len(sizes) > 1 => /\ Tail(sizes) \in Seq(Nat)
                                /\ Head(sizes) < m
                                /\ ChunksFit(Tail(sizes), m - Head(sizes))
  <1> DEFINE n == Len(sizes)
  <1>1. /\ n \in Nat \ {0} /\ Head(sizes) = sizes[1]
        /\ sizes[n] \in 1 .. ChunkSize /\ ChunkSize \in Nat \ {0}
        /\ \A k \in 1 .. n - 1 : sizes[k] = ChunkSize
        /\ ChunkSize * (n - 1) + sizes[n] <= m
    BY LogStorageAssumption DEF ChunksFit
  <1>2. CASE n = 1
    BY <1>1, <1>2
  <1>3. CASE n > 1
    <2>1. sizes[1] = ChunkSize
      BY <1>1, <1>3
    <2>2. /\ Tail(sizes) \in Seq(Nat) /\ Len(Tail(sizes)) = n - 1 /\ Tail(sizes) # <<>>
          /\ \A k \in 1 .. n - 1 : Tail(sizes)[k] = sizes[k + 1]
      BY <1>3, TailFacts
    <2>3. ChunkSize * (n - 1) = ChunkSize * (n - 2) + ChunkSize /\ ChunkSize * (n - 2) \in Nat
      <3>1. n - 2 \in Nat /\ n - 1 = (n - 2) + 1
        BY <1>1, <1>3
      <3>2. \A a, b \in Nat : a * (b + 1) = a * b + a /\ a * b \in Nat
        OBVIOUS
      <3>3. ChunkSize \in Nat
        BY <1>1
      <3> HIDE DEF n
      <3>4. ChunkSize * ((n - 2) + 1) = ChunkSize * (n - 2) + ChunkSize /\ ChunkSize * (n - 2) \in Nat
        BY <3>1, <3>2, <3>3
      <3> QED
        BY <3>1, <3>4
    <2>4. ChunkSize < m /\ ChunkSize * (n - 2) + sizes[n] <= m - ChunkSize
      BY <1>1, <1>3, <2>3
    <2>5. Tail(sizes)[n - 1] = sizes[n] /\ \A k \in 1 .. n - 2 : Tail(sizes)[k] = ChunkSize
      BY <1>1, <1>3, <2>2
    <2>6. ChunksFit(Tail(sizes), m - ChunkSize)
      <3> DEFINE tail == Tail(sizes)
      <3>1. Len(tail) - 1 = n - 2 /\ tail[Len(tail)] = sizes[n]
        BY <1>1, <2>2, <2>5
      <3>2. tail # <<>> /\ \A k \in 1 .. Len(tail) - 1 : tail[k] = ChunkSize
        BY <2>2, <2>5, <3>1
      <3>3. ChunkSize * (Len(tail) - 1) + tail[Len(tail)] <= m - ChunkSize
        BY <2>4, <3>1
      <3>4. tail[Len(tail)] \in 1 .. ChunkSize
        BY <1>1, <3>1
      <3> HIDE DEF tail
      <3>5. ChunksFit(tail, m - ChunkSize)
        BY <3>2, <3>3, <3>4 DEF ChunksFit
      <3> QED
        BY <3>5 DEF tail
    <2>7. Head(sizes) = ChunkSize /\ ChunkSize \in 1 .. ChunkSize
      BY <1>1, <2>1
    <2>8. Head(sizes) < m /\ Head(sizes) <= m
      BY <2>4, <2>7
    <2>9. ChunksFit(Tail(sizes), m - Head(sizes))
      BY <2>6, <2>7
    <2> QED
      BY <2>2, <2>7, <2>8, <2>9
  <1> QED
    BY <1>1, <1>2, <1>3

-----------------------------------------------------------------------------
(* What follows from the list alone stays while it stays.                  *)
LEMMA SameList ==
    ASSUME UNCHANGED storage_canisters
    PROVE  /\ BufferFirstId' = BufferFirstId
           /\ HasRoom' <=> HasRoom
           /\ \A id : OnCanister(id)' <=> OnCanister(id)
           /\ \A c : Listed(c)' <=> Listed(c)
  BY DEF BufferFirstId, HasRoom, LastOf, OnCanister, Listed

LEMMA ListFacts ==
    ASSUME TypeOK
    PROVE  /\ BufferFirstId \in Nat
           /\ Len(storage_canisters) \in Nat
           /\ DOMAIN storage_canisters = 1 .. Len(storage_canisters)
           /\ \A k \in DOMAIN storage_canisters :
                /\ storage_canisters[k] \in StorageCanisterData
                /\ storage_canisters[k].canister_id \in Canister
                /\ storage_canisters[k].first_log_id \in Nat
                /\ storage_canisters[k].length \in Nat
                /\ EndOf(storage_canisters[k]) \in Nat
           /\ storage_canisters # <<>> =>
                /\ Len(storage_canisters) \in DOMAIN storage_canisters
                /\ LastOf(storage_canisters) = storage_canisters[Len(storage_canisters)]
                /\ BufferFirstId = EndOf(storage_canisters[Len(storage_canisters)])
           /\ storage_canisters = <<>> => BufferFirstId = 0
  <1>1. storage_canisters \in Seq(StorageCanisterData)
    BY DEF TypeOK
  <1>2. \A k \in DOMAIN storage_canisters :
           /\ storage_canisters[k] \in StorageCanisterData
           /\ storage_canisters[k].canister_id \in Canister
           /\ storage_canisters[k].first_log_id \in Nat
           /\ storage_canisters[k].length \in Nat
           /\ EndOf(storage_canisters[k]) \in Nat
    <2> TAKE k \in DOMAIN storage_canisters
    <2>1. storage_canisters[k] \in StorageCanisterData
      BY <1>1
    <2>2. /\ storage_canisters[k].canister_id \in Canister
          /\ storage_canisters[k].first_log_id \in Nat
          /\ storage_canisters[k].length \in Nat
      BY <2>1 DEF StorageCanisterData
    <2> QED
      BY <2>1, <2>2 DEF EndOf
  <1>3. storage_canisters # <<>> => Len(storage_canisters) \in DOMAIN storage_canisters
    BY <1>1
  <1> QED
    BY <1>1, <1>2, <1>3 DEF BufferFirstId, LastOf, EndOf

LEMMA InitHolds == Init => LogStorageInv
  <1> SUFFICES ASSUME Init PROVE LogStorageInv
    OBVIOUS
  <1> USE DEF Init
  <1>1. TypeOK
    <2>1. Idle \in Flush
      BY DEF Idle, Flush, FlushAtState
    <2>2. NoUpdates \in [LogId -> Update]
      BY DEF NoUpdates, NoUpdate, Update
    <2>3. id_counter \in 0 .. MaxLogs
      BY LogStorageAssumption
    <2>4. /\ flush \in [Flusher -> Flush]
          /\ update \in [Updater -> [LogId -> Update]]
          /\ first_log_id \in [Canister -> LogId \cup {0}]
          /\ controller_mark_full \in [Canister -> BOOLEAN]
      BY <2>1, <2>2
    <2>5. \A T : <<>> \in Seq(T)
      OBVIOUS
    <2>6. stored \in [Canister -> Seq(Log)] /\ storage_buffer \in Seq(Log)
      BY <2>5
    <2>7. /\ storage_canisters \in Seq(StorageCanisterData)
          /\ \A k \in DOMAIN storage_canisters : storage_canisters[k].length <= Capacity
      BY <2>5
    <2> QED
      BY <2>3, <2>4, <2>6, <2>7 DEF TypeOK
  <1>2. OneHolder
    BY DEF OneHolder, Active
  <1>3. FlushOK
    BY DEF FlushOK, Creating, Installing, Sending, Idle
  <1>4. Contiguous /\ BufferOK
    BY DEF Contiguous, BufferOK, BufferFirstId
  <1>5. ListOK
    BY DEF ListOK, BufferFirstId
  <1>6. StoredOK
    BY LogStorageAssumption DEF StoredOK, Idle
  <1>7. UpdatesOK
    BY DEF UpdatesOK, NoUpdates, NoUpdate
  <1> QED
    BY <1>1, <1>2, <1>3, <1>4, <1>5, <1>6, <1>7 DEF LogStorageInv

LEMMA ExtendHolds == LogStorageInv /\ Extend => LogStorageInv'
  <1> SUFFICES ASSUME LogStorageInv, Extend PROVE LogStorageInv'
    OBVIOUS
  <1> USE DEF storage
  <1>1. /\ TypeOK /\ OneHolder /\ FlushOK /\ Contiguous
        /\ ListOK /\ BufferOK /\ StoredOK /\ UpdatesOK
    BY DEF LogStorageInv
  <1>2. /\ storage_buffer \in Seq(Log) /\ NewLog(id_counter) \in Log
        /\ NewLog(id_counter).id = id_counter
    BY <1>1, LogStorageAssumption DEF Extend, TypeOK, NewLog, Log, LogId
  <1>3. /\ storage_buffer' \in Seq(Log) /\ Len(storage_buffer') = Len(storage_buffer) + 1
        /\ \A k \in DOMAIN storage_buffer : storage_buffer'[k] = storage_buffer[k]
        /\ storage_buffer'[Len(storage_buffer) + 1].id = id_counter
        /\ storage_buffer' # <<>>
    BY <1>2, AppendProperties DEF Extend
  <1>4. /\ BufferFirstId' = BufferFirstId
        /\ HasRoom' <=> HasRoom
        /\ \A id : OnCanister(id)' <=> OnCanister(id)
        /\ \A c : Listed(c)' <=> Listed(c)
    BY SameList DEF Extend
  <1>5. TypeOK'
    BY SMTT(20), <1>1, <1>3, LogStorageAssumption DEF Extend, TypeOK
  <1>6. OneHolder'
    BY <1>1 DEF Extend, OneHolder, Active
  <1>7. FlushOK'
    <2> SUFFICES ASSUME NEW f \in Flusher, Sending(f)
                 PROVE  ChunksFit(flush[f].chunk_sizes, Len(storage_buffer'))
      BY <1>1, <1>3, <1>4 DEF Extend, FlushOK, Creating, Installing, Sending
    <2>1. flush[f].chunk_sizes \in Seq(Nat)
      BY <1>1 DEF TypeOK, Flush
    <2> QED
      BY <1>1, <1>2, <1>3, <2>1, LongerBuffer DEF FlushOK
  <1>8. Contiguous'
    BY <1>1, <1>2, <1>3, <1>4, ListFacts DEF Extend, Contiguous, TypeOK
  <1>9. ListOK'
    BY <1>1, <1>4 DEF Extend, ListOK, HandledBy
  <1>10. BufferOK'
    <2>1. BufferFirstId + Len(storage_buffer) = id_counter /\ BufferFirstId \in Nat
      BY <1>1, ListFacts DEF Contiguous
    <2> QED
      BY <1>1, <1>2, <1>3, <1>4, <2>1 DEF BufferOK
  <1>11. StoredOK'
    <2>1. ASSUME NEW f \in Flusher, flush[f].at = "sent", NEW j \in 1 .. Head(flush[f].chunk_sizes)
          PROVE  storage_buffer'[j] = storage_buffer[j]
      <3>1. flush[f].chunk_sizes \in Seq(Nat)
            /\ ChunksFit(flush[f].chunk_sizes, Len(storage_buffer))
        BY <1>1, <2>1 DEF TypeOK, Flush, FlushOK, Sending
      <3>2. Head(flush[f].chunk_sizes) \in Nat /\ Head(flush[f].chunk_sizes) <= Len(storage_buffer)
        BY <1>2, <3>1, FirstChunk, LogStorageAssumption
      <3> QED
        BY <1>2, <1>3, <3>2
    <2> QED
      BY <1>1, <1>4, <2>1 DEF Extend, StoredOK, LastOf
  <1>12. UpdatesOK'
    BY <1>1 DEF Extend, UpdatesOK, Covers
  <1> QED
    BY <1>5, <1>6, <1>7, <1>8, <1>9, <1>10, <1>11, <1>12 DEF LogStorageInv

-----------------------------------------------------------------------------
(* The steps of a flush that leave the logs where they are.                *)

LEMMA FlushFacts ==
    ASSUME TypeOK, NEW f \in Flusher
    PROVE  /\ flush[f] \in Flush
           /\ flush[f].at \in FlushAtState
           /\ flush[f].canister \in Canister \cup {None}
           /\ flush[f].chunk_sizes \in Seq(Nat)
  <1>1. flush[f] \in Flush
    BY DEF TypeOK
  <1> QED
    BY <1>1 DEF Flush

(* While one flush is under way the others are idle, and no run updates.   *)
LEMMA TheOneFlush ==
    ASSUME TypeOK, OneHolder, NEW f \in Flusher, Active(f)
    PROVE  /\ \A g \in Flusher \ {f} : flush[g] = Idle
           /\ holds_lock = {}
  BY DEF OneHolder, Active

(* A canister that is neither in the list nor in the holder is in the      *)
(* hands of that one flush.                                                *)
LEMMA WhereCreated ==
    ASSUME TypeOK, OneHolder, ListOK, NEW f \in Flusher, Active(f),
           create_storage_canister_temp_holder = None
    PROVE  \A c \in created : Listed(c) \/ HandledBy(f, c)
  <1> TAKE c \in created
  <1>1. c # None
    BY LogStorageAssumption DEF TypeOK
  <1>2. CASE \E g \in Flusher : HandledBy(g, c)
    <2> PICK g \in Flusher : HandledBy(g, c)
      BY <1>2
    <2>1. g = f
      BY TheOneFlush DEF HandledBy, Idle
    <2> QED
      BY <2>1
  <1>3. Listed(c) \/ create_storage_canister_temp_holder = c \/ \E g \in Flusher : HandledBy(g, c)
    BY DEF ListOK
  <1> QED
    BY <1>1, <1>2, <1>3

LEMMA FlushMoves ==
    ASSUME LogStorageInv, NEW f \in Flusher,
           UNCHANGED <<id_counter, storage_buffer, storage_canisters, update, holds_lock,
                       stored, first_log_id, controller_mark_full>>,
           holds_lock = {},
           \A g \in Flusher \ {f} : flush'[g] = Idle /\ flush[g] = Idle,
           flush' \in [Flusher -> Flush],
           storage_flush_lock' \in BOOLEAN,
           flush'[f] # Idle => storage_flush_lock',
           flush[f].at # "sent", flush'[f].at # "sent",
           flush'[f].at = "idle" => flush'[f] = Idle,
           Creating(f)' => /\ create_storage_canister_temp_holder' = None
                           /\ ~HasRoom
                           /\ storage_buffer # <<>>,
           Installing(f)' => flush'[f].canister \in created' /\ ~Listed(flush'[f].canister),
           Sending(f)' => /\ storage_canisters # <<>>
                          /\ flush'[f].canister = LastOf(storage_canisters).canister_id
                          /\ ChunksFit(flush'[f].chunk_sizes, Len(storage_buffer)),
           created \subseteq created', created' \subseteq Canister, installed' \subseteq created',
           create_storage_canister_temp_holder' \in Canister \cup {None},
           create_storage_canister_temp_holder' # None =>
               /\ create_storage_canister_temp_holder' \in created'
               /\ ~Listed(create_storage_canister_temp_holder'),
           \A c \in created' :
               Listed(c) \/ create_storage_canister_temp_holder' = c \/ HandledBy(f, c)'
    PROVE  LogStorageInv'
  <1>1. /\ TypeOK /\ OneHolder /\ FlushOK /\ Contiguous
        /\ ListOK /\ BufferOK /\ StoredOK /\ UpdatesOK
    BY DEF LogStorageInv
  <1>2. /\ BufferFirstId' = BufferFirstId
        /\ HasRoom' <=> HasRoom
        /\ \A id : OnCanister(id)' <=> OnCanister(id)
        /\ \A c : Listed(c)' <=> Listed(c)
    BY SameList
  <1>3. Idle.at = "idle"
    BY DEF Idle
  <1>4. TypeOK'
    BY <1>1 DEF TypeOK
  <1>5. OneHolder'
    BY <1>1 DEF OneHolder, Active
  <1>6. FlushOK'
    <2> SUFFICES ASSUME NEW g \in Flusher
                 PROVE  /\ flush'[g].at = "idle" => flush'[g] = Idle
                        /\ Creating(g)' => /\ create_storage_canister_temp_holder' = None
                                           /\ ~HasRoom
                                           /\ storage_buffer # <<>>
                        /\ Installing(g)' => flush'[g].canister \in created' /\ ~Listed(flush'[g].canister)
                        /\ Sending(g)' => /\ storage_canisters # <<>>
                                          /\ flush'[g].canister = LastOf(storage_canisters).canister_id
                                          /\ ChunksFit(flush'[g].chunk_sizes, Len(storage_buffer))
      BY <1>2 DEF FlushOK, LastOf
    <2>1. CASE g = f
      BY <2>1
    <2>2. CASE g # f
      BY <1>3, <2>2 DEF Creating, Installing, Sending
    <2> QED
      BY <2>1, <2>2
  <1>7. Contiguous' /\ BufferOK'
    BY <1>1, <1>2 DEF Contiguous, BufferOK
  <1>8. ListOK'
    BY <1>1, <1>2 DEF ListOK
  <1>9. StoredOK'
    <2>1. \A g \in Flusher : flush[g].at # "sent" /\ flush'[g].at # "sent"
      BY <1>3
    <2> QED
      BY <1>1, <1>2, <2>1 DEF StoredOK
  <1>10. UpdatesOK'
    BY <1>1 DEF UpdatesOK, Covers
  <1> QED
    BY <1>4, <1>5, <1>6, <1>7, <1>8, <1>9, <1>10 DEF LogStorageInv

LEMMA CreateReplyHolds ==
    ASSUME LogStorageInv, NEW f \in Flusher, CreateReply(f)
    PROVE  LogStorageInv'
  <1> USE DEF storage
  <1>1. /\ TypeOK /\ OneHolder /\ FlushOK /\ ListOK
    BY DEF LogStorageInv
  <1>2. Active(f) /\ flush[f].at # "sent"
    BY DEF CreateReply, Active, Idle
  <1>3. holds_lock = {} /\ \A g \in Flusher \ {f} : flush[g] = Idle
    BY <1>1, <1>2, TheOneFlush
  <1>4. storage_flush_lock
    BY <1>1, <1>2 DEF OneHolder
  <1>6. CASE flush[f].at = "created"
    <2> DEFINE new == [flush[f] EXCEPT !.at = "installing"]
    <2>1. flush' = [flush EXCEPT ![f] = new] /\ UNCHANGED storage_flush_lock
      BY <1>6 DEF CreateReply, Idle
    <2>2. /\ new \in Flush /\ new.at = "installing" /\ new.canister = flush[f].canister
      BY <1>1, FlushFacts DEF Flush, FlushAtState
    <2> HIDE DEF new
    <2>3. /\ flush' \in [Flusher -> Flush] /\ flush'[f] = new
          /\ \A g \in Flusher \ {f} : flush'[g] = flush[g]
      BY <1>1, <2>1, <2>2 DEF TypeOK
    <2>4. /\ create_storage_canister_temp_holder = None /\ ~HasRoom /\ storage_buffer # <<>>
          /\ flush[f].canister \in created /\ ~Listed(flush[f].canister)
      BY <1>1, <1>6 DEF FlushOK, Creating, Installing
    <2>5. \A c \in created : Listed(c) \/ HandledBy(f, c)'
      BY <1>1, <1>2, <2>2, <2>3, <2>4, WhereCreated DEF HandledBy
    <2> QED
      BY <1>1, <1>2, <1>3, <1>4, <2>1, <2>2, <2>3, <2>4, <2>5, FlushMoves
      DEF CreateReply, TypeOK, Creating, Installing, Sending
  <1>7. CASE flush[f].at = "createFailed"
    <2>1. flush' = [flush EXCEPT ![f] = Idle] /\ storage_flush_lock' = FALSE
      BY <1>7 DEF CreateReply, FlushEnds
    <2>2. Idle \in Flush /\ Idle.at = "idle"
      BY DEF Idle, Flush, FlushAtState
    <2>3. /\ flush' \in [Flusher -> Flush] /\ flush'[f] = Idle
          /\ \A g \in Flusher \ {f} : flush'[g] = flush[g]
      BY <1>1, <2>1, <2>2 DEF TypeOK
    <2>4. create_storage_canister_temp_holder = None
      BY <1>1, <1>7 DEF FlushOK, Creating
    <2>5. \A c \in created : Listed(c)
      BY <1>1, <1>2, <1>7, <2>4, WhereCreated DEF HandledBy
    <2> QED
      BY <1>1, <1>2, <1>3, <2>1, <2>2, <2>3, <2>4, <2>5, FlushMoves
      DEF CreateReply, TypeOK, Creating, Installing, Sending
  <1> QED
    BY <1>6, <1>7 DEF CreateReply

LEMMA CreateCanisterHolds ==
    ASSUME LogStorageInv, NEW f \in Flusher, CreateCanister(f)
    PROVE  LogStorageInv'
  <1> USE DEF storage, data
  <1>1. /\ TypeOK /\ OneHolder /\ FlushOK /\ ListOK
    BY DEF LogStorageInv
  <1>2. Active(f) /\ flush[f].at = "creating"
    BY DEF CreateCanister, Active, Idle
  <1>3. holds_lock = {} /\ \A g \in Flusher \ {f} : flush[g] = Idle
    BY <1>1, <1>2, TheOneFlush
  <1>4. storage_flush_lock
    BY <1>1, <1>2 DEF OneHolder
  <1>5. create_storage_canister_temp_holder = None /\ ~HasRoom /\ storage_buffer # <<>>
    BY <1>1, <1>2 DEF FlushOK, Creating
  <1>6. \A c \in created : Listed(c)
    BY <1>1, <1>2, <1>5, WhereCreated DEF HandledBy
  <1>7. CASE flush' = [flush EXCEPT ![f].at = "createFailed"] /\ UNCHANGED created
    <2> DEFINE new == [flush[f] EXCEPT !.at = "createFailed"]
    <2>1. flush' = [flush EXCEPT ![f] = new]
      BY <1>7
    <2>2. new \in Flush /\ new.at = "createFailed"
      BY <1>1, FlushFacts DEF Flush, FlushAtState
    <2> HIDE DEF new
    <2>3. /\ flush' \in [Flusher -> Flush] /\ flush'[f] = new
          /\ \A g \in Flusher \ {f} : flush'[g] = flush[g]
      BY <1>1, <2>1, <2>2 DEF TypeOK
    <2> QED
      BY <1>1, <1>2, <1>3, <1>4, <1>5, <1>6, <1>7, <2>2, <2>3, FlushMoves
      DEF CreateCanister, TypeOK, Creating, Installing, Sending
  <1>8. ASSUME NEW c \in Canister \ created, created' = created \cup {c},
               flush' = [flush EXCEPT ![f].at = "created", ![f].canister = c]
        PROVE  LogStorageInv'
    <2> DEFINE new == [flush[f] EXCEPT !.at = "created", !.canister = c]
    <2>1. flush' = [flush EXCEPT ![f] = new]
      BY <1>8
    <2>2. new \in Flush /\ new.at = "created" /\ new.canister = c
      BY <1>1, FlushFacts DEF Flush, FlushAtState
    <2> HIDE DEF new
    <2>3. /\ flush' \in [Flusher -> Flush] /\ flush'[f] = new
          /\ \A g \in Flusher \ {f} : flush'[g] = flush[g]
      BY <1>1, <2>1, <2>2 DEF TypeOK
    <2>4. ~Listed(c)
      BY <1>1 DEF ListOK, Listed
    <2>5. \A d \in created' : Listed(d) \/ HandledBy(f, d)'
      BY <1>6, <1>8, <2>2, <2>3 DEF HandledBy
    <2>6. created \subseteq created' /\ created' \subseteq Canister /\ installed' \subseteq created'
      BY <1>1, <1>8 DEF CreateCanister, TypeOK
    <2> QED
      BY <1>1, <1>2, <1>3, <1>4, <1>5, <1>8, <2>2, <2>3, <2>4, <2>5, <2>6, FlushMoves
      DEF CreateCanister, TypeOK, Creating, Installing, Sending
  <1> QED
    BY <1>7, <1>8 DEF CreateCanister

LEMMA InstallCodeHolds ==
    ASSUME LogStorageInv, NEW f \in Flusher, InstallCode(f)
    PROVE  LogStorageInv'
  <1> USE DEF storage, data
  <1>1. /\ TypeOK /\ OneHolder /\ FlushOK /\ ListOK
    BY DEF LogStorageInv
  <1>2. Active(f) /\ flush[f].at = "installing"
    BY DEF InstallCode, Active, Idle
  <1>3. holds_lock = {} /\ \A g \in Flusher \ {f} : flush[g] = Idle
    BY <1>1, <1>2, TheOneFlush
  <1>4. storage_flush_lock
    BY <1>1, <1>2 DEF OneHolder
  <1>5. /\ create_storage_canister_temp_holder = None /\ ~HasRoom /\ storage_buffer # <<>>
        /\ flush[f].canister \in created /\ ~Listed(flush[f].canister)
    BY <1>1, <1>2 DEF FlushOK, Creating, Installing
  <1>6. \A c \in created : Listed(c) \/ flush[f].canister = c
    BY <1>1, <1>2, <1>5, WhereCreated DEF HandledBy
  <1>7. PICK at \in {"installFailed", "installDone"} : flush' = [flush EXCEPT ![f].at = at]
    BY DEF InstallCode
  <1> DEFINE new == [flush[f] EXCEPT !.at = at]
  <1>8. flush' = [flush EXCEPT ![f] = new]
    BY <1>7
  <1>9. new \in Flush /\ new.at = at /\ new.canister = flush[f].canister
    BY <1>1, FlushFacts DEF Flush, FlushAtState
  <1> HIDE DEF new
  <1>10. /\ flush' \in [Flusher -> Flush] /\ flush'[f] = new
         /\ \A g \in Flusher \ {f} : flush'[g] = flush[g]
    BY <1>1, <1>8, <1>9 DEF TypeOK
  <1>11. \A c \in created : Listed(c) \/ HandledBy(f, c)'
    BY <1>6, <1>9, <1>10 DEF HandledBy
  <1>12. installed' \subseteq created
    BY <1>1, <1>5 DEF InstallCode, TypeOK
  <1> QED
    BY <1>1, <1>2, <1>3, <1>4, <1>5, <1>9, <1>10, <1>11, <1>12, FlushMoves
    DEF InstallCode, TypeOK, Creating, Installing, Sending

LEMMA FlushStartHolds ==
    ASSUME LogStorageInv, NEW f \in Flusher, FlushStart(f)
    PROVE  LogStorageInv'
  <1> USE DEF storage, data
  <1>1. /\ TypeOK /\ OneHolder /\ FlushOK /\ ListOK
    BY DEF LogStorageInv
  <1>2. /\ ~storage_flush_lock /\ flush[f] = Idle
        /\ UNCHANGED <<id_counter, storage_buffer, storage_canisters, update, holds_lock,
                       created, installed, stored, map, first_log_id, controller_mark_full>>
    BY DEF FlushStart
  <1>3. holds_lock = {} /\ \A g \in Flusher : flush[g] = Idle
    BY <1>1, <1>2 DEF OneHolder, Active
  <1>4. Len(storage_buffer) \in Nat \ {0} /\ storage_buffer # <<>>
    <2>1. FlushAt \in Nat \ {0} /\ Len(storage_buffer) >= FlushAt
      BY LogStorageAssumption DEF FlushStart
    <2> QED
      BY <1>1, <2>1 DEF TypeOK
  <1>5. Idle.at = "idle" /\ Idle.canister = None /\ Idle.chunk_sizes = <<>> /\ Idle \in Flush
    BY DEF Idle, Flush, FlushAtState
  <1>6. \A c \in created : Listed(c) \/ create_storage_canister_temp_holder = c
    BY <1>1, <1>3, <1>5 DEF ListOK, HandledBy
  <1>7. installed \subseteq created /\ created \subseteq Canister
    BY <1>1 DEF TypeOK
  <1>8. CASE /\ HasRoom
             /\ BeginSending(f, LastOf(storage_canisters).canister_id)
             /\ storage_flush_lock' = TRUE
             /\ UNCHANGED create_storage_canister_temp_holder
    <2> DEFINE sizes == ChunkSizes(Len(storage_buffer))
               c == LastOf(storage_canisters).canister_id
               new == [at |-> "sending", canister |-> c, chunk_sizes |-> sizes]
    <2>1. sizes \in Seq(Nat) /\ ChunksFit(sizes, Len(storage_buffer))
      BY <1>4, ChunkSizesFit
    <2>2. c \in Canister /\ storage_canisters # <<>>
      BY <1>1, <1>8, ListFacts DEF HasRoom
    <2>3. flush' = [flush EXCEPT ![f] = new]
      BY <1>8 DEF BeginSending
    <2>4. new \in Flush /\ new.at = "sending" /\ new.canister = c /\ new.chunk_sizes = sizes
      BY <2>1, <2>2 DEF Flush, FlushAtState
    <2> HIDE DEF new
    <2>5. /\ flush' \in [Flusher -> Flush] /\ flush'[f] = new
          /\ \A g \in Flusher \ {f} : flush'[g] = flush[g]
      BY <1>1, <2>3, <2>4 DEF TypeOK
    <2>6. /\ flush'[f].at = "sending" /\ storage_canisters # <<>>
          /\ flush'[f].canister = LastOf(storage_canisters).canister_id
          /\ ChunksFit(flush'[f].chunk_sizes, Len(storage_buffer))
      BY <2>1, <2>2, <2>4, <2>5
    <2> HIDE DEF sizes, c
    <2>7. /\ create_storage_canister_temp_holder' \in Canister \cup {None}
          /\ create_storage_canister_temp_holder' # None =>
               /\ create_storage_canister_temp_holder' \in created'
               /\ ~Listed(create_storage_canister_temp_holder')
          /\ \A d \in created' : Listed(d) \/ create_storage_canister_temp_holder' = d
      BY <1>1, <1>2, <1>6, <1>8 DEF TypeOK, ListOK
    <2> QED
      BY <1>2, <1>3, <1>5, <1>7, <1>8, <2>5, <2>6, <2>7, FlushMoves
      DEF Creating, Installing, Sending
  <1>9. CASE /\ ~HasRoom
             /\ create_storage_canister_temp_holder # None
             /\ create_storage_canister_temp_holder' = None
             /\ flush' = [flush EXCEPT ![f] =
                             [at |-> "installing", canister |-> create_storage_canister_temp_holder,
                              chunk_sizes |-> <<>>]]
             /\ storage_flush_lock' = TRUE
    <2> DEFINE new == [at |-> "installing", canister |-> create_storage_canister_temp_holder,
                       chunk_sizes |-> <<>>]
    <2>1. /\ create_storage_canister_temp_holder \in created
          /\ ~Listed(create_storage_canister_temp_holder)
      BY <1>1, <1>9 DEF ListOK
    <2>2. flush' = [flush EXCEPT ![f] = new]
      BY <1>9
    <2>3. new \in Flush /\ new.at = "installing" /\ new.canister = create_storage_canister_temp_holder
      BY <1>1 DEF Flush, FlushAtState, TypeOK
    <2> HIDE DEF new
    <2>4. /\ flush' \in [Flusher -> Flush] /\ flush'[f] = new
          /\ \A g \in Flusher \ {f} : flush'[g] = flush[g]
      BY <1>1, <2>2, <2>3 DEF TypeOK
    <2>5. \A c \in created : Listed(c) \/ HandledBy(f, c)'
      BY <1>6, <2>3, <2>4 DEF HandledBy
    <2> QED
      BY <1>1, <1>2, <1>3, <1>4, <1>5, <1>7, <1>9, <2>1, <2>3, <2>4, <2>5, FlushMoves
      DEF TypeOK, Creating, Installing, Sending
  <1>10. CASE /\ ~HasRoom
              /\ create_storage_canister_temp_holder = None
              /\ UNCHANGED create_storage_canister_temp_holder
              /\ flush' = [flush EXCEPT ![f].at = "creating"]
              /\ storage_flush_lock' = TRUE
    <2> DEFINE new == [flush[f] EXCEPT !.at = "creating"]
    <2>1. flush' = [flush EXCEPT ![f] = new]
      BY <1>10
    <2>2. new \in Flush /\ new.at = "creating"
      BY <1>1, FlushFacts DEF Flush, FlushAtState
    <2> HIDE DEF new
    <2>3. /\ flush' \in [Flusher -> Flush] /\ flush'[f] = new
          /\ \A g \in Flusher \ {f} : flush'[g] = flush[g]
      BY <1>1, <2>1, <2>2 DEF TypeOK
    <2> QED
      BY <1>1, <1>2, <1>3, <1>4, <1>5, <1>6, <1>7, <1>10, <2>2, <2>3, FlushMoves
      DEF TypeOK, Creating, Installing, Sending
  <1>11. CASE UNCHANGED create_storage_canister_temp_holder /\ FlushEnds(f)
    <2>1. flush' = [flush EXCEPT ![f] = Idle] /\ storage_flush_lock' = FALSE
      BY <1>11 DEF FlushEnds
    <2>2. /\ flush' \in [Flusher -> Flush] /\ flush'[f] = Idle
          /\ \A g \in Flusher \ {f} : flush'[g] = flush[g]
      BY <1>1, <1>5, <2>1 DEF TypeOK
    <2> QED
      BY <1>1, <1>2, <1>3, <1>5, <1>6, <1>7, <1>11, <2>1, <2>2, FlushMoves
      DEF TypeOK, ListOK, Creating, Installing, Sending
  <1> QED
    BY <1>8, <1>9, <1>10, <1>11 DEF FlushStart

-----------------------------------------------------------------------------
(* The answer to an installation.                                          *)

LEMMA InstalledHolds ==
    ASSUME LogStorageInv, NEW f \in Flusher, InstallReply(f), flush[f].at = "installDone"
    PROVE  LogStorageInv'
  <1> USE DEF storage
  <1>1. /\ TypeOK /\ OneHolder /\ FlushOK /\ Contiguous
        /\ ListOK /\ BufferOK /\ StoredOK /\ UpdatesOK
    BY DEF LogStorageInv
  <1> DEFINE c == flush[f].canister
             entry == [canister_id |-> c, first_log_id |-> BufferFirstId,
                       length |-> 0, is_full |-> FALSE]
             N == Len(storage_canisters)
             sizes == ChunkSizes(Len(storage_buffer))
             new == [at |-> "sending", canister |-> c, chunk_sizes |-> sizes]
  <1>2. Active(f)
    BY DEF Active, Idle
  <1>3. holds_lock = {} /\ storage_flush_lock /\ \A g \in Flusher \ {f} : flush[g] = Idle
    BY <1>1, <1>2, TheOneFlush DEF OneHolder
  <1>4. Idle.at = "idle"
    BY DEF Idle
  <1>5. /\ create_storage_canister_temp_holder = None /\ ~HasRoom /\ storage_buffer # <<>>
        /\ c \in created /\ ~Listed(c)
    BY <1>1 DEF FlushOK, Creating, Installing
  <1>6. /\ storage_canisters' = Append(storage_canisters, entry)
        /\ flush' = [flush EXCEPT ![f] = new]
        /\ UNCHANGED <<id_counter, storage_buffer, storage_flush_lock,
                       create_storage_canister_temp_holder, update, holds_lock, created,
                       installed, stored, map, first_log_id, controller_mark_full>>
    BY DEF InstallReply, BeginSending, FirstLogId
  <1>7. c \in Canister /\ BufferFirstId \in Nat
    BY <1>1, <1>5, ListFacts DEF TypeOK
  <1>8. /\ entry \in StorageCanisterData /\ entry.canister_id = c
        /\ entry.first_log_id = BufferFirstId /\ entry.length = 0
    BY <1>7 DEF StorageCanisterData
  <1>9. Len(storage_buffer) \in Nat \ {0}
    BY <1>1, <1>5 DEF TypeOK
  <1>10. sizes \in Seq(Nat) /\ ChunksFit(sizes, Len(storage_buffer))
    BY <1>9, ChunkSizesFit
  <1>11. new \in Flush /\ new.at = "sending" /\ new.canister = c /\ new.chunk_sizes = sizes
    BY <1>7, <1>10 DEF Flush, FlushAtState
  <1> HIDE DEF entry, new, sizes
  <1>12. /\ flush' \in [Flusher -> Flush] /\ flush'[f] = new
         /\ \A g \in Flusher \ {f} : flush'[g] = Idle
    BY <1>1, <1>3, <1>6, <1>11 DEF TypeOK
  <1>13. /\ storage_canisters \in Seq(StorageCanisterData) /\ N \in Nat
         /\ DOMAIN storage_canisters = 1 .. N
    BY <1>1 DEF TypeOK
  <1>14. /\ storage_canisters' \in Seq(StorageCanisterData)
         /\ Len(storage_canisters') = N + 1 /\ DOMAIN storage_canisters' = 1 .. N + 1
         /\ \A k \in 1 .. N : storage_canisters'[k] = storage_canisters[k]
         /\ storage_canisters'[N + 1] = entry
         /\ storage_canisters' # <<>>
    BY <1>6, <1>8, <1>13, AppendProperties
  <1>15. LastOf(storage_canisters)' = entry /\ BufferFirstId' = BufferFirstId
    BY <1>7, <1>8, <1>14 DEF LastOf, BufferFirstId
  <1>16. \A id : OnCanister(id) => OnCanister(id)'
    BY <1>13, <1>14 DEF OnCanister, Covers
  <1>17. \A d : Listed(d)' <=> Listed(d) \/ d = c
    BY <1>8, <1>13, <1>14 DEF Listed
  <1>18. \A g \in Flusher : flush[g].at # "sent" /\ flush'[g].at # "sent"
    BY <1>3, <1>4, <1>11, <1>12
  <1>19. TypeOK'
    <2>1. \A k \in DOMAIN storage_canisters' : storage_canisters'[k].length <= Capacity
      <3>1. \A k \in 1 .. N : storage_canisters[k].length <= Capacity
        BY <1>1, <1>13 DEF TypeOK
      <3>2. entry.length <= Capacity
        BY <1>8, LogStorageAssumption
      <3>3. \A k \in 1 .. N + 1 : k \in 1 .. N \/ k = N + 1
        BY <1>13
      <3> QED
        BY <1>14, <3>1, <3>2, <3>3
    <2> QED
      BY <1>1, <1>6, <1>12, <1>14, <2>1 DEF TypeOK
  <1>20. OneHolder'
    BY <1>1, <1>3, <1>6, <1>12 DEF OneHolder, Active
  <1>21. FlushOK'
    <2> SUFFICES ASSUME NEW g \in Flusher
                 PROVE  /\ flush'[g].at = "idle" => flush'[g] = Idle
                        /\ ~Creating(g)' /\ ~Installing(g)'
                        /\ Sending(g)' => /\ flush'[g].canister = entry.canister_id
                                          /\ ChunksFit(flush'[g].chunk_sizes, Len(storage_buffer))
      BY <1>6, <1>14, <1>15 DEF FlushOK
    <2>1. CASE g = f
      BY <1>8, <1>10, <1>11, <1>12, <2>1 DEF Creating, Installing
    <2>2. CASE g # f
      BY <1>4, <1>12, <2>2 DEF Creating, Installing, Sending
    <2> QED
      BY <2>1, <2>2
  <1>22. Contiguous'
    <2>1. \A k \in 1 .. N : storage_canisters[k].first_log_id =
             IF k = 1 THEN 0
             ELSE storage_canisters[k - 1].first_log_id + storage_canisters[k - 1].length
      BY <1>1, <1>13 DEF Contiguous
    <2>2. BufferFirstId = IF N = 0 THEN 0
                          ELSE storage_canisters[N].first_log_id + storage_canisters[N].length
      BY <1>13 DEF BufferFirstId, LastOf
    <2>3. \A k \in DOMAIN storage_canisters' : storage_canisters'[k].first_log_id =
             IF k = 1 THEN 0
             ELSE storage_canisters'[k - 1].first_log_id + storage_canisters'[k - 1].length
      BY <1>8, <1>13, <1>14, <2>1, <2>2
    <2>4. \A k \in 1 .. N : storage_canisters[k].is_full
      <3>1. \A k \in 1 .. N - 1 : storage_canisters[k].is_full
        BY <1>1 DEF Contiguous
      <3>2. N # 0 => storage_canisters[N].is_full
        BY <1>5, <1>13 DEF HasRoom, LastOf
      <3> QED
        BY <1>13, <3>1, <3>2
    <2>5. \A k \in 1 .. Len(storage_canisters') - 1 : storage_canisters'[k].is_full
      BY <1>13, <1>14, <2>4
    <2> QED
      BY <1>1, <1>6, <1>15, <2>3, <2>5 DEF Contiguous
  <1>23. ListOK'
    <2>1. \A k \in DOMAIN storage_canisters' : storage_canisters'[k].canister_id \in created
      BY <1>1, <1>5, <1>8, <1>13, <1>14 DEF ListOK
    <2>2. \A k \in 1 .. N : storage_canisters[k].canister_id # c
      BY <1>5, <1>13 DEF Listed
    <2>3. \A j, k \in DOMAIN storage_canisters' :
             storage_canisters'[j].canister_id = storage_canisters'[k].canister_id => j = k
      BY <1>1, <1>8, <1>13, <1>14, <2>2 DEF ListOK
    <2>4. \A k \in 1 .. N : EndOf(storage_canisters[k]) <= BufferFirstId
      <3> TAKE k \in 1 .. N
      <3>1. /\ N \in DOMAIN storage_canisters /\ BufferFirstId = EndOf(storage_canisters[N])
            /\ storage_canisters[N].length \in Nat /\ storage_canisters[N].first_log_id \in Nat
            /\ EndOf(storage_canisters[k]) \in Nat
        BY <1>1, <1>13, ListFacts
      <3>2. k < N => EndOf(storage_canisters[k]) <= storage_canisters[N].first_log_id
        BY <1>1, <1>13, <3>1 DEF ListOK
      <3>3. storage_canisters[N].first_log_id <= EndOf(storage_canisters[N])
        BY <3>1 DEF EndOf
      <3>4. k = N \/ k < N
        <4>1. \A a \in Nat : \A b \in 1 .. a : b = a \/ b < a
          OBVIOUS
        <4> QED
          BY <1>13, <4>1
      <3>5. \A a, b, d \in Nat : a <= b /\ b <= d => a <= d
        OBVIOUS
      <3> QED
        BY <1>7, <3>1, <3>2, <3>3, <3>4, <3>5
    <2>5. \A j, k \in DOMAIN storage_canisters' :
             j < k => EndOf(storage_canisters'[j]) <= storage_canisters'[k].first_log_id
      BY <1>1, <1>8, <1>13, <1>14, <2>4 DEF ListOK
    <2>6. \A id \in 0 .. BufferFirstId' - 1 : OnCanister(id)'
      BY <1>1, <1>15, <1>16 DEF ListOK
    <2>7. \A d \in created' : Listed(d)'
      BY <1>1, <1>2, <1>5, <1>6, <1>17, WhereCreated DEF HandledBy
    <2> QED
      BY <1>5, <1>6, <2>1, <2>3, <2>5, <2>6, <2>7 DEF ListOK, EndOf
  <1>24. BufferOK'
    BY <1>1, <1>6, <1>15 DEF BufferOK
  <1>25. StoredOK'
    <2>1. /\ \A d \in Canister : Len(stored'[d]) <= Capacity
          /\ \A d \in Canister : ~Listed(d)' => stored'[d] = <<>>
      BY <1>1, <1>6, <1>17 DEF StoredOK
    <2>2. \A k \in 1 .. N :
            /\ Len(stored[storage_canisters[k].canister_id]) = storage_canisters[k].length
            /\ \A j \in DOMAIN stored[storage_canisters[k].canister_id] :
                 stored[storage_canisters[k].canister_id][j].id
                 = storage_canisters[k].first_log_id + j - 1
            /\ stored[storage_canisters[k].canister_id] # <<>> =>
                 first_log_id[storage_canisters[k].canister_id] = storage_canisters[k].first_log_id
      BY <1>1, <1>13, <1>18 DEF StoredOK
    <2>3. stored[c] = <<>>
      BY <1>1, <1>5, <1>7 DEF StoredOK
    <2>4. Len(stored[c]) = 0 /\ DOMAIN stored[c] = {}
      BY <2>3
    <2> QED
      BY <1>6, <1>8, <1>13, <1>14, <1>18, <2>1, <2>2, <2>3, <2>4 DEF StoredOK
  <1>26. UpdatesOK'
    BY <1>1, <1>3, <1>6 DEF UpdatesOK, OneHolder, NoUpdates, NoUpdate
  <1> QED
    BY <1>19, <1>20, <1>21, <1>22, <1>23, <1>24, <1>25, <1>26 DEF LogStorageInv

LEMMA InstallReplyHolds ==
    ASSUME LogStorageInv, NEW f \in Flusher, InstallReply(f)
    PROVE  LogStorageInv'
  <1>1. CASE flush[f].at = "installDone"
    BY <1>1, InstalledHolds
  <1>2. CASE flush[f].at # "installDone"
    <2> USE DEF storage
    <2>1. /\ TypeOK /\ OneHolder /\ FlushOK /\ ListOK
      BY DEF LogStorageInv
    <2>2. /\ flush[f].at = "installFailed"
          /\ create_storage_canister_temp_holder' = flush[f].canister
          /\ flush' = [flush EXCEPT ![f] = Idle] /\ storage_flush_lock' = FALSE
          /\ UNCHANGED <<id_counter, storage_buffer, storage_canisters, update, holds_lock,
                         created, installed, stored, map, first_log_id, controller_mark_full>>
      BY <1>2 DEF InstallReply, Held, FlushEnds
    <2>3. Active(f)
      BY <2>2 DEF Active, Idle
    <2>4. holds_lock = {} /\ \A g \in Flusher \ {f} : flush[g] = Idle
      BY <2>1, <2>3, TheOneFlush
    <2>5. Idle.at = "idle" /\ Idle \in Flush
      BY DEF Idle, Flush, FlushAtState
    <2>6. /\ flush' \in [Flusher -> Flush] /\ flush'[f] = Idle
          /\ \A g \in Flusher \ {f} : flush'[g] = flush[g]
      BY <2>1, <2>2, <2>5 DEF TypeOK
    <2>7. /\ create_storage_canister_temp_holder = None
          /\ flush[f].canister \in created /\ ~Listed(flush[f].canister)
      BY <2>1, <2>2 DEF FlushOK, Creating, Installing
    <2>8. \A c \in created : Listed(c) \/ create_storage_canister_temp_holder' = c
      BY <2>1, <2>2, <2>3, <2>7, WhereCreated DEF HandledBy
    <2>9. installed \subseteq created /\ created \subseteq Canister
      BY <2>1 DEF TypeOK
    <2> QED
      BY <2>2, <2>4, <2>5, <2>6, <2>7, <2>8, <2>9, FlushMoves DEF Creating, Installing, Sending
  <1> QED
    BY <1>1, <1>2

-----------------------------------------------------------------------------
(* The answer to a flush call: n logs are counted, none of them when the   *)
(* storage canister did not take them.                                     *)
LEMMA FlushReplyHolds ==
    ASSUME LogStorageInv, NEW f \in Flusher, FlushReply(f)
    PROVE  LogStorageInv'
  <1> USE DEF storage
  <1>1. /\ TypeOK /\ OneHolder /\ FlushOK /\ Contiguous
        /\ ListOK /\ BufferOK /\ StoredOK /\ UpdatesOK
    BY DEF LogStorageInv
  <1> DEFINE N == Len(storage_canisters)
             last == storage_canisters[N]
             sizes == flush[f].chunk_sizes
             n == IF flush[f].at = "sent" THEN Head(sizes) ELSE 0
             more == flush[f].at = "sent" /\ Len(sizes) > 1
  <1>2. Active(f) /\ Sending(f)
    BY DEF FlushReply, Active, Idle, Sending
  <1>3. holds_lock = {} /\ storage_flush_lock /\ \A g \in Flusher \ {f} : flush[g] = Idle
    BY <1>1, <1>2, TheOneFlush DEF OneHolder
  <1>4. Idle.at = "idle" /\ Idle \in Flush
    BY DEF Idle, Flush, FlushAtState
  <1>5. /\ storage_canisters # <<>> /\ flush[f].canister = last.canister_id
        /\ ChunksFit(sizes, Len(storage_buffer)) /\ sizes \in Seq(Nat)
    BY <1>1, <1>2, FlushFacts DEF FlushOK, LastOf
  <1>6. /\ storage_canisters \in Seq(StorageCanisterData) /\ N \in Nat \ {0}
        /\ N = Len(storage_canisters) /\ last = storage_canisters[N]
        /\ DOMAIN storage_canisters = 1 .. N /\ N \in DOMAIN storage_canisters
        /\ last \in StorageCanisterData
        /\ BufferFirstId \in Nat /\ BufferFirstId = last.first_log_id + last.length
    BY <1>1, <1>5, ListFacts DEF TypeOK, EndOf
  <1>7. /\ last.canister_id \in Canister /\ last.first_log_id \in Nat
        /\ last.length \in Nat /\ last.is_full \in BOOLEAN
    BY <1>6 DEF StorageCanisterData
  <1>8. storage_buffer \in Seq(Log) /\ Len(storage_buffer) \in Nat
    BY <1>1 DEF TypeOK
  <1>9. Head(sizes) \in Nat \ {0} /\ Head(sizes) <= Len(storage_buffer)
    BY <1>5, <1>8, FirstChunk, LogStorageAssumption
  <1>10. n \in 0 .. Len(storage_buffer)
    BY <1>8, <1>9
  <1>11. more => /\ Tail(sizes) \in Seq(Nat) /\ n < Len(storage_buffer)
                 /\ ChunksFit(Tail(sizes), Len(storage_buffer) - n)
    BY <1>5, <1>8, FirstChunk
  <1>12. UNCHANGED <<id_counter, create_storage_canister_temp_holder, update, holds_lock,
                     created, installed, stored, map, first_log_id, controller_mark_full>>
    BY DEF FlushReply
  <1>13. PICK newLast \in StorageCanisterData :
            /\ storage_canisters' = [storage_canisters EXCEPT ![N] = newLast]
            /\ newLast.canister_id = last.canister_id
            /\ newLast.first_log_id = last.first_log_id
            /\ newLast.length = last.length + n
            /\ last.is_full => newLast.is_full
    <2>1. CASE flush[f].at = "sent"
      <3> DEFINE length == last.length + Head(sizes)
                 rec == [last EXCEPT !.length = length]
      <3>1. storage_canisters' = [storage_canisters EXCEPT ![N] = rec]
        BY <2>1 DEF FlushReply, Counted
      <3>2. length \in Nat
        BY <1>7, <1>9
      <3> HIDE DEF length
      <3>3. /\ rec \in StorageCanisterData /\ rec.canister_id = last.canister_id
            /\ rec.first_log_id = last.first_log_id
            /\ rec.length = length /\ rec.is_full = last.is_full
        BY <1>6, <3>2 DEF StorageCanisterData
      <3>4. length = last.length + n
        BY <2>1 DEF length
      <3> HIDE DEF rec, n, last
      <3> QED
        BY <3>1, <3>3, <3>4
    <2>2. CASE flush[f].at = "full"
      <3> DEFINE rec == [last EXCEPT !.is_full = TRUE]
      <3>1. storage_canisters' = [storage_canisters EXCEPT ![N] = rec]
        BY <2>2 DEF FlushReply
      <3>2. /\ rec \in StorageCanisterData /\ rec.canister_id = last.canister_id
            /\ rec.first_log_id = last.first_log_id
            /\ rec.length = last.length /\ rec.is_full
        BY <1>6, <1>7 DEF StorageCanisterData
      <3>3. last.length + n = last.length
        BY <1>7, <2>2
      <3> HIDE DEF rec, n, last
      <3> QED
        BY <3>1, <3>2, <3>3
    <2>3. CASE flush[f].at = "failed"
      <3>1. storage_canisters' = storage_canisters
        BY <2>3 DEF FlushReply
      <3>2. storage_canisters = [storage_canisters EXCEPT ![N] = storage_canisters[N]]
        BY <1>6
      <3> QED
        BY <1>6, <1>7, <2>3, <3>1, <3>2
    <2> QED
      BY <2>1, <2>2, <2>3 DEF FlushReply
  <1>15. PICK new \in Flush :
            /\ flush' = [flush EXCEPT ![f] = new] /\ storage_flush_lock' = more
            /\ new.at = "sending" => more /\ new.canister = last.canister_id
                                     /\ new.chunk_sizes = Tail(sizes)
            /\ new = Idle \/ (more /\ new.at = "sending")
    <2>1. CASE more
      <3> DEFINE rec == [flush[f] EXCEPT !.at = "sending", !.chunk_sizes = Tail(sizes)]
      <3>1. flush' = [flush EXCEPT ![f] = rec] /\ UNCHANGED storage_flush_lock
        BY <2>1 DEF FlushReply
      <3>2. /\ rec \in Flush /\ rec.at = "sending" /\ rec.canister = flush[f].canister
            /\ rec.chunk_sizes = Tail(sizes)
        BY <1>1, <1>11, <2>1, FlushFacts DEF Flush, FlushAtState
      <3> HIDE DEF rec
      <3> QED
        BY <1>1, <1>3, <1>5, <2>1, <3>1, <3>2 DEF TypeOK
    <2>2. CASE ~more
      <3>1. flush' = [flush EXCEPT ![f] = Idle] /\ storage_flush_lock' = FALSE
        BY <2>2 DEF FlushReply, FlushEnds
      <3> QED
        BY <1>4, <2>2, <3>1
    <2> QED
      BY <2>1, <2>2
  <1>16. /\ storage_buffer' \in Seq(Log) /\ Len(storage_buffer') = Len(storage_buffer) - n
         /\ \A k \in 1 .. Len(storage_buffer') : storage_buffer'[k] = storage_buffer[n + k]
    <2>1. storage_buffer' = SubSeq(storage_buffer, n + 1, Len(storage_buffer))
      <3>1. SubSeq(storage_buffer, 0 + 1, Len(storage_buffer)) = storage_buffer
        BY <1>8
      <3>2. CASE flush[f].at = "sent"
        <4>1. storage_buffer' = Drain(Head(sizes)) /\ n = Head(sizes)
          BY <3>2 DEF FlushReply
        <4> QED
          BY <4>1 DEF Drain
      <3>3. CASE flush[f].at # "sent"
        <4>1. storage_buffer' = storage_buffer /\ n = 0
          BY <3>3 DEF FlushReply
        <4> QED
          BY <3>1, <4>1
      <3> QED
        BY <3>2, <3>3
    <2> HIDE DEF n
    <2> QED
      BY <1>8, <1>10, <2>1
  <1>17. /\ new.at \in {"idle", "sending"} /\ new.at # "sent"
         /\ new.at = "idle" => new = Idle
    BY <1>4, <1>15
  <1> HIDE DEF N, last
  <1>18. /\ flush' \in [Flusher -> Flush] /\ flush'[f] = new
         /\ \A g \in Flusher \ {f} : flush'[g] = Idle
    BY <1>1, <1>3, <1>15, <1>17 DEF TypeOK
  <1>19. /\ storage_canisters' \in Seq(StorageCanisterData)
         /\ Len(storage_canisters') = N /\ DOMAIN storage_canisters' = 1 .. N
         /\ storage_canisters'[N] = newLast
         /\ \A k \in 1 .. N : k # N => storage_canisters'[k] = storage_canisters[k]
    <2> DEFINE list == [storage_canisters EXCEPT ![N] = newLast]
    <2>1. N \in 1 .. Len(storage_canisters)
      BY <1>6
    <2>2. /\ list \in Seq(StorageCanisterData) /\ Len(list) = Len(storage_canisters)
          /\ \A k \in 1 .. Len(storage_canisters) : list[k] = IF k = N THEN newLast ELSE storage_canisters[k]
      BY <1>6, <1>13, <2>1, ExceptSeq
    <2> HIDE DEF list
    <2>3. list = storage_canisters'
      BY <1>13 DEF list
    <2> QED
      BY <1>6, <2>1, <2>2, <2>3
  <1>20. LastOf(storage_canisters)' = newLast /\ BufferFirstId' = BufferFirstId + n
         /\ storage_canisters' # <<>>
    <2>1. storage_canisters' # <<>>
      BY <1>6, <1>19
    <2> QED
      BY <1>6, <1>7, <1>10, <1>13, <1>19, <2>1 DEF LastOf, BufferFirstId
  <1>21. \A k \in 1 .. N : storage_canisters'[k].canister_id = storage_canisters[k].canister_id
                         /\ storage_canisters'[k].first_log_id = storage_canisters[k].first_log_id
                         /\ (k # N => storage_canisters'[k] = storage_canisters[k])
    BY <1>6, <1>13, <1>19
  <1>22. \A d : Listed(d)' <=> Listed(d)
    BY <1>6, <1>19, <1>21 DEF Listed
  <1>23. stored[last.canister_id] \in Seq(Log)
         /\ Len(stored[last.canister_id]) = last.length + n
    <2>1. stored[last.canister_id] \in Seq(Log)
      BY <1>1, <1>7 DEF TypeOK
    <2>2. CASE flush[f].at = "sent"
      <3>1. LastOf(storage_canisters) = last
        BY <1>6 DEF LastOf
      <3>2. Len(stored[last.canister_id]) = last.length + Head(sizes)
        BY <1>1, <2>2, <3>1 DEF StoredOK
      <3> QED
        BY <2>1, <2>2, <3>2
    <2>3. CASE flush[f].at # "sent"
      <3>1. \A g \in Flusher : flush[g].at # "sent"
        BY <1>3, <1>4, <2>3
      <3> QED
        BY <1>1, <1>6, <1>7, <2>1, <2>3, <3>1 DEF StoredOK
    <2> QED
      BY <2>2, <2>3
  <1> HIDE DEF n
  <1>24. TypeOK'
    <2>1. \A k \in 1 .. N : storage_canisters'[k].length <= Capacity
      <3>1. \A k \in 1 .. N : storage_canisters[k].length <= Capacity
        BY <1>1, <1>6 DEF TypeOK
      <3>2. newLast.length <= Capacity
        BY <1>1, <1>7, <1>13, <1>23 DEF StoredOK
      <3> QED
        BY <1>6, <1>19, <3>1, <3>2
    <2>2. storage_flush_lock' \in BOOLEAN
      BY <1>15
    <2> QED
      BY <1>1, <1>12, <1>16, <1>18, <1>19, <2>1, <2>2 DEF TypeOK
  <1>25. OneHolder'
    <2>1. flush'[f] # Idle => storage_flush_lock'
      BY <1>15, <1>17, <1>18
    <2> QED
      BY <1>1, <1>3, <1>12, <1>18, <2>1 DEF OneHolder, Active
  <1>26. FlushOK'
    <2> SUFFICES ASSUME NEW g \in Flusher
                 PROVE  /\ flush'[g].at = "idle" => flush'[g] = Idle
                        /\ ~Creating(g)' /\ ~Installing(g)'
                        /\ Sending(g)' => /\ flush'[g].canister = newLast.canister_id
                                          /\ ChunksFit(flush'[g].chunk_sizes, Len(storage_buffer'))
      BY <1>20 DEF FlushOK
    <2>1. CASE g = f
      <3>1. CASE new = Idle
        BY <1>4, <1>18, <2>1, <3>1 DEF Creating, Installing, Sending
      <3>2. CASE more /\ new.at = "sending"
        BY <1>11, <1>13, <1>15, <1>16, <1>18, <2>1, <3>2 DEF Creating, Installing, Sending
      <3> QED
        BY <1>15, <3>1, <3>2
    <2>2. CASE g # f
      BY <1>4, <1>18, <2>2 DEF Creating, Installing, Sending
    <2> QED
      BY <2>1, <2>2
  <1>27. Contiguous'
    <2>1. \A k \in 1 .. N : storage_canisters[k].first_log_id =
             IF k = 1 THEN 0
             ELSE storage_canisters[k - 1].first_log_id + storage_canisters[k - 1].length
      BY <1>1, <1>6 DEF Contiguous
    <2>2. \A k \in 1 .. N : storage_canisters'[k].first_log_id =
             IF k = 1 THEN 0
             ELSE storage_canisters'[k - 1].first_log_id + storage_canisters'[k - 1].length
      <3> TAKE k \in 1 .. N
      <3>1. k # 1 => k - 1 \in 1 .. N /\ k - 1 # N
        BY <1>6
      <3>2. k # 1 => storage_canisters'[k - 1] = storage_canisters[k - 1]
        BY <1>19, <3>1
      <3> QED
        BY <1>21, <2>1, <3>2
    <2>3. \A k \in 1 .. N - 1 : storage_canisters'[k].is_full
      <3>1. \A k \in 1 .. N - 1 : k \in 1 .. N /\ k # N
        BY <1>6
      <3>2. \A k \in 1 .. N - 1 : storage_canisters[k].is_full
        BY <1>1, <1>6 DEF Contiguous
      <3> QED
        BY <1>19, <3>1, <3>2
    <2>4. BufferFirstId' + Len(storage_buffer') = id_counter'
      BY <1>1, <1>6, <1>8, <1>10, <1>12, <1>16, <1>20 DEF Contiguous
    <2> QED
      BY <1>19, <2>2, <2>3, <2>4 DEF Contiguous
  <1>28. ListOK'
    <2>1. \A k \in 1 .. N : storage_canisters'[k].canister_id \in created
      BY <1>1, <1>6, <1>21 DEF ListOK
    <2>2. \A j, k \in 1 .. N :
             storage_canisters'[j].canister_id = storage_canisters'[k].canister_id => j = k
      BY <1>1, <1>6, <1>21 DEF ListOK
    <2>3. \A j, k \in 1 .. N :
             j < k => EndOf(storage_canisters'[j]) <= storage_canisters'[k].first_log_id
      <3> SUFFICES ASSUME NEW j \in 1 .. N, NEW k \in 1 .. N, j < k
                   PROVE  EndOf(storage_canisters'[j]) <= storage_canisters'[k].first_log_id
        OBVIOUS
      <3>1. storage_canisters'[j] = storage_canisters[j]
        BY <1>6, <1>21
      <3> QED
        BY <1>1, <1>6, <1>21, <3>1 DEF ListOK
    <2>4. \A id \in 0 .. BufferFirstId' - 1 : OnCanister(id)'
      <3> SUFFICES ASSUME NEW id \in 0 .. BufferFirstId' - 1
                   PROVE  \E k \in 1 .. N : Covers(storage_canisters'[k], id)
        BY <1>19 DEF OnCanister, Covers
      <3>1. CASE id < BufferFirstId
        <4>1. PICK k \in 1 .. N : Covers(storage_canisters[k], id)
          BY SMTT(20), <1>1, <1>6, <3>1 DEF ListOK, OnCanister
        <4>2. storage_canisters[k].length \in Nat /\ storage_canisters[k].first_log_id \in Nat
          BY <1>1, <1>6, ListFacts
        <4>3. CASE k = N
          <5>1. /\ storage_canisters'[k].first_log_id = storage_canisters[k].first_log_id
                /\ storage_canisters'[k].length = storage_canisters[k].length + n
            BY <1>6, <1>13, <1>19, <4>3
          <5>2. n \in Nat /\ id \in Int
            BY <1>6, <1>10, <1>20
          <5> QED
            BY <4>1, <4>2, <5>1, <5>2 DEF Covers
        <4>4. CASE k # N
          BY <1>19, <4>1, <4>4
        <4> QED
          BY <4>1, <4>3, <4>4
      <3>2. CASE id >= BufferFirstId
        <4>1. Covers(storage_canisters'[N], id)
          BY <1>6, <1>7, <1>10, <1>13, <1>19, <1>20, <3>2 DEF Covers
        <4> QED
          BY <1>6, <4>1
      <3> QED
        BY <1>6, <3>1, <3>2
    <2>5. \A c \in created : Listed(c) \/ create_storage_canister_temp_holder = c
      <3>1. \A c \in created, g \in Flusher : ~HandledBy(g, c)
        BY <1>2, <1>3, <1>4 DEF HandledBy, Sending
      <3> QED
        BY <1>1, <3>1 DEF ListOK
    <2>6. create_storage_canister_temp_holder # None =>
             /\ create_storage_canister_temp_holder \in created
             /\ ~Listed(create_storage_canister_temp_holder)
      BY <1>1 DEF ListOK
    <2> QED
      BY <1>12, <1>19, <1>22, <2>1, <2>2, <2>3, <2>4, <2>5, <2>6 DEF ListOK, EndOf
  <1>29. BufferOK'
    <2> SUFFICES ASSUME NEW k \in 1 .. Len(storage_buffer')
                 PROVE  storage_buffer'[k].id = BufferFirstId' + k - 1
      BY <1>16 DEF BufferOK
    <2>1. n + k \in DOMAIN storage_buffer
      BY <1>8, <1>10, <1>16
    <2>2. storage_buffer[n + k].id = BufferFirstId + (n + k) - 1
      BY <1>1, <2>1 DEF BufferOK
    <2> QED
      BY SMTT(15), <1>6, <1>10, <1>16, <1>20, <2>2
  <1>30. StoredOK'
    <2>1. \A g \in Flusher : flush'[g].at # "sent"
      BY <1>4, <1>17, <1>18
    <2>2. /\ \A d \in Canister : Len(stored'[d]) <= Capacity
          /\ \A d \in Canister : ~Listed(d)' => stored'[d] = <<>>
      BY <1>1, <1>12, <1>22 DEF StoredOK
    <2>3. \A k \in 1 .. N :
            /\ \A j \in DOMAIN stored[storage_canisters[k].canister_id] :
                 stored[storage_canisters[k].canister_id][j].id
                 = storage_canisters[k].first_log_id + j - 1
            /\ stored[storage_canisters[k].canister_id] # <<>> =>
                 first_log_id[storage_canisters[k].canister_id] = storage_canisters[k].first_log_id
      BY <1>1, <1>6 DEF StoredOK
    <2>4. \A k \in 1 .. N :
            Len(stored[storage_canisters'[k].canister_id]) = storage_canisters'[k].length
      <3> TAKE k \in 1 .. N
      <3>1. CASE k = N
        BY <1>13, <1>19, <1>23, <3>1
      <3>2. CASE k # N
        BY <1>1, <1>6, <1>21, <3>2 DEF StoredOK
      <3> QED
        BY <3>1, <3>2
    <2>5. \A k \in DOMAIN storage_canisters' :
            /\ Len(stored'[storage_canisters'[k].canister_id]) = storage_canisters'[k].length
            /\ \A j \in DOMAIN stored'[storage_canisters'[k].canister_id] :
                 stored'[storage_canisters'[k].canister_id][j].id
                 = storage_canisters'[k].first_log_id + j - 1
            /\ stored'[storage_canisters'[k].canister_id] # <<>> =>
                 first_log_id'[storage_canisters'[k].canister_id]
                 = storage_canisters'[k].first_log_id
      <3> SUFFICES ASSUME NEW k \in 1 .. N
                   PROVE  LET c == storage_canisters'[k].canister_id
                          IN  /\ Len(stored[c]) = storage_canisters'[k].length
                              /\ \A j \in DOMAIN stored[c] :
                                   stored[c][j].id = storage_canisters'[k].first_log_id + j - 1
                              /\ stored[c] # <<>> =>
                                   first_log_id[c] = storage_canisters'[k].first_log_id
        BY <1>12, <1>19
      <3> QED
        BY <1>21, <2>3, <2>4
    <2> QED
      BY <2>1, <2>2, <2>5 DEF StoredOK
  <1>31. UpdatesOK'
    BY <1>1, <1>3, <1>12 DEF UpdatesOK, OneHolder, NoUpdates, NoUpdate
  <1> QED
    BY <1>24, <1>25, <1>26, <1>27, <1>28, <1>29, <1>30, <1>31 DEF LogStorageInv

-----------------------------------------------------------------------------
(* The storage canisters.                                                  *)

(* The flush method fails: nothing moves.                                  *)
LEMMA FlushRefused ==
    ASSUME LogStorageInv, NEW f \in Flusher, NEW at \in {"failed", "full"},
           flush[f].at = "sending",
           flush' = [flush EXCEPT ![f].at = at],
           UNCHANGED <<data, update, holds_lock, created, installed, stored, first_log_id,
                       controller_mark_full>>
    PROVE  LogStorageInv'
  <1> USE DEF data
  <1>1. /\ TypeOK /\ OneHolder /\ FlushOK /\ ListOK
    BY DEF LogStorageInv
  <1>2. Active(f) /\ Sending(f)
    BY DEF Active, Idle, Sending
  <1>3. holds_lock = {} /\ storage_flush_lock /\ \A g \in Flusher \ {f} : flush[g] = Idle
    BY <1>1, <1>2, TheOneFlush DEF OneHolder
  <1> DEFINE new == [flush[f] EXCEPT !.at = at]
  <1>4. flush' = [flush EXCEPT ![f] = new]
    OBVIOUS
  <1>5. /\ new \in Flush /\ new.at = at /\ new.canister = flush[f].canister
        /\ new.chunk_sizes = flush[f].chunk_sizes
    BY <1>1, FlushFacts DEF Flush, FlushAtState
  <1> HIDE DEF new
  <1>6. /\ flush' \in [Flusher -> Flush] /\ flush'[f] = new
        /\ \A g \in Flusher \ {f} : flush'[g] = flush[g]
    BY <1>1, <1>4, <1>5 DEF TypeOK
  <1>7. /\ storage_canisters # <<>>
        /\ flush[f].canister = LastOf(storage_canisters).canister_id
        /\ ChunksFit(flush[f].chunk_sizes, Len(storage_buffer))
    BY <1>1, <1>2 DEF FlushOK
  <1>8. \A c \in created : Listed(c) \/ create_storage_canister_temp_holder = c
    <2>1. \A c \in created, g \in Flusher : ~HandledBy(g, c)
      BY <1>3 DEF HandledBy, Idle
    <2> QED
      BY <1>1, <2>1 DEF ListOK
  <1>9. /\ create_storage_canister_temp_holder \in Canister \cup {None}
        /\ create_storage_canister_temp_holder # None =>
             /\ create_storage_canister_temp_holder \in created
             /\ ~Listed(create_storage_canister_temp_holder)
        /\ installed \subseteq created /\ created \subseteq Canister
    BY <1>1 DEF ListOK, TypeOK
  <1> QED
    BY <1>3, <1>5, <1>6, <1>7, <1>8, <1>9, FlushMoves DEF Creating, Installing, Sending

LEMMA StorageFlushHolds ==
    ASSUME LogStorageInv, NEW f \in Flusher, StorageFlush(f)
    PROVE  LogStorageInv'
  <1> USE DEF data
  <1> DEFINE c == flush[f].canister
             sizes == flush[f].chunk_sizes
             chunk == Chunk(f)
             n == Head(sizes)
             N == Len(storage_canisters)
             last == storage_canisters[N]
             new == [flush[f] EXCEPT !.at = "sent"]
  <1>1. /\ TypeOK /\ OneHolder /\ FlushOK /\ Contiguous
        /\ ListOK /\ BufferOK /\ StoredOK /\ UpdatesOK
    BY DEF LogStorageInv
  <1>2. CASE flush' = [flush EXCEPT ![f].at = "failed"] /\ UNCHANGED <<stored, map, first_log_id>>
    BY <1>2, FlushRefused DEF StorageFlush
  <1>3. CASE flush' = [flush EXCEPT ![f].at = "full"] /\ UNCHANGED <<stored, map, first_log_id>>
    BY <1>3, FlushRefused DEF StorageFlush
  <1>4. CASE /\ Fits(c, chunk)
             /\ stored' = [stored EXCEPT ![c] = @ \o chunk]
             /\ first_log_id' = IF stored[c] = <<>>
                                THEN [first_log_id EXCEPT ![c] = Head(chunk).id]
                                ELSE first_log_id
             /\ flush' = [flush EXCEPT ![f] = new]
    <2>1. flush[f].at = "sending" /\ Active(f) /\ Sending(f)
      BY DEF StorageFlush, Active, Idle, Sending
    <2>2. holds_lock = {} /\ storage_flush_lock /\ \A g \in Flusher \ {f} : flush[g] = Idle
      BY <1>1, <2>1, TheOneFlush DEF OneHolder
    <2>3. Idle.at = "idle"
      BY DEF Idle
    <2>4. /\ storage_canisters # <<>> /\ c = last.canister_id
          /\ ChunksFit(sizes, Len(storage_buffer)) /\ sizes \in Seq(Nat)
      BY <1>1, <2>1, FlushFacts DEF FlushOK, LastOf
    <2>5. /\ N \in Nat \ {0} /\ N = Len(storage_canisters) /\ last = storage_canisters[N]
          /\ DOMAIN storage_canisters = 1 .. N /\ N \in DOMAIN storage_canisters
          /\ BufferFirstId \in Nat /\ BufferFirstId = last.first_log_id + last.length
          /\ c \in Canister /\ last.first_log_id \in Nat /\ last.length \in Nat
          /\ LastOf(storage_canisters) = last
      BY <1>1, <2>4, ListFacts DEF TypeOK, EndOf
    <2>6. storage_buffer \in Seq(Log) /\ Len(storage_buffer) \in Nat
      BY <1>1 DEF TypeOK
    <2>7. n \in Nat \ {0} /\ n <= Len(storage_buffer)
      BY <2>4, <2>6, FirstChunk, LogStorageAssumption
    <2>8. /\ chunk \in Seq(Log) /\ Len(chunk) = n /\ chunk # <<>> /\ Head(chunk) = chunk[1]
          /\ \A j \in 1 .. n : chunk[j] = storage_buffer[j]
      <3>1. chunk = SubSeq(storage_buffer, 1, n)
        BY DEF Chunk
      <3> HIDE DEF n, chunk
      <3>2. /\ chunk \in Seq(Log) /\ Len(chunk) = n
            /\ \A j \in 1 .. n : chunk[j] = storage_buffer[j]
        BY <2>6, <2>7, <3>1
      <3> QED
        BY <2>7, <3>2
    <2>9. \A j \in 1 .. n : storage_buffer[j].id = BufferFirstId + j - 1
      BY <1>1, <2>6, <2>7 DEF BufferOK
    <2>10. \A g \in Flusher : flush[g].at # "sent"
      BY <2>1, <2>2, <2>3
    <2>11. /\ stored[c] \in Seq(Log) /\ Len(stored[c]) = last.length
           /\ \A j \in DOMAIN stored[c] : stored[c][j].id = last.first_log_id + j - 1
           /\ stored[c] # <<>> => first_log_id[c] = last.first_log_id
      <3>1. stored[c] \in Seq(Log)
        BY <1>1, <2>5 DEF TypeOK
      <3> HIDE DEF N, last, c
      <3> QED
        BY <1>1, <2>4, <2>5, <2>10, <3>1 DEF StoredOK
    <2>12. UNCHANGED <<id_counter, storage_buffer, storage_canisters, storage_flush_lock,
                       create_storage_canister_temp_holder, update, holds_lock, created,
                       installed, controller_mark_full>>
      BY DEF StorageFlush
    <2>13. /\ new \in Flush /\ new.at = "sent" /\ new.canister = c /\ new.chunk_sizes = sizes
      BY <1>1, FlushFacts DEF Flush, FlushAtState
    <2> HIDE DEF new, c, sizes, chunk, n, N, last
    <2>14. /\ flush' \in [Flusher -> Flush] /\ flush'[f] = new
           /\ \A g \in Flusher \ {f} : flush'[g] = Idle
      BY <1>1, <1>4, <2>2, <2>13 DEF TypeOK
    <2>15. /\ stored[c] \o chunk \in Seq(Log)
           /\ Len(stored[c] \o chunk) = last.length + n
           /\ \A j \in 1 .. last.length : (stored[c] \o chunk)[j] = stored[c][j]
           /\ \A j \in 1 .. n : (stored[c] \o chunk)[last.length + j] = chunk[j]
      <3>1. /\ stored[c] \o chunk \in Seq(Log)
            /\ Len(stored[c] \o chunk) = Len(stored[c]) + Len(chunk)
            /\ \A j \in 1 .. Len(stored[c]) + Len(chunk) : (stored[c] \o chunk)[j] =
                 IF j <= Len(stored[c]) THEN stored[c][j] ELSE chunk[j - Len(stored[c])]
        BY <2>8, <2>11, ConcatProperties
      <3>2. \A j \in 1 .. last.length : j \in 1 .. last.length + n /\ j <= last.length
        BY <2>5, <2>7
      <3>3. \A j \in 1 .. n : /\ last.length + j \in 1 .. last.length + n
                              /\ ~(last.length + j <= last.length)
                              /\ (last.length + j) - last.length = j
        BY <2>5, <2>7
      <3>4. Len(stored[c]) = last.length /\ Len(chunk) = n
        BY <2>8, <2>11
      <3>5. \A j \in 1 .. n : (stored[c] \o chunk)[last.length + j] = chunk[j]
        BY <3>1, <3>3, <3>4
      <3> QED
        BY <3>1, <3>2, <3>4, <3>5
    <2> DEFINE log == stored[c] \o chunk
    <2> HIDE DEF log
    <2>16. /\ stored' \in [Canister -> Seq(Log)] /\ stored'[c] = log
           /\ \A d \in Canister \ {c} : stored'[d] = stored[d]
      BY <1>1, <1>4, <2>5, <2>15 DEF TypeOK, log
    <2>17. /\ log \in Seq(Log) /\ Len(log) = last.length + n
           /\ \A j \in 1 .. last.length : log[j] = stored[c][j]
           /\ \A j \in 1 .. n : log[last.length + j] = storage_buffer[j]
      BY <2>8, <2>15 DEF log
    <2>18. \A j \in 1 .. last.length + n : log[j].id = last.first_log_id + j - 1
      <3> TAKE j \in 1 .. last.length + n
      <3>1. CASE j <= last.length
        <4>1. j \in 1 .. last.length /\ j \in DOMAIN stored[c]
          BY <2>5, <2>7, <2>11, <3>1
        <4> QED
          BY <2>11, <2>17, <4>1
      <3>2. CASE j > last.length
        <4>1. j - last.length \in 1 .. n /\ last.length + (j - last.length) = j
          BY <2>5, <2>7, <3>2
        <4>2. log[j] = storage_buffer[j - last.length]
          BY <2>17, <4>1
        <4>3. log[j].id = BufferFirstId + (j - last.length) - 1
          BY <2>9, <4>1, <4>2
        <4>4. \A first, length \in Nat : first + length + (j - length) - 1 = first + j - 1
          BY <2>5, <2>7
        <4> QED
          BY <2>5, <4>3, <4>4
      <3> QED
        BY <2>5, <2>7, <3>1, <3>2
    <2>19. /\ first_log_id' \in [Canister -> LogId \cup {0}]
           /\ first_log_id'[c] = last.first_log_id
           /\ \A d \in Canister \ {c} : first_log_id'[d] = first_log_id[d]
      <3>1. first_log_id \in [Canister -> LogId \cup {0}]
        BY <1>1 DEF TypeOK
      <3>2. CASE stored[c] = <<>>
        <4>1. last.length = 0
          BY <2>11, <3>2
        <4>2. Head(chunk).id = last.first_log_id
          BY <2>5, <2>7, <2>8, <2>9, <4>1
        <4>3. Head(chunk).id \in LogId
          <5>1. Head(chunk) \in Log
            BY <2>7, <2>8
          <5> QED
            BY <5>1 DEF Log
        <4> QED
          BY <1>4, <2>5, <3>1, <3>2, <4>2, <4>3
      <3>3. CASE stored[c] # <<>>
        BY <1>4, <2>5, <2>11, <3>1, <3>3
      <3> QED
        BY <3>2, <3>3
    <2>20. /\ BufferFirstId' = BufferFirstId
           /\ \A d : Listed(d)' <=> Listed(d)
           /\ \A id : OnCanister(id)' <=> OnCanister(id)
      BY <2>12, SameList
    <2>21. TypeOK'
      BY <1>1, <2>12, <2>14, <2>16, <2>19 DEF TypeOK
    <2>22. OneHolder'
      BY <1>1, <2>2, <2>12, <2>14 DEF OneHolder, Active
    <2>23. FlushOK'
      <3> SUFFICES ASSUME NEW g \in Flusher
                   PROVE  /\ flush'[g].at = "idle" => flush'[g] = Idle
                          /\ ~Creating(g)' /\ ~Installing(g)'
                          /\ Sending(g)' =>
                               /\ flush'[g].canister = last.canister_id
                               /\ ChunksFit(flush'[g].chunk_sizes, Len(storage_buffer))
        BY <2>4, <2>5, <2>12 DEF FlushOK, LastOf
      <3>1. CASE g = f
        BY <2>4, <2>13, <2>14, <3>1 DEF Creating, Installing
      <3>2. CASE g # f
        BY <2>3, <2>14, <3>2 DEF Creating, Installing, Sending
      <3> QED
        BY <3>1, <3>2
    <2>24. Contiguous' /\ BufferOK'
      BY <1>1, <2>12, <2>20 DEF Contiguous, BufferOK
    <2>25. ListOK'
      <3>1. \A d \in created, g \in Flusher : ~HandledBy(g, d)
        BY <2>1, <2>2, <2>3 DEF HandledBy
      <3>2. \A d \in created : Listed(d) \/ create_storage_canister_temp_holder = d
        BY <1>1, <3>1 DEF ListOK
      <3> QED
        BY <1>1, <2>12, <2>20, <3>2 DEF ListOK
    <2>26. StoredOK'
      <3>1. Listed(c)
        BY <2>4, <2>5 DEF Listed
      <3>2. \A d \in Canister : Len(stored'[d]) <= Capacity
        BY <1>1, <1>4, <2>8, <2>11, <2>16, <2>17 DEF StoredOK, Fits
      <3>3. \A d \in Canister : ~Listed(d)' => stored'[d] = <<>>
        BY <1>1, <2>16, <2>20, <3>1 DEF StoredOK
      <3>4. DOMAIN log = 1 .. last.length + n
        BY <2>17
      <3>5. \A k \in DOMAIN storage_canisters : k # N =>
              /\ storage_canisters[k].canister_id \in Canister \ {c}
              /\ Len(stored[storage_canisters[k].canister_id]) = storage_canisters[k].length
        BY <1>1, <2>4, <2>5, <2>10, ListFacts DEF ListOK, StoredOK
      <3>6. \A k \in DOMAIN storage_canisters :
              LET sc == storage_canisters[k]
                  d == sc.canister_id
              IN  /\ k # N => Len(stored'[d]) = sc.length
                  /\ \A j \in DOMAIN stored'[d] : stored'[d][j].id = sc.first_log_id + j - 1
                  /\ stored'[d] # <<>> => first_log_id'[d] = sc.first_log_id
        <4> TAKE k \in DOMAIN storage_canisters
        <4>1. CASE k = N
          BY <2>4, <2>5, <2>16, <2>18, <2>19, <3>4, <4>1
        <4>2. CASE k # N
          BY <1>1, <2>16, <2>19, <3>5, <4>2 DEF StoredOK
        <4> QED
          BY <4>1, <4>2
      <3>7. \A g \in Flusher : flush'[g].at = "sent" => g = f
        BY <2>3, <2>14
      <3>8. /\ Len(stored'[last.canister_id]) = last.length + Head(flush'[f].chunk_sizes)
            /\ \A j \in 1 .. Head(flush'[f].chunk_sizes) :
                 stored'[last.canister_id][last.length + j] = storage_buffer[j]
        BY <2>4, <2>13, <2>14, <2>16, <2>17 DEF n
      <3> QED
        BY <2>5, <2>12, <2>13, <2>14, <3>2, <3>3, <3>6, <3>7, <3>8 DEF StoredOK, LastOf
    <2>27. UpdatesOK'
      BY <1>1, <2>2, <2>12 DEF UpdatesOK, OneHolder, NoUpdates, NoUpdate
    <2> QED
      BY <2>21, <2>22, <2>23, <2>24, <2>25, <2>26, <2>27 DEF LogStorageInv
  <1> QED
    BY <1>2, <1>3, <1>4 DEF StorageFlush

LEMMA MarkFullHolds ==
    ASSUME LogStorageInv, NEW c \in Canister, ControllerMarkFull(c)
    PROVE  LogStorageInv'
  <1> USE DEF data
  <1>1. /\ TypeOK /\ OneHolder /\ FlushOK /\ Contiguous
        /\ ListOK /\ BufferOK /\ StoredOK /\ UpdatesOK
    BY DEF LogStorageInv
  <1>2. UNCHANGED <<id_counter, storage_buffer, storage_canisters, storage_flush_lock,
                    create_storage_canister_temp_holder, flush, update, holds_lock, created,
                    installed, stored, first_log_id>>
    BY DEF ControllerMarkFull
  <1>3. /\ BufferFirstId' = BufferFirstId
        /\ HasRoom' <=> HasRoom
        /\ \A d : Listed(d)' <=> Listed(d)
        /\ \A id : OnCanister(id)' <=> OnCanister(id)
    BY <1>2, SameList
  <1>4. controller_mark_full' \in [Canister -> BOOLEAN]
    BY <1>1 DEF ControllerMarkFull, TypeOK
  <1>5. TypeOK'
    BY <1>1, <1>2, <1>4 DEF TypeOK
  <1>6. OneHolder' /\ FlushOK'
    BY <1>1, <1>2, <1>3 DEF OneHolder, Active, FlushOK, Creating, Installing, Sending
  <1>7. Contiguous' /\ BufferOK' /\ ListOK'
    BY <1>1, <1>2, <1>3 DEF Contiguous, BufferOK, ListOK, HandledBy
  <1>8. StoredOK' /\ UpdatesOK'
    BY <1>1, <1>2, <1>3 DEF StoredOK, UpdatesOK, Covers, LastOf
  <1> QED
    BY <1>5, <1>6, <1>7, <1>8 DEF LogStorageInv

-----------------------------------------------------------------------------
(* The updates.                                                            *)

LEMMA UpdateFacts ==
    ASSUME TypeOK, NEW u \in Updater, NEW id \in LogId
    PROVE  /\ update[u] \in [LogId -> Update]
           /\ update[u][id] \in Update
           /\ update[u][id].at \in {"none", "sent", "applied", "rejected", "done"}
           /\ update[u][id].canister \in Canister \cup {None}
  <1>1. update[u] \in [LogId -> Update] /\ update[u][id] \in Update
    BY DEF TypeOK
  <1> QED
    BY <1>1 DEF Update

(* What the updates of a run need of the others: nobody flushes.           *)
LEMMA TheOneRun ==
    ASSUME TypeOK, OneHolder, NEW u \in holds_lock
    PROVE  /\ \A f \in Flusher : flush[f] = Idle
           /\ \A v \in Updater \ {u} : update[v] = NoUpdates /\ v \notin holds_lock
           /\ u \in Updater
  BY DEF OneHolder, Active, TypeOK

LEMMA StartUpdatesHolds ==
    ASSUME LogStorageInv, NEW u \in Updater, NEW ids, StartUpdates(u, ids)
    PROVE  LogStorageInv'
  <1> USE DEF storage
  <1>1. /\ TypeOK /\ OneHolder /\ FlushOK /\ Contiguous
        /\ ListOK /\ BufferOK /\ StoredOK /\ UpdatesOK
    BY DEF LogStorageInv
  <1>2. ~storage_flush_lock /\ holds_lock = {} /\ \A f \in Flusher : flush[f] = Idle
    BY <1>1 DEF StartUpdates, UpdateMayStart, OneHolder, Active
  <1>3. Idle.at = "idle"
    BY DEF Idle
  <1>4. UNCHANGED <<id_counter, storage_canisters, create_storage_canister_temp_holder, flush,
                    created, installed, stored, map, first_log_id, controller_mark_full>>
    BY DEF StartUpdates
  <1>5. /\ BufferFirstId' = BufferFirstId
        /\ HasRoom' <=> HasRoom
        /\ \A d : Listed(d)' <=> Listed(d)
        /\ \A id : OnCanister(id)' <=> OnCanister(id)
    BY <1>4, SameList
  <1>6. \A id : OnCanister(id) =>
           \E k \in DOMAIN storage_canisters :
               Covers(storage_canisters[k], id) /\ CanisterOf(id) = storage_canisters[k].canister_id
    BY DEF OnCanister, CanisterOf
  <1> DEFINE new == [id \in LogId |->
                        IF id \notin ids THEN NoUpdate
                        ELSE IF OnCanister(id) THEN [at |-> "sent", canister |-> CanisterOf(id)]
                        ELSE [at |-> "done", canister |-> None]]
  <1>7. update' = [update EXCEPT ![u] = new]
    BY DEF StartUpdates
  <1>8. \A id \in LogId :
           /\ new[id] \in Update
           /\ new[id].at = "sent" => OnCanister(id) /\ new[id].canister = CanisterOf(id)
    <2> TAKE id \in LogId
    <2>1. OnCanister(id) => CanisterOf(id) \in Canister
      BY <1>1, <1>6, ListFacts
    <2>2. CASE id \notin ids
      BY <2>2 DEF NoUpdate, Update
    <2>3. CASE id \in ids /\ OnCanister(id)
      BY <2>1, <2>3 DEF Update
    <2>4. CASE id \in ids /\ ~OnCanister(id)
      BY <2>4 DEF Update
    <2> QED
      BY <2>2, <2>3, <2>4
  <1>9. new \in [LogId -> Update]
    BY <1>8
  <1> HIDE DEF new
  <1>10. /\ update' \in [Updater -> [LogId -> Update]] /\ update'[u] = new
         /\ \A v \in Updater \ {u} : update'[v] = NoUpdates
    BY <1>1, <1>2, <1>7, <1>9 DEF TypeOK, OneHolder
  <1>11. storage_flush_lock' = TRUE /\ holds_lock' = {u}
    BY <1>2 DEF StartUpdates
  <1>12. /\ storage_buffer' \in Seq(Log) /\ Len(storage_buffer') = Len(storage_buffer)
         /\ DOMAIN storage_buffer' = DOMAIN storage_buffer
         /\ \A k \in DOMAIN storage_buffer : storage_buffer'[k].id = storage_buffer[k].id
    <2> DEFINE changed(k) == BufferFirstId + k - 1 \in ids /\ ~OnCanister(BufferFirstId + k - 1)
               log(k) == IF changed(k) THEN FinalLog(BufferFirstId + k - 1) ELSE storage_buffer[k]
    <2>1. storage_buffer' = [k \in DOMAIN storage_buffer |-> log(k)]
      BY DEF StartUpdates
    <2>2. storage_buffer \in Seq(Log) /\ DOMAIN storage_buffer = 1 .. Len(storage_buffer)
      BY <1>1 DEF TypeOK
    <2>3. \A k \in DOMAIN storage_buffer : log(k) \in Log /\ log(k).id = storage_buffer[k].id
      <3> TAKE k \in DOMAIN storage_buffer
      <3>1. storage_buffer[k] \in Log /\ storage_buffer[k].id = BufferFirstId + k - 1
        BY <1>1, <2>2 DEF BufferOK
      <3> QED
        BY <3>1 DEF FinalLog, Log
    <2> HIDE DEF log
    <2> QED
      BY <2>1, <2>2, <2>3
  <1>13. TypeOK'
    BY <1>1, <1>4, <1>10, <1>11, <1>12 DEF TypeOK
  <1>14. OneHolder'
    BY <1>2, <1>4, <1>10, <1>11 DEF OneHolder, Active
  <1>15. FlushOK'
    BY <1>2, <1>3, <1>4 DEF FlushOK, Creating, Installing, Sending
  <1>16. Contiguous' /\ ListOK'
    BY <1>1, <1>4, <1>5, <1>12 DEF Contiguous, ListOK, HandledBy
  <1>17. BufferOK'
    BY <1>1, <1>5, <1>12 DEF BufferOK
  <1>18. StoredOK'
    BY <1>1, <1>2, <1>3, <1>4, <1>5 DEF StoredOK
  <1>19. UpdatesOK'
    <2> SUFFICES ASSUME NEW v \in Updater, NEW id \in LogId, update'[v][id].at = "sent"
                 PROVE  \E k \in DOMAIN storage_canisters :
                            /\ Covers(storage_canisters[k], id)
                            /\ update'[v][id].canister = storage_canisters[k].canister_id
      BY <1>4 DEF UpdatesOK, Covers
    <2>1. v = u
      BY <1>10 DEF NoUpdates, NoUpdate
    <2> QED
      BY <1>6, <1>8, <1>10, <2>1
  <1> QED
    BY <1>13, <1>14, <1>15, <1>16, <1>17, <1>18, <1>19 DEF LogStorageInv

(* The place of an update that was sent.                                   *)
LEMMA SentUpdate ==
    ASSUME LogStorageInv, NEW u \in Updater, NEW id \in LogId, update[u][id].at = "sent"
    PROVE  /\ u \in holds_lock
           /\ \E k \in DOMAIN storage_canisters :
                /\ Covers(storage_canisters[k], id)
                /\ update[u][id].canister = storage_canisters[k].canister_id
                /\ Len(stored[storage_canisters[k].canister_id]) = storage_canisters[k].length
                /\ first_log_id[storage_canisters[k].canister_id] = storage_canisters[k].first_log_id
                /\ Found(storage_canisters[k].canister_id, id)
                /\ Place(storage_canisters[k].canister_id, id)
                   = id - storage_canisters[k].first_log_id + 1
  <1>1. TypeOK /\ OneHolder /\ StoredOK /\ UpdatesOK
    BY DEF LogStorageInv
  <1>2. u \in holds_lock
    BY <1>1 DEF OneHolder, NoUpdates, NoUpdate
  <1>3. \A f \in Flusher : flush[f].at # "sent"
    BY <1>1, <1>2, TheOneRun DEF Idle
  <1>4. PICK k \in DOMAIN storage_canisters :
            /\ Covers(storage_canisters[k], id)
            /\ update[u][id].canister = storage_canisters[k].canister_id
    BY <1>1 DEF UpdatesOK
  <1> DEFINE sc == storage_canisters[k]
             c == sc.canister_id
  <1>5. sc.length \in Nat /\ sc.first_log_id \in Nat /\ c \in Canister /\ id \in Int
    BY <1>1, ListFacts DEF LogId
  <1>6. stored[c] \in Seq(Log) /\ Len(stored[c]) = sc.length
    BY <1>1, <1>3, <1>5 DEF StoredOK, TypeOK
  <1>7. id >= sc.first_log_id /\ id < sc.first_log_id + sc.length
    BY <1>4 DEF Covers
  <1>8. stored[c] # <<>>
    BY <1>5, <1>6, <1>7
  <1>9. first_log_id[c] = sc.first_log_id
    BY <1>1, <1>8 DEF StoredOK
  <1>10. Place(c, id) = id - sc.first_log_id + 1
    BY <1>9 DEF Place
  <1>11. Found(c, id)
    BY <1>5, <1>6, <1>7, <1>9, <1>10 DEF Found
  <1> QED
    BY <1>2, <1>4, <1>6, <1>9, <1>10, <1>11

(* A step that changes the updates of a run that holds the lock, and       *)
(* perhaps a log where it is stored.                                       *)
LEMMA UpdateMoves ==
    ASSUME LogStorageInv, NEW u \in holds_lock, NEW new \in [LogId -> Update],
           UNCHANGED <<data, flush, holds_lock, created, installed, first_log_id,
                       controller_mark_full>>,
           update' = [update EXCEPT ![u] = new],
           \A id \in LogId : new[id].at = "sent" => update[u][id] = new[id],
           stored' \in [Canister -> Seq(Log)],
           \A c \in Canister : /\ Len(stored'[c]) = Len(stored[c])
                               /\ \A j \in DOMAIN stored[c] : stored'[c][j].id = stored[c][j].id
    PROVE  LogStorageInv'
  <1> USE DEF data
  <1>1. /\ TypeOK /\ OneHolder /\ FlushOK /\ Contiguous
        /\ ListOK /\ BufferOK /\ StoredOK /\ UpdatesOK
    BY DEF LogStorageInv
  <1>2. /\ BufferFirstId' = BufferFirstId
        /\ HasRoom' <=> HasRoom
        /\ \A d : Listed(d)' <=> Listed(d)
        /\ \A id : OnCanister(id)' <=> OnCanister(id)
    BY SameList
  <1>3. /\ \A f \in Flusher : flush[f] = Idle
        /\ \A v \in Updater \ {u} : update[v] = NoUpdates /\ v \notin holds_lock
        /\ u \in Updater
    BY <1>1, TheOneRun
  <1>4. /\ update' \in [Updater -> [LogId -> Update]] /\ update'[u] = new
        /\ \A v \in Updater \ {u} : update'[v] = update[v]
    BY <1>1, <1>3 DEF TypeOK
  <1>5. TypeOK'
    BY <1>1, <1>4 DEF TypeOK
  <1>6. OneHolder'
    BY <1>1, <1>3, <1>4 DEF OneHolder, Active
  <1>7. FlushOK'
    BY <1>1, <1>2 DEF FlushOK, Creating, Installing, Sending, LastOf
  <1>8. Contiguous' /\ BufferOK' /\ ListOK'
    BY <1>1, <1>2 DEF Contiguous, BufferOK, ListOK, HandledBy
  <1>9. StoredOK'
    <2>1. \A f \in Flusher : flush[f].at # "sent" /\ flush'[f].at # "sent"
      BY <1>3 DEF Idle
    <2>2. \A c \in Canister : /\ stored[c] \in Seq(Log) /\ stored'[c] \in Seq(Log)
                              /\ DOMAIN stored'[c] = DOMAIN stored[c]
                              /\ stored'[c] = <<>> <=> stored[c] = <<>>
      BY <1>1 DEF TypeOK
    <2>3. \A c \in Canister : Len(stored'[c]) <= Capacity
      BY <1>1 DEF StoredOK
    <2>4. \A c \in Canister : ~Listed(c)' => stored'[c] = <<>>
      BY <1>1, <1>2, <2>2 DEF StoredOK
    <2>5. \A k \in DOMAIN storage_canisters :
             LET sc == storage_canisters[k]
                 c == sc.canister_id
             IN  /\ Len(stored'[c]) = sc.length
                 /\ \A j \in DOMAIN stored'[c] : stored'[c][j].id = sc.first_log_id + j - 1
                 /\ stored'[c] # <<>> => first_log_id[c] = sc.first_log_id
      <3> TAKE k \in DOMAIN storage_canisters
      <3> DEFINE c == storage_canisters[k].canister_id
      <3>1. c \in Canister
        BY <1>1, ListFacts
      <3>2. /\ Len(stored[c]) = storage_canisters[k].length
            /\ \A j \in DOMAIN stored[c] :
                 stored[c][j].id = storage_canisters[k].first_log_id + j - 1
            /\ stored[c] # <<>> => first_log_id[c] = storage_canisters[k].first_log_id
        BY <1>1, <2>1 DEF StoredOK
      <3> QED
        BY <2>2, <3>1, <3>2
    <2> QED
      BY <2>1, <2>3, <2>4, <2>5 DEF StoredOK
  <1>10. UpdatesOK'
    <2> SUFFICES ASSUME NEW v \in Updater, NEW id \in LogId, update'[v][id].at = "sent"
                 PROVE  \E k \in DOMAIN storage_canisters :
                            /\ Covers(storage_canisters[k], id)
                            /\ update'[v][id].canister = storage_canisters[k].canister_id
      BY DEF UpdatesOK, Covers
    <2>1. v = u
      BY <1>3, <1>4 DEF NoUpdates, NoUpdate
    <2> QED
      BY <1>1, <1>4, <2>1 DEF UpdatesOK
  <1> QED
    BY <1>5, <1>6, <1>7, <1>8, <1>9, <1>10 DEF LogStorageInv

LEMMA StorageUpdateHolds ==
    ASSUME LogStorageInv, NEW u \in Updater, NEW id \in LogId, StorageUpdate(u, id)
    PROVE  LogStorageInv'
  <1>1. TypeOK /\ OneHolder /\ StoredOK
    BY DEF LogStorageInv
  <1>2. update[u][id].at = "sent" /\ u \in holds_lock
    BY SentUpdate DEF StorageUpdate
  <1>3. PICK k \in DOMAIN storage_canisters :
            /\ update[u][id].canister = storage_canisters[k].canister_id
            /\ Found(storage_canisters[k].canister_id, id)
            /\ Place(storage_canisters[k].canister_id, id) = id - storage_canisters[k].first_log_id + 1
    BY <1>2, SentUpdate
  <1> DEFINE c == storage_canisters[k].canister_id
             place == Place(c, id)
  <1>4. c \in Canister /\ storage_canisters[k].first_log_id \in Nat /\ id \in Nat
    BY <1>1, ListFacts DEF LogId
  <1>5. place \in DOMAIN stored[c]
    BY <1>3 DEF Found
  <1>6. \A f \in Flusher : flush[f].at # "sent"
    BY <1>1, <1>2, TheOneRun DEF Idle
  <1>7. stored[c][place].id = storage_canisters[k].first_log_id + place - 1
    BY <1>1, <1>5 DEF StoredOK
  <1>8. stored[c][place].id = id
    BY <1>3, <1>4, <1>7
  <1>9. /\ stored \in [Canister -> Seq(Log)] /\ stored[c] \in Seq(Log)
        /\ FinalLog(id) \in Log /\ FinalLog(id).id = id
    BY <1>1, <1>4 DEF TypeOK, FinalLog, Log
  <1>10. PICK at \in {"rejected", "applied"} :
            /\ update' = [update EXCEPT ![u][id].at = at]
            /\ \/ UNCHANGED stored
               \/ stored' = [stored EXCEPT ![c][place] = FinalLog(id)]
    BY <1>3 DEF StorageUpdate
  <1>11. /\ stored' \in [Canister -> Seq(Log)]
         /\ \A d \in Canister : /\ Len(stored'[d]) = Len(stored[d])
                               /\ \A j \in DOMAIN stored[d] : stored'[d][j].id = stored[d][j].id
    <2>1. CASE UNCHANGED stored
      BY <1>9, <2>1
    <2>2. CASE stored' = [stored EXCEPT ![c][place] = FinalLog(id)]
      <3> DEFINE log == [stored[c] EXCEPT ![place] = FinalLog(id)]
      <3>1. /\ log \in Seq(Log) /\ Len(log) = Len(stored[c])
            /\ \A j \in 1 .. Len(stored[c]) :
                 log[j] = IF j = place THEN FinalLog(id) ELSE stored[c][j]
        <4>1. place \in 1 .. Len(stored[c])
          BY <1>5, <1>9
        <4> HIDE DEF place, c
        <4> QED
          BY <1>9, <4>1, ExceptSeq
      <3>2. stored' = [stored EXCEPT ![c] = log]
        BY <2>2
      <3> HIDE DEF log
      <3>3. stored' \in [Canister -> Seq(Log)] /\ stored'[c] = log
            /\ \A d \in Canister \ {c} : stored'[d] = stored[d]
        <4>1. c \in Canister /\ log \in Seq(Log) /\ stored \in [Canister -> Seq(Log)]
          BY <1>4, <1>9, <3>1
        <4>2. \A S : \A g \in [Canister -> S] : \A e \in Canister : \A v \in S :
                 /\ [g EXCEPT ![e] = v] \in [Canister -> S]
                 /\ [g EXCEPT ![e] = v][e] = v
                 /\ \A d \in Canister \ {e} : [g EXCEPT ![e] = v][d] = g[d]
          OBVIOUS
        <4> HIDE DEF c
        <4> QED
          BY <3>2, <4>1, <4>2
      <3>4. \A j \in DOMAIN stored[c] : log[j].id = stored[c][j].id
        BY SMTT(15), <1>8, <1>9, <3>1
      <3> QED
        BY <3>1, <3>3, <3>4
    <2> QED
      BY <1>10, <2>1, <2>2
  <1> DEFINE rec == [update[u][id] EXCEPT !.at = at]
             new == [update[u] EXCEPT ![id] = rec]
  <1>12. rec \in Update /\ rec.at # "sent"
    BY <1>1, UpdateFacts DEF Update
  <1>13. update' = [update EXCEPT ![u] = new]
    BY <1>10
  <1> HIDE DEF rec
  <1>14. /\ new \in [LogId -> Update]
         /\ \A i \in LogId : new[i].at = "sent" => update[u][i] = new[i]
    BY <1>1, <1>12, UpdateFacts
  <1>15. UNCHANGED <<data, flush, holds_lock, created, installed, first_log_id,
                     controller_mark_full>>
    BY DEF StorageUpdate
  <1> HIDE DEF new
  <1> QED
    BY <1>2, <1>11, <1>13, <1>14, <1>15, UpdateMoves

LEMMA UpdateReplyHolds ==
    ASSUME LogStorageInv, NEW u \in Updater, NEW id \in LogId, UpdateReply(u, id)
    PROVE  LogStorageInv'
  <1> USE DEF storage
  <1>1. TypeOK /\ OneHolder
    BY DEF LogStorageInv
  <1>2. update[u][id].at \in {"applied", "rejected"} /\ u \in holds_lock
    BY <1>1 DEF UpdateReply, OneHolder, NoUpdates, NoUpdate
  <1> DEFINE rec == [update[u][id] EXCEPT !.at = "done"]
             new == [update[u] EXCEPT ![id] = rec]
  <1>3. rec \in Update /\ rec.at # "sent"
    BY <1>1, UpdateFacts DEF Update
  <1>4. update' = [update EXCEPT ![u] = new]
    BY DEF UpdateReply
  <1> HIDE DEF rec
  <1>5. /\ new \in [LogId -> Update]
        /\ \A i \in LogId : new[i].at = "sent" => update[u][i] = new[i]
    BY <1>1, <1>3, UpdateFacts
  <1>6. UNCHANGED <<data, flush, holds_lock, stored, created, installed, first_log_id,
                    controller_mark_full>>
    BY DEF UpdateReply
  <1>7. stored' \in [Canister -> Seq(Log)]
    BY <1>1, <1>6 DEF TypeOK
  <1> HIDE DEF new
  <1> QED
    BY <1>2, <1>4, <1>5, <1>6, <1>7, UpdateMoves

LEMMA UpdatesEndHolds ==
    ASSUME LogStorageInv, NEW u \in Updater, UpdatesEnd(u)
    PROVE  LogStorageInv'
  <1> USE DEF storage
  <1>1. /\ TypeOK /\ OneHolder /\ FlushOK /\ Contiguous
        /\ ListOK /\ BufferOK /\ StoredOK /\ UpdatesOK
    BY DEF LogStorageInv
  <1>2. /\ UNCHANGED <<id_counter, storage_buffer, storage_canisters,
                        create_storage_canister_temp_holder, flush, created, installed, stored,
                        first_log_id, controller_mark_full>>
        /\ update' = [update EXCEPT ![u] = NoUpdates]
        /\ holds_lock' = holds_lock \ {u} /\ storage_flush_lock' = FALSE /\ u \in holds_lock
    BY DEF UpdatesEnd
  <1>3. /\ BufferFirstId' = BufferFirstId
        /\ HasRoom' <=> HasRoom
        /\ \A d : Listed(d)' <=> Listed(d)
        /\ \A id : OnCanister(id)' <=> OnCanister(id)
    BY <1>2, SameList
  <1>4. /\ \A f \in Flusher : flush[f] = Idle
        /\ \A v \in Updater \ {u} : update[v] = NoUpdates /\ v \notin holds_lock
    BY <1>1, <1>2, TheOneRun
  <1>5. holds_lock' = {}
    BY <1>1, <1>2, <1>4 DEF TypeOK
  <1>6. NoUpdates \in [LogId -> Update] /\ \A id \in LogId : NoUpdates[id].at # "sent"
    BY DEF NoUpdates, NoUpdate, Update
  <1>7. /\ update' \in [Updater -> [LogId -> Update]]
        /\ \A v \in Updater : update'[v] = NoUpdates
    BY <1>1, <1>2, <1>4, <1>6 DEF TypeOK
  <1>8. TypeOK'
    BY <1>1, <1>2, <1>5, <1>7 DEF TypeOK
  <1>9. OneHolder'
    BY <1>2, <1>4, <1>5, <1>7 DEF OneHolder, Active
  <1>10. FlushOK'
    BY <1>1, <1>2, <1>3 DEF FlushOK, Creating, Installing, Sending, LastOf
  <1>11. Contiguous' /\ BufferOK' /\ ListOK'
    BY <1>1, <1>2, <1>3 DEF Contiguous, BufferOK, ListOK, HandledBy
  <1>12. StoredOK'
    BY <1>1, <1>2, <1>3 DEF StoredOK, LastOf
  <1>13. UpdatesOK'
    BY <1>6, <1>7 DEF UpdatesOK
  <1> QED
    BY <1>8, <1>9, <1>10, <1>11, <1>12, <1>13 DEF LogStorageInv

-----------------------------------------------------------------------------
(* The invariant.                                                          *)

LEMMA StutterHolds ==
    ASSUME LogStorageInv, UNCHANGED vars
    PROVE  LogStorageInv'
  <1> USE DEF vars, data, storage
  <1>1. /\ TypeOK /\ OneHolder /\ FlushOK /\ Contiguous
        /\ ListOK /\ BufferOK /\ StoredOK /\ UpdatesOK
    BY DEF LogStorageInv
  <1>2. /\ BufferFirstId' = BufferFirstId
        /\ HasRoom' <=> HasRoom
        /\ \A d : Listed(d)' <=> Listed(d)
        /\ \A id : OnCanister(id)' <=> OnCanister(id)
    BY SameList
  <1>3. TypeOK' /\ OneHolder' /\ FlushOK'
    BY <1>1, <1>2 DEF TypeOK, OneHolder, Active, FlushOK, Creating, Installing, Sending, LastOf
  <1>4. Contiguous' /\ BufferOK' /\ ListOK'
    BY <1>1, <1>2 DEF Contiguous, BufferOK, ListOK, HandledBy
  <1>5. StoredOK' /\ UpdatesOK'
    BY <1>1, <1>2 DEF StoredOK, UpdatesOK, Covers, LastOf
  <1> QED
    BY <1>3, <1>4, <1>5 DEF LogStorageInv

LEMMA StepHolds == LogStorageInv /\ [Next]_vars => LogStorageInv'
  <1> SUFFICES ASSUME LogStorageInv, [Next]_vars PROVE LogStorageInv'
    OBVIOUS
  <1>1. CASE Extend
    BY <1>1, ExtendHolds
  <1>2. ASSUME NEW f \in Flusher, FlushStart(f) PROVE LogStorageInv'
    BY <1>2, FlushStartHolds
  <1>3. ASSUME NEW f \in Flusher, FlushStep(f) PROVE LogStorageInv'
    BY <1>3, CreateReplyHolds, InstallReplyHolds, FlushReplyHolds DEF FlushStep
  <1>4. ASSUME NEW f \in Flusher, CalleeStep(f) PROVE LogStorageInv'
    BY <1>4, CreateCanisterHolds, InstallCodeHolds, StorageFlushHolds DEF CalleeStep
  <1>5. ASSUME NEW c \in Canister, ControllerMarkFull(c) PROVE LogStorageInv'
    BY <1>5, MarkFullHolds
  <1>6. ASSUME NEW u \in Updater, NEW ids, StartUpdates(u, ids) PROVE LogStorageInv'
    BY <1>6, StartUpdatesHolds
  <1>7. ASSUME NEW u \in Updater, NEW id \in LogId, StorageUpdate(u, id) PROVE LogStorageInv'
    BY <1>7, StorageUpdateHolds
  <1>8. ASSUME NEW u \in Updater, NEW id \in LogId, UpdateReply(u, id) PROVE LogStorageInv'
    BY <1>8, UpdateReplyHolds
  <1>9. ASSUME NEW u \in Updater, UpdatesEnd(u) PROVE LogStorageInv'
    BY <1>9, UpdatesEndHolds
  <1>10. CASE UNCHANGED vars
    BY <1>10, StutterHolds
  <1> QED
    BY <1>1, <1>2, <1>3, <1>4, <1>5, <1>6, <1>7, <1>8, <1>9, <1>10 DEF Next

(* Whatever calls fail and however flushes, updates and new logs           *)
(* interleave, the flush lock has one holder, the chunks that a flush has  *)
(* left to send are in the buffer, and the list, the buffer and the stable *)
(* memories agree.                                                         *)
THEOREM StorageInvariant == Spec => []LogStorageInv
  <1>1. Init => LogStorageInv
    BY InitHolds
  <1>2. LogStorageInv /\ [Next]_vars => LogStorageInv'
    BY StepHolds
  <1> QED
    BY <1>1, <1>2, PTL DEF Spec

(* The list of the storage canisters says what their stable memories hold, *)
(* besides a chunk whose answer is on its way.                             *)
THEOREM StoredAsListed == Spec => []StoredWhereListed
  <1>1. ASSUME LogStorageInv PROVE StoredWhereListed
    <2>1. /\ TypeOK /\ OneHolder /\ FlushOK /\ Contiguous /\ ListOK /\ StoredOK
      BY <1>1 DEF LogStorageInv
    <2> SUFFICES ASSUME NEW k \in DOMAIN storage_canisters
                 PROVE  LET sc == storage_canisters[k]
                            c == sc.canister_id
                        IN  /\ Len(stored[c]) = sc.length + Unacknowledged(c)
                            /\ \A j \in DOMAIN stored[c] : stored[c][j].id = sc.first_log_id + j - 1
                            /\ stored[c] # <<>> => first_log_id[c] = sc.first_log_id
      BY <2>1 DEF StoredWhereListed
    <2> DEFINE sc == storage_canisters[k]
               c == sc.canister_id
               N == Len(storage_canisters)
    <2>2. sc.length \in Nat /\ N \in DOMAIN storage_canisters
      BY <2>1, ListFacts
    <2>3. \A f \in Flusher : flush[f].at = "sent" =>
             flush[f].canister = storage_canisters[N].canister_id /\ Active(f)
      BY <2>1 DEF FlushOK, Sending, LastOf, Active, Idle
    <2>4. CASE \E f \in Flusher : flush[f].at = "sent" /\ flush[f].canister = c
      <3> DEFINE sent(f) == f \in Flusher /\ flush[f].at = "sent" /\ flush[f].canister = c
      <3>1. PICK f \in Flusher : flush[f].at = "sent" /\ flush[f].canister = c
        BY <2>4
      <3>2. k = N
        BY <2>1, <2>2, <2>3, <3>1 DEF ListOK
      <3>3. \A g \in Flusher : flush[g].at = "sent" => g = f
        BY <2>1, <2>3, <3>1 DEF OneHolder
      <3>4. (CHOOSE g \in Flusher : flush[g].at = "sent" /\ flush[g].canister = c) = f
        BY <3>1, <3>3
      <3>5. Unacknowledged(c) = Head(flush[f].chunk_sizes)
        BY <2>4, <3>4 DEF Unacknowledged
      <3>6. Len(stored[c]) = sc.length + Head(flush[f].chunk_sizes)
        BY <2>1, <3>1, <3>2 DEF StoredOK, LastOf
      <3> QED
        BY <2>1, <3>5, <3>6 DEF StoredOK
    <2>5. CASE ~\E f \in Flusher : flush[f].at = "sent" /\ flush[f].canister = c
      <3>1. Unacknowledged(c) = 0
        BY <2>5 DEF Unacknowledged
      <3>2. k = N => \A f \in Flusher : flush[f].at # "sent"
        BY <2>3, <2>5
      <3>3. Len(stored[c]) = sc.length
        BY <2>1, <3>2 DEF StoredOK
      <3> QED
        BY <2>1, <2>2, <3>1, <3>3 DEF StoredOK
    <2> QED
      BY <2>4, <2>5
  <1> QED
    BY <1>1, StorageInvariant, PTL

(* An update of a position's log is sent to the canister that has the log. *)
THEOREM UpdatesFindLogs == Spec => []UpdateFindsLog
  <1>1. LogStorageInv => UpdateFindsLog
    BY SentUpdate DEF UpdateFindsLog
  <1> QED
    BY <1>1, StorageInvariant, PTL

(* No canister that was created is lost, or in two places at once: neither *)
(* when an installation fails nor when a flush starts while another one's  *)
(* canister is in the holder.                                              *)
THEOREM CanistersKept == Spec => []NoCanisterLost
  <1>1. ASSUME LogStorageInv PROVE NoCanisterLost
    <2>1. TypeOK /\ OneHolder /\ FlushOK /\ ListOK
      BY <1>1 DEF LogStorageInv
    <2> SUFFICES ASSUME NEW c \in created
                 PROVE  /\ Listed(c) \/ create_storage_canister_temp_holder = c
                            \/ \E f \in Flusher : HandledBy(f, c)
                        /\ ~(Listed(c) /\ create_storage_canister_temp_holder = c)
                        /\ \A f \in Flusher : HandledBy(f, c) =>
                             ~Listed(c) /\ create_storage_canister_temp_holder # c
      BY DEF NoCanisterLost
    <2>2. c # None
      BY <2>1, LogStorageAssumption DEF TypeOK
    <2>3. \A f \in Flusher : HandledBy(f, c) =>
             ~Listed(c) /\ create_storage_canister_temp_holder = None
      BY <2>1 DEF FlushOK, HandledBy, Creating, Installing
    <2> QED
      BY <2>1, <2>2, <2>3 DEF ListOK
  <1> QED
    BY <1>1, StorageInvariant, PTL

-----------------------------------------------------------------------------
(* The log of records.                                                     *)

LEMMA OneCovers ==
    ASSUME NEW list \in Seq(StorageCanisterData),
           \A j, k \in DOMAIN list : j < k => EndOf(list[j]) <= list[k].first_log_id,
           NEW k \in DOMAIN list, NEW id \in Int, Covers(list[k], id)
    PROVE  (CHOOSE j \in DOMAIN list : Covers(list[j], id)) = k
  <1>1. \A j \in DOMAIN list : list[j].first_log_id \in Nat /\ list[j].length \in Nat /\ j \in Int
    <2> TAKE j \in DOMAIN list
    <2>1. list[j] \in StorageCanisterData /\ j \in Int
      OBVIOUS
    <2> QED
      BY <2>1 DEF StorageCanisterData
  <1>2. ASSUME NEW j \in DOMAIN list, Covers(list[j], id)
        PROVE  j = k
    <2>1. ~(j < k)
      BY <1>1, <1>2 DEF Covers, EndOf
    <2>2. ~(k < j)
      BY <1>1, <1>2 DEF Covers, EndOf
    <2> QED
      BY <1>1, <2>1, <2>2
  <1> QED
    BY <1>2

(* Where each record is found.                                             *)
RecordsPlaced ==
    /\ \A id \in 0 .. BufferFirstId - 1 :
         \E k \in DOMAIN storage_canisters : Covers(storage_canisters[k], id)
    /\ \A k \in DOMAIN storage_canisters, id \in Nat : Covers(storage_canisters[k], id) =>
         LET sc == storage_canisters[k]
         IN  /\ id < BufferFirstId
             /\ RecordOf(id) = stored[sc.canister_id][id - sc.first_log_id + 1]
             /\ Place(sc.canister_id, id) = id - sc.first_log_id + 1
             /\ id - sc.first_log_id + 1 \in 1 .. sc.length
    /\ \A id \in BufferFirstId .. id_counter - 1 :
         /\ RecordOf(id) = storage_buffer[id - BufferFirstId + 1]
         /\ id - BufferFirstId + 1 \in 1 .. Len(storage_buffer)
         /\ ~OnCanister(id)

LEMMA RecordsFound == LogStorageInv => RecordsPlaced
  <1> SUFFICES ASSUME LogStorageInv PROVE RecordsPlaced
    OBVIOUS
  <1>1. TypeOK /\ ListOK /\ StoredOK /\ Contiguous /\ FlushOK
    BY DEF LogStorageInv
  <1>2. \A id \in 0 .. BufferFirstId - 1 :
           \E k \in DOMAIN storage_canisters : Covers(storage_canisters[k], id)
    BY <1>1 DEF ListOK, OnCanister
  <1>3. ASSUME NEW k \in DOMAIN storage_canisters, NEW id \in Nat, Covers(storage_canisters[k], id)
        PROVE  LET sc == storage_canisters[k]
               IN  /\ id < BufferFirstId
                   /\ RecordOf(id) = stored[sc.canister_id][id - sc.first_log_id + 1]
                   /\ Place(sc.canister_id, id) = id - sc.first_log_id + 1
                   /\ id - sc.first_log_id + 1 \in 1 .. sc.length
    <2> DEFINE sc == storage_canisters[k]
               c == sc.canister_id
               N == Len(storage_canisters)
    <2>1. /\ c \in Canister /\ sc.first_log_id \in Nat /\ sc.length \in Nat
          /\ EndOf(sc) \in Nat /\ BufferFirstId \in Nat
          /\ N \in DOMAIN storage_canisters /\ BufferFirstId = EndOf(storage_canisters[N])
          /\ storage_canisters[N].first_log_id \in Nat /\ storage_canisters[N].length \in Nat
          /\ k \in 1 .. N /\ N \in Nat
      BY <1>1, ListFacts
    <2>2. id >= sc.first_log_id /\ id < EndOf(sc)
      BY <1>3 DEF Covers, EndOf
    <2>3. id < BufferFirstId
      <3>1. k < N => EndOf(sc) <= storage_canisters[N].first_log_id
        BY <1>1, <2>1 DEF ListOK
      <3>2. storage_canisters[N].first_log_id <= EndOf(storage_canisters[N])
        BY <2>1 DEF EndOf
      <3>3. k = N \/ k < N
        BY <2>1
      <3>4. EndOf(sc) \in Nat /\ storage_canisters[N].first_log_id \in Nat /\ BufferFirstId \in Nat
        BY <2>1
      <3>5. EndOf(sc) <= BufferFirstId
        <4>1. CASE k = N
          BY <2>1, <3>4, <4>1
        <4>2. CASE k < N
          <5>1. EndOf(storage_canisters[N]) = BufferFirstId
            BY <2>1
          <5>2. /\ EndOf(sc) <= storage_canisters[N].first_log_id
                /\ storage_canisters[N].first_log_id <= BufferFirstId
            BY <3>1, <3>2, <4>2, <5>1
          <5> QED
            BY <3>4, <5>2
        <4> QED
          BY <3>3, <4>1, <4>2
      <3> QED
        BY <2>2, <3>4, <3>5
    <2>4. id - sc.first_log_id + 1 \in 1 .. sc.length
      BY SMTT(20), <2>1, <2>2 DEF EndOf
    <2>5. stored[c] # <<>>
      <3>1. stored[c] \in Seq(Log)
        BY <1>1, <2>1 DEF TypeOK
      <3>2. CASE k = N /\ \E f \in Flusher : flush[f].at = "sent"
        <4>1. PICK f \in Flusher : flush[f].at = "sent"
          BY <3>2
        <4>2. Len(stored[c]) = sc.length + Head(flush[f].chunk_sizes)
          BY <1>1, <3>2, <4>1 DEF StoredOK, LastOf
        <4>3. flush[f].chunk_sizes \in Seq(Nat) /\ flush[f].chunk_sizes # <<>>
          BY <1>1, <4>1, FlushFacts DEF FlushOK, Sending, ChunksFit
        <4>4. Head(flush[f].chunk_sizes) \in Nat
          BY <4>3, HeadTailProperties
        <4>5. sc.length >= 1 /\ \A a, b \in Nat : a >= 1 => a + b # 0
          BY <2>1, <2>4
        <4>6. Len(stored[c]) # 0
          BY <2>1, <4>2, <4>4, <4>5
        <4>7. \A q : Len(q) # 0 => q # <<>>
          OBVIOUS
        <4> QED
          BY <4>6, <4>7, Zenon
      <3>3. CASE ~(k = N /\ \E f \in Flusher : flush[f].at = "sent")
        <4>1. Len(stored[c]) = sc.length
          BY <1>1, <3>3 DEF StoredOK
        <4> QED
          BY <2>1, <2>4, <3>1, <4>1
      <3> QED
        BY <3>2, <3>3
    <2>6. Place(c, id) = id - sc.first_log_id + 1
      BY <1>1, <2>5 DEF StoredOK, Place
    <2>7. CanisterOf(id) = c /\ OnCanister(id)
      <3>1. storage_canisters \in Seq(StorageCanisterData)
        BY <1>1 DEF TypeOK
      <3>2. (CHOOSE j \in DOMAIN storage_canisters : Covers(storage_canisters[j], id)) = k
        BY <1>1, <1>3, <3>1, OneCovers DEF ListOK
      <3> QED
        BY <1>3, <3>2 DEF CanisterOf, OnCanister
    <2> QED
      BY <2>3, <2>4, <2>6, <2>7 DEF RecordOf
  <1>4. ASSUME NEW id \in BufferFirstId .. id_counter - 1
        PROVE  /\ RecordOf(id) = storage_buffer[id - BufferFirstId + 1]
               /\ id - BufferFirstId + 1 \in 1 .. Len(storage_buffer)
               /\ ~OnCanister(id)
    <2>1. BufferFirstId \in Nat /\ id \in Nat /\ id >= BufferFirstId
      BY <1>1, ListFacts
    <2>2. ~OnCanister(id)
      BY <1>3, <2>1 DEF OnCanister
    <2>3. /\ BufferFirstId + Len(storage_buffer) = id_counter /\ id_counter \in Nat
          /\ Len(storage_buffer) \in Nat
      BY <1>1, LogStorageAssumption DEF Contiguous, TypeOK
    <2> QED
      BY <2>1, <2>2, <2>3 DEF RecordOf
  <1> QED
    BY <1>2, <1>3, <1>4 DEF RecordsPlaced

LEMMA RecordsFoundNext == LogStorageInv' => RecordsPlaced'
  BY RecordsFound, PTL

(* A step leaves every record as it is.                                    *)
RecordsKept ==
    /\ UNCHANGED id_counter
    /\ \A id \in 0 .. id_counter - 1 : RecordOf(id)' = RecordOf(id)

LEMMA KeptIsStutter ==
    ASSUME RecordsKept
    PROVE  UNCHANGED Records!vars
  BY DEF RecordsKept, Records!vars

(* A step that moves no log.                                               *)
LEMMA LogsKept ==
    ASSUME UNCHANGED <<id_counter, storage_buffer, storage_canisters, stored, first_log_id>>
    PROVE  RecordsKept
  BY DEF RecordsKept, RecordOf, OnCanister, CanisterOf, Covers, BufferFirstId, LastOf, Place

LEMMA ExtendAppends ==
    ASSUME LogStorageInv, LogStorageInv', Extend
    PROVE  Records!Append
  <1>1. TypeOK /\ Contiguous /\ RecordsPlaced /\ RecordsPlaced'
    BY RecordsFound, RecordsFoundNext DEF LogStorageInv
  <1>2. /\ id_counter' = id_counter + 1 /\ id_counter \in Nat
        /\ UNCHANGED <<storage_canisters, stored, first_log_id>>
    BY <1>1, LogStorageAssumption DEF Extend, storage, TypeOK
  <1>3. BufferFirstId' = BufferFirstId /\ BufferFirstId \in Nat
    BY <1>1, <1>2, SameList, ListFacts
  <1>4. /\ storage_buffer \in Seq(Log) /\ Len(storage_buffer) \in Nat
        /\ NewLog(id_counter) \in Log
        /\ BufferFirstId + Len(storage_buffer) = id_counter
    BY <1>1, LogStorageAssumption DEF Extend, TypeOK, NewLog, Log, LogId, Contiguous
  <1>5. /\ \A k \in 1 .. Len(storage_buffer) : storage_buffer'[k] = storage_buffer[k]
        /\ storage_buffer'[Len(storage_buffer) + 1] = NewLog(id_counter)
    BY <1>4, AppendProperties DEF Extend
  <1>6. \A id \in 0 .. id_counter - 1 : RecordOf(id)' = RecordOf(id)
    <2> TAKE id \in 0 .. id_counter - 1
    <2>1. CASE id < BufferFirstId
      <3>1. id \in 0 .. BufferFirstId - 1 /\ id \in Nat
        BY <1>2, <1>3, <2>1
      <3>2. PICK k \in DOMAIN storage_canisters : Covers(storage_canisters[k], id)
        BY <1>1, <3>1 DEF RecordsPlaced
      <3> DEFINE sc == storage_canisters[k]
      <3>3. RecordOf(id) = stored[sc.canister_id][id - sc.first_log_id + 1]
        BY <1>1, <3>1, <3>2 DEF RecordsPlaced
      <3>4. RecordOf(id)' = stored[sc.canister_id][id - sc.first_log_id + 1]
        BY <1>1, <1>2, <3>1, <3>2 DEF RecordsPlaced, Covers
      <3> QED
        BY <3>3, <3>4
    <2>2. CASE id >= BufferFirstId
      <3>1. id \in BufferFirstId .. id_counter - 1 /\ id \in BufferFirstId .. (id_counter + 1) - 1
        BY <1>2, <1>3, <2>2
      <3>2. RecordOf(id) = storage_buffer[id - BufferFirstId + 1]
            /\ id - BufferFirstId + 1 \in 1 .. Len(storage_buffer)
        BY <1>1, <3>1 DEF RecordsPlaced
      <3>3. RecordOf(id)' = storage_buffer'[id - BufferFirstId + 1]
        BY <1>1, <1>2, <1>3, <3>1 DEF RecordsPlaced
      <3> QED
        BY <1>5, <3>2, <3>3
    <2> QED
      BY <1>2, <1>3, <2>1, <2>2
  <1>7. ASSUME NEW id, id = id_counter
        PROVE  RecordOf(id)' = [id |-> id, final |-> FALSE]
    <2>1. /\ id \in BufferFirstId .. (id_counter + 1) - 1
          /\ id - BufferFirstId + 1 = Len(storage_buffer) + 1
      BY <1>2, <1>3, <1>4, <1>7
    <2>2. RecordOf(id)' = storage_buffer'[id - BufferFirstId + 1]
      BY <1>1, <1>2, <1>3, <2>1 DEF RecordsPlaced
    <2> QED
      BY <1>5, <1>7, <2>1, <2>2 DEF NewLog
  <1> QED
    <2>1. 0 .. id_counter' - 1 = 0 .. id_counter
      BY <1>2
    <2> DEFINE before == [id \in 0 .. id_counter - 1 |-> RecordOf(id)]
               after == [id \in 0 .. id_counter |->
                            IF id = id_counter THEN [id |-> id, final |-> FALSE] ELSE before[id]]
    <2>2. \A id \in 0 .. id_counter : RecordOf(id)' = after[id]
      <3> TAKE id \in 0 .. id_counter
      <3>1. CASE id = id_counter
        BY <1>7, <3>1
      <3>2. CASE id # id_counter
        <4>1. id \in 0 .. id_counter - 1
          BY <1>2, <3>2
        <4> QED
          BY <1>6, <3>2, <4>1
      <3> QED
        BY <3>1, <3>2
    <2>3. [id \in 0 .. id_counter' - 1 |-> RecordOf(id)'] = after
      BY <2>1, <2>2
    <2> QED
      BY <1>2, <2>3 DEF Records!Append

(* A new canister has no record.                                           *)
LEMMA InstallReplyKeeps ==
    ASSUME LogStorageInv, LogStorageInv', NEW f \in Flusher, InstallReply(f)
    PROVE  RecordsKept
  <1>1. TypeOK /\ FlushOK /\ RecordsPlaced /\ RecordsPlaced'
    BY RecordsFound, RecordsFoundNext DEF LogStorageInv
  <1>2. UNCHANGED <<id_counter, storage_buffer, stored, first_log_id>> /\ id_counter \in Nat
    BY <1>1, LogStorageAssumption DEF InstallReply, storage, TypeOK
  <1>3. CASE UNCHANGED storage_canisters
    BY <1>2, <1>3, LogsKept
  <1>4. CASE ~UNCHANGED storage_canisters
    <2> DEFINE entry == [canister_id |-> flush[f].canister, first_log_id |-> BufferFirstId,
                         length |-> 0, is_full |-> FALSE]
               N == Len(storage_canisters)
    <2>1. storage_canisters' = Append(storage_canisters, entry) /\ flush[f].at = "installDone"
      BY <1>4 DEF InstallReply, FirstLogId
    <2>2. BufferFirstId \in Nat
      BY <1>1, ListFacts
    <2>3. flush[f].canister \in Canister
      BY <1>1, <2>1 DEF FlushOK, Installing, TypeOK
    <2>4. entry \in StorageCanisterData /\ entry.first_log_id = BufferFirstId /\ entry.length = 0
      BY <2>2, <2>3 DEF StorageCanisterData
    <2> HIDE DEF entry
    <2>5. storage_canisters \in Seq(StorageCanisterData)
      BY <1>1 DEF TypeOK
    <2>6. /\ Len(storage_canisters') = N + 1 /\ storage_canisters' # <<>>
          /\ DOMAIN storage_canisters = 1 .. N /\ DOMAIN storage_canisters' = 1 .. N + 1
          /\ N \in Nat
          /\ \A k \in 1 .. N : storage_canisters'[k] = storage_canisters[k]
          /\ storage_canisters'[N + 1] = entry
      BY <2>1, <2>4, <2>5, AppendProperties
    <2>7. BufferFirstId' = BufferFirstId
      BY <2>2, <2>4, <2>6 DEF BufferFirstId, LastOf
    <2>8. \A id \in 0 .. id_counter - 1 : RecordOf(id)' = RecordOf(id)
      <3> TAKE id \in 0 .. id_counter - 1
      <3>1. CASE id < BufferFirstId
        <4>1. id \in 0 .. BufferFirstId - 1 /\ id \in Nat
          BY <1>2, <2>2, <3>1
        <4>2. PICK k \in DOMAIN storage_canisters : Covers(storage_canisters[k], id)
          BY <1>1, <4>1 DEF RecordsPlaced
        <4> DEFINE sc == storage_canisters[k]
        <4>3. RecordOf(id) = stored[sc.canister_id][id - sc.first_log_id + 1]
          BY <1>1, <4>1, <4>2 DEF RecordsPlaced
        <4>4. k \in DOMAIN storage_canisters' /\ storage_canisters'[k] = sc
          BY <2>6
        <4>5. RecordOf(id)' = stored[sc.canister_id][id - sc.first_log_id + 1]
          BY <1>1, <1>2, <4>1, <4>2, <4>4 DEF RecordsPlaced, Covers
        <4> QED
          BY <4>3, <4>5
      <3>2. CASE id >= BufferFirstId
        <4>1. id \in BufferFirstId .. id_counter - 1
          BY <1>2, <2>2, <3>2
        <4> QED
          BY <1>1, <1>2, <2>7, <4>1 DEF RecordsPlaced
      <3> QED
        BY <1>2, <2>2, <3>1, <3>2
    <2> QED
      BY <1>2, <2>8 DEF RecordsKept
  <1> QED
    BY <1>3, <1>4

(* The place of an id of a chunk of n logs, and of an id after them.       *)
LEMMA ChunkPlace ==
    ASSUME NEW first \in Nat, NEW length \in Nat, NEW b \in Nat, b = first + length,
           NEW n \in Nat, NEW top \in Nat, NEW id \in 0 .. top - 1, id >= b
    PROVE  /\ id \in b .. top - 1 /\ id \in Nat
           /\ id < b + n => /\ id - b + 1 \in 1 .. n
                            /\ id - first + 1 = length + (id - b + 1)
                            /\ id >= first /\ id < first + (length + n)
           /\ id >= b + n => /\ id \in b + n .. top - 1
                             /\ id - (b + n) + 1 = (id - b + 1) - n
                             /\ n + ((id - b + 1) - n) = id - b + 1
                             /\ \A m \in Nat : id - b + 1 \in 1 .. m =>
                                                 (id - b + 1) - n \in 1 .. m - n
  OBVIOUS

(* The logs of a chunk are found on the canister as they were in the       *)
(* buffer.                                                                 *)
LEMMA FlushReplyKeeps ==
    ASSUME LogStorageInv, LogStorageInv', NEW f \in Flusher, FlushReply(f)
    PROVE  RecordsKept
  <1> DEFINE N == Len(storage_canisters)
             last == storage_canisters[N]
             sizes == flush[f].chunk_sizes
             n == Head(sizes)
  <1>1. /\ TypeOK /\ FlushOK /\ StoredOK /\ Contiguous /\ TypeOK' /\ Contiguous'
        /\ RecordsPlaced /\ RecordsPlaced'
    BY RecordsFound, RecordsFoundNext DEF LogStorageInv
  <1>2. UNCHANGED <<id_counter, stored, first_log_id>> /\ id_counter \in Nat
    BY <1>1, LogStorageAssumption DEF FlushReply, storage, TypeOK
  <1>3. /\ storage_canisters # <<>> /\ ChunksFit(sizes, Len(storage_buffer))
        /\ sizes \in Seq(Nat)
    BY <1>1, FlushFacts DEF FlushReply, FlushOK, Sending
  <1>4. /\ storage_canisters \in Seq(StorageCanisterData) /\ N \in Nat \ {0}
        /\ DOMAIN storage_canisters = 1 .. N /\ N \in DOMAIN storage_canisters
        /\ last \in StorageCanisterData
        /\ BufferFirstId \in Nat /\ BufferFirstId = last.first_log_id + last.length
        /\ last.length \in Nat /\ last.first_log_id \in Nat
        /\ LastOf(storage_canisters) = last
        /\ \A k \in 1 .. N : storage_canisters[k] \in StorageCanisterData
    BY <1>1, <1>3, ListFacts DEF TypeOK, EndOf
  <1>5. storage_buffer \in Seq(Log) /\ Len(storage_buffer) \in Nat
    BY <1>1 DEF TypeOK
  <1>6. CASE flush[f].at = "failed"
    <2>1. UNCHANGED <<storage_canisters, storage_buffer>>
      BY <1>6 DEF FlushReply
    <2> QED
      BY <1>2, <2>1, LogsKept
  <1>7. CASE flush[f].at = "full"
    <2> DEFINE rec == [last EXCEPT !.is_full = TRUE]
    <2>1. storage_canisters' = [storage_canisters EXCEPT ![N] = rec] /\ UNCHANGED storage_buffer
      BY <1>7 DEF FlushReply
    <2>2. /\ rec.canister_id = last.canister_id /\ rec.first_log_id = last.first_log_id
          /\ rec.length = last.length
      BY <1>4 DEF StorageCanisterData
    <2> HIDE DEF rec
    <2>3. DOMAIN storage_canisters' = DOMAIN storage_canisters
      BY <2>1
    <2>4. \A k \in DOMAIN storage_canisters :
            /\ storage_canisters'[k].canister_id = storage_canisters[k].canister_id
            /\ storage_canisters'[k].first_log_id = storage_canisters[k].first_log_id
            /\ storage_canisters'[k].length = storage_canisters[k].length
      BY <1>4, <2>1, <2>2
    <2>5. \A id \in 0 .. id_counter - 1 : RecordOf(id)' = RecordOf(id)
      <3> TAKE id \in 0 .. id_counter - 1
      <3>1. BufferFirstId' = BufferFirstId
        <4>1. BufferFirstId + Len(storage_buffer) = BufferFirstId' + Len(storage_buffer)
          BY <1>1, <1>2, <2>1 DEF Contiguous
        <4>2. BufferFirstId' \in Nat
          <5>1. (TypeOK => BufferFirstId \in Nat)'
            BY ListFacts, PTL
          <5> QED
            BY <1>1, <5>1
        <4> QED
          BY <1>4, <1>5, <4>1, <4>2
      <3>2. CASE id < BufferFirstId
        <4>1. id \in 0 .. BufferFirstId - 1 /\ id \in Nat
          BY <1>2, <1>4, <3>2
        <4>2. PICK k \in DOMAIN storage_canisters : Covers(storage_canisters[k], id)
          BY <1>1, <4>1 DEF RecordsPlaced
        <4> DEFINE sc == storage_canisters[k]
        <4>3. RecordOf(id) = stored[sc.canister_id][id - sc.first_log_id + 1]
          BY <1>1, <4>1, <4>2 DEF RecordsPlaced
        <4>4. k \in DOMAIN storage_canisters' /\ Covers(storage_canisters'[k], id)
          BY <2>3, <2>4, <4>2 DEF Covers
        <4>5. RecordOf(id)' = stored[sc.canister_id][id - sc.first_log_id + 1]
          BY <1>1, <1>2, <2>4, <4>1, <4>4 DEF RecordsPlaced, Covers
        <4> QED
          BY <4>3, <4>5
      <3>3. CASE id >= BufferFirstId
        <4>1. id \in BufferFirstId .. id_counter - 1
          BY <1>2, <1>4, <3>3
        <4> QED
          BY <1>1, <1>2, <2>1, <3>1, <4>1 DEF RecordsPlaced
      <3> QED
        BY <1>2, <1>4, <3>2, <3>3
    <2> QED
      BY <1>2, <2>5 DEF RecordsKept
  <1>8. CASE flush[f].at = "sent"
    <2> DEFINE length == last.length + n
               rec == [last EXCEPT !.length = length]
    <2>1. storage_canisters' = [storage_canisters EXCEPT ![N] = rec]
      BY <1>8 DEF FlushReply, Counted
    <2>2. storage_buffer' = SubSeq(storage_buffer, n + 1, Len(storage_buffer))
      BY <1>8 DEF FlushReply, Drain
    <2>3. n \in Nat \ {0} /\ n <= Len(storage_buffer)
      BY <1>3, <1>5, FirstChunk, LogStorageAssumption
    <2>4. \A j \in 1 .. n : stored[last.canister_id][last.length + j] = storage_buffer[j]
      BY <1>1, <1>4, <1>8 DEF StoredOK
    <2> HIDE DEF n, N, last
    <2>5. length \in Nat /\ length = last.length + n
      BY <1>4, <2>3
    <2> HIDE DEF length
    <2>6. /\ rec.canister_id = last.canister_id /\ rec.first_log_id = last.first_log_id
          /\ rec.length = length
      BY <1>4, <2>5 DEF StorageCanisterData
    <2> HIDE DEF rec
    <2>7. DOMAIN storage_canisters' = 1 .. N /\ N \in 1 .. N
      BY <1>4, <2>1
    <2>8. storage_canisters'[N] = rec /\ \A k \in 1 .. N : k # N => storage_canisters'[k] = storage_canisters[k]
      BY <1>4, <2>1
    <2>9. /\ Len(storage_buffer') = Len(storage_buffer) - n
          /\ \A k \in 1 .. Len(storage_buffer) - n : storage_buffer'[k] = storage_buffer[n + k]
      BY <1>5, <2>2, <2>3
    <2>10. BufferFirstId' = BufferFirstId + n
      <3>1. /\ BufferFirstId + Len(storage_buffer) = id_counter
            /\ BufferFirstId' + Len(storage_buffer') = id_counter
        BY <1>1, <1>2 DEF Contiguous
      <3>2. BufferFirstId' \in Nat
        <4>1. (TypeOK => BufferFirstId \in Nat)'
          BY ListFacts, PTL
        <4> QED
          BY <1>1, <4>1
      <3> QED
        <4>1. /\ BufferFirstId \in Nat /\ Len(storage_buffer) \in Nat /\ n \in Nat
              /\ Len(storage_buffer') = Len(storage_buffer) - n
          BY <1>4, <1>5, <2>3, <2>9
        <4> QED
          BY <3>1, <3>2, <4>1
    <2>11. /\ BufferFirstId \in Nat /\ id_counter \in Nat /\ Len(storage_buffer) \in Nat
           /\ n \in Nat \ {0} /\ last.first_log_id \in Nat /\ last.length \in Nat
           /\ BufferFirstId = last.first_log_id + last.length
      BY <1>2, <1>4, <1>5, <2>3
    <2>12. \A id \in 0 .. id_counter - 1 : RecordOf(id)' = RecordOf(id)
      <3> TAKE id \in 0 .. id_counter - 1
      <3>1. CASE id < BufferFirstId
        <4>1. id \in 0 .. BufferFirstId - 1 /\ id \in Nat
          BY <1>2, <1>4, <3>1
        <4>2. PICK k \in 1 .. N : Covers(storage_canisters[k], id)
          BY <1>1, <1>4, <4>1 DEF RecordsPlaced
        <4> DEFINE sc == storage_canisters[k]
        <4>3. RecordOf(id) = stored[sc.canister_id][id - sc.first_log_id + 1]
          BY <1>1, <1>4, <4>1, <4>2 DEF RecordsPlaced
        <4>4. /\ Covers(storage_canisters'[k], id)
              /\ storage_canisters'[k].canister_id = sc.canister_id
              /\ storage_canisters'[k].first_log_id = sc.first_log_id
          <5>1. CASE k = N
            <6>1. sc = last
              BY <5>1 DEF last, N
            <6>2. /\ Covers(storage_canisters'[k], id)
                  /\ storage_canisters'[k].canister_id = sc.canister_id
                  /\ storage_canisters'[k].first_log_id = sc.first_log_id
              <7>1. /\ storage_canisters'[k].canister_id = last.canister_id
                    /\ storage_canisters'[k].first_log_id = last.first_log_id
                    /\ storage_canisters'[k].length = last.length + n
                BY <2>5, <2>6, <2>8, <5>1
              <7>2. id >= last.first_log_id /\ id < last.first_log_id + last.length
                BY <4>2, <6>1 DEF Covers
              <7>3. id < last.first_log_id + (last.length + n)
                BY <2>11, <4>1, <7>2
              <7> QED
                BY <6>1, <7>1, <7>2, <7>3 DEF Covers
            <6> QED
              BY <6>2
          <5>2. CASE k # N
            BY <2>8, <4>2, <5>2
          <5> QED
            BY <5>1, <5>2
        <4>5. RecordOf(id)' = stored[sc.canister_id][id - sc.first_log_id + 1]
          BY <1>1, <1>2, <2>7, <4>1, <4>4 DEF RecordsPlaced, Covers
        <4> QED
          BY <4>3, <4>5
      <3>4. ASSUME id >= BufferFirstId
            PROVE  LET j == id - BufferFirstId + 1
                   IN  /\ id \in BufferFirstId .. id_counter - 1 /\ id \in Nat
                       /\ id < BufferFirstId + n =>
                            /\ j \in 1 .. n
                            /\ id - last.first_log_id + 1 = last.length + j
                            /\ id >= last.first_log_id
                            /\ id < last.first_log_id + (last.length + n)
                       /\ id >= BufferFirstId + n =>
                            /\ id \in BufferFirstId + n .. id_counter - 1
                            /\ id - (BufferFirstId + n) + 1 = j - n
                            /\ n + (j - n) = j
                            /\ \A m \in Nat : j \in 1 .. m => j - n \in 1 .. m - n
        <4> DEFINE first == last.first_log_id
                   length0 == last.length
        <4>1. first \in Nat /\ length0 \in Nat /\ BufferFirstId \in Nat /\ n \in Nat
              /\ id_counter \in Nat /\ BufferFirstId = first + length0
          BY <2>11
        <4> HIDE DEF first, length0
        <4> SUFFICES LET j == id - BufferFirstId + 1
                   IN  /\ id \in BufferFirstId .. id_counter - 1 /\ id \in Nat
                       /\ id < BufferFirstId + n =>
                            /\ j \in 1 .. n
                            /\ id - first + 1 = length0 + j
                            /\ id >= first
                            /\ id < first + (length0 + n)
                       /\ id >= BufferFirstId + n =>
                            /\ id \in BufferFirstId + n .. id_counter - 1
                            /\ id - (BufferFirstId + n) + 1 = j - n
                            /\ n + (j - n) = j
                            /\ \A m \in Nat : j \in 1 .. m => j - n \in 1 .. m - n
          BY DEF first, length0
        <4> QED
          BY <3>4, <4>1, ChunkPlace
      <3>2. CASE id >= BufferFirstId /\ id < BufferFirstId + n
        <4> DEFINE j == id - BufferFirstId + 1
        <4>1. /\ id \in BufferFirstId .. id_counter - 1 /\ id \in Nat /\ j \in 1 .. n
              /\ id - last.first_log_id + 1 = last.length + j
          BY <3>2, <3>4, <2>11
        <4>2. RecordOf(id) = storage_buffer[j]
          BY <1>1, <4>1 DEF RecordsPlaced
        <4>3. Covers(storage_canisters'[N], id)
          <5>1. /\ storage_canisters'[N].first_log_id = last.first_log_id
                /\ storage_canisters'[N].length = last.length + n
            BY <2>5, <2>6, <2>8
          <5>2. id >= last.first_log_id /\ id < last.first_log_id + (last.length + n)
            BY <3>2, <3>4, <2>11
          <5> QED
            BY <5>1, <5>2 DEF Covers
        <4>4. RecordOf(id)' = stored[last.canister_id][id - last.first_log_id + 1]
          BY <1>1, <1>2, <2>6, <2>7, <2>8, <4>1, <4>3 DEF RecordsPlaced, Covers
        <4> QED
          BY <2>4, <4>1, <4>2, <4>4
      <3>3. CASE id >= BufferFirstId + n
        <4> DEFINE j == id - BufferFirstId + 1
        <4>1. /\ id \in BufferFirstId .. id_counter - 1
              /\ id \in BufferFirstId + n .. id_counter - 1
              /\ id - (BufferFirstId + n) + 1 = j - n
          BY <2>11, <3>3, <3>4
        <4>2. RecordOf(id) = storage_buffer[j] /\ j \in 1 .. Len(storage_buffer)
          BY <1>1, <4>1 DEF RecordsPlaced
        <4>3. RecordOf(id)' = storage_buffer'[j - n]
          BY <1>1, <1>2, <2>10, <4>1 DEF RecordsPlaced
        <4>4. j - n \in 1 .. Len(storage_buffer) - n /\ n + (j - n) = j
          BY SMTT(20), <2>11, <3>3, <3>4, <4>2
        <4> QED
          BY <2>9, <4>2, <4>3, <4>4
      <3> QED
        BY <1>2, <1>4, <2>3, <3>1, <3>2, <3>3
    <2> QED
      BY <1>2, <2>12 DEF RecordsKept
  <1> QED
    BY <1>6, <1>7, <1>8 DEF FlushReply

(* A canister that takes a chunk keeps what it has.                        *)
LEMMA StorageFlushKeeps ==
    ASSUME LogStorageInv, LogStorageInv', NEW f \in Flusher, StorageFlush(f)
    PROVE  RecordsKept
  <1> DEFINE c == flush[f].canister
             chunk == Chunk(f)
  <1>1. /\ TypeOK /\ TypeOK' /\ OneHolder /\ FlushOK /\ StoredOK
        /\ RecordsPlaced /\ RecordsPlaced'
    BY RecordsFound, RecordsFoundNext DEF LogStorageInv
  <1>2. UNCHANGED <<id_counter, storage_buffer, storage_canisters>> /\ id_counter \in Nat
    BY <1>1, LogStorageAssumption DEF StorageFlush, data, TypeOK
  <1>3. BufferFirstId' = BufferFirstId /\ BufferFirstId \in Nat
    BY <1>1, <1>2, SameList, ListFacts
  <1>4. CASE UNCHANGED <<stored, first_log_id>>
    BY <1>2, <1>4, LogsKept
  <1>5. CASE stored' = [stored EXCEPT ![c] = @ \o chunk]
    <2>1. flush[f].at = "sending" /\ Active(f) /\ Sending(f)
      BY DEF StorageFlush, Active, Idle, Sending
    <2>2. \A g \in Flusher : flush[g].at # "sent"
      BY <1>1, <2>1, TheOneFlush DEF Idle
    <2>3. /\ ChunksFit(flush[f].chunk_sizes, Len(storage_buffer))
          /\ flush[f].chunk_sizes \in Seq(Nat) /\ storage_buffer \in Seq(Log)
          /\ Len(storage_buffer) \in Nat
      BY <1>1, <2>1, FlushFacts DEF FlushOK, TypeOK
    <2>4. chunk \in Seq(Log)
      <3> DEFINE n == Head(flush[f].chunk_sizes)
      <3>1. n \in Nat /\ n <= Len(storage_buffer)
        BY <2>3, FirstChunk, LogStorageAssumption
      <3>2. chunk = SubSeq(storage_buffer, 1, n)
        BY DEF Chunk
      <3> HIDE DEF n, chunk
      <3> QED
        BY <2>3, <3>1, <3>2
    <2>5. stored \in [Canister -> Seq(Log)]
      BY <1>1 DEF TypeOK
    <2> HIDE DEF chunk
    <2>6. \A d \in Canister : \A j \in DOMAIN stored[d] : stored'[d][j] = stored[d][j]
      <3> SUFFICES ASSUME NEW d \in Canister, NEW j \in DOMAIN stored[d]
                   PROVE  stored'[d][j] = stored[d][j]
        OBVIOUS
      <3>1. stored[d] \in Seq(Log)
        BY <2>5
      <3>2. (stored[d] \o chunk)[j] = stored[d][j]
        BY <2>4, <3>1, ConcatProperties
      <3>3. stored'[d] = IF d = c THEN stored[d] \o chunk ELSE stored[d]
        BY <1>5, <2>5
      <3> QED
        BY <3>2, <3>3
    <2>7. \A id \in 0 .. id_counter - 1 : RecordOf(id)' = RecordOf(id)
      <3> TAKE id \in 0 .. id_counter - 1
      <3>1. CASE id < BufferFirstId
        <4>1. id \in 0 .. BufferFirstId - 1 /\ id \in Nat
          BY <1>2, <1>3, <3>1
        <4>2. PICK k \in DOMAIN storage_canisters : Covers(storage_canisters[k], id)
          BY <1>1, <4>1 DEF RecordsPlaced
        <4> DEFINE sc == storage_canisters[k]
                   j == id - sc.first_log_id + 1
        <4>3. RecordOf(id) = stored[sc.canister_id][j] /\ j \in 1 .. sc.length
          BY <1>1, <4>1, <4>2 DEF RecordsPlaced
        <4>4. RecordOf(id)' = stored'[sc.canister_id][j]
          BY <1>1, <1>2, <4>1, <4>2 DEF RecordsPlaced, Covers
        <4>5. sc.canister_id \in Canister /\ stored[sc.canister_id] \in Seq(Log)
          BY <1>1, <2>5, ListFacts
        <4>6. Len(stored[sc.canister_id]) = sc.length
          BY <1>1, <2>2 DEF StoredOK
        <4> QED
          BY <2>6, <4>3, <4>4, <4>5, <4>6
      <3>2. CASE id >= BufferFirstId
        <4>1. id \in BufferFirstId .. id_counter - 1
          BY <1>2, <1>3, <3>2
        <4> QED
          BY <1>1, <1>2, <1>3, <4>1 DEF RecordsPlaced
      <3> QED
        BY <1>2, <1>3, <3>1, <3>2
    <2> QED
      BY <1>2, <2>7 DEF RecordsKept
  <1> QED
    BY <1>4, <1>5 DEF StorageFlush

LEMMA RecordsFinalised ==
    ASSUME NEW ids, ids \subseteq 0 .. id_counter - 1,
           UNCHANGED id_counter,
           \A id \in 0 .. id_counter - 1 :
               RecordOf(id)' = IF id \in ids THEN FinalLog(id) ELSE RecordOf(id)
    PROVE  Records!Next
  <1> DEFINE before == [id \in 0 .. id_counter - 1 |-> RecordOf(id)]
  <1>1. [id \in 0 .. id_counter' - 1 |-> RecordOf(id)']
        = [id \in 0 .. id_counter - 1 |->
              IF id \in ids THEN [id |-> id, final |-> TRUE] ELSE before[id]]
    BY DEF FinalLog
  <1>2. Records!Finalise(ids)
    BY <1>1 DEF Records!Finalise
  <1> QED
    BY <1>2 DEF Records!Next

(* A run finalises its logs that are in the buffer when it starts,         *)
LEMMA StartUpdatesFinalises ==
    ASSUME LogStorageInv, LogStorageInv', NEW u \in Updater, NEW ids, StartUpdates(u, ids)
    PROVE  Records!Next
  <1>1. /\ TypeOK /\ ids \subseteq 0 .. id_counter - 1 /\ id_counter \in Nat
        /\ RecordsPlaced /\ RecordsPlaced'
    <2>1. TypeOK /\ RecordsPlaced /\ RecordsPlaced'
      BY RecordsFound, RecordsFoundNext DEF LogStorageInv
    <2>2. id_counter \in Nat
      BY <2>1, LogStorageAssumption DEF TypeOK
    <2>3. ids \subseteq 0 .. id_counter - 1
      BY DEF StartUpdates
    <2> QED
      BY <2>1, <2>2, <2>3
  <1>2. UNCHANGED <<id_counter, storage_canisters, stored, first_log_id>>
    BY DEF StartUpdates, storage
  <1>3. BufferFirstId' = BufferFirstId /\ BufferFirstId \in Nat
    BY <1>1, <1>2, SameList, ListFacts
  <1> DEFINE here == {id \in ids : id >= BufferFirstId}
  <1>4. \A id \in 0 .. id_counter - 1 :
           RecordOf(id)' = IF id \in here THEN FinalLog(id) ELSE RecordOf(id)
    <2> TAKE id \in 0 .. id_counter - 1
    <2>1. CASE id < BufferFirstId
      <3>1. id \in 0 .. BufferFirstId - 1 /\ id \in Nat /\ id \notin here
        BY <1>1, <1>3, <2>1
      <3>2. PICK k \in DOMAIN storage_canisters : Covers(storage_canisters[k], id)
        BY <1>1, <3>1 DEF RecordsPlaced
      <3> DEFINE sc == storage_canisters[k]
      <3>3. RecordOf(id) = stored[sc.canister_id][id - sc.first_log_id + 1]
        BY <1>1, <3>1, <3>2 DEF RecordsPlaced
      <3>4. RecordOf(id)' = stored[sc.canister_id][id - sc.first_log_id + 1]
        BY <1>1, <1>2, <3>1, <3>2 DEF RecordsPlaced, Covers
      <3> QED
        BY <3>1, <3>3, <3>4
    <2>2. CASE id >= BufferFirstId
      <3>1. id \in BufferFirstId .. id_counter - 1 /\ (id \in here <=> id \in ids)
        BY <1>1, <1>3, <2>2
      <3> DEFINE k == id - BufferFirstId + 1
      <3>2. /\ RecordOf(id) = storage_buffer[k] /\ k \in 1 .. Len(storage_buffer)
            /\ ~OnCanister(id) /\ RecordOf(id)' = storage_buffer'[k]
        BY <1>1, <1>2, <1>3, <3>1 DEF RecordsPlaced
      <3>3. BufferFirstId + k - 1 = id /\ k \in DOMAIN storage_buffer
        BY <1>1, <1>3, <3>2 DEF TypeOK
      <3>4. storage_buffer'[k] = IF id \in ids THEN FinalLog(id) ELSE storage_buffer[k]
        <4> HIDE DEF k
        <4> QED
          BY <3>2, <3>3 DEF StartUpdates
      <3> QED
        BY <3>1, <3>2, <3>4
    <2> QED
      BY <1>1, <1>3, <2>1, <2>2
  <1>5. here \subseteq 0 .. id_counter - 1
    BY <1>1
  <1> HIDE DEF here
  <1> QED
    BY <1>2, <1>4, <1>5, RecordsFinalised

(* and each of the others when its canister writes it.                     *)
LEMMA StorageUpdateFinalises ==
    ASSUME LogStorageInv, LogStorageInv', NEW u \in Updater, NEW id \in LogId,
           StorageUpdate(u, id)
    PROVE  RecordsKept \/ Records!Next
  <1>1. /\ TypeOK /\ ListOK /\ OneHolder /\ Contiguous /\ RecordsPlaced /\ RecordsPlaced'
        /\ update[u][id].at = "sent" /\ id_counter \in Nat
    BY RecordsFound, RecordsFoundNext, LogStorageAssumption DEF LogStorageInv, StorageUpdate, TypeOK
  <1>2. UNCHANGED <<id_counter, storage_buffer, storage_canisters, first_log_id>>
    BY DEF StorageUpdate, data
  <1>3. BufferFirstId' = BufferFirstId /\ BufferFirstId \in Nat
    BY <1>1, <1>2, SameList, ListFacts
  <1>4. PICK k \in DOMAIN storage_canisters :
            /\ Covers(storage_canisters[k], id)
            /\ update[u][id].canister = storage_canisters[k].canister_id
            /\ Found(storage_canisters[k].canister_id, id)
            /\ Place(storage_canisters[k].canister_id, id) = id - storage_canisters[k].first_log_id + 1
    BY <1>1, SentUpdate
  <1> DEFINE c == storage_canisters[k].canister_id
             place == Place(c, id)
  <1>5. CASE UNCHANGED stored
    BY <1>2, <1>5, LogsKept
  <1>6. CASE stored' = [stored EXCEPT ![c][place] = FinalLog(id)]
    <2>1. c \in Canister /\ place \in DOMAIN stored[c] /\ stored \in [Canister -> Seq(Log)]
      BY <1>1, <1>4, ListFacts DEF Found, TypeOK
    <2>2. id \in 0 .. id_counter - 1
      <3>1. id \in Nat /\ id < BufferFirstId
        BY <1>1, <1>4 DEF RecordsPlaced, LogId
      <3>2. BufferFirstId + Len(storage_buffer) = id_counter /\ Len(storage_buffer) \in Nat
        BY <1>1 DEF Contiguous, TypeOK
      <3> QED
        BY <1>1, <1>3, <3>1, <3>2
    <2>3. /\ stored'[c][place] = FinalLog(id)
          /\ \A j \in DOMAIN stored[c] : j # place => stored'[c][j] = stored[c][j]
          /\ \A d \in Canister \ {c} : stored'[d] = stored[d]
      BY <1>6, <2>1
    <2>4. place = id - storage_canisters[k].first_log_id + 1
      BY <1>4
    <2> HIDE DEF place
    <2>5. \A i \in 0 .. id_counter - 1 :
             RecordOf(i)' = IF i \in {id} THEN FinalLog(i) ELSE RecordOf(i)
      <3> TAKE i \in 0 .. id_counter - 1
      <3>1. CASE i < BufferFirstId
        <4>1. i \in 0 .. BufferFirstId - 1 /\ i \in Nat
          BY <1>1, <1>3, <3>1
        <4>2. CASE i = id
          <5>1. RecordOf(i)' = stored'[c][i - storage_canisters[k].first_log_id + 1]
            BY <1>1, <1>2, <1>4, <4>1, <4>2 DEF RecordsPlaced, Covers
          <5> QED
            BY <2>3, <2>4, <4>2, <5>1
        <4>3. CASE i # id
          <5>1. PICK l \in DOMAIN storage_canisters : Covers(storage_canisters[l], i)
            BY <1>1, <4>1 DEF RecordsPlaced
          <5> DEFINE sc == storage_canisters[l]
                     j == i - sc.first_log_id + 1
          <5>2. RecordOf(i) = stored[sc.canister_id][j] /\ j \in 1 .. sc.length
            BY <1>1, <4>1, <5>1 DEF RecordsPlaced
          <5>3. RecordOf(i)' = stored'[sc.canister_id][j]
            BY <1>1, <1>2, <4>1, <5>1 DEF RecordsPlaced, Covers
          <5>4. sc.canister_id \in Canister /\ sc.first_log_id \in Nat /\ id \in Int
            BY <1>1, ListFacts DEF LogId
          <5>5. CASE l = k
            <6>1. j # place
              BY <2>4, <4>1, <4>3, <5>4, <5>5
            <6>2. j \in DOMAIN stored[c]
              <7>1. /\ stored[c] \in Seq(Log)
                    /\ Len(stored[c]) = storage_canisters[k].length
                <8>1. \A g \in Flusher : flush[g].at # "sent"
                  BY <1>1, SentUpdate, TheOneRun DEF Idle
                <8> QED
                  BY <2>1, <8>1 DEF LogStorageInv, StoredOK
              <7> QED
                BY <5>2, <5>5, <7>1
            <6> QED
              BY <2>3, <4>3, <5>2, <5>3, <5>5, <6>1, <6>2
          <5>6. CASE l # k
            <6>1. sc.canister_id # c
              BY <1>1, <5>6 DEF ListOK
            <6> QED
              BY <2>3, <4>3, <5>2, <5>3, <5>4, <6>1
          <5> QED
            BY <5>5, <5>6
        <4> QED
          BY <4>2, <4>3
      <3>2. CASE i >= BufferFirstId
        <4>1. i \in BufferFirstId .. id_counter - 1 /\ i # id
          <5>1. id < BufferFirstId /\ id \in Nat
            BY <1>1, <1>4 DEF RecordsPlaced, LogId
          <5> QED
            BY <1>1, <1>3, <3>2, <5>1
        <4> QED
          BY <1>1, <1>2, <1>3, <4>1 DEF RecordsPlaced
      <3> QED
        BY <1>1, <1>3, <3>1, <3>2
    <2>6. {id} \subseteq 0 .. id_counter - 1
      BY <2>2
    <2>7. Records!Next
      BY <1>2, <2>5, <2>6, RecordsFinalised
    <2> QED
      BY <2>7
  <1> QED
    BY <1>4, <1>5, <1>6 DEF StorageUpdate

(* A record is at its id for ever, wherever flushes and failures put it,   *)
(* and changes only when it becomes final: the storage implements the log. *)
THEOREM StorageImplementsRecordLog == Spec => ImplementsRecordLog
  <1>1. Init => Records!Init
    <2> SUFFICES ASSUME Init PROVE Records!Init
      OBVIOUS
    <2>1. id_counter = 0 /\ 0 .. 0 - 1 = {}
      BY DEF Init
    <2> QED
      BY <2>1 DEF Records!Init
  <1>2. ASSUME LogStorageInv, LogStorageInv', [Next]_vars
        PROVE  [Records!Next]_(Records!vars)
    <2>1. CASE Extend
      BY <1>2, <2>1, ExtendAppends DEF Records!Next
    <2>2. ASSUME NEW f \in Flusher, FlushStart(f) \/ CreateReply(f) \/ CreateCanister(f) \/ InstallCode(f)
          PROVE  RecordsKept
      BY <2>2, LogsKept
      DEF FlushStart, CreateReply, CreateCanister, InstallCode, data, storage
    <2>3. ASSUME NEW f \in Flusher, InstallReply(f) \/ FlushReply(f) \/ StorageFlush(f)
          PROVE  RecordsKept
      BY <1>2, <2>3, InstallReplyKeeps, FlushReplyKeeps, StorageFlushKeeps
    <2>4. ASSUME NEW c \in Canister, ControllerMarkFull(c) PROVE RecordsKept
      BY <2>4, LogsKept DEF ControllerMarkFull, data
    <2>5. ASSUME NEW u \in Updater, NEW ids, StartUpdates(u, ids) PROVE Records!Next
      BY <1>2, <2>5, StartUpdatesFinalises
    <2>6. ASSUME NEW u \in Updater, NEW id \in LogId, StorageUpdate(u, id)
          PROVE  RecordsKept \/ Records!Next
      BY <1>2, <2>6, StorageUpdateFinalises
    <2>7. ASSUME NEW u \in Updater, NEW id \in LogId, UpdateReply(u, id) PROVE RecordsKept
      BY <2>7, LogsKept DEF UpdateReply, data, storage
    <2>8. ASSUME NEW u \in Updater, UpdatesEnd(u) PROVE RecordsKept
      BY <2>8, LogsKept DEF UpdatesEnd, storage
    <2>9. CASE UNCHANGED vars
      <3>1. RecordsKept
        BY <2>9, LogsKept DEF vars, data, storage
      <3> QED
        BY <3>1, KeptIsStutter
    <2>10. RecordsKept => UNCHANGED Records!vars
      BY KeptIsStutter
    <2> QED
      BY <1>2, <2>1, <2>2, <2>3, <2>4, <2>5, <2>6, <2>7, <2>8, <2>9, <2>10
      DEF Next, FlushStep, CalleeStep
  <1> QED
    BY <1>1, <1>2, StorageInvariant, PTL DEF Spec, ImplementsRecordLog, Records!Spec

=============================================================================
