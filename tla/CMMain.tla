------------------------------- MODULE CMMain -------------------------------
(***************************************************************************)
(* cm_main, the canister that creates the trade contracts, one for each    *)
(* token ledger, and upgrades them; and the upgrade of the log storage     *)
(* canisters by a trade contract, which cm_main passes on.                 *)
(*                                                                         *)
(* A creation awaits two calls to the management canister: create_canister *)
(* pays for the canister, install_code makes it a trade contract.  Between *)
(* its steps the creation lives in mid_call_data, whose lock keeps every   *)
(* other creation out; a creation whose second call failed stays there     *)
(* unlocked until somebody calls continue.                                 *)
(***************************************************************************)
EXTENDS CanisterUpgrades, Sequences, SequencesExt

CONSTANTS
    Ledger,          \* the token ledgers that trade contracts are made for
    Call,            \* creation and continue calls that may run at one time
    NoCanister,
    StorageCanister, \* the log storage canisters of a trade contract
    TakeLimit        \* how many canisters one upgrade takes on by itself (200)

ASSUME CMMainAssumption ==
    /\ StorageCanister \subseteq Canister /\ NoCanister \notin Canister
    /\ IsFiniteSet(StorageCanister)
    /\ TakeLimit \in Nat \ {0}

VARIABLES
    tc_canister_code,  \* the module for trade contracts
    storage_canister_code, \* the module for the storage canisters of new trade contracts
    trade_contracts,   \* their ledgers, canisters and recorded module hashes
    mid_call_data,     \* the creation in progress, a sequence of at most one
    create,            \* the running creation calls and their local mid_call_data
    log_storage        \* of a trade contract: the storage module and its storage canisters

codes == <<tc_canister_code, storage_canister_code>>
main == <<codes, trade_contracts, mid_call_data>>
vars == <<main, create, log_storage, upgrade, canisters>>

MidCallData == [lock: BOOLEAN, ledger: Ledger, canister: Canister \cup {NoCanister}]
TradeContract == [ledger: Ledger, canister: Canister, hash: Code]
NotRunning == [pc |-> "none"]

TypeOK ==
    /\ CanistersTypeOK
    /\ tc_canister_code \in Code /\ storage_canister_code \in Code
    /\ \A i \in DOMAIN trade_contracts : trade_contracts[i] \in TradeContract
    /\ Len(mid_call_data) <= 1 /\ \A i \in DOMAIN mid_call_data : mid_call_data[i] \in MidCallData
    /\ \A p \in Call : \/ create[p] = NotRunning
                       \/ /\ create[p].pc \in {"begin", "create", "install", "installed"}
                          /\ create[p].quest \in MidCallData
                          /\ create[p].code \in Code \cup {NoCode}
    /\ log_storage.code \in Code
    /\ log_storage.hash \in [StorageCanister -> Code]

\* The storage canisters of the trade contract start with the module it was given.
Init ==
    /\ \E code \in Code : log_storage = [code |-> code, hash |-> [c \in StorageCanister |-> code]]
    /\ installed = [c \in Canister |-> IF c \in StorageCanister THEN log_storage.code ELSE Absent]
    /\ status = [c \in Canister |-> "running"]
    /\ upgrade = [u \in Upgrade |-> None]
    /\ reported = {} /\ overlapped = {}
    /\ tc_canister_code \in Code /\ storage_canister_code \in Code
    /\ trade_contracts = <<>> /\ mid_call_data = <<>>
    /\ create = [p \in Call |-> NotRunning]

-----------------------------------------------------------------------------
(* Creation of a trade contract *)

Running(p, pc, quest, code) == create' = [create EXCEPT ![p] = [pc |-> pc, quest |-> quest, code |-> code]]
Returns(p) == create' = [create EXCEPT ![p] = NotRunning]

\* controller_create_trade_contract: refused while there is any mid_call_data.
CreateTradeContract(p, ledger) ==
    /\ create[p] = NotRunning
    /\ mid_call_data = <<>>
    /\ LET quest == [lock |-> TRUE, ledger |-> ledger, canister |-> NoCanister]
       IN mid_call_data' = <<quest>> /\ Running(p, "begin", quest, NoCode)
    /\ UNCHANGED <<codes, trade_contracts, log_storage, upgrade, canisters>>

ContinueLocked(p) == \* mutant: does not look at the lock
    /\ create[p] = NotRunning
    /\ mid_call_data # <<>> /\ mid_call_data' = mid_call_data
    /\ Running(p, "begin", mid_call_data[1], NoCode)
    /\ UNCHANGED <<codes, trade_contracts, log_storage, upgrade, canisters>>

\* continue_controller_create_trade_contract: anybody may call it; refused while locked.
Continue(p) ==
    /\ create[p] = NotRunning
    /\ mid_call_data # <<>> /\ ~mid_call_data[1].lock
    /\ LET quest == [mid_call_data[1] EXCEPT !.lock = TRUE]
       IN mid_call_data' = <<quest>> /\ Running(p, "begin", quest, NoCode)
    /\ UNCHANGED <<codes, trade_contracts, log_storage, upgrade, canisters>>

HasContract(ledger) == \E i \in DOMAIN trade_contracts : trade_contracts[i].ledger = ledger

\* Busy with c: an install that a creation has called or not yet been answered.
BeingCreated(c) == \E p \in Call : create[p] # NotRunning /\ create[p].quest.canister = c

(***************************************************************************)
(* The code up to the first await: the ledger has a contract already, or   *)
(* the cycles balance is too low, and the creation is over; else           *)
(* create_canister is called.  A creation that was continued has its       *)
(* canister and goes on with CallInstall.                                  *)
(***************************************************************************)
BeginCreate(p) ==
    /\ create[p].pc = "begin"
    /\ \/ HasContract(create[p].quest.ledger) /\ mid_call_data' = <<>> /\ Returns(p)
       \/ /\ ~HasContract(create[p].quest.ledger) /\ create[p].quest.canister = NoCanister
          /\ \/ mid_call_data' = <<>> /\ Returns(p)
             \/ UNCHANGED mid_call_data /\ Running(p, "create", create[p].quest, NoCode)
    /\ UNCHANGED <<codes, trade_contracts, log_storage, upgrade, canisters>>

CallInstall(p) == [pc |-> "install", quest |-> create[p].quest, code |-> tc_canister_code]

BeginInstall(p) ==
    /\ create[p].pc = "begin"
    /\ ~HasContract(create[p].quest.ledger) /\ create[p].quest.canister # NoCanister
    /\ create' = [create EXCEPT ![p] = CallInstall(p)]
    /\ overlapped' = overlapped \cup ({create[p].quest.canister} \cap OnOpenList)
    /\ UNCHANGED <<main, log_storage, upgrade, installed, status, reported>>

\* create_canister: the identifier of the canister is kept in the local data alone.
CanisterCreated(p, c) ==
    /\ create[p].pc = "create" /\ installed[c] = Absent
    /\ installed' = [installed EXCEPT ![c] = NoCode]
    /\ create' = [create EXCEPT ![p] = [CallInstall(p) EXCEPT !.quest.canister = c]]
    /\ UNCHANGED <<main, log_storage, upgrade, status, reported, overlapped>>

CreateCanisterFails(p) ==
    /\ create[p].pc = "create"
    /\ mid_call_data' = <<>> /\ Returns(p)
    /\ UNCHANGED <<codes, trade_contracts, log_storage, upgrade, canisters>>

\* The management canister installs the module; install mode needs a canister without one.
CodeInstalled(p) ==
    /\ create[p].pc = "install" /\ installed[create[p].quest.canister] = NoCode
    /\ installed' = [installed EXCEPT ![create[p].quest.canister] = create[p].code]
    /\ create' = [create EXCEPT ![p].pc = "installed"]
    /\ UNCHANGED <<main, log_storage, upgrade, status, reported, overlapped>>

InstallFailsUnlocks(p) == \* mutant: unlocks the stored data and drops the local data
    /\ create[p].pc = "install"
    /\ mid_call_data' = <<[mid_call_data[1] EXCEPT !.lock = FALSE]>>
    /\ Returns(p)
    /\ UNCHANGED <<codes, trade_contracts, log_storage, upgrade, canisters>>

\* unlock_and_write_..._mid_call_data: the local data, with its canister, is kept for continue.
InstallFails(p) ==
    /\ create[p].pc = "install"
    /\ mid_call_data' = <<[create[p].quest EXCEPT !.lock = FALSE]>>
    /\ Returns(p)
    /\ UNCHANGED <<codes, trade_contracts, log_storage, upgrade, canisters>>

\* The answer to install_code: the hash written down is that of the module read before the call.
TradeContractCreated(p) ==
    /\ create[p].pc = "installed"
    /\ mid_call_data' = <<>>
    /\ trade_contracts' = Append(trade_contracts,
           [ledger |-> create[p].quest.ledger, canister |-> create[p].quest.canister,
            hash |-> create[p].code])
    /\ Returns(p)
    /\ UNCHANGED <<codes, log_storage, upgrade, canisters>>

-----------------------------------------------------------------------------
(* Upgrades *)

\* controller_upload_canister_code
UploadCode(code) ==
    /\ \/ tc_canister_code' = code /\ UNCHANGED storage_canister_code
       \/ storage_canister_code' = code /\ UNCHANGED tc_canister_code
    /\ UNCHANGED <<trade_contracts, mid_call_data, create, log_storage, upgrade, canisters>>

\* Without a list of its own an upgrade takes the first canisters that have another module.
Outdated(records, code) ==
    LET old == {i \in DOMAIN records : records[i].hash # code}
    IN {records[i].canister : i \in {k \in old : Cardinality({j \in old : j < k}) < TakeLimit}}

Created == {c \in Canister \ StorageCanister : installed[c] # Absent}

(***************************************************************************)
(* controller_upgrade_tcs: the module of the quest, if it has one, becomes *)
(* the module of later creations too; the quest may list any canisters.    *)
(***************************************************************************)
UpgradeTCs(u, code, snapshots) ==
    /\ tc_canister_code' = code
    /\ \E list \in {Outdated(trade_contracts, code)} \cup {{c} : c \in Created} :
          OpenUpgrade(u, list, code, snapshots, {c \in Canister : BeingCreated(c)})
    /\ UNCHANGED <<storage_canister_code, trade_contracts, mid_call_data, create, log_storage,
                   installed, status, reported>>

\* The storage canisters of a trade contract as records, in some fixed order.
StorageRecords == LET order == SetToSeq(StorageCanister)
                  IN [i \in DOMAIN order |-> [canister |-> order[i], hash |-> log_storage.hash[order[i]]]]

(***************************************************************************)
(* controller_upgrade_tc_log_storage_canisters: the module of the quest,   *)
(* if it has one, is that of the trade contracts to come.  When the call   *)
(* to the trade contract is rejected this is all, as in UploadCode.        *)
(***************************************************************************)
PassStorageCode(code) ==
    \/ storage_canister_code' = code
    \/ code = log_storage.code /\ UNCHANGED storage_canister_code

\* controller_upgrade_log_storage_canisters of the trade contract.
UpgradeLogStorage(u, code, snapshots) ==
    /\ PassStorageCode(code)
    /\ log_storage' = [log_storage EXCEPT !.code = code]
    /\ \E list \in {Outdated(StorageRecords, code)} \cup {{c} : c \in StorageCanister} :
          OpenUpgrade(u, list, code, snapshots, {})
    /\ UNCHANGED <<tc_canister_code, trade_contracts, mid_call_data, create, installed, status, reported>>

RecordUpgradesNow(u) == \* mutant: records the module of now, not of the call
    /\ AllEnded(u)
    /\ trade_contracts' = [i \in DOMAIN trade_contracts |->
           IF trade_contracts[i].canister \in upgrade[u].success
           THEN [trade_contracts[i] EXCEPT !.hash = tc_canister_code] ELSE trade_contracts[i]]
    /\ UNCHANGED log_storage

\* The answers of the last chain: the hash of every canister that took the module is written down.
RecordUpgrades(u) ==
    /\ AllEnded(u)
    /\ trade_contracts' = [i \in DOMAIN trade_contracts |->
           IF trade_contracts[i].canister \in upgrade[u].success
           THEN [trade_contracts[i] EXCEPT !.hash = upgrade[u].code] ELSE trade_contracts[i]]
    /\ UNCHANGED log_storage

RecordStorageUpgrades(u) ==
    /\ AllEnded(u)
    /\ log_storage' = [log_storage EXCEPT !.hash = [c \in StorageCanister |->
           IF c \in upgrade[u].success THEN upgrade[u].code ELSE @[c]]]
    /\ UNCHANGED trade_contracts

EndUpgrade(u) ==
    /\ IF \E c \in StorageCanister : upgrade[u].stage[c] # "none"
       THEN RecordStorageUpgrades(u) ELSE RecordUpgrades(u)
    /\ upgrade' = [upgrade EXCEPT ![u] = [None EXCEPT !.pc = "ended"]]
    /\ UNCHANGED <<codes, mid_call_data, create, canisters>>

Chain(u, c) == ChainStep(u, c) /\ UNCHANGED <<main, create, log_storage>>

Next ==
    \/ \E p \in Call, ledger \in Ledger : CreateTradeContract(p, ledger)
    \/ \E p \in Call, c \in Canister : CanisterCreated(p, c)
    \/ \E p \in Call : \/ Continue(p) \/ BeginCreate(p) \/ BeginInstall(p) \/ CreateCanisterFails(p)
                       \/ CodeInstalled(p) \/ InstallFails(p) \/ TradeContractCreated(p)
    \/ \E code \in Code : UploadCode(code)
    \/ \E u \in Upgrade, code \in Code, snapshots \in BOOLEAN :
          UpgradeTCs(u, code, snapshots) \/ UpgradeLogStorage(u, code, snapshots)
    \/ \E u \in Upgrade, c \in Canister : Chain(u, c)
    \/ \E u \in Upgrade : EndUpgrade(u)

Spec == Init /\ [][Next]_vars

-----------------------------------------------------------------------------
(* Properties *)

(***************************************************************************)
(* mid_call_data is locked exactly while one creation runs, at its awaits  *)
(* too, so no ledger gets a second trade contract; and a canister that was *)
(* created and paid for is never forgotten: it is the canister of one      *)
(* trade contract on the list, or of the creation in progress, which keeps *)
(* it when the install fails.                                              *)
(***************************************************************************)
OneCreationAtATime ==
    /\ Cardinality({p \in Call : create[p] # NotRunning})
         = Cardinality({i \in DOMAIN mid_call_data : mid_call_data[i].lock})
    /\ \A i, j \in DOMAIN trade_contracts : trade_contracts[i].ledger = trade_contracts[j].ledger => i = j

CanisterNotLost ==
    /\ TypeOK
    /\ OneCreationAtATime
    /\ \A c \in Created :
         LET listed == {i \in DOMAIN trade_contracts : trade_contracts[i].canister = c}
         IN IF listed = {}
            THEN BeingCreated(c) \/ \E i \in DOMAIN mid_call_data : mid_call_data[i].canister = c
            ELSE Cardinality(listed) = 1

(***************************************************************************)
(* The module hash on record, of a trade contract and of a storage         *)
(* canister, is that of the module the canister runs, unless an upgrade    *)
(* that has it on its list is still open or two calls worked on it at the  *)
(* same time.                                                              *)
(***************************************************************************)
RecordedIsInstalled ==
    LET settled == Canister \ (OnOpenList \cup overlapped)
    IN /\ \A i \in DOMAIN trade_contracts : trade_contracts[i].canister \in settled
             => trade_contracts[i].hash = installed[trade_contracts[i].canister]
       /\ \A c \in StorageCanister \cap settled : log_storage.hash[c] = installed[c]

(***************************************************************************)
(* A canister that no chain is working on runs, unless a failed stop or    *)
(* start of it was reported: an upgrade whose snapshot or install failed   *)
(* does not leave a market stopped.                                        *)
(***************************************************************************)
StoppedIsReported ==
    \A c \in Canister : status[c] = "running" \/ c \in reported \/ \E u \in Upgrade : InChain(u, c)

(***************************************************************************)
(* The module of a canister is replaced only while the canister is         *)
(* stopped, so that no answer to one of its calls comes back to another    *)
(* module; two upgrades of a canister at the same time do not keep to it.  *)
(***************************************************************************)
ReplacedWhileStopped ==
    [][\A c \in Canister : installed'[c] # installed[c] /\ installed[c] \in Code
         => status[c] = "stopped" \/ c \in overlapped]_vars
=============================================================================
