--------------------------- MODULE CMMainProofs ---------------------------
(***************************************************************************)
(* Proofs about CMMain, for any number of ledgers, canisters, modules and  *)
(* calls: no canister that was created is lost, the hashes on record are   *)
(* those of the modules installed, no canister stays stopped in silence,   *)
(* and a module is replaced only while its canister is stopped.            *)
(***************************************************************************)
EXTENDS CMMain, SequenceTheorems, FiniteSetTheorems, TLAPS

Creation == [pc: {"begin", "create", "install", "installed"}, quest: MidCallData,
             code: Code \cup {NoCode}]

MainTypeOK ==
    /\ CanistersTypeOK
    /\ tc_canister_code \in Code /\ storage_canister_code \in Code
    /\ trade_contracts \in Seq(TradeContract)
    /\ mid_call_data \in Seq(MidCallData) /\ Len(mid_call_data) <= 1
    /\ create \in [Call -> Creation \cup {NotRunning}]
    /\ log_storage \in [code: Code, hash: [StorageCanister -> Code]]

Runs(p) == create[p] # NotRunning
MidCall == mid_call_data[1]
NoContract == \A i \in DOMAIN trade_contracts : trade_contracts[i].ledger # MidCall.ledger
On(u, c) == upgrade[u].stage[c] # "none"

(* One creation holds the lock; what it has found out of its ledger and    *)
(* its canister stays so until it ends; and mid_call_data keeps a canister *)
(* only while it is without a module and its ledger without a contract.    *)
CreationOK ==
    /\ \A p, q \in Call : Runs(p) /\ Runs(q) => p = q
    /\ \A p \in Call : Runs(p) =>
         /\ mid_call_data # <<>> /\ MidCall.lock
         /\ create[p].quest.ledger = MidCall.ledger
         /\ MidCall.canister \in {NoCanister, create[p].quest.canister}
         /\ create[p].pc = "begin" => create[p].quest.canister = MidCall.canister
         /\ create[p].pc = "create" => create[p].quest.canister = NoCanister
         /\ create[p].pc # "begin" => NoContract
         /\ create[p].pc \in {"install", "installed"} =>
              create[p].quest.canister \in Created /\ create[p].code \in Code
         /\ create[p].pc = "install" => installed[create[p].quest.canister] = NoCode
    /\ mid_call_data # <<>> =>
         /\ MidCall.lock => \E p \in Call : Runs(p)
         /\ MidCall.canister # NoCanister =>
              /\ MidCall.canister \in Created
              /\ NoContract
              /\ \/ installed[MidCall.canister] = NoCode
                 \/ \E p \in Call : create[p].pc = "installed"

(* Each canister that was created is in one place.                         *)
PlacesOK ==
    /\ \A i, j \in DOMAIN trade_contracts :
         \/ trade_contracts[i].ledger = trade_contracts[j].ledger
         \/ trade_contracts[i].canister = trade_contracts[j].canister
         => i = j
    /\ \A i \in DOMAIN trade_contracts :
         /\ trade_contracts[i].canister \in Created
         /\ \A p \in Call : Runs(p) => trade_contracts[i].canister # create[p].quest.canister
         /\ mid_call_data # <<>> => trade_contracts[i].canister # MidCall.canister
    /\ \A c \in Created :
         \/ \E i \in DOMAIN trade_contracts : trade_contracts[i].canister = c
         \/ BeingCreated(c)
         \/ \E i \in DOMAIN mid_call_data : mid_call_data[i].canister = c

(* What two calls work on at the same time is in overlapped.               *)
UpgradesOK ==
    /\ \A u \in Upgrade :
         /\ upgrade[u].pc # "open" => upgrade[u].success = {} /\ \A c \in Canister : ~On(u, c)
         /\ upgrade[u].pc = "open" => upgrade[u].code \in Code
         /\ \A c \in upgrade[u].success : upgrade[u].stage[c] \in {"start", "done"}
         /\ (\E c \in StorageCanister : On(u, c)) => \A c \in Canister \ StorageCanister : ~On(u, c)
    /\ \A u \in Upgrade, c \in Canister : On(u, c) => installed[c] # Absent
    /\ \A c \in StorageCanister : installed[c] \in Code
    /\ \A u, v \in Upgrade, c \in Canister \ overlapped : On(u, c) /\ On(v, c) => u = v
    /\ \A u \in Upgrade, p \in Call, c \in Canister :
         create[p].pc \in {"install", "installed"} /\ create[p].quest.canister = c /\ On(u, c)
         => c \in overlapped

(* A hash on record is that of the module installed until an upgrade has   *)
(* replaced the module, and then the hash is in the upgrade's result.      *)
NotReplaced(c) == \A u \in Upgrade : c \notin upgrade[u].success
HashesOK ==
    /\ \A u \in Upgrade : \A c \in upgrade[u].success \ overlapped : installed[c] = upgrade[u].code
    /\ \A i \in DOMAIN trade_contracts, c \in Canister \ overlapped :
         trade_contracts[i].canister = c /\ NotReplaced(c) => trade_contracts[i].hash = installed[c]
    /\ \A c \in StorageCanister \ overlapped :
         NotReplaced(c) => log_storage.hash[c] = installed[c]
    /\ \A p \in Call :
         create[p].pc = "installed" /\ create[p].quest.canister \notin overlapped
         => installed[create[p].quest.canister] = create[p].code

(* A canister is stopped by a chain that is past its stop.                 *)
StopsOK ==
    /\ \A c \in Canister :
         \/ status[c] = "running" \/ c \in reported
         \/ \E u \in Upgrade : upgrade[u].stage[c] \in {"snapshot", "install", "start"}
    /\ \A u \in Upgrade, c \in Canister \ overlapped :
         upgrade[u].stage[c] \in {"snapshot", "install"} => status[c] = "stopped"

MainInv == MainTypeOK /\ CreationOK /\ PlacesOK /\ UpgradesOK /\ HashesOK /\ StopsOK

-----------------------------------------------------------------------------
(* Frames.                                                                 *)

(* The creations are not touched while the modules that are installed are  *)
(* the same.                                                               *)
LEMMA SamePlaces ==
    ASSUME CreationOK, PlacesOK, UNCHANGED <<trade_contracts, mid_call_data, create, installed>>
    PROVE  CreationOK' /\ PlacesOK'
  <1>1. Created' = Created /\ MidCall' = MidCall
    BY DEF Created, MidCall
  <1>2. /\ \A p \in Call : Runs(p)' <=> Runs(p)
        /\ NoContract' <=> NoContract
        /\ \A c : BeingCreated(c)' <=> BeingCreated(c)
    BY DEF Runs, NoContract, MidCall, BeingCreated
  <1>3. CreationOK'
    BY <1>1, <1>2 DEF CreationOK
  <1>4. PlacesOK'
    BY <1>1, <1>2 DEF PlacesOK
  <1> QED
    BY <1>3, <1>4

LEMMA SameUpgrades ==
    ASSUME UpgradesOK, HashesOK, StopsOK,
           UNCHANGED <<trade_contracts, create, log_storage, upgrade, canisters>>
    PROVE  UpgradesOK' /\ HashesOK' /\ StopsOK'
  <1>1. /\ installed' = installed /\ status' = status /\ reported' = reported
        /\ overlapped' = overlapped
    BY DEF canisters
  <1>2. /\ \A u \in Upgrade : \A c : On(u, c)' <=> On(u, c)
        /\ \A c : NotReplaced(c)' <=> NotReplaced(c)
    BY DEF On, NotReplaced
  <1>3. UpgradesOK'
    BY <1>1, <1>2 DEF UpgradesOK
  <1>4. HashesOK'
    BY <1>1, <1>2 DEF HashesOK
  <1>5. StopsOK'
    BY <1>1 DEF StopsOK
  <1> QED
    BY <1>3, <1>4, <1>5

(* A chain moves on.                                                       *)
LEMMA StageMoves ==
    ASSUME CanistersTypeOK, NEW u \in Upgrade, NEW c \in Canister, NEW s \in Stage, To(u, c, s)
    PROVE  /\ upgrade' \in [Upgrade -> [pc: {"none", "open", "ended"}, code: Code \cup {NoCode},
                                       snapshots: BOOLEAN, stage: [Canister -> Stage],
                                       success: SUBSET Canister]]
           /\ \A v \in Upgrade :
                /\ upgrade'[v].pc = upgrade[v].pc /\ upgrade'[v].code = upgrade[v].code
                /\ upgrade'[v].success = upgrade[v].success
                /\ \A d \in Canister :
                     upgrade'[v].stage[d] = IF v = u /\ d = c THEN s ELSE upgrade[v].stage[d]
  BY DEF CanistersTypeOK, To

(* A step of a chain that replaces no module.                              *)
LEMMA ChainGoesOn ==
    ASSUME MainInv, NEW u \in Upgrade, NEW c \in Canister, NEW s \in Stage \ {"none"},
           To(u, c, s), On(u, c), c \in upgrade[u].success => s = "done",
           UNCHANGED <<main, create, log_storage, installed, overlapped>>,
           status' \in [Canister -> {"running", "stopped"}], reported' \in SUBSET Canister
    PROVE  MainTypeOK' /\ CreationOK' /\ PlacesOK' /\ UpgradesOK' /\ HashesOK'
  <1>1. /\ trade_contracts' = trade_contracts /\ mid_call_data' = mid_call_data
        /\ tc_canister_code' = tc_canister_code /\ storage_canister_code' = storage_canister_code
        /\ create' = create /\ log_storage' = log_storage
        /\ installed' = installed /\ overlapped' = overlapped
    BY DEF main, codes
  <1>2. /\ upgrade' \in [Upgrade -> [pc: {"none", "open", "ended"}, code: Code \cup {NoCode},
                                     snapshots: BOOLEAN, stage: [Canister -> Stage],
                                     success: SUBSET Canister]]
        /\ \A v \in Upgrade :
             /\ upgrade'[v].pc = upgrade[v].pc /\ upgrade'[v].code = upgrade[v].code
             /\ upgrade'[v].success = upgrade[v].success
             /\ \A d \in Canister :
                  upgrade'[v].stage[d] = IF v = u /\ d = c THEN s ELSE upgrade[v].stage[d]
    BY StageMoves DEF MainInv, MainTypeOK
  <1>3. MainTypeOK'
    BY <1>1, <1>2 DEF MainInv, MainTypeOK, CanistersTypeOK
  <1>4. CreationOK' /\ PlacesOK'
    BY <1>1, SamePlaces DEF MainInv
  <1>5. \A v \in Upgrade, d \in Canister : On(v, d)' <=> On(v, d)
    BY <1>2 DEF On
  <1>6. \A v \in Upgrade : upgrade[v].success \subseteq Canister
    BY DEF MainInv, MainTypeOK, CanistersTypeOK
  <1>7. UpgradesOK'
    <2>1. ASSUME NEW v \in Upgrade
          PROVE  /\ upgrade'[v].pc # "open" => upgrade'[v].success = {} /\ \A d \in Canister : ~On(v, d)'
                 /\ upgrade'[v].pc = "open" => upgrade'[v].code \in Code
                 /\ (\E d \in StorageCanister : On(v, d)')
                    => \A d \in Canister \ StorageCanister : ~On(v, d)'
      BY <1>2, <1>5, CMMainAssumption DEF MainInv, UpgradesOK
    <2>2. ASSUME NEW v \in Upgrade, NEW d \in upgrade'[v].success
          PROVE  upgrade'[v].stage[d] \in {"start", "done"}
      <3>1. d \in upgrade[v].success /\ d \in Canister /\ upgrade[v].stage[d] \in {"start", "done"}
        BY <1>2, <1>6 DEF MainInv, UpgradesOK
      <3> QED
        BY <1>2, <3>1
    <2>3. \A v \in Upgrade, d \in Canister : On(v, d)' => installed'[d] # Absent
      BY <1>1, <1>5 DEF MainInv, UpgradesOK
    <2>4. \A v, w \in Upgrade, d \in Canister \ overlapped' : On(v, d)' /\ On(w, d)' => v = w
      BY <1>1, <1>5 DEF MainInv, UpgradesOK
    <2>5. \A v \in Upgrade, p \in Call, d \in Canister :
             create'[p].pc \in {"install", "installed"} /\ create'[p].quest.canister = d /\ On(v, d)'
             => d \in overlapped'
      BY <1>1, <1>5 DEF MainInv, UpgradesOK
    <2>6. \A d \in StorageCanister : installed'[d] \in Code
      BY <1>1 DEF MainInv, UpgradesOK
    <2> QED
      BY <2>1, <2>2, <2>3, <2>4, <2>5, <2>6 DEF UpgradesOK
  <1>8. HashesOK'
    <2>1. \A d : NotReplaced(d)' <=> NotReplaced(d)
      BY <1>2 DEF NotReplaced
    <2> QED
      BY <1>1, <1>2, <2>1 DEF MainInv, HashesOK
  <1> QED
    BY <1>3, <1>4, <1>7, <1>8

-----------------------------------------------------------------------------
(* The chains of the upgrades.                                             *)

(* What is known of a canister that a chain works on.                      *)
LEMMA ChainFacts ==
    ASSUME MainInv, NEW u \in Upgrade, NEW c \in Canister, On(u, c)
    PROVE  /\ upgrade[u].pc = "open" /\ upgrade[u].code \in Code
           /\ upgrade[u].stage[c] \in Stage /\ upgrade[u].success \subseteq Canister
           /\ status[c] \in {"running", "stopped"}
           /\ installed[c] \in Code \cup {NoCode}
           /\ c \in upgrade[u].success => upgrade[u].stage[c] \in {"start", "done"}
  BY DEF MainInv, MainTypeOK, CanistersTypeOK, UpgradesOK

LEMMA QuietStepHolds ==
    ASSUME MainInv, NEW u \in Upgrade, NEW c \in Canister,
           \/ ListSnapshots(u, c) \/ StopCanister(u, c) \/ StopFails(u, c) \/ TakeSnapshot(u, c)
           \/ InstallUpgradeFails(u, c) \/ StartCanister(u, c),
           UNCHANGED <<main, create, log_storage>>
    PROVE  MainInv'
  <1>1. PICK s \in Stage \ {"none"} :
           /\ To(u, c, s)
           /\ \/ /\ upgrade[u].stage[c] = "list" /\ s \in {"stop", "done"}
                 /\ status' = status /\ reported' = reported
              \/ /\ upgrade[u].stage[c] = "stop" /\ s \in {"snapshot", "install"}
                 /\ status' = [status EXCEPT ![c] = "stopped"] /\ reported' = reported
              \/ /\ upgrade[u].stage[c] = "stop" /\ s = "done"
                 /\ \E t \in {status[c], "stopped"} : status' = [status EXCEPT ![c] = t]
                 /\ reported' = reported \cup {c}
              \/ /\ upgrade[u].stage[c] = "snapshot" /\ s \in {"install", "start"}
                 /\ status' = status /\ reported' = reported
              \/ /\ upgrade[u].stage[c] = "install" /\ s = "start"
                 /\ status' = status /\ reported' = reported
              \/ /\ upgrade[u].stage[c] = "start" /\ s = "done"
                 /\ \/ status' = [status EXCEPT ![c] = "running"] /\ reported' = reported \ {c}
                    \/ status' = status /\ reported' = reported \cup {c}
    <2>1. CASE ListSnapshots(u, c)
      BY <2>1 DEF ListSnapshots, canisters, Stage
    <2>2. CASE StopCanister(u, c)
      BY <2>2 DEF StopCanister, Stage
    <2>3. CASE StopFails(u, c)
      BY <2>3 DEF StopFails, Stage
    <2>4. CASE TakeSnapshot(u, c)
      BY <2>4 DEF TakeSnapshot, canisters, Stage
    <2>5. CASE InstallUpgradeFails(u, c)
      BY <2>5 DEF InstallUpgradeFails, canisters, Stage
    <2>6. CASE StartCanister(u, c)
      BY <2>6 DEF StartCanister, Stage
    <2> QED
      BY <2>1, <2>2, <2>3, <2>4, <2>5, <2>6
  <1>2. installed' = installed /\ overlapped' = overlapped
    BY DEF ListSnapshots, StopCanister, StopFails, TakeSnapshot, InstallUpgradeFails, StartCanister,
       canisters
  <1>3. status \in [Canister -> {"running", "stopped"}] /\ reported \in SUBSET Canister
    BY DEF MainInv, MainTypeOK, CanistersTypeOK
  <1>4. status' \in [Canister -> {"running", "stopped"}] /\ reported' \in SUBSET Canister
    BY <1>1, <1>3
  <1>5. On(u, c)
    BY <1>1 DEF On
  <1>6. c \in upgrade[u].success => s = "done"
    BY <1>1, <1>5, ChainFacts
  <1>7. MainTypeOK' /\ CreationOK' /\ PlacesOK' /\ UpgradesOK' /\ HashesOK'
    BY <1>1, <1>2, <1>4, <1>5, <1>6, ChainGoesOn
  <1>8. \A v \in Upgrade, d \in Canister :
           upgrade'[v].stage[d] = IF v = u /\ d = c THEN s ELSE upgrade[v].stage[d]
    BY <1>1, StageMoves DEF MainInv, MainTypeOK
  <1>9. \A d \in Canister \ {c} : status'[d] = status[d] /\ (d \in reported' <=> d \in reported)
    BY <1>1, <1>3
  <1>10. \/ status'[c] = status[c] /\ reported' = reported
            /\ upgrade[u].stage[c] \in {"list", "snapshot", "install"}
         \/ status'[c] = "stopped" /\ upgrade[u].stage[c] = "stop" /\ s \in {"snapshot", "install"}
         \/ c \in reported' /\ s = "done" /\ upgrade[u].stage[c] = "stop"
            /\ status'[c] \in {status[c], "stopped"}
         \/ s = "done" /\ upgrade[u].stage[c] = "start"
            /\ (status'[c] = "running" \/ c \in reported')
    BY <1>1, <1>3
  <1>11. StopsOK'
    <2>1. ASSUME NEW d \in Canister
          PROVE  \/ status'[d] = "running" \/ d \in reported'
                 \/ \E v \in Upgrade : upgrade'[v].stage[d] \in {"snapshot", "install", "start"}
      <3>1. CASE d # c
        BY <1>8, <1>9, <3>1 DEF MainInv, StopsOK
      <3>2. CASE d = c
        <4>1. CASE status'[c] = "running" \/ c \in reported'
          BY <3>2, <4>1
        <4>2. CASE s \in {"snapshot", "install", "start"}
          BY <1>8, <3>2, <4>2
        <4>3. CASE /\ ~(status'[c] = "running" \/ c \in reported')
                   /\ s \notin {"snapshot", "install", "start"}
          <5>1. upgrade[u].stage[c] = "list" /\ status'[c] = status[c] /\ reported' = reported
            BY <1>1, <1>10, <4>3
          <5>2. PICK v \in Upgrade : upgrade[v].stage[c] \in {"snapshot", "install", "start"}
            BY <4>3, <5>1 DEF MainInv, StopsOK
          <5> QED
            BY <1>8, <3>2, <5>1, <5>2
        <4> QED
          BY <4>1, <4>2, <4>3
      <3> QED
        BY <3>1, <3>2
    <2>2. ASSUME NEW v \in Upgrade, NEW d \in Canister \ overlapped',
                 upgrade'[v].stage[d] \in {"snapshot", "install"}
          PROVE  status'[d] = "stopped"
      <3>1. CASE d # c
        BY <1>2, <1>8, <1>9, <2>2, <3>1 DEF MainInv, StopsOK
      <3>2. CASE d = c /\ v # u
        <4>1. On(v, c) /\ v # u /\ c \notin overlapped
          BY <1>2, <1>8, <2>2, <3>2 DEF On
        <4> QED
          BY <1>5, <4>1 DEF MainInv, UpgradesOK
      <3>3. CASE d = c /\ v = u
        <4>1. s \in {"snapshot", "install"}
          BY <1>8, <2>2, <3>3
        <4>2. CASE upgrade[u].stage[c] = "stop"
          BY <1>10, <3>3, <4>1, <4>2
        <4>3. CASE upgrade[u].stage[c] = "snapshot"
          BY <1>2, <1>10, <3>3, <4>1, <4>3 DEF MainInv, StopsOK
        <4> QED
          BY <1>1, <4>1, <4>2, <4>3
      <3> QED
        BY <3>1, <3>2, <3>3
    <2> QED
      BY <2>1, <2>2 DEF StopsOK
  <1> QED
    BY <1>7, <1>11 DEF MainInv

LEMMA InstallUpgradeHolds ==
    ASSUME MainInv, NEW u \in Upgrade, NEW c \in Canister, InstallUpgrade(u, c),
           UNCHANGED <<main, create, log_storage>>
    PROVE  MainInv'
  <1>1. /\ trade_contracts' = trade_contracts /\ mid_call_data' = mid_call_data
        /\ tc_canister_code' = tc_canister_code /\ storage_canister_code' = storage_canister_code
        /\ create' = create /\ log_storage' = log_storage
        /\ status' = status /\ reported' = reported /\ overlapped' = overlapped
    BY DEF InstallUpgrade, main, codes
  <1> DEFINE code == upgrade[u].code
  <1>2. /\ upgrade[u].stage[c] = "install" /\ installed[c] \in Code
        /\ installed' = [installed EXCEPT ![c] = code]
        /\ upgrade' = [upgrade EXCEPT ![u].stage[c] = "start", ![u].success = @ \cup {c}]
    BY DEF InstallUpgrade
  <1>3. On(u, c) /\ code \in Code /\ upgrade[u].pc = "open"
    BY <1>2, ChainFacts DEF On
  <1>4. CanistersTypeOK
    BY DEF MainInv, MainTypeOK
  <1>5. /\ upgrade' \in [Upgrade -> [pc: {"none", "open", "ended"}, code: Code \cup {NoCode},
                                     snapshots: BOOLEAN, stage: [Canister -> Stage],
                                     success: SUBSET Canister]]
        /\ \A v \in Upgrade :
             /\ upgrade'[v].pc = upgrade[v].pc /\ upgrade'[v].code = upgrade[v].code
             /\ upgrade'[v].success = IF v = u THEN upgrade[v].success \cup {c} ELSE upgrade[v].success
             /\ \A d \in Canister :
                  upgrade'[v].stage[d] = IF v = u /\ d = c THEN "start" ELSE upgrade[v].stage[d]
    <2> DEFINE row == [upgrade[u] EXCEPT !.stage[c] = "start", !.success = @ \cup {c}]
    <2>1. upgrade' = [upgrade EXCEPT ![u] = row]
      BY <1>2
    <2>2. /\ upgrade \in [Upgrade -> [pc: {"none", "open", "ended"}, code: Code \cup {NoCode},
                                     snapshots: BOOLEAN, stage: [Canister -> Stage],
                                     success: SUBSET Canister]]
      BY <1>4 DEF CanistersTypeOK
    <2>3. /\ row \in [pc: {"none", "open", "ended"}, code: Code \cup {NoCode},
                      snapshots: BOOLEAN, stage: [Canister -> Stage], success: SUBSET Canister]
          /\ row.pc = upgrade[u].pc /\ row.code = upgrade[u].code
          /\ row.success = upgrade[u].success \cup {c}
          /\ \A d \in Canister : row.stage[d] = IF d = c THEN "start" ELSE upgrade[u].stage[d]
      BY <2>2 DEF Stage
    <2> HIDE DEF row
    <2> QED
      BY <2>1, <2>2, <2>3
  <1>5a. \A v \in Upgrade : /\ v # u => upgrade'[v].success = upgrade[v].success
                            /\ v = u => upgrade'[v].success = upgrade[v].success \cup {c}
    BY <1>5
  <1>5b. \A v \in Upgrade, d \in Canister : upgrade'[v].stage[d] # upgrade[v].stage[d]
           => v = u /\ d = c /\ upgrade'[v].stage[d] = "start"
    BY <1>5
  <1> HIDE DEF code
  <1>6. /\ installed' \in [Canister -> Code \cup {NoCode, Absent}]
        /\ \A d \in Canister : installed'[d] = IF d = c THEN code ELSE installed[d]
    BY <1>2, <1>3, <1>4 DEF CanistersTypeOK
  <1>7. MainTypeOK'
    BY <1>1, <1>5, <1>6 DEF MainInv, MainTypeOK, CanistersTypeOK
  <1>8. \A d \in Canister : (installed'[d] = Absent <=> installed[d] = Absent)
                         /\ (installed'[d] = NoCode <=> installed[d] = NoCode)
    BY <1>2, <1>3, <1>6, CodeAssumption
  <1>9. Created' = Created
    BY <1>8 DEF Created
  <1>10. CreationOK'
    <2>1. /\ \A p \in Call : Runs(p)' <=> Runs(p)
          /\ NoContract' <=> NoContract
          /\ MidCall' = MidCall
      BY <1>1 DEF Runs, NoContract, MidCall
    <2>2. \A d \in Created : installed'[d] = NoCode <=> installed[d] = NoCode
      BY <1>8 DEF Created
    <2> QED
      BY <1>1, <1>9, <2>1, <2>2 DEF MainInv, CreationOK
  <1>11. PlacesOK'
    <2>1. /\ \A p \in Call : Runs(p)' <=> Runs(p)
          /\ \A d : BeingCreated(d)' <=> BeingCreated(d)
          /\ MidCall' = MidCall
      BY <1>1 DEF Runs, BeingCreated, MidCall
    <2> QED
      BY <1>1, <1>9, <2>1 DEF MainInv, PlacesOK
  <1>12. \A v \in Upgrade, d \in Canister : On(v, d)' <=> On(v, d)
    BY <1>2, <1>5 DEF On
  <1>13. \A v \in Upgrade : upgrade[v].success \subseteq Canister
    BY <1>4 DEF CanistersTypeOK
  <1>14. UpgradesOK'
    <2>1. ASSUME NEW v \in Upgrade
          PROVE  /\ upgrade'[v].pc # "open" => upgrade'[v].success = {} /\ \A d \in Canister : ~On(v, d)'
                 /\ upgrade'[v].pc = "open" => upgrade'[v].code \in Code
                 /\ (\E d \in StorageCanister : On(v, d)')
                    => \A d \in Canister \ StorageCanister : ~On(v, d)'
      BY <1>3, <1>5, <1>12, CMMainAssumption DEF MainInv, UpgradesOK
    <2>2. ASSUME NEW v \in Upgrade, NEW d \in upgrade'[v].success
          PROVE  upgrade'[v].stage[d] \in {"start", "done"}
      <3>1. CASE v = u /\ d = c
        BY <1>5, <3>1
      <3>2. CASE ~(v = u /\ d = c)
        <4>1. d \in upgrade[v].success /\ d \in Canister
          BY <1>5a, <1>13, <2>2, <3>2
        <4>2. upgrade[v].stage[d] \in {"start", "done"}
          BY <4>1 DEF MainInv, UpgradesOK
        <4> QED
          BY <1>5, <3>2, <4>1, <4>2
      <3> QED
        BY <3>1, <3>2
    <2>3. \A v \in Upgrade, d \in Canister : On(v, d)' => installed'[d] # Absent
      BY <1>8, <1>12 DEF MainInv, UpgradesOK
    <2>4. \A v, w \in Upgrade, d \in Canister \ overlapped' : On(v, d)' /\ On(w, d)' => v = w
      BY <1>1, <1>12 DEF MainInv, UpgradesOK
    <2>5. \A v \in Upgrade, p \in Call, d \in Canister :
             create'[p].pc \in {"install", "installed"} /\ create'[p].quest.canister = d /\ On(v, d)'
             => d \in overlapped'
      BY <1>1, <1>12 DEF MainInv, UpgradesOK
    <2>6. \A d \in StorageCanister : installed'[d] \in Code
      BY <1>3, <1>6, CMMainAssumption DEF MainInv, UpgradesOK
    <2> QED
      BY <2>1, <2>2, <2>3, <2>4, <2>5, <2>6 DEF UpgradesOK
  <1>15. \A v \in Upgrade : c \notin overlapped /\ On(v, c) => v = u
    BY <1>3 DEF MainInv, UpgradesOK
  <1>16. HashesOK'
    <2>1. ASSUME NEW v \in Upgrade, NEW d \in upgrade'[v].success \ overlapped'
          PROVE  installed'[d] = upgrade'[v].code
      <3>1. CASE d = c
        <4>1. v = u
          <5>1. CASE v # u
            <6>1. c \in upgrade[v].success
              BY <1>5, <2>1, <3>1, <5>1
            <6>2. On(v, c)
              BY <6>1 DEF MainInv, UpgradesOK, On
            <6> QED
              BY <1>1, <1>15, <2>1, <3>1, <6>2
          <5> QED
            BY <5>1
        <4> QED
          BY <1>5, <1>6, <3>1, <4>1 DEF code
      <3>2. CASE d # c
        <4>1. d \in upgrade[v].success \ overlapped /\ d \in Canister
          BY <1>1, <1>5, <1>13, <2>1, <3>2
        <4>2. installed[d] = upgrade[v].code
          BY <4>1 DEF MainInv, HashesOK
        <4> QED
          BY <1>5, <1>6, <3>2, <4>1, <4>2
      <3> QED
        BY <3>1, <3>2
    <2>2. ~NotReplaced(c)' /\ \A d : d # c => (NotReplaced(d)' <=> NotReplaced(d))
      <3>1. c \in upgrade'[u].success
        BY <1>5
      <3>2. \A v \in Upgrade : \A d : d # c => (d \in upgrade'[v].success <=> d \in upgrade[v].success)
        BY <1>5a
      <3> QED
        BY <3>1, <3>2 DEF NotReplaced
    <2>3. \A i \in DOMAIN trade_contracts', d \in Canister \ overlapped' :
             trade_contracts'[i].canister = d /\ NotReplaced(d)'
             => trade_contracts'[i].hash = installed'[d]
      BY <1>1, <1>6, <2>2 DEF MainInv, HashesOK
    <2>4. \A d \in StorageCanister \ overlapped' :
             NotReplaced(d)' => log_storage'.hash[d] = installed'[d]
      BY <1>1, <1>6, <2>2, CMMainAssumption DEF MainInv, HashesOK
    <2>5. ASSUME NEW p \in Call, create'[p].pc = "installed",
                 create'[p].quest.canister \notin overlapped'
          PROVE  installed'[create'[p].quest.canister] = create'[p].code
      <3>1. create[p].quest.canister \in Created
        BY <1>1, <2>5 DEF MainInv, CreationOK, Runs, NotRunning
      <3>2. create[p].quest.canister \in Canister
        BY <3>1 DEF Created
      <3>3. create[p].quest.canister # c
        BY <1>1, <1>3, <2>5, <3>2 DEF MainInv, UpgradesOK
      <3> QED
        BY <1>1, <1>6, <2>5, <3>2, <3>3 DEF MainInv, HashesOK
    <2> QED
      BY <2>1, <2>3, <2>4, <2>5 DEF HashesOK
  <1>17. StopsOK'
    <2>1. ASSUME NEW d \in Canister
          PROVE  \/ status'[d] = "running" \/ d \in reported'
                 \/ \E v \in Upgrade : upgrade'[v].stage[d] \in {"snapshot", "install", "start"}
      <3>1. CASE d = c
        BY <1>5, <3>1
      <3>2. CASE d # c
        <4>1. \A v \in Upgrade : upgrade'[v].stage[d] = upgrade[v].stage[d]
          BY <1>5, <3>2
        <4>2. \/ status[d] = "running" \/ d \in reported
              \/ \E v \in Upgrade : upgrade[v].stage[d] \in {"snapshot", "install", "start"}
          BY DEF MainInv, StopsOK
        <4> QED
          BY <1>1, <4>1, <4>2
      <3> QED
        BY <3>1, <3>2
    <2>2. ASSUME NEW v \in Upgrade, NEW d \in Canister \ overlapped',
                 upgrade'[v].stage[d] \in {"snapshot", "install"}
          PROVE  status'[d] = "stopped"
      <3>1. upgrade[v].stage[d] = upgrade'[v].stage[d]
        BY <1>5b, <2>2
      <3> QED
        BY <1>1, <2>2, <3>1 DEF MainInv, StopsOK
    <2> QED
      BY <2>1, <2>2 DEF StopsOK
  <1> QED
    BY <1>7, <1>10, <1>11, <1>14, <1>16, <1>17 DEF MainInv

LEMMA ChainHolds ==
    ASSUME MainInv, NEW u \in Upgrade, NEW c \in Canister, Chain(u, c)
    PROVE  MainInv'
  BY QuietStepHolds, InstallUpgradeHolds DEF Chain, ChainStep

-----------------------------------------------------------------------------
(* The creation of trade contracts.                                        *)

LEMMA OneCall ==
    ASSUME NEW quest \in MidCallData, mid_call_data' = <<quest>>
    PROVE  /\ mid_call_data' \in Seq(MidCallData) /\ Len(mid_call_data') <= 1
           /\ mid_call_data' # <<>> /\ MidCall' = quest /\ DOMAIN mid_call_data' = {1}
  BY DEF MidCall

LEMMA RunFacts ==
    ASSUME MainInv, NEW p \in Call, create[p].pc # "none"
    PROVE  /\ Runs(p) /\ create[p] \in Creation
           /\ \A q \in Call \ {p} : ~Runs(q) /\ create[q] = NotRunning
           /\ mid_call_data # <<>> /\ DOMAIN mid_call_data = {1}
           /\ MidCall \in MidCallData /\ create[p].quest \in MidCallData
           /\ MidCall.canister \in {NoCanister, create[p].quest.canister}
           /\ create[p].quest.ledger = MidCall.ledger
           /\ create[p].pc = "begin" => create[p].quest.canister = MidCall.canister
  <1>1. Runs(p) /\ create[p] \in Creation
    BY DEF Runs, NotRunning, MainInv, MainTypeOK
  <1>2. /\ \A q \in Call \ {p} : ~Runs(q) /\ create[q] = NotRunning
        /\ mid_call_data # <<>>
        /\ MidCall.canister \in {NoCanister, create[p].quest.canister}
        /\ create[p].quest.ledger = MidCall.ledger
        /\ create[p].pc = "begin" => create[p].quest.canister = MidCall.canister
    BY <1>1 DEF MainInv, CreationOK, Runs
  <1>3. mid_call_data \in Seq(MidCallData) /\ Len(mid_call_data) <= 1
    BY DEF MainInv, MainTypeOK
  <1>4. Len(mid_call_data) \in Nat /\ Len(mid_call_data) # 0
        /\ DOMAIN mid_call_data = 1 .. Len(mid_call_data)
    BY <1>2, <1>3, EmptySeq
  <1>5. Len(mid_call_data) = 1
    BY <1>3, <1>4
  <1>6. DOMAIN mid_call_data = {1} /\ MidCall \in MidCallData
    <2>1. 1 .. 1 = {1}
      BY SMT
    <2>2. DOMAIN mid_call_data = {1}
      BY <1>4, <1>5, <2>1
    <2> QED
      BY <1>3, <2>2 DEF MidCall
  <1>7. create[p].quest \in MidCallData
    BY <1>1 DEF Creation
  <1> QED
    BY <1>1, <1>2, <1>6, <1>7

(* A call that begins, moves on or returns.                                *)
LEMMA RunMoves ==
    ASSUME MainInv, NEW p \in Call, NEW r \in Creation \cup {NotRunning},
           create' = [create EXCEPT ![p] = r]
    PROVE  /\ create' \in [Call -> Creation \cup {NotRunning}]
           /\ create'[p] = r /\ (Runs(p)' <=> r # NotRunning)
           /\ \A q \in Call \ {p} : create'[q] = create[q] /\ (Runs(q)' <=> Runs(q))
  BY DEF MainInv, MainTypeOK, Runs

(* The upgrades do not look at a creation that is not installing.          *)
LEMMA UpgradesGoOn ==
    ASSUME MainInv, UNCHANGED <<trade_contracts, log_storage, upgrade, canisters>>,
           \A p \in Call : create'[p].pc \in {"install", "installed"} => create'[p] = create[p]
    PROVE  UpgradesOK' /\ HashesOK' /\ StopsOK'
  <1>1. /\ installed' = installed /\ status' = status /\ reported' = reported
        /\ overlapped' = overlapped
    BY DEF canisters
  <1>2. /\ \A u \in Upgrade : \A c : On(u, c)' <=> On(u, c)
        /\ \A c : NotReplaced(c)' <=> NotReplaced(c)
    BY DEF On, NotReplaced
  <1>3. UpgradesOK'
    BY <1>1, <1>2 DEF MainInv, UpgradesOK
  <1>4. HashesOK'
    BY <1>1, <1>2 DEF MainInv, HashesOK
  <1>5. StopsOK'
    BY <1>1 DEF MainInv, StopsOK
  <1> QED
    BY <1>3, <1>4, <1>5

(* A creation starts, the first time or with what mid_call_data keeps.     *)
LEMMA CreationStarts ==
    ASSUME MainInv, NEW p \in Call, NEW quest \in MidCallData,
           create[p] = NotRunning, quest.lock,
           UNCHANGED <<codes, trade_contracts, log_storage, upgrade, canisters>>,
           mid_call_data' = <<quest>>, Running(p, "begin", quest, NoCode),
           \/ mid_call_data = <<>> /\ quest.canister = NoCanister
           \/ /\ mid_call_data # <<>> /\ ~MidCall.lock
              /\ quest.ledger = MidCall.ledger /\ quest.canister = MidCall.canister
    PROVE  MainInv'
  <1> DEFINE r == [pc |-> "begin", quest |-> quest, code |-> NoCode]
  <1>1. /\ trade_contracts' = trade_contracts /\ log_storage' = log_storage /\ upgrade' = upgrade
        /\ tc_canister_code' = tc_canister_code /\ storage_canister_code' = storage_canister_code
        /\ installed' = installed /\ status' = status /\ reported' = reported
        /\ overlapped' = overlapped
    BY DEF codes, canisters
  <1>2. r \in Creation \cup {NotRunning} /\ r # NotRunning /\ r.pc = "begin" /\ r.quest = quest
    BY DEF Creation, NotRunning
  <1>3. create' = [create EXCEPT ![p] = r]
    BY DEF Running
  <1> HIDE DEF r
  <1>4. /\ create' \in [Call -> Creation \cup {NotRunning}]
        /\ create'[p] = r /\ Runs(p)'
        /\ \A q \in Call \ {p} : create'[q] = create[q] /\ (Runs(q)' <=> Runs(q))
    BY <1>2, <1>3, RunMoves
  <1>5. \A q \in Call : ~Runs(q)
    BY DEF MainInv, CreationOK
  <1>6. \A q \in Call \ {p} : create'[q] = NotRunning /\ create'[q].pc = "none" /\ ~Runs(q)'
    BY <1>4, <1>5 DEF Runs, NotRunning
  <1>7. /\ mid_call_data' \in Seq(MidCallData) /\ Len(mid_call_data') <= 1
        /\ mid_call_data' # <<>> /\ MidCall' = quest /\ DOMAIN mid_call_data' = {1}
        /\ mid_call_data'[1] = quest
    BY OneCall DEF MidCall
  <1>8. MainTypeOK'
    BY <1>1, <1>4, <1>7 DEF MainInv, MainTypeOK, CanistersTypeOK
  <1>9. Created' = Created
    BY <1>1 DEF Created
  <1>10. quest.canister # NoCanister =>
            /\ mid_call_data # <<>> /\ MidCall.canister = quest.canister
            /\ quest.canister \in Created /\ installed[quest.canister] = NoCode
            /\ NoContract
    <2>1. \A q \in Call : create[q].pc # "installed"
      BY <1>5 DEF Runs, NotRunning
    <2> QED
      BY <2>1 DEF MainInv, CreationOK
  <1>11. NoContract /\ quest.canister # NoCanister => NoContract'
    BY <1>1, <1>7, <1>10 DEF NoContract
  <1>12. CreationOK'
    BY <1>1, <1>2, <1>4, <1>6, <1>7, <1>9, <1>10, <1>11 DEF CreationOK
  <1>13. PlacesOK'
    <2>1. ASSUME NEW c \in Created'
          PROVE  \/ \E i \in DOMAIN trade_contracts' : trade_contracts'[i].canister = c
                 \/ BeingCreated(c)'
                 \/ \E i \in DOMAIN mid_call_data' : mid_call_data'[i].canister = c
      <3>1. CASE \E i \in DOMAIN trade_contracts : trade_contracts[i].canister = c
        BY <1>1, <3>1
      <3>2. ~BeingCreated(c)
        BY <1>5 DEF BeingCreated, Runs
      <3>3. CASE \E i \in DOMAIN mid_call_data : mid_call_data[i].canister = c
        <4>1. MidCall.canister = c /\ mid_call_data # <<>>
          <5>1. mid_call_data \in Seq(MidCallData) /\ Len(mid_call_data) <= 1
            BY DEF MainInv, MainTypeOK
          <5>2. PICK i \in DOMAIN mid_call_data : mid_call_data[i].canister = c
            BY <3>3
          <5>3. i = 1 /\ mid_call_data # <<>>
            BY <5>1, <5>2
          <5> QED
            BY <5>2, <5>3 DEF MidCall
        <4>2. quest.canister = c
          BY <4>1
        <4> QED
          BY <1>7, <4>2
      <3> QED
        BY <1>9, <2>1, <3>1, <3>2, <3>3 DEF MainInv, PlacesOK
    <2>2. ASSUME NEW i \in DOMAIN trade_contracts
          PROVE  /\ trade_contracts[i].canister \in Created
                 /\ trade_contracts[i].canister # quest.canister
      <3>1. trade_contracts[i].canister \in Created
            /\ (mid_call_data # <<>> => trade_contracts[i].canister # MidCall.canister)
        BY DEF MainInv, PlacesOK
      <3>2. trade_contracts[i].canister # NoCanister
        BY <3>1, CMMainAssumption DEF Created
      <3> QED
        BY <1>10, <3>1, <3>2
    <2>3. \A q \in Call : Runs(q)' => q = p
      BY <1>6
    <2>4. \A i, j \in DOMAIN trade_contracts' :
             \/ trade_contracts'[i].ledger = trade_contracts'[j].ledger
             \/ trade_contracts'[i].canister = trade_contracts'[j].canister
             => i = j
      BY <1>1 DEF MainInv, PlacesOK
    <2>5. \A i \in DOMAIN trade_contracts' :
             /\ trade_contracts'[i].canister \in Created'
             /\ \A q \in Call : Runs(q)' => trade_contracts'[i].canister # create'[q].quest.canister
             /\ mid_call_data' # <<>> => trade_contracts'[i].canister # MidCall'.canister
      BY <1>1, <1>2, <1>4, <1>7, <1>9, <2>2, <2>3
    <2> QED
      BY <2>1, <2>4, <2>5 DEF PlacesOK
  <1>14. UpgradesOK' /\ HashesOK' /\ StopsOK'
    <2>1. \A q \in Call : create'[q].pc \in {"install", "installed"} => create'[q] = create[q]
      BY <1>2, <1>4, <1>6
    <2> QED
      BY <2>1, UpgradesGoOn
  <1> QED
    BY <1>8, <1>12, <1>13, <1>14 DEF MainInv

(* A creation that has no canister yet ends without one.                   *)
LEMMA CreationEnds ==
    ASSUME MainInv, NEW p \in Call, create[p].pc # "none", create[p].quest.canister = NoCanister,
           UNCHANGED <<codes, trade_contracts, log_storage, upgrade, canisters>>,
           mid_call_data' = <<>>, Returns(p)
    PROVE  MainInv'
  <1>1. /\ trade_contracts' = trade_contracts /\ log_storage' = log_storage /\ upgrade' = upgrade
        /\ tc_canister_code' = tc_canister_code /\ storage_canister_code' = storage_canister_code
        /\ installed' = installed /\ status' = status /\ reported' = reported
        /\ overlapped' = overlapped
    BY DEF codes, canisters
  <1>2. /\ create' \in [Call -> Creation \cup {NotRunning}]
        /\ create'[p] = NotRunning /\ ~Runs(p)'
        /\ \A q \in Call \ {p} : create'[q] = create[q] /\ (Runs(q)' <=> Runs(q))
    BY RunMoves DEF Returns
  <1>3. /\ \A q \in Call \ {p} : ~Runs(q) /\ create[q] = NotRunning
        /\ mid_call_data # <<>> /\ DOMAIN mid_call_data = {1}
        /\ MidCall.canister = NoCanister
    BY RunFacts
  <1>4. \A q \in Call : create'[q] = NotRunning /\ ~Runs(q)' /\ create'[q].pc = "none"
    BY <1>2, <1>3 DEF NotRunning
  <1>5. mid_call_data' \in Seq(MidCallData) /\ Len(mid_call_data') <= 1 /\ DOMAIN mid_call_data' = {}
    OBVIOUS
  <1>6. MainTypeOK'
    BY <1>1, <1>2, <1>5 DEF MainInv, MainTypeOK, CanistersTypeOK
  <1>7. CreationOK'
    BY <1>4 DEF CreationOK
  <1>8. Created' = Created /\ Created \subseteq Canister
    BY <1>1 DEF Created
  <1>9. PlacesOK'
    <2>1. ASSUME NEW c \in Created
          PROVE  \E i \in DOMAIN trade_contracts : trade_contracts[i].canister = c
      <3>1. c # NoCanister
        BY <1>8, CMMainAssumption
      <3>2. ~BeingCreated(c)
        BY <1>3, <3>1 DEF BeingCreated, Runs
      <3>3. \A i \in DOMAIN mid_call_data : mid_call_data[i].canister # c
        BY <1>3, <3>1 DEF MidCall
      <3> QED
        BY <3>2, <3>3 DEF MainInv, PlacesOK
    <2>2. /\ \A i, j \in DOMAIN trade_contracts :
               \/ trade_contracts[i].ledger = trade_contracts[j].ledger
               \/ trade_contracts[i].canister = trade_contracts[j].canister
               => i = j
          /\ \A i \in DOMAIN trade_contracts : trade_contracts[i].canister \in Created
      BY DEF MainInv, PlacesOK
    <2> QED
      BY <1>1, <1>4, <1>8, <2>1, <2>2 DEF PlacesOK
  <1>10. UpgradesOK' /\ HashesOK' /\ StopsOK'
    BY <1>4, UpgradesGoOn
  <1> QED
    BY <1>6, <1>7, <1>9, <1>10 DEF MainInv

LEMMA BeginCreateHolds ==
    ASSUME MainInv, NEW p \in Call, BeginCreate(p)
    PROVE  MainInv'
  <1>1. /\ create[p].pc = "begin"
        /\ UNCHANGED <<codes, trade_contracts, log_storage, upgrade, canisters>>
    BY DEF BeginCreate
  <1>2. /\ Runs(p) /\ create[p] \in Creation
        /\ \A q \in Call \ {p} : ~Runs(q) /\ create[q] = NotRunning
        /\ mid_call_data # <<>> /\ DOMAIN mid_call_data = {1}
        /\ MidCall \in MidCallData /\ create[p].quest \in MidCallData
        /\ create[p].quest.ledger = MidCall.ledger
        /\ create[p].quest.canister = MidCall.canister
    BY <1>1, RunFacts
  <1>3. CASE mid_call_data' = <<>> /\ Returns(p)
    <2>1. create[p].quest.canister = NoCanister
      <3>1. CASE HasContract(create[p].quest.ledger)
        <4>1. ~NoContract
          BY <1>2, <3>1 DEF NoContract, HasContract
        <4> QED
          BY <1>2, <4>1 DEF MainInv, CreationOK
      <3>2. CASE ~HasContract(create[p].quest.ledger)
        BY <3>2 DEF BeginCreate
      <3> QED
        BY <3>1, <3>2
    <2> QED
      BY <1>1, <1>3, <2>1, CreationEnds
  <1>4. CASE ~(mid_call_data' = <<>> /\ Returns(p))
    <2>1. /\ ~HasContract(create[p].quest.ledger) /\ create[p].quest.canister = NoCanister
          /\ mid_call_data' = mid_call_data /\ Running(p, "create", create[p].quest, NoCode)
      BY <1>4 DEF BeginCreate
    <2> DEFINE r == [pc |-> "create", quest |-> create[p].quest, code |-> NoCode]
    <2>2. r \in Creation \cup {NotRunning} /\ r # NotRunning /\ r.pc = "create"
          /\ r.quest = create[p].quest
      BY <1>2 DEF Creation, NotRunning
    <2>3. create' = [create EXCEPT ![p] = r]
      BY <2>1 DEF Running
    <2> HIDE DEF r
    <2>4. /\ create' \in [Call -> Creation \cup {NotRunning}]
          /\ create'[p] = r /\ Runs(p)'
          /\ \A q \in Call \ {p} : create'[q] = create[q] /\ (Runs(q)' <=> Runs(q))
      BY <2>2, <2>3, RunMoves
    <2>5. \A q \in Call \ {p} : ~Runs(q)' /\ create'[q].pc = "none"
      BY <1>2, <2>4 DEF NotRunning
    <2>6. /\ trade_contracts' = trade_contracts /\ log_storage' = log_storage /\ upgrade' = upgrade
          /\ tc_canister_code' = tc_canister_code /\ storage_canister_code' = storage_canister_code
          /\ installed' = installed /\ status' = status /\ reported' = reported
          /\ overlapped' = overlapped
      BY <1>1 DEF codes, canisters
    <2>7. MainTypeOK'
      BY <2>1, <2>4, <2>6 DEF MainInv, MainTypeOK, CanistersTypeOK
    <2>8. NoContract /\ NoContract' /\ MidCall' = MidCall /\ Created' = Created
      BY <1>2, <2>1, <2>6 DEF NoContract, HasContract, MidCall, Created
    <2>9. CreationOK'
      <3>1. MidCall.lock /\ MidCall.canister = NoCanister
        BY <1>2, <2>1 DEF MainInv, CreationOK
      <3> QED
        BY <1>2, <2>1, <2>2, <2>4, <2>5, <2>8, <3>1 DEF CreationOK
    <2>10. PlacesOK'
      <3>1. \A q \in Call : Runs(q)' => Runs(q) /\ create'[q].quest = create[q].quest
        BY <1>2, <2>2, <2>4
      <3>2. \A c : BeingCreated(c)' <=> BeingCreated(c)
        BY <1>2, <2>2, <2>4 DEF BeingCreated, Runs
      <3> QED
        BY <2>1, <2>6, <2>8, <3>1, <3>2 DEF MainInv, PlacesOK
    <2>11. UpgradesOK' /\ HashesOK' /\ StopsOK'
      <3>1. \A q \in Call : create'[q].pc \in {"install", "installed"} => create'[q] = create[q]
        BY <2>2, <2>4
      <3> QED
        BY <1>1, <3>1, UpgradesGoOn
    <2> QED
      BY <2>7, <2>9, <2>10, <2>11 DEF MainInv
  <1> QED
    BY <1>3, <1>4

LEMMA BeginInstallHolds ==
    ASSUME MainInv, NEW p \in Call, BeginInstall(p)
    PROVE  MainInv'
  <1> DEFINE c == create[p].quest.canister
             r == CallInstall(p)
  <1>1. /\ create[p].pc = "begin" /\ ~HasContract(create[p].quest.ledger) /\ c # NoCanister
        /\ create' = [create EXCEPT ![p] = r]
        /\ overlapped' = overlapped \cup ({c} \cap OnOpenList)
        /\ trade_contracts' = trade_contracts /\ log_storage' = log_storage /\ upgrade' = upgrade
        /\ tc_canister_code' = tc_canister_code /\ storage_canister_code' = storage_canister_code
        /\ mid_call_data' = mid_call_data
        /\ installed' = installed /\ status' = status /\ reported' = reported
    BY DEF BeginInstall, main, codes
  <1>2. /\ Runs(p) /\ create[p] \in Creation
        /\ \A q \in Call \ {p} : ~Runs(q) /\ create[q] = NotRunning
        /\ mid_call_data # <<>> /\ DOMAIN mid_call_data = {1}
        /\ MidCall \in MidCallData /\ create[p].quest \in MidCallData
        /\ create[p].quest.ledger = MidCall.ledger
        /\ create[p].quest.canister = MidCall.canister
    BY <1>1, RunFacts
  <1>3. /\ r \in Creation \cup {NotRunning} /\ r # NotRunning /\ r.pc = "install"
        /\ r.quest = create[p].quest /\ r.code \in Code
    BY <1>2 DEF CallInstall, Creation, NotRunning, MainInv, MainTypeOK
  <1> HIDE DEF r
  <1>4. /\ create' \in [Call -> Creation \cup {NotRunning}]
        /\ create'[p] = r /\ Runs(p)'
        /\ \A q \in Call \ {p} : create'[q] = create[q] /\ (Runs(q)' <=> Runs(q))
    BY <1>1, <1>3, RunMoves
  <1>5. \A q \in Call \ {p} : ~Runs(q)' /\ create'[q].pc = "none"
    BY <1>2, <1>4 DEF NotRunning
  <1>6. MainTypeOK'
    BY <1>1, <1>4 DEF MainInv, MainTypeOK, CanistersTypeOK, OnOpenList
  <1>7. NoContract' /\ MidCall' = MidCall /\ Created' = Created
    BY <1>1, <1>2 DEF NoContract, HasContract, MidCall, Created
  <1>8. /\ c \in Created /\ installed[c] = NoCode /\ MidCall.lock /\ c \in Canister
        /\ \A q \in Call : create[q].pc # "installed"
    <2>1. \A q \in Call : create[q].pc # "installed"
      BY <1>1, <1>2 DEF NotRunning
    <2> QED
      BY <1>1, <1>2, <2>1 DEF MainInv, CreationOK, Created
  <1>9. CreationOK'
    BY <1>1, <1>2, <1>3, <1>4, <1>5, <1>7, <1>8 DEF CreationOK
  <1>10. PlacesOK'
    <2>1. \A q \in Call : Runs(q)' => Runs(q) /\ create'[q].quest = create[q].quest
      BY <1>2, <1>3, <1>4
    <2>2. \A d : BeingCreated(d)' <=> BeingCreated(d)
      BY <1>2, <1>3, <1>4 DEF BeingCreated, Runs
    <2> QED
      BY <1>1, <1>7, <2>1, <2>2 DEF MainInv, PlacesOK
  <1>11. /\ \A u \in Upgrade : \A d : On(u, d)' <=> On(u, d)
         /\ \A d : NotReplaced(d)' <=> NotReplaced(d)
    BY <1>1 DEF On, NotReplaced
  <1>12. UpgradesOK'
    <2>1. \A u \in Upgrade : On(u, c) => c \in overlapped'
      BY <1>1, <1>8 DEF OnOpenList, On
    <2>2. \A u \in Upgrade, q \in Call, d \in Canister :
             create'[q].pc \in {"install", "installed"} /\ create'[q].quest.canister = d /\ On(u, d)
             => d \in overlapped'
      BY <1>3, <1>4, <1>5, <2>1
    <2> QED
      BY <1>1, <1>11, <2>2 DEF MainInv, UpgradesOK
  <1>13. HashesOK'
    <2>1. \A q \in Call : create'[q].pc # "installed"
      BY <1>3, <1>4, <1>5
    <2> QED
      BY <1>1, <1>11, <2>1 DEF MainInv, HashesOK
  <1>14. StopsOK'
    BY <1>1 DEF MainInv, StopsOK
  <1> QED
    BY <1>6, <1>9, <1>10, <1>12, <1>13, <1>14 DEF MainInv

LEMMA CanisterCreatedHolds ==
    ASSUME MainInv, NEW p \in Call, NEW c \in Canister, CanisterCreated(p, c)
    PROVE  MainInv'
  <1> DEFINE r == [CallInstall(p) EXCEPT !.quest.canister = c]
  <1>1. /\ create[p].pc = "create" /\ installed[c] = Absent
        /\ create' = [create EXCEPT ![p] = r]
        /\ installed' = [installed EXCEPT ![c] = NoCode]
        /\ trade_contracts' = trade_contracts /\ log_storage' = log_storage /\ upgrade' = upgrade
        /\ tc_canister_code' = tc_canister_code /\ storage_canister_code' = storage_canister_code
        /\ mid_call_data' = mid_call_data
        /\ overlapped' = overlapped /\ status' = status /\ reported' = reported
    BY DEF CanisterCreated, main, codes
  <1>2. /\ Runs(p) /\ create[p] \in Creation
        /\ \A q \in Call \ {p} : ~Runs(q) /\ create[q] = NotRunning
        /\ mid_call_data # <<>> /\ DOMAIN mid_call_data = {1}
        /\ MidCall \in MidCallData /\ create[p].quest \in MidCallData
        /\ create[p].quest.ledger = MidCall.ledger
    BY <1>1, RunFacts
  <1>3. /\ MidCall.lock /\ NoContract
        /\ MidCall.canister = NoCanister /\ create[p].quest.canister = NoCanister
    BY <1>1, <1>2 DEF MainInv, CreationOK
  <1>4. /\ r \in Creation \cup {NotRunning} /\ r # NotRunning /\ r.pc = "install"
        /\ r.quest.ledger = create[p].quest.ledger /\ r.quest.canister = c /\ r.code \in Code
    <2>1. r = [pc |-> "install", quest |-> [create[p].quest EXCEPT !.canister = c],
               code |-> tc_canister_code]
      BY DEF CallInstall
    <2>2. [create[p].quest EXCEPT !.canister = c] \in MidCallData
      BY <1>2 DEF MidCallData
    <2> QED
      BY <1>2, <2>1, <2>2 DEF Creation, NotRunning, MainInv, MainTypeOK, MidCallData
  <1> HIDE DEF r
  <1>5. /\ create' \in [Call -> Creation \cup {NotRunning}]
        /\ create'[p] = r /\ Runs(p)'
        /\ \A q \in Call \ {p} : create'[q] = create[q] /\ (Runs(q)' <=> Runs(q))
    BY <1>1, <1>4, RunMoves
  <1>6. \A q \in Call \ {p} : ~Runs(q)' /\ create'[q].pc = "none"
    BY <1>2, <1>5 DEF NotRunning
  <1>7. /\ installed' \in [Canister -> Code \cup {NoCode, Absent}]
        /\ \A d \in Canister : installed'[d] = IF d = c THEN NoCode ELSE installed[d]
    BY <1>1 DEF MainInv, MainTypeOK, CanistersTypeOK
  <1>8. MainTypeOK'
    BY <1>1, <1>5, <1>7 DEF MainInv, MainTypeOK, CanistersTypeOK
  (* No canister of the system was absent.                                 *)
  <1>9. /\ c \notin Created /\ c \notin StorageCanister
        /\ \A u \in Upgrade : ~On(u, c) /\ c \notin upgrade[u].success
    <2>1. \A u \in Upgrade : ~On(u, c)
      BY <1>1 DEF MainInv, UpgradesOK
    <2>2. \A u \in Upgrade : c \notin upgrade[u].success
      BY <2>1 DEF MainInv, UpgradesOK, On
    <2> QED
      BY <1>1, <2>1, <2>2, CodeAssumption DEF Created, MainInv, UpgradesOK
  <1>10. Created' = Created \cup {c}
    BY <1>7, <1>9, CodeAssumption DEF Created
  <1>11. NoContract' /\ MidCall' = MidCall
    BY <1>1, <1>3 DEF NoContract, MidCall
  <1>12. CreationOK'
    BY <1>1, <1>2, <1>3, <1>4, <1>5, <1>6, <1>7, <1>10, <1>11 DEF CreationOK
  <1>13. PlacesOK'
    <2>1. ASSUME NEW d \in Created'
          PROVE  \/ \E i \in DOMAIN trade_contracts' : trade_contracts'[i].canister = d
                 \/ BeingCreated(d)'
                 \/ \E i \in DOMAIN mid_call_data' : mid_call_data'[i].canister = d
      <3>1. CASE d = c
        BY <1>4, <1>5, <3>1 DEF BeingCreated, Runs
      <3>2. CASE d # c
        <4>1. d \in Created /\ d \in Canister
          BY <1>10, <3>2 DEF Created
        <4>2. ~BeingCreated(d)
          BY <1>2, <1>3, <4>1, CMMainAssumption DEF BeingCreated, Runs
        <4> QED
          BY <1>1, <4>1, <4>2 DEF MainInv, PlacesOK
      <3> QED
        BY <3>1, <3>2
    <2>2. \A i \in DOMAIN trade_contracts :
             trade_contracts[i].canister \in Created /\ trade_contracts[i].canister # c
      BY <1>9 DEF MainInv, PlacesOK
    <2>3. \A i \in DOMAIN trade_contracts' :
             /\ trade_contracts'[i].canister \in Created'
             /\ \A q \in Call : Runs(q)' => trade_contracts'[i].canister # create'[q].quest.canister
             /\ mid_call_data' # <<>> => trade_contracts'[i].canister # MidCall'.canister
      <3>1. \A i \in DOMAIN trade_contracts :
               mid_call_data # <<>> => trade_contracts[i].canister # MidCall.canister
        BY DEF MainInv, PlacesOK
      <3>2. \A q \in Call : Runs(q)' => q = p
        BY <1>6
      <3> QED
        BY <1>1, <1>4, <1>5, <1>10, <1>11, <2>2, <3>1, <3>2
    <2>4. \A i, j \in DOMAIN trade_contracts' :
             \/ trade_contracts'[i].ledger = trade_contracts'[j].ledger
             \/ trade_contracts'[i].canister = trade_contracts'[j].canister
             => i = j
      BY <1>1 DEF MainInv, PlacesOK
    <2> QED
      BY <2>1, <2>3, <2>4 DEF PlacesOK
  <1>14. /\ \A u \in Upgrade : \A d : On(u, d)' <=> On(u, d)
         /\ \A d : NotReplaced(d)' <=> NotReplaced(d)
    BY <1>1 DEF On, NotReplaced
  <1>15. UpgradesOK'
    <2>1. \A u \in Upgrade, d \in Canister : On(u, d)' => installed'[d] # Absent
      BY <1>7, <1>9, <1>14 DEF MainInv, UpgradesOK
    <2>2. \A u \in Upgrade, q \in Call, d \in Canister :
             create'[q].pc \in {"install", "installed"} /\ create'[q].quest.canister = d /\ On(u, d)'
             => d \in overlapped'
      BY <1>4, <1>5, <1>6, <1>9, <1>14
    <2>3. \A d \in StorageCanister : installed'[d] \in Code
      BY <1>7, <1>9, CMMainAssumption DEF MainInv, UpgradesOK
    <2> QED
      BY <1>1, <1>14, <2>1, <2>2, <2>3 DEF MainInv, UpgradesOK
  <1>16. HashesOK'
    <2>1. \A q \in Call : create'[q].pc # "installed"
      BY <1>4, <1>5, <1>6
    <2>2. \A u \in Upgrade : \A d \in upgrade[u].success : d \in Canister /\ d # c
      BY <1>9 DEF MainInv, MainTypeOK, CanistersTypeOK
    <2>3. \A i \in DOMAIN trade_contracts : trade_contracts[i].canister # c
      BY <1>9 DEF MainInv, PlacesOK
    <2>4. \A u \in Upgrade : \A d \in upgrade'[u].success \ overlapped' :
             installed'[d] = upgrade'[u].code
      BY <1>1, <1>7, <2>2 DEF MainInv, HashesOK
    <2>5. \A i \in DOMAIN trade_contracts', d \in Canister \ overlapped' :
             trade_contracts'[i].canister = d /\ NotReplaced(d)'
             => trade_contracts'[i].hash = installed'[d]
      BY <1>1, <1>7, <1>14, <2>3 DEF MainInv, HashesOK
    <2>6. \A d \in StorageCanister \ overlapped' :
             NotReplaced(d)' => log_storage'.hash[d] = installed'[d]
      BY <1>1, <1>7, <1>9, <1>14, CMMainAssumption DEF MainInv, HashesOK
    <2> QED
      BY <2>1, <2>4, <2>5, <2>6 DEF HashesOK
  <1>17. StopsOK'
    BY <1>1 DEF MainInv, StopsOK
  <1> QED
    BY <1>8, <1>12, <1>13, <1>15, <1>16, <1>17 DEF MainInv

(* What is known of the canister that a creation installs.                 *)
LEMMA InstallFacts ==
    ASSUME MainInv, NEW p \in Call, create[p].pc \in {"install", "installed"}
    PROVE  /\ create[p].quest.canister \in Created /\ create[p].quest.canister \in Canister
           /\ create[p].quest.canister \notin StorageCanister
           /\ create[p].quest.canister # NoCanister
           /\ create[p].code \in Code /\ NoContract /\ MidCall.lock
           /\ create[p].pc = "install" => installed[create[p].quest.canister] = NoCode
           /\ \A i \in DOMAIN trade_contracts :
                trade_contracts[i].canister # create[p].quest.canister
           /\ \A u \in Upgrade : create[p].quest.canister \notin overlapped =>
                create[p].quest.canister \notin upgrade[u].success
  <1>1. Runs(p)
    BY DEF Runs, NotRunning
  <1>2. /\ create[p].quest.canister \in Created /\ create[p].quest.canister \in Canister
        /\ create[p].quest.canister \notin StorageCanister
        /\ create[p].code \in Code /\ NoContract /\ MidCall.lock
        /\ create[p].pc = "install" => installed[create[p].quest.canister] = NoCode
    BY <1>1 DEF MainInv, CreationOK, Created
  <1>3. \A i \in DOMAIN trade_contracts : trade_contracts[i].canister # create[p].quest.canister
    BY <1>1 DEF MainInv, PlacesOK
  <1>4. \A u \in Upgrade : create[p].quest.canister \notin overlapped =>
           create[p].quest.canister \notin upgrade[u].success
    <2>1. \A c \in Canister, u \in Upgrade :
             create[p].quest.canister = c /\ c \notin overlapped => ~On(u, c)
      BY DEF MainInv, UpgradesOK
    <2>2. \A c \in Canister, u \in Upgrade : c \in upgrade[u].success => On(u, c)
      BY DEF MainInv, UpgradesOK, On
    <2> QED
      BY <1>2, <2>1, <2>2
  <1> QED
    BY <1>2, <1>3, <1>4, CMMainAssumption

LEMMA CodeInstalledHolds ==
    ASSUME MainInv, NEW p \in Call, CodeInstalled(p)
    PROVE  MainInv'
  <1> DEFINE c == create[p].quest.canister
             r == [create[p] EXCEPT !.pc = "installed"]
  <1>1. /\ create[p].pc = "install" /\ installed[c] = NoCode
        /\ create' = [create EXCEPT ![p] = r]
        /\ installed' = [installed EXCEPT ![c] = create[p].code]
        /\ trade_contracts' = trade_contracts /\ log_storage' = log_storage /\ upgrade' = upgrade
        /\ tc_canister_code' = tc_canister_code /\ storage_canister_code' = storage_canister_code
        /\ mid_call_data' = mid_call_data
        /\ overlapped' = overlapped /\ status' = status /\ reported' = reported
    BY DEF CodeInstalled, main, codes
  <1>2. /\ Runs(p) /\ create[p] \in Creation
        /\ \A q \in Call \ {p} : ~Runs(q) /\ create[q] = NotRunning
        /\ mid_call_data # <<>> /\ DOMAIN mid_call_data = {1}
        /\ MidCall \in MidCallData /\ MidCall.canister \in {NoCanister, c}
        /\ create[p].quest.ledger = MidCall.ledger
    BY <1>1, RunFacts
  <1>3. /\ c \in Created /\ c \in Canister /\ c \notin StorageCanister /\ c # NoCanister
        /\ create[p].code \in Code /\ NoContract /\ MidCall.lock
        /\ \A i \in DOMAIN trade_contracts : trade_contracts[i].canister # c
        /\ \A u \in Upgrade : c \notin overlapped => c \notin upgrade[u].success
    BY <1>1, InstallFacts
  <1>4. /\ r \in Creation \cup {NotRunning} /\ r # NotRunning /\ r.pc = "installed"
        /\ r.quest = create[p].quest /\ r.code = create[p].code
    BY <1>2 DEF Creation, NotRunning
  <1> HIDE DEF r
  <1>5. /\ create' \in [Call -> Creation \cup {NotRunning}]
        /\ create'[p] = r /\ Runs(p)'
        /\ \A q \in Call \ {p} : create'[q] = create[q] /\ (Runs(q)' <=> Runs(q))
    BY <1>1, <1>4, RunMoves
  <1>6. \A q \in Call \ {p} : ~Runs(q)' /\ create'[q].pc = "none"
    BY <1>2, <1>5 DEF NotRunning
  <1>7. /\ installed' \in [Canister -> Code \cup {NoCode, Absent}]
        /\ \A d \in Canister : installed'[d] = IF d = c THEN create[p].code ELSE installed[d]
    BY <1>1, <1>3 DEF MainInv, MainTypeOK, CanistersTypeOK
  <1>8. MainTypeOK'
    BY <1>1, <1>5, <1>7 DEF MainInv, MainTypeOK, CanistersTypeOK
  <1>9. Created' = Created
    BY <1>1, <1>3, <1>7, CodeAssumption DEF Created
  <1>10. NoContract' /\ MidCall' = MidCall
    BY <1>1, <1>3 DEF NoContract, MidCall
  <1>11. CreationOK'
    <2> HIDE DEF c
    <2>1. c \in Created' /\ create'[p].quest.canister = c /\ create'[p].pc = "installed"
          /\ create'[p].code \in Code
      BY <1>3, <1>4, <1>5, <1>9 DEF c
    <2> QED
      BY <1>1, <1>2, <1>3, <1>4, <1>5, <1>6, <1>10, <2>1 DEF CreationOK
  <1>12. PlacesOK'
    <2>1. \A q \in Call : Runs(q)' => Runs(q) /\ create'[q].quest = create[q].quest
      BY <1>2, <1>4, <1>5
    <2>2. \A d : BeingCreated(d)' <=> BeingCreated(d)
      BY <1>2, <1>4, <1>5 DEF BeingCreated, Runs
    <2> QED
      BY <1>1, <1>9, <1>10, <2>1, <2>2 DEF MainInv, PlacesOK
  <1>13. /\ \A u \in Upgrade : \A d : On(u, d)' <=> On(u, d)
         /\ \A d : NotReplaced(d)' <=> NotReplaced(d)
    BY <1>1 DEF On, NotReplaced
  <1>14. UpgradesOK'
    <2>1. \A u \in Upgrade, d \in Canister : On(u, d)' => installed'[d] # Absent
      BY <1>3, <1>7, <1>13, CodeAssumption DEF MainInv, UpgradesOK
    <2>2. \A u \in Upgrade, q \in Call, d \in Canister :
             create'[q].pc \in {"install", "installed"} /\ create'[q].quest.canister = d /\ On(u, d)'
             => d \in overlapped'
      BY <1>1, <1>4, <1>5, <1>6, <1>13 DEF MainInv, UpgradesOK
    <2>3. \A d \in StorageCanister : installed'[d] \in Code
      BY <1>3, <1>7, CMMainAssumption DEF MainInv, UpgradesOK
    <2> QED
      BY <1>1, <1>13, <2>1, <2>2, <2>3 DEF MainInv, UpgradesOK
  <1>15. HashesOK'
    <2>1. ASSUME NEW q \in Call, create'[q].pc = "installed"
          PROVE  installed'[create'[q].quest.canister] = create'[q].code
      <3>1. q = p
        BY <1>6, <2>1
      <3> QED
        BY <1>3, <1>4, <1>5, <1>7, <3>1
    <2>2. \A u \in Upgrade : \A d \in upgrade'[u].success \ overlapped' :
             installed'[d] = upgrade'[u].code
      <3>1. \A u \in Upgrade : \A d \in upgrade[u].success \ overlapped : d \in Canister /\ d # c
        BY <1>3 DEF MainInv, MainTypeOK, CanistersTypeOK
      <3> QED
        BY <1>1, <1>7, <3>1 DEF MainInv, HashesOK
    <2>3. \A i \in DOMAIN trade_contracts', d \in Canister \ overlapped' :
             trade_contracts'[i].canister = d /\ NotReplaced(d)'
             => trade_contracts'[i].hash = installed'[d]
      BY <1>1, <1>3, <1>7, <1>13 DEF MainInv, HashesOK
    <2>4. \A d \in StorageCanister \ overlapped' :
             NotReplaced(d)' => log_storage'.hash[d] = installed'[d]
      BY <1>1, <1>3, <1>7, <1>13, CMMainAssumption DEF MainInv, HashesOK
    <2> QED
      BY <2>1, <2>2, <2>3, <2>4 DEF HashesOK
  <1>16. StopsOK'
    BY <1>1 DEF MainInv, StopsOK
  <1> QED
    BY <1>8, <1>11, <1>12, <1>14, <1>15, <1>16 DEF MainInv

LEMMA InstallFailsHolds ==
    ASSUME MainInv, NEW p \in Call, InstallFails(p)
    PROVE  MainInv'
  <1> DEFINE c == create[p].quest.canister
             kept == [create[p].quest EXCEPT !.lock = FALSE]
  <1>1. /\ create[p].pc = "install" /\ mid_call_data' = <<kept>> /\ Returns(p)
        /\ trade_contracts' = trade_contracts /\ log_storage' = log_storage /\ upgrade' = upgrade
        /\ tc_canister_code' = tc_canister_code /\ storage_canister_code' = storage_canister_code
        /\ installed' = installed /\ UNCHANGED canisters
        /\ overlapped' = overlapped /\ status' = status /\ reported' = reported
    BY DEF InstallFails, canisters, codes
  <1>2. /\ \A q \in Call \ {p} : ~Runs(q) /\ create[q] = NotRunning
        /\ create[p].quest \in MidCallData /\ DOMAIN mid_call_data = {1}
        /\ MidCall \in MidCallData /\ MidCall.canister \in {NoCanister, c}
        /\ create[p].quest.ledger = MidCall.ledger
    BY <1>1, RunFacts
  <1>3. /\ c \in Created /\ c \in Canister /\ c # NoCanister
        /\ NoContract /\ installed[c] = NoCode
        /\ \A i \in DOMAIN trade_contracts : trade_contracts[i].canister # c
    BY <1>1, InstallFacts
  <1>4. kept \in MidCallData /\ kept.ledger = MidCall.ledger /\ kept.canister = c /\ ~kept.lock
    BY <1>2 DEF MidCallData
  <1> HIDE DEF kept
  <1>5. /\ mid_call_data' \in Seq(MidCallData) /\ Len(mid_call_data') <= 1
        /\ mid_call_data' # <<>> /\ MidCall' = kept /\ DOMAIN mid_call_data' = {1}
        /\ mid_call_data'[1] = kept
    BY <1>1, <1>4, OneCall DEF MidCall
  <1>6. /\ create' \in [Call -> Creation \cup {NotRunning}]
        /\ create'[p] = NotRunning /\ ~Runs(p)'
        /\ \A q \in Call \ {p} : create'[q] = create[q] /\ (Runs(q)' <=> Runs(q))
    BY <1>1, RunMoves DEF Returns
  <1>7. \A q \in Call : create'[q] = NotRunning /\ ~Runs(q)' /\ create'[q].pc = "none"
    BY <1>2, <1>6 DEF NotRunning
  <1>8. MainTypeOK'
    BY <1>1, <1>5, <1>6 DEF MainInv, MainTypeOK, CanistersTypeOK
  <1>9. Created' = Created /\ NoContract'
    BY <1>1, <1>3, <1>4, <1>5 DEF Created, NoContract
  <1>10. CreationOK'
    BY <1>1, <1>3, <1>4, <1>5, <1>7, <1>9 DEF CreationOK
  <1>11. PlacesOK'
    <2>1. ASSUME NEW d \in Created'
          PROVE  \/ \E i \in DOMAIN trade_contracts' : trade_contracts'[i].canister = d
                 \/ \E i \in DOMAIN mid_call_data' : mid_call_data'[i].canister = d
      <3>1. CASE d = c
        BY <1>4, <1>5, <3>1
      <3>2. CASE d # c
        <4>1. d \in Created /\ d \in Canister /\ d # NoCanister
          BY <1>9, CMMainAssumption DEF Created
        <4>2. ~BeingCreated(d)
          BY <1>2, <3>2 DEF BeingCreated, Runs
        <4>3. \A i \in DOMAIN mid_call_data : mid_call_data[i].canister # d
          BY <1>2, <3>2, <4>1 DEF MidCall
        <4> QED
          BY <1>1, <4>1, <4>2, <4>3 DEF MainInv, PlacesOK
      <3> QED
        BY <3>1, <3>2
    <2>2. \A i \in DOMAIN trade_contracts' :
             /\ trade_contracts'[i].canister \in Created'
             /\ trade_contracts'[i].canister # MidCall'.canister
      BY <1>1, <1>3, <1>4, <1>5, <1>9 DEF MainInv, PlacesOK
    <2>3. \A i, j \in DOMAIN trade_contracts' :
             \/ trade_contracts'[i].ledger = trade_contracts'[j].ledger
             \/ trade_contracts'[i].canister = trade_contracts'[j].canister
             => i = j
      BY <1>1 DEF MainInv, PlacesOK
    <2> QED
      BY <1>7, <2>1, <2>2, <2>3 DEF PlacesOK
  <1>12. UpgradesOK' /\ HashesOK' /\ StopsOK'
    BY <1>1, <1>7, UpgradesGoOn
  <1> QED
    BY <1>8, <1>10, <1>11, <1>12 DEF MainInv

LEMMA TradeContractCreatedHolds ==
    ASSUME MainInv, NEW p \in Call, TradeContractCreated(p)
    PROVE  MainInv'
  <1> DEFINE c == create[p].quest.canister
             n == Len(trade_contracts)
             row == [ledger |-> create[p].quest.ledger, canister |-> create[p].quest.canister,
                     hash |-> create[p].code]
  <1>1. /\ create[p].pc = "installed" /\ mid_call_data' = <<>> /\ Returns(p)
        /\ trade_contracts' = Append(trade_contracts, row)
        /\ log_storage' = log_storage /\ upgrade' = upgrade
        /\ tc_canister_code' = tc_canister_code /\ storage_canister_code' = storage_canister_code
        /\ installed' = installed /\ overlapped' = overlapped /\ status' = status
        /\ reported' = reported
    BY DEF TradeContractCreated, canisters, codes
  <1>2. /\ \A q \in Call \ {p} : ~Runs(q) /\ create[q] = NotRunning
        /\ create[p].quest \in MidCallData /\ DOMAIN mid_call_data = {1}
        /\ MidCall.canister \in {NoCanister, c}
        /\ create[p].quest.ledger = MidCall.ledger
        /\ Runs(p)
    BY <1>1, RunFacts
  <1>3. /\ c \in Created /\ c \in Canister /\ c # NoCanister /\ c \notin StorageCanister
        /\ create[p].code \in Code /\ NoContract
        /\ \A i \in DOMAIN trade_contracts : trade_contracts[i].canister # c
    BY <1>1, InstallFacts
  <1>4. /\ row \in TradeContract /\ row.canister = c /\ row.ledger = MidCall.ledger
        /\ row.hash = create[p].code
    BY <1>2, <1>3 DEF TradeContract, MidCallData
  <1> HIDE DEF row
  <1>5. /\ trade_contracts \in Seq(TradeContract) /\ n \in Nat /\ DOMAIN trade_contracts = 1 .. n
        /\ trade_contracts' \in Seq(TradeContract)
        /\ DOMAIN trade_contracts' = 1 .. (n + 1)
        /\ \A i \in 1 .. n : trade_contracts'[i] = trade_contracts[i]
        /\ trade_contracts'[n + 1] = row
    <2>1. trade_contracts \in Seq(TradeContract)
      BY DEF MainInv, MainTypeOK
    <2> QED
      BY <1>1, <1>4, <2>1, AppendProperties
  <1> HIDE DEF n
  <1>6. DOMAIN trade_contracts' = DOMAIN trade_contracts \cup {n + 1} /\ n + 1 \notin DOMAIN trade_contracts
    BY <1>5
  <1>7. \A i \in DOMAIN trade_contracts : trade_contracts'[i] = trade_contracts[i]
    BY <1>5
  <1>8. /\ create' \in [Call -> Creation \cup {NotRunning}]
        /\ create'[p] = NotRunning /\ ~Runs(p)'
        /\ \A q \in Call \ {p} : create'[q] = create[q] /\ (Runs(q)' <=> Runs(q))
    BY <1>1, RunMoves DEF Returns
  <1>9. \A q \in Call : create'[q] = NotRunning /\ ~Runs(q)' /\ create'[q].pc = "none"
    BY <1>2, <1>8 DEF NotRunning
  <1>10. mid_call_data' \in Seq(MidCallData) /\ Len(mid_call_data') <= 1 /\ DOMAIN mid_call_data' = {}
    BY <1>1
  <1>11. MainTypeOK'
    BY <1>1, <1>5, <1>8, <1>10 DEF MainInv, MainTypeOK, CanistersTypeOK
  <1>12. CreationOK'
    BY <1>1, <1>9 DEF CreationOK
  <1>13. Created' = Created /\ Created \subseteq Canister
    BY <1>1 DEF Created
  <1>14. PlacesOK'
    <2>1. ASSUME NEW d \in Created
          PROVE  \E i \in DOMAIN trade_contracts' : trade_contracts'[i].canister = d
      <3>1. CASE d = c
        BY <1>4, <1>5, <1>6, <3>1
      <3>2. CASE d # c
        <4>1. d # NoCanister
          BY <1>13, CMMainAssumption
        <4>2. ~BeingCreated(d)
          BY <1>2, <3>2 DEF BeingCreated, Runs
        <4>3. \A i \in DOMAIN mid_call_data : mid_call_data[i].canister # d
          BY <1>2, <3>2, <4>1 DEF MidCall
        <4>4. \E i \in DOMAIN trade_contracts : trade_contracts[i].canister = d
          BY <4>2, <4>3 DEF MainInv, PlacesOK
        <4> QED
          BY <1>6, <1>7, <4>4
      <3> QED
        BY <3>1, <3>2
    <2>2. \A i \in DOMAIN trade_contracts :
             trade_contracts[i].canister # c /\ trade_contracts[i].ledger # MidCall.ledger
      BY <1>3 DEF NoContract
    <2>3. \A i, j \in DOMAIN trade_contracts' :
             \/ trade_contracts'[i].ledger = trade_contracts'[j].ledger
             \/ trade_contracts'[i].canister = trade_contracts'[j].canister
             => i = j
      <3>1. \A i, j \in DOMAIN trade_contracts :
               \/ trade_contracts[i].ledger = trade_contracts[j].ledger
               \/ trade_contracts[i].canister = trade_contracts[j].canister
               => i = j
        BY DEF MainInv, PlacesOK
      <3>2. ASSUME NEW i \in DOMAIN trade_contracts', NEW j \in DOMAIN trade_contracts',
                   \/ trade_contracts'[i].ledger = trade_contracts'[j].ledger
                   \/ trade_contracts'[i].canister = trade_contracts'[j].canister
            PROVE  i = j
        <4>1. CASE i = n + 1 /\ j # n + 1
          BY <1>4, <1>5, <1>6, <1>7, <2>2, <3>2, <4>1
        <4>2. CASE j = n + 1 /\ i # n + 1
          BY <1>4, <1>5, <1>6, <1>7, <2>2, <3>2, <4>2
        <4>3. CASE i # n + 1 /\ j # n + 1
          BY <1>6, <1>7, <3>1, <3>2, <4>3
        <4> QED
          BY <4>1, <4>2, <4>3
      <3> QED
        BY <3>2
    <2>4. \A i \in DOMAIN trade_contracts' : trade_contracts'[i].canister \in Created
      <3>1. \A i \in DOMAIN trade_contracts : trade_contracts[i].canister \in Created
        BY DEF MainInv, PlacesOK
      <3> QED
        BY <1>3, <1>4, <1>5, <1>6, <1>7, <3>1
    <2> QED
      BY <1>1, <1>9, <1>13, <2>1, <2>3, <2>4 DEF PlacesOK
  <1>15. /\ \A u \in Upgrade : \A d : On(u, d)' <=> On(u, d)
         /\ \A d : NotReplaced(d)' <=> NotReplaced(d)
    BY <1>1 DEF On, NotReplaced
  <1>16. UpgradesOK'
    BY <1>1, <1>9, <1>15 DEF MainInv, UpgradesOK
  <1>17. HashesOK'
    <2>1. ASSUME NEW i \in DOMAIN trade_contracts', NEW d \in Canister \ overlapped,
                 trade_contracts'[i].canister = d, NotReplaced(d)
          PROVE  trade_contracts'[i].hash = installed[d]
      <3>1. CASE i = n + 1
        <4>1. d = c /\ trade_contracts'[i].hash = create[p].code
          BY <1>4, <1>5, <2>1, <3>1
        <4> QED
          BY <1>1, <2>1, <4>1 DEF MainInv, HashesOK
      <3>2. CASE i # n + 1
        <4>1. i \in DOMAIN trade_contracts /\ trade_contracts'[i] = trade_contracts[i]
          BY <1>6, <1>7, <3>2
        <4> QED
          BY <2>1, <4>1 DEF MainInv, HashesOK
      <3> QED
        BY <3>1, <3>2
    <2> QED
      BY <1>1, <1>9, <1>15, <2>1 DEF MainInv, HashesOK
  <1>18. StopsOK'
    BY <1>1 DEF MainInv, StopsOK
  <1> QED
    BY <1>11, <1>12, <1>14, <1>16, <1>17, <1>18 DEF MainInv

LEMMA CreateTradeContractHolds ==
    ASSUME MainInv, NEW p \in Call, NEW ledger \in Ledger, CreateTradeContract(p, ledger)
    PROVE  MainInv'
  <1> DEFINE quest == [lock |-> TRUE, ledger |-> ledger, canister |-> NoCanister]
  <1>1. quest \in MidCallData /\ quest.lock /\ quest.canister = NoCanister
    BY DEF MidCallData
  <1>2. /\ create[p] = NotRunning /\ mid_call_data = <<>>
        /\ mid_call_data' = <<quest>> /\ Running(p, "begin", quest, NoCode)
        /\ UNCHANGED <<codes, trade_contracts, log_storage, upgrade, canisters>>
    BY DEF CreateTradeContract
  <1> HIDE DEF quest
  <1> QED
    BY <1>1, <1>2, CreationStarts

LEMMA ContinueHolds ==
    ASSUME MainInv, NEW p \in Call, Continue(p)
    PROVE  MainInv'
  <1> DEFINE quest == [MidCall EXCEPT !.lock = TRUE]
  <1>1. /\ create[p] = NotRunning /\ mid_call_data # <<>> /\ ~MidCall.lock
        /\ mid_call_data' = <<quest>> /\ Running(p, "begin", quest, NoCode)
        /\ UNCHANGED <<codes, trade_contracts, log_storage, upgrade, canisters>>
    BY DEF Continue, MidCall
  <1>2. MidCall \in MidCallData
    <2>1. mid_call_data \in Seq(MidCallData) /\ Len(mid_call_data) <= 1
      BY DEF MainInv, MainTypeOK
    <2>2. 1 \in DOMAIN mid_call_data
      BY <1>1, <2>1, EmptySeq
    <2> QED
      BY <2>1, <2>2 DEF MidCall
  <1>3. quest \in MidCallData /\ quest.lock /\ quest.ledger = MidCall.ledger
        /\ quest.canister = MidCall.canister
    BY <1>2 DEF MidCallData
  <1> HIDE DEF quest
  <1> QED
    BY <1>1, <1>3, CreationStarts

LEMMA CreateCanisterFailsHolds ==
    ASSUME MainInv, NEW p \in Call, CreateCanisterFails(p)
    PROVE  MainInv'
  <1>1. create[p].pc = "create" /\ mid_call_data' = <<>> /\ Returns(p)
        /\ UNCHANGED <<codes, trade_contracts, log_storage, upgrade, canisters>>
    BY DEF CreateCanisterFails
  <1>2. create[p].pc # "none" /\ Runs(p)
    BY <1>1 DEF Runs, NotRunning
  <1>3. create[p].quest.canister = NoCanister
    BY <1>1, <1>2 DEF MainInv, CreationOK
  <1> QED
    BY <1>1, <1>2, <1>3, CreationEnds

LEMMA UploadCodeHolds ==
    ASSUME MainInv, NEW code \in Code, UploadCode(code)
    PROVE  MainInv'
  <1>1. /\ UNCHANGED <<trade_contracts, mid_call_data, create, log_storage, upgrade, canisters>>
        /\ installed' = installed /\ status' = status /\ reported' = reported
        /\ overlapped' = overlapped
        /\ tc_canister_code' \in Code /\ storage_canister_code' \in Code
    BY DEF UploadCode, canisters, MainInv, MainTypeOK
  <1>2. MainTypeOK'
    BY <1>1 DEF MainInv, MainTypeOK, CanistersTypeOK
  <1> QED
    BY <1>1, <1>2, SamePlaces, SameUpgrades DEF MainInv

-----------------------------------------------------------------------------
(* The upgrades.                                                           *)

(* What an upgrade takes on by itself is of the records it looks at.       *)
LEMMA OutdatedIsRecorded ==
    ASSUME NEW records, NEW code, NEW c \in Outdated(records, code)
    PROVE  \E i \in DOMAIN records : records[i].canister = c
  BY DEF Outdated

LEMMA StorageIsRecorded ==
    ASSUME NEW i \in DOMAIN StorageRecords
    PROVE  StorageRecords[i].canister \in StorageCanister
  <1> DEFINE n == Cardinality(StorageCanister)
             order == SetToSeq(StorageCanister)
  <1>1. order \in [1 .. n -> StorageCanister]
    <2>1. ExistsBijection(1 .. n, StorageCanister)
      BY FS_CardinalityType, CMMainAssumption
    <2>2. \E f \in [1 .. n -> StorageCanister] : IsInjective(f)
      BY <2>1 DEF ExistsBijection, Bijection, Injection
    <2> QED
      BY <2>2 DEF SetToSeq
  <1>2. StorageRecords
          = [j \in DOMAIN order |-> [canister |-> order[j], hash |-> log_storage.hash[order[j]]]]
    BY DEF StorageRecords
  <1> HIDE DEF n, order
  <1> QED
    BY <1>1, <1>2

(* An upgrade opens its list.                                              *)
LEMMA OpenUpgradeHolds ==
    ASSUME MainInv, NEW u \in Upgrade, NEW code \in Code, NEW snapshots \in BOOLEAN,
           NEW list \in SUBSET Canister, NEW busy \in SUBSET Canister,
           OpenUpgrade(u, list, code, snapshots, busy),
           \/ list \subseteq StorageCanister
           \/ list \subseteq Created /\ \A c \in list : BeingCreated(c) => c \in busy,
           UNCHANGED <<trade_contracts, mid_call_data, create, installed, status, reported>>,
           tc_canister_code' \in Code, storage_canister_code' \in Code,
           log_storage' \in [code: Code, hash: [StorageCanister -> Code]],
           log_storage'.hash = log_storage.hash
    PROVE  MainInv'
  <1> DEFINE row == [pc |-> "open", code |-> code, snapshots |-> snapshots,
                     stage |-> [c \in Canister |-> IF c \notin list THEN "none"
                                                   ELSE IF snapshots THEN "list" ELSE "stop"],
                     success |-> {}]
  <1>1. /\ upgrade[u].pc = "none" /\ upgrade' = [upgrade EXCEPT ![u] = row]
        /\ overlapped' = overlapped \cup (list \cap (OnOpenList \cup busy))
    BY DEF OpenUpgrade
  <1>2. /\ row.pc = "open" /\ row.code = code /\ row.success = {}
        /\ \A c \in Canister : /\ row.stage[c] # "none" <=> c \in list
                               /\ row.stage[c] \in {"none", "list", "stop"}
    OBVIOUS
  <1>3. row \in [pc: {"none", "open", "ended"}, code: Code \cup {NoCode}, snapshots: BOOLEAN,
                 stage: [Canister -> Stage], success: SUBSET Canister]
    BY DEF Stage
  <1> HIDE DEF row
  <1>4. CanistersTypeOK
    BY DEF MainInv, MainTypeOK
  <1>5. /\ upgrade' \in [Upgrade -> [pc: {"none", "open", "ended"}, code: Code \cup {NoCode},
                                     snapshots: BOOLEAN, stage: [Canister -> Stage],
                                     success: SUBSET Canister]]
        /\ upgrade'[u] = row
        /\ \A v \in Upgrade \ {u} : upgrade'[v] = upgrade[v]
    BY <1>1, <1>3, <1>4 DEF CanistersTypeOK
  <1>6. MainTypeOK'
    BY <1>1, <1>5 DEF MainInv, MainTypeOK, CanistersTypeOK, OnOpenList
  <1>7. CreationOK' /\ PlacesOK'
    BY SamePlaces DEF MainInv
  <1>8. upgrade[u].success = {} /\ \A c \in Canister : ~On(u, c)
    BY <1>1 DEF MainInv, UpgradesOK
  <1>9. /\ \A c \in Canister : On(u, c)' <=> c \in list
        /\ \A v \in Upgrade \ {u} : \A c \in Canister : On(v, c)' <=> On(v, c)
        /\ \A v \in Upgrade : upgrade'[v].success = upgrade[v].success
    BY <1>2, <1>5, <1>8 DEF On
  <1>10. \A c : NotReplaced(c)' <=> NotReplaced(c)
    BY <1>9 DEF NotReplaced
  <1>11. overlapped \subseteq overlapped'
    BY <1>1
  <1>12. UpgradesOK'
    <2>1. ASSUME NEW v \in Upgrade
          PROVE  /\ upgrade'[v].pc # "open"
                    => upgrade'[v].success = {} /\ \A c \in Canister : ~On(v, c)'
                 /\ upgrade'[v].pc = "open" => upgrade'[v].code \in Code
                 /\ \A c \in upgrade'[v].success : upgrade'[v].stage[c] \in {"start", "done"}
                 /\ (\E c \in StorageCanister : On(v, c)')
                    => \A c \in Canister \ StorageCanister : ~On(v, c)'
      <3>1. CASE v = u
        <4>1. (\E c \in StorageCanister : On(u, c)') => \A c \in Canister \ StorageCanister : ~On(u, c)'
          BY <1>9, CMMainAssumption DEF Created
        <4> QED
          BY <1>2, <1>5, <3>1, <4>1
      <3>2. CASE v # u
        <4>1. upgrade'[v] = upgrade[v] /\ \A c \in Canister : On(v, c)' <=> On(v, c)
          BY <1>5, <1>9, <3>2
        <4> QED
          BY <4>1, CMMainAssumption DEF MainInv, UpgradesOK
      <3> QED
        BY <3>1, <3>2
    <2>2. \A c \in StorageCanister : installed[c] \in Code /\ installed[c] # Absent
      BY CodeAssumption DEF MainInv, UpgradesOK
    <2>3. \A v \in Upgrade, c \in Canister : On(v, c)' => installed'[c] # Absent
      <3>1. \A c \in list : installed[c] # Absent
        BY <2>2 DEF Created
      <3> QED
        BY <1>9, <3>1 DEF MainInv, UpgradesOK
    <2>4. ASSUME NEW v \in Upgrade \ {u}, NEW c \in list, On(v, c)'
          PROVE  c \in overlapped'
      BY <1>1, <1>9, <2>4 DEF OnOpenList, On
    <2>5. \A v, w \in Upgrade, c \in Canister \ overlapped' : On(v, c)' /\ On(w, c)' => v = w
      <3>1. ASSUME NEW v \in Upgrade, NEW w \in Upgrade, NEW c \in Canister \ overlapped',
                   On(v, c)', On(w, c)'
            PROVE  v = w
        <4>1. CASE v = u \/ w = u
          BY <1>9, <2>4, <3>1, <4>1
        <4>2. CASE v # u /\ w # u
          BY <1>9, <1>11, <3>1, <4>2 DEF MainInv, UpgradesOK
        <4> QED
          BY <4>1, <4>2
      <3> QED
        BY <3>1
    <2>6. \A v \in Upgrade, p \in Call, c \in Canister :
             create[p].pc \in {"install", "installed"} /\ create[p].quest.canister = c /\ On(v, c)'
             => c \in overlapped'
      <3>1. ASSUME NEW p \in Call, NEW c \in list, create[p].pc \in {"install", "installed"},
                   create[p].quest.canister = c
            PROVE  c \in overlapped'
        <4>1. c \notin StorageCanister
          BY <3>1, InstallFacts
        <4>2. BeingCreated(c)
          BY <3>1 DEF BeingCreated, NotRunning
        <4> QED
          BY <1>1, <4>1, <4>2
      <3>2. \A v \in Upgrade \ {u}, p \in Call, c \in Canister :
               create[p].pc \in {"install", "installed"} /\ create[p].quest.canister = c /\ On(v, c)
               => c \in overlapped'
        BY <1>11 DEF MainInv, UpgradesOK
      <3> QED
        BY <1>9, <3>1, <3>2
    <2> QED
      BY <2>1, <2>2, <2>3, <2>5, <2>6 DEF UpgradesOK
  <1>13. HashesOK'
    <2>1. \A v \in Upgrade : \A c \in upgrade'[v].success \ overlapped' :
             installed'[c] = upgrade'[v].code
      <3>1. \A v \in Upgrade : \A c \in upgrade[v].success \ overlapped : installed[c] = upgrade[v].code
        BY DEF MainInv, HashesOK
      <3> QED
        BY <1>5, <1>8, <1>9, <1>11, <3>1
    <2>2. \A i \in DOMAIN trade_contracts', c \in Canister \ overlapped' :
             trade_contracts'[i].canister = c /\ NotReplaced(c)'
             => trade_contracts'[i].hash = installed'[c]
      BY <1>10, <1>11 DEF MainInv, HashesOK
    <2>3. \A c \in StorageCanister \ overlapped' :
             NotReplaced(c)' => log_storage'.hash[c] = installed'[c]
      BY <1>10, <1>11 DEF MainInv, HashesOK
    <2>4. \A p \in Call :
             create'[p].pc = "installed" /\ create'[p].quest.canister \notin overlapped'
             => installed'[create'[p].quest.canister] = create'[p].code
      BY <1>11 DEF MainInv, HashesOK
    <2> QED
      BY <2>1, <2>2, <2>3, <2>4 DEF HashesOK
  <1>14. StopsOK'
    <2>1. \A c \in Canister : upgrade[u].stage[c] = "none"
      BY <1>8 DEF On
    <2>2. \A c \in Canister :
             \/ status'[c] = "running" \/ c \in reported'
             \/ \E v \in Upgrade : upgrade'[v].stage[c] \in {"snapshot", "install", "start"}
      <3>1. ASSUME NEW c \in Canister, status[c] # "running", c \notin reported
            PROVE  \E v \in Upgrade : upgrade'[v].stage[c] \in {"snapshot", "install", "start"}
        <4>1. PICK v \in Upgrade : upgrade[v].stage[c] \in {"snapshot", "install", "start"}
          BY <3>1 DEF MainInv, StopsOK
        <4>2. v # u
          BY <2>1, <4>1
        <4> QED
          BY <1>5, <4>1, <4>2
      <3> QED
        BY <3>1
    <2>3. ASSUME NEW v \in Upgrade, NEW c \in Canister \ overlapped',
                 upgrade'[v].stage[c] \in {"snapshot", "install"}
          PROVE  status'[c] = "stopped"
      <3>1. v # u
        BY <1>2, <1>5, <2>3
      <3> QED
        BY <1>5, <1>11, <2>3, <3>1 DEF MainInv, StopsOK
    <2> QED
      BY <2>2, <2>3 DEF StopsOK
  <1> QED
    BY <1>6, <1>7, <1>12, <1>13, <1>14 DEF MainInv

LEMMA UpgradeTCsHolds ==
    ASSUME MainInv, NEW u \in Upgrade, NEW code \in Code, NEW snapshots \in BOOLEAN,
           UpgradeTCs(u, code, snapshots)
    PROVE  MainInv'
  <1> DEFINE busy == {c \in Canister : BeingCreated(c)}
  <1>1. PICK list \in {Outdated(trade_contracts, code)} \cup {{c} : c \in Created} :
           OpenUpgrade(u, list, code, snapshots, busy)
    BY DEF UpgradeTCs
  <1>2. Created \subseteq Canister
    BY DEF Created
  <1>3. list \subseteq Created
    <2>1. \A i \in DOMAIN trade_contracts : trade_contracts[i].canister \in Created
      BY DEF MainInv, PlacesOK
    <2>2. CASE list = Outdated(trade_contracts, code)
      BY <2>1, <2>2, OutdatedIsRecorded
    <2> QED
      BY <1>1, <2>2
  <1>4. /\ UNCHANGED <<trade_contracts, mid_call_data, create, installed, status, reported>>
        /\ tc_canister_code' \in Code /\ storage_canister_code' \in Code
        /\ log_storage' \in [code: Code, hash: [StorageCanister -> Code]]
        /\ log_storage'.hash = log_storage.hash
    BY DEF UpgradeTCs, MainInv, MainTypeOK
  <1>5. /\ list \in SUBSET Canister /\ busy \in SUBSET Canister
        /\ \A c \in list : BeingCreated(c) => c \in busy
    BY <1>2, <1>3
  <1> HIDE DEF busy
  <1> QED
    BY <1>1, <1>3, <1>4, <1>5, OpenUpgradeHolds

LEMMA UpgradeLogStorageHolds ==
    ASSUME MainInv, NEW u \in Upgrade, NEW code \in Code, NEW snapshots \in BOOLEAN,
           UpgradeLogStorage(u, code, snapshots)
    PROVE  MainInv'
  <1>1. PICK list \in {Outdated(StorageRecords, code)} \cup {{c} : c \in StorageCanister} :
           OpenUpgrade(u, list, code, snapshots, {})
    BY DEF UpgradeLogStorage
  <1>2. list \subseteq StorageCanister
    <2>1. CASE list = Outdated(StorageRecords, code)
      BY <2>1, OutdatedIsRecorded, StorageIsRecorded
    <2> QED
      BY <1>1, <2>1
  <1>3. /\ UNCHANGED <<trade_contracts, mid_call_data, create, installed, status, reported>>
        /\ tc_canister_code' \in Code /\ storage_canister_code' \in Code
        /\ log_storage' \in [code: Code, hash: [StorageCanister -> Code]]
        /\ log_storage'.hash = log_storage.hash
    BY DEF UpgradeLogStorage, PassStorageCode, MainInv, MainTypeOK
  <1>4. list \in SUBSET Canister
    BY <1>2, CMMainAssumption
  <1>5. \A busy \in SUBSET Canister : OpenUpgrade(u, list, code, snapshots, busy) => MainInv'
    BY <1>2, <1>3, <1>4, OpenUpgradeHolds
  <1> QED
    BY <1>1, <1>5

(* What an upgrade records when it ends.                                   *)
LEMMA EndFacts ==
    ASSUME MainInv, NEW u \in Upgrade, EndUpgrade(u)
    PROVE  /\ upgrade[u].pc = "open" /\ upgrade[u].code \in Code
           /\ \A c \in Canister : upgrade[u].stage[c] \in {"none", "done"}
           /\ trade_contracts' \in Seq(TradeContract)
           /\ DOMAIN trade_contracts' = DOMAIN trade_contracts
           /\ \A i \in DOMAIN trade_contracts :
                /\ trade_contracts'[i].ledger = trade_contracts[i].ledger
                /\ trade_contracts'[i].canister = trade_contracts[i].canister
                /\ trade_contracts'[i].hash = IF trade_contracts[i].canister \in upgrade[u].success
                                              THEN upgrade[u].code ELSE trade_contracts[i].hash
           /\ log_storage' \in [code: Code, hash: [StorageCanister -> Code]]
           /\ \A c \in StorageCanister :
                log_storage'.hash[c] = IF c \in upgrade[u].success
                                       THEN upgrade[u].code ELSE log_storage.hash[c]
  <1> DEFINE code == upgrade[u].code
             success == upgrade[u].success
             stored == \E c \in StorageCanister : On(u, c)
  <1>1. AllEnded(u) /\ IF stored THEN RecordStorageUpgrades(u) ELSE RecordUpgrades(u)
    BY DEF EndUpgrade, RecordStorageUpgrades, RecordUpgrades, On
  <1>2. /\ upgrade[u].pc = "open" /\ code \in Code
        /\ \A c \in Canister : upgrade[u].stage[c] \in {"none", "done"}
    BY <1>1 DEF AllEnded, InChain, MainInv, UpgradesOK
  <1>3. \A c \in success : c \in Canister /\ On(u, c)
    BY DEF MainInv, MainTypeOK, CanistersTypeOK, UpgradesOK, On
  <1>4. stored => \A c \in success : c \in StorageCanister
    BY <1>3 DEF MainInv, UpgradesOK
  <1>5. ~stored => \A c \in success : c \notin StorageCanister
    BY <1>3
  <1>6. /\ trade_contracts \in Seq(TradeContract)
        /\ log_storage \in [code: Code, hash: [StorageCanister -> Code]]
    BY DEF MainInv, MainTypeOK
  <1>7. \A i \in DOMAIN trade_contracts :
           trade_contracts[i] \in TradeContract /\ trade_contracts[i].canister \notin StorageCanister
    BY <1>6 DEF MainInv, PlacesOK, Created
  <1>8. CASE stored
    <2>1. /\ log_storage' = [log_storage EXCEPT !.hash = [c \in StorageCanister |->
                               IF c \in success THEN code ELSE log_storage.hash[c]]]
          /\ trade_contracts' = trade_contracts
      BY <1>1, <1>8 DEF RecordStorageUpgrades
    <2>2. \A i \in DOMAIN trade_contracts : trade_contracts[i].canister \notin success
      BY <1>4, <1>7, <1>8
    <2> HIDE DEF code, success
    <2>3. /\ log_storage' \in [code: Code, hash: [StorageCanister -> Code]]
          /\ \A c \in StorageCanister :
               log_storage'.hash[c] = IF c \in success THEN code ELSE log_storage.hash[c]
      BY <1>2, <1>6, <2>1
    <2> QED
      BY <1>2, <1>6, <2>1, <2>2, <2>3 DEF code, success
  <1>9. CASE ~stored
    <2> HIDE DEF stored
    <2>1. /\ trade_contracts' = [i \in DOMAIN trade_contracts |->
               IF trade_contracts[i].canister \in success
               THEN [trade_contracts[i] EXCEPT !.hash = code] ELSE trade_contracts[i]]
          /\ log_storage' = log_storage
      BY <1>1, <1>9 DEF RecordUpgrades
    <2>2. \A c \in StorageCanister : c \notin success
      BY <1>5, <1>9
    <2> HIDE DEF code, success
    <2>3. DOMAIN trade_contracts' = DOMAIN trade_contracts
      BY <2>1
    <2>4. ASSUME NEW i \in DOMAIN trade_contracts
          PROVE  /\ trade_contracts'[i] \in TradeContract
                 /\ trade_contracts'[i].ledger = trade_contracts[i].ledger
                 /\ trade_contracts'[i].canister = trade_contracts[i].canister
                 /\ trade_contracts'[i].hash = IF trade_contracts[i].canister \in success
                                               THEN code ELSE trade_contracts[i].hash
      <3>1. trade_contracts[i] \in TradeContract
        BY <1>7
      <3>2. trade_contracts'[i] = IF trade_contracts[i].canister \in success
                                  THEN [trade_contracts[i] EXCEPT !.hash = code]
                                  ELSE trade_contracts[i]
        BY <2>1
      <3> QED
        BY <1>2, <3>1, <3>2 DEF TradeContract
    <2>5. trade_contracts' \in Seq(TradeContract)
      <3>1. Len(trade_contracts) \in Nat /\ DOMAIN trade_contracts = 1 .. Len(trade_contracts)
        BY <1>6
      <3>2. trade_contracts' \in [1 .. Len(trade_contracts) -> TradeContract]
        BY <2>1, <2>4, <3>1
      <3> QED
        BY <3>1, <3>2, SeqDef
    <2> QED
      BY <1>2, <1>6, <2>1, <2>2, <2>3, <2>4, <2>5 DEF code, success
  <1> QED
    BY <1>8, <1>9

LEMMA EndUpgradeHolds ==
    ASSUME MainInv, NEW u \in Upgrade, EndUpgrade(u)
    PROVE  MainInv'
  <1> DEFINE row == [None EXCEPT !.pc = "ended"]
  <1>1. /\ upgrade' = [upgrade EXCEPT ![u] = row]
        /\ tc_canister_code' = tc_canister_code /\ storage_canister_code' = storage_canister_code
        /\ mid_call_data' = mid_call_data /\ create' = create
        /\ installed' = installed /\ status' = status /\ reported' = reported
        /\ overlapped' = overlapped
    BY DEF EndUpgrade, codes, canisters
  <1>2. /\ row.pc = "ended" /\ row.success = {} /\ \A c \in Canister : row.stage[c] = "none"
        /\ row \in [pc: {"none", "open", "ended"}, code: Code \cup {NoCode}, snapshots: BOOLEAN,
                    stage: [Canister -> Stage], success: SUBSET Canister]
    BY DEF None, Stage
  <1> HIDE DEF row
  <1>3. CanistersTypeOK
    BY DEF MainInv, MainTypeOK
  <1>4. /\ upgrade' \in [Upgrade -> [pc: {"none", "open", "ended"}, code: Code \cup {NoCode},
                                     snapshots: BOOLEAN, stage: [Canister -> Stage],
                                     success: SUBSET Canister]]
        /\ upgrade'[u] = row
        /\ \A v \in Upgrade \ {u} : upgrade'[v] = upgrade[v]
    BY <1>1, <1>2, <1>3 DEF CanistersTypeOK
  <1>5. /\ \A c \in Canister : upgrade[u].stage[c] \in {"none", "done"}
        /\ trade_contracts' \in Seq(TradeContract)
        /\ DOMAIN trade_contracts' = DOMAIN trade_contracts
        /\ \A i \in DOMAIN trade_contracts :
             /\ trade_contracts'[i].ledger = trade_contracts[i].ledger
             /\ trade_contracts'[i].canister = trade_contracts[i].canister
             /\ trade_contracts'[i].hash = IF trade_contracts[i].canister \in upgrade[u].success
                                           THEN upgrade[u].code ELSE trade_contracts[i].hash
        /\ log_storage' \in [code: Code, hash: [StorageCanister -> Code]]
        /\ \A c \in StorageCanister :
             log_storage'.hash[c] = IF c \in upgrade[u].success
                                    THEN upgrade[u].code ELSE log_storage.hash[c]
    BY EndFacts
  <1>6. MainTypeOK'
    BY <1>1, <1>4, <1>5 DEF MainInv, MainTypeOK, CanistersTypeOK
  <1>7. /\ Created' = Created /\ MidCall' = MidCall
        /\ \A p \in Call : Runs(p)' <=> Runs(p)
        /\ NoContract' <=> NoContract
        /\ \A c : BeingCreated(c)' <=> BeingCreated(c)
    BY <1>1, <1>5 DEF Created, MidCall, Runs, NoContract, BeingCreated
  <1>8. CreationOK'
    BY <1>1, <1>7 DEF MainInv, CreationOK
  <1>9. PlacesOK'
    BY <1>1, <1>5, <1>7 DEF MainInv, PlacesOK
  <1>10. /\ \A v \in Upgrade, c \in Canister : On(v, c)' => On(v, c) /\ v # u
         /\ \A v \in Upgrade \ {u}, c \in Canister : On(v, c)' <=> On(v, c)
         /\ \A c \in Canister : ~On(u, c)'
    BY <1>2, <1>4 DEF On
  <1>11. UpgradesOK'
    <2>1. ASSUME NEW v \in Upgrade
          PROVE  /\ upgrade'[v].pc # "open"
                    => upgrade'[v].success = {} /\ \A c \in Canister : ~On(v, c)'
                 /\ upgrade'[v].pc = "open" => upgrade'[v].code \in Code
                 /\ \A c \in upgrade'[v].success : upgrade'[v].stage[c] \in {"start", "done"}
                 /\ (\E c \in StorageCanister : On(v, c)')
                    => \A c \in Canister \ StorageCanister : ~On(v, c)'
      <3>1. CASE v = u
        BY <1>2, <1>4, <1>10, <3>1
      <3>2. CASE v # u
        <4>1. upgrade'[v] = upgrade[v] /\ \A c \in Canister : On(v, c)' <=> On(v, c)
          BY <1>4, <1>10, <3>2
        <4> QED
          BY <4>1, CMMainAssumption DEF MainInv, UpgradesOK
      <3> QED
        BY <3>1, <3>2
    <2>2. /\ \A v \in Upgrade, c \in Canister : On(v, c)' => installed'[c] # Absent
          /\ \A c \in StorageCanister : installed'[c] \in Code
          /\ \A v, w \in Upgrade, c \in Canister \ overlapped' : On(v, c)' /\ On(w, c)' => v = w
          /\ \A v \in Upgrade, p \in Call, c \in Canister :
               create'[p].pc \in {"install", "installed"} /\ create'[p].quest.canister = c /\ On(v, c)'
               => c \in overlapped'
      BY <1>1, <1>10 DEF MainInv, UpgradesOK
    <2> QED
      BY <2>1, <2>2 DEF UpgradesOK
  <1>12. \A v \in Upgrade : upgrade'[v].success = IF v = u THEN {} ELSE upgrade[v].success
    BY <1>2, <1>4
  <1>13. HashesOK'
    <2>1. \A v \in Upgrade : \A c \in upgrade[v].success \ overlapped : installed[c] = upgrade[v].code
      BY DEF MainInv, HashesOK
    <2>2. \A v \in Upgrade : \A c \in upgrade'[v].success \ overlapped' :
             installed'[c] = upgrade'[v].code
      BY <1>1, <1>4, <1>12, <2>1
    <2>3. \A c : NotReplaced(c)' => NotReplaced(c) \/ c \in upgrade[u].success
      BY <1>12 DEF NotReplaced
    <2>4. ASSUME NEW i \in DOMAIN trade_contracts, NEW c \in Canister \ overlapped,
                 trade_contracts[i].canister = c, NotReplaced(c)'
          PROVE  trade_contracts'[i].hash = installed[c]
      <3>1. CASE c \in upgrade[u].success
        BY <1>5, <2>1, <2>4, <3>1
      <3>2. CASE c \notin upgrade[u].success
        BY <1>5, <2>3, <2>4, <3>2 DEF MainInv, HashesOK
      <3> QED
        BY <3>1, <3>2
    <2>5. ASSUME NEW c \in StorageCanister \ overlapped, NotReplaced(c)'
          PROVE  log_storage'.hash[c] = installed[c]
      <3>1. CASE c \in upgrade[u].success
        BY <1>5, <2>1, <2>5, <3>1
      <3>2. CASE c \notin upgrade[u].success
        BY <1>5, <2>3, <2>5, <3>2 DEF MainInv, HashesOK
      <3> QED
        BY <3>1, <3>2
    <2>6. \A p \in Call :
             create[p].pc = "installed" /\ create[p].quest.canister \notin overlapped
             => installed[create[p].quest.canister] = create[p].code
      BY DEF MainInv, HashesOK
    <2> QED
      BY <1>1, <1>5, <2>2, <2>4, <2>5, <2>6 DEF HashesOK
  <1>14. StopsOK'
    <2>1. ASSUME NEW c \in Canister, status[c] # "running", c \notin reported
          PROVE  \E v \in Upgrade : upgrade'[v].stage[c] \in {"snapshot", "install", "start"}
      <3>1. PICK v \in Upgrade : upgrade[v].stage[c] \in {"snapshot", "install", "start"}
        BY <2>1 DEF MainInv, StopsOK
      <3>2. v # u
        BY <1>5, <3>1
      <3> QED
        BY <1>4, <3>1, <3>2
    <2>2. ASSUME NEW v \in Upgrade, NEW c \in Canister \ overlapped,
                 upgrade'[v].stage[c] \in {"snapshot", "install"}
          PROVE  status[c] = "stopped"
      <3>1. v # u
        BY <1>2, <1>4, <2>2
      <3> QED
        BY <1>4, <2>2, <3>1 DEF MainInv, StopsOK
    <2> QED
      BY <1>1, <2>1, <2>2 DEF StopsOK
  <1> QED
    BY <1>6, <1>8, <1>9, <1>11, <1>13, <1>14 DEF MainInv

-----------------------------------------------------------------------------
(* The system.                                                             *)

LEMMA InitHolds == Init => MainInv
  <1> SUFFICES ASSUME Init
               PROVE  MainInv
    OBVIOUS
  <1>1. PICK code \in Code : log_storage = [code |-> code, hash |-> [c \in StorageCanister |-> code]]
    BY DEF Init
  <1>2. /\ log_storage \in [code: Code, hash: [StorageCanister -> Code]]
        /\ log_storage.code = code /\ \A c \in StorageCanister : log_storage.hash[c] = code
    BY <1>1
  <1>3. /\ installed \in [Canister -> Code \cup {NoCode, Absent}]
        /\ \A c \in Canister : installed[c] = IF c \in StorageCanister THEN code ELSE Absent
    BY <1>2 DEF Init
  <1>4. /\ status \in [Canister -> {"running", "stopped"}]
        /\ \A c \in Canister : status[c] = "running"
        /\ reported = {} /\ overlapped = {}
    BY DEF Init
  <1>5. /\ \A u \in Upgrade : upgrade[u] = None
        /\ None.pc = "none" /\ None.success = {} /\ \A c \in Canister : None.stage[c] = "none"
        /\ upgrade \in [Upgrade -> [pc: {"none", "open", "ended"}, code: Code \cup {NoCode},
                                    snapshots: BOOLEAN, stage: [Canister -> Stage],
                                    success: SUBSET Canister]]
    BY DEF Init, None, Stage
  <1>6. /\ trade_contracts = <<>> /\ mid_call_data = <<>>
        /\ trade_contracts \in Seq(TradeContract) /\ mid_call_data \in Seq(MidCallData)
        /\ DOMAIN trade_contracts = {} /\ Len(mid_call_data) <= 1
    BY DEF Init
  <1>7. \A p \in Call : create[p] = NotRunning /\ ~Runs(p) /\ create[p].pc = "none"
    BY DEF Init, Runs, NotRunning
  <1>8. create \in [Call -> Creation \cup {NotRunning}]
    BY DEF Init
  <1>9. MainTypeOK
    BY <1>2, <1>3, <1>4, <1>5, <1>6, <1>8 DEF Init, MainTypeOK, CanistersTypeOK
  <1>10. CreationOK
    BY <1>6, <1>7 DEF CreationOK
  <1>11. PlacesOK
    <2>1. Created = {}
      BY <1>3 DEF Created
    <2> QED
      BY <1>6, <2>1 DEF PlacesOK
  <1>12. \A u \in Upgrade, c \in Canister : ~On(u, c)
    BY <1>5 DEF On
  <1>13. UpgradesOK
    BY <1>3, <1>5, <1>7, <1>12, CMMainAssumption DEF UpgradesOK
  <1>14. HashesOK
    BY <1>2, <1>3, <1>5, <1>6, <1>7, CMMainAssumption DEF HashesOK
  <1>15. StopsOK
    BY <1>4, <1>5 DEF StopsOK
  <1> QED
    BY <1>9, <1>10, <1>11, <1>13, <1>14, <1>15 DEF MainInv

LEMMA StepHolds == MainInv /\ [Next]_vars => MainInv'
  <1> SUFFICES ASSUME MainInv, [Next]_vars
               PROVE  MainInv'
    OBVIOUS
  <1>1. ASSUME NEW p \in Call, NEW ledger \in Ledger, CreateTradeContract(p, ledger)
        PROVE  MainInv'
    BY <1>1, CreateTradeContractHolds
  <1>2. ASSUME NEW p \in Call, NEW c \in Canister, CanisterCreated(p, c)
        PROVE  MainInv'
    BY <1>2, CanisterCreatedHolds
  <1>3. ASSUME NEW p \in Call, \/ Continue(p) \/ BeginCreate(p) \/ BeginInstall(p)
                               \/ CreateCanisterFails(p) \/ CodeInstalled(p) \/ InstallFails(p)
                               \/ TradeContractCreated(p)
        PROVE  MainInv'
    <2>1. CASE Continue(p)
      BY <2>1, ContinueHolds
    <2>2. CASE BeginCreate(p)
      BY <2>2, BeginCreateHolds
    <2>3. CASE BeginInstall(p)
      BY <2>3, BeginInstallHolds
    <2>4. CASE CreateCanisterFails(p)
      BY <2>4, CreateCanisterFailsHolds
    <2>5. CASE CodeInstalled(p)
      BY <2>5, CodeInstalledHolds
    <2>6. CASE InstallFails(p)
      BY <2>6, InstallFailsHolds
    <2>7. CASE TradeContractCreated(p)
      BY <2>7, TradeContractCreatedHolds
    <2> QED
      BY <1>3, <2>1, <2>2, <2>3, <2>4, <2>5, <2>6, <2>7
  <1>4. ASSUME NEW code \in Code, UploadCode(code)
        PROVE  MainInv'
    BY <1>4, UploadCodeHolds
  <1>5. ASSUME NEW u \in Upgrade, NEW code \in Code, NEW snapshots \in BOOLEAN,
               UpgradeTCs(u, code, snapshots) \/ UpgradeLogStorage(u, code, snapshots)
        PROVE  MainInv'
    BY <1>5, UpgradeTCsHolds, UpgradeLogStorageHolds
  <1>6. ASSUME NEW u \in Upgrade, NEW c \in Canister, Chain(u, c)
        PROVE  MainInv'
    BY <1>6, ChainHolds
  <1>7. ASSUME NEW u \in Upgrade, EndUpgrade(u)
        PROVE  MainInv'
    BY <1>7, EndUpgradeHolds
  <1>8. CASE UNCHANGED vars
    <2>1. /\ UNCHANGED <<trade_contracts, mid_call_data, create, log_storage, upgrade, canisters>>
          /\ installed' = installed /\ status' = status /\ reported' = reported
          /\ overlapped' = overlapped
          /\ tc_canister_code' = tc_canister_code /\ storage_canister_code' = storage_canister_code
      BY <1>8 DEF vars, main, codes, canisters
    <2>2. MainTypeOK'
      BY <2>1 DEF MainInv, MainTypeOK, CanistersTypeOK
    <2> QED
      BY <2>1, <2>2, SamePlaces, SameUpgrades DEF MainInv
  <1> QED
    BY <1>1, <1>2, <1>3, <1>4, <1>5, <1>6, <1>7, <1>8 DEF Next

(* In every reachable state of cm_main each creation holds the one lock,   *)
(* every canister is in one place, the hashes on record are behind the     *)
(* modules only by what an open upgrade holds in its result, and a         *)
(* canister is stopped only by a chain that is past its stop.              *)
THEOREM MainInvariant == Spec => []MainInv
  BY InitHolds, StepHolds, PTL DEF Spec

(* Only one creation runs at a time, and a canister that was created and   *)
(* paid for is never lost: it is the canister of one trade contract, or of *)
(* the creation in progress, which keeps it when the install fails.        *)
THEOREM CanistersNotLost == Spec => []CanisterNotLost
  <1>1. MainInv => CanisterNotLost
    <2> SUFFICES ASSUME MainInv
                 PROVE  CanisterNotLost
      OBVIOUS
    <2>1. TypeOK
      <3>1. /\ \A i \in DOMAIN trade_contracts : trade_contracts[i] \in TradeContract
            /\ \A i \in DOMAIN mid_call_data : mid_call_data[i] \in MidCallData
            /\ \A p \in Call : create[p] \in Creation \cup {NotRunning}
        BY DEF MainInv, MainTypeOK
      <3> QED
        BY <3>1 DEF TypeOK, MainInv, MainTypeOK, Creation
    <2>2. Cardinality({p \in Call : create[p] # NotRunning})
            = Cardinality({i \in DOMAIN mid_call_data : mid_call_data[i].lock})
      <3> DEFINE running == {p \in Call : create[p] # NotRunning}
                 locked == {i \in DOMAIN mid_call_data : mid_call_data[i].lock}
      <3>1. CASE \E p \in Call : Runs(p)
        <4>1. PICK p \in Call : Runs(p)
          BY <3>1
        <4>2. create[p] \in Creation /\ create[p].pc # "none"
          BY <4>1 DEF Runs, MainInv, MainTypeOK, Creation
        <4>3. DOMAIN mid_call_data = {1} /\ MidCall.lock /\ \A q \in Call : Runs(q) => q = p
          BY <4>1, <4>2, RunFacts DEF MainInv, CreationOK
        <4>4. running = {p}
          BY <4>1, <4>3 DEF Runs
        <4>5. locked = {1}
          BY <4>3 DEF MidCall
        <4> HIDE DEF running, locked
        <4>6. Cardinality(running) = Cardinality(locked)
          BY <4>4, <4>5, FS_Singleton
        <4> QED
          BY <4>6 DEF running, locked
      <3>2. CASE \A p \in Call : ~Runs(p)
        <4>1. running = {}
          BY <3>2 DEF Runs
        <4>2. locked = {}
          <5>1. ASSUME NEW i \in DOMAIN mid_call_data, mid_call_data[i].lock
                PROVE  FALSE
            <6>1. mid_call_data \in Seq(MidCallData) /\ Len(mid_call_data) <= 1
              BY DEF MainInv, MainTypeOK
            <6>2. i = 1 /\ mid_call_data # <<>>
              BY <6>1
            <6> QED
              BY <3>2, <5>1, <6>2 DEF MainInv, CreationOK, MidCall
          <5> QED
            BY <5>1
        <4>3. running = locked
          BY <4>1, <4>2
        <4> HIDE DEF running, locked
        <4>4. Cardinality(running) = Cardinality(locked)
          BY <4>3
        <4> QED
          BY <4>4 DEF running, locked
      <3> QED
        BY <3>1, <3>2
    <2>3. \A i, j \in DOMAIN trade_contracts :
             trade_contracts[i].ledger = trade_contracts[j].ledger => i = j
      BY DEF MainInv, PlacesOK
    <2>4. ASSUME NEW c \in Created
          PROVE  LET listed == {i \in DOMAIN trade_contracts : trade_contracts[i].canister = c}
                 IN IF listed = {}
                    THEN BeingCreated(c) \/ \E i \in DOMAIN mid_call_data : mid_call_data[i].canister = c
                    ELSE Cardinality(listed) = 1
      <3> DEFINE listed == {i \in DOMAIN trade_contracts : trade_contracts[i].canister = c}
      <3>1. CASE listed = {}
        BY <3>1 DEF MainInv, PlacesOK
      <3>2. CASE listed # {}
        <4>1. PICK i \in listed : TRUE
          BY <3>2
        <4>2. listed = {i}
          BY <4>1 DEF MainInv, PlacesOK
        <4> HIDE DEF listed
        <4>3. Cardinality(listed) = 1
          BY <4>2, FS_Singleton
        <4> QED
          BY <3>2, <4>3 DEF listed
      <3> QED
        BY <3>1, <3>2
    <2> QED
      BY <2>1, <2>2, <2>3, <2>4 DEF CanisterNotLost, OneCreationAtATime
  <1> QED
    BY <1>1, MainInvariant, PTL

(* The module hash on record, of a trade contract or a storage canister,   *)
(* is that of the module installed, unless the canister is on an open list *)
(* or two calls worked on it at the same time.                             *)
THEOREM HashesRecorded == Spec => []RecordedIsInstalled
  <1>1. MainInv => RecordedIsInstalled
    <2> SUFFICES ASSUME MainInv
                 PROVE  RecordedIsInstalled
      OBVIOUS
    <2>1. \A c \in Canister \ OnOpenList : NotReplaced(c)
      BY DEF OnOpenList, NotReplaced, MainInv, UpgradesOK
    <2> QED
      BY <2>1, CMMainAssumption DEF RecordedIsInstalled, MainInv, HashesOK
  <1> QED
    BY <1>1, MainInvariant, PTL

(* A canister that no chain is working on runs, unless a failed stop or    *)
(* start of it was reported.                                               *)
THEOREM StopsReported == Spec => []StoppedIsReported
  <1>1. MainInv => StoppedIsReported
    BY DEF MainInv, StopsOK, StoppedIsReported, InChain
  <1> QED
    BY <1>1, MainInvariant, PTL

(* The module of a canister is replaced only while the canister is         *)
(* stopped, unless two upgrades work on it at the same time.               *)
THEOREM ModulesReplacedStopped == Spec => ReplacedWhileStopped
  <1>1. ASSUME MainInv, [Next]_vars, NEW c \in Canister,
               installed'[c] # installed[c], installed[c] \in Code, c \notin overlapped
        PROVE  status[c] = "stopped"
    <2>0. installed \in [Canister -> Code \cup {NoCode, Absent}]
      BY <1>1 DEF MainInv, MainTypeOK, CanistersTypeOK
    <2>1. CASE \E u \in Upgrade, d \in Canister : InstallUpgrade(u, d)
      <3>1. PICK u \in Upgrade, d \in Canister : InstallUpgrade(u, d)
        BY <2>1
      <3>2. d = c /\ upgrade[u].stage[c] = "install"
        BY <1>1, <2>0, <3>1 DEF InstallUpgrade
      <3> QED
        BY <1>1, <3>2 DEF MainInv, StopsOK
    <2>2. ASSUME NEW p \in Call, NEW d \in Canister, CanisterCreated(p, d)
          PROVE  FALSE
      BY <1>1, <2>0, <2>2, CodeAssumption DEF CanisterCreated
    <2>3. ASSUME NEW p \in Call, CodeInstalled(p)
          PROVE  FALSE
      BY <1>1, <2>0, <2>3, CodeAssumption DEF CodeInstalled
    <2>4. \/ \E u \in Upgrade, d \in Canister : InstallUpgrade(u, d)
          \/ \E p \in Call, d \in Canister : CanisterCreated(p, d)
          \/ \E p \in Call : CodeInstalled(p)
          \/ installed' = installed
      <3>1. CASE UNCHANGED vars
        BY <3>1 DEF vars, canisters
      <3>2. CASE Next
        <4>1. ASSUME NEW p \in Call, NEW ledger \in Ledger, CreateTradeContract(p, ledger)
              PROVE  installed' = installed
          BY <4>1 DEF CreateTradeContract, canisters
        <4>2. ASSUME NEW p \in Call, \/ Continue(p) \/ BeginCreate(p) \/ BeginInstall(p)
                                     \/ CreateCanisterFails(p) \/ InstallFails(p)
                                     \/ TradeContractCreated(p)
              PROVE  installed' = installed
          BY <4>2 DEF Continue, BeginCreate, BeginInstall, CreateCanisterFails, InstallFails,
                      TradeContractCreated, canisters
        <4>3. ASSUME NEW code \in Code, UploadCode(code)
              PROVE  installed' = installed
          BY <4>3 DEF UploadCode, canisters
        <4>4. ASSUME NEW u \in Upgrade, NEW code \in Code, NEW snapshots \in BOOLEAN,
                     UpgradeTCs(u, code, snapshots) \/ UpgradeLogStorage(u, code, snapshots)
              PROVE  installed' = installed
          BY <4>4 DEF UpgradeTCs, UpgradeLogStorage
        <4>5. ASSUME NEW u \in Upgrade, NEW d \in Canister, Chain(u, d), ~InstallUpgrade(u, d)
              PROVE  installed' = installed
          BY <4>5 DEF Chain, ChainStep, ListSnapshots, StopCanister, StopFails, TakeSnapshot,
                      InstallUpgradeFails, StartCanister, canisters
        <4>6. ASSUME NEW u \in Upgrade, EndUpgrade(u)
              PROVE  installed' = installed
          BY <4>6 DEF EndUpgrade, canisters
        <4> QED
          BY <3>2, <4>1, <4>2, <4>3, <4>4, <4>5, <4>6 DEF Next
      <3> QED
        BY <1>1, <3>1, <3>2
    <2> QED
      BY <1>1, <2>1, <2>2, <2>3, <2>4
  <1>2. MainInv /\ [Next]_vars
          => [\A c \in Canister : installed'[c] # installed[c] /\ installed[c] \in Code
                => status[c] = "stopped" \/ c \in overlapped]_vars
    BY <1>1
  <1> QED
    BY <1>2, MainInvariant, PTL DEF Spec, ReplacedWhileStopped

=============================================================================
