-------------------------- MODULE CanisterUpgrades --------------------------
(***************************************************************************)
(* The upgrade of a list of canisters by the canister that controls them:  *)
(* upgrade_canisters of cts_lib.  For every canister of the list, in       *)
(* parallel with the others, it makes a chain of calls to the management   *)
(* canister:                                                               *)
(*                                                                         *)
(*    list snapshots -> stop -> take snapshot -> install code -> start     *)
(*                                                                         *)
(* and each of them may fail.  Nothing keeps a second upgrade of the same  *)
(* canister from starting before the first has ended, and the controller   *)
(* writes the new module hashes down only when the last chain of its list  *)
(* has ended.                                                              *)
(*                                                                         *)
(* A step below is the effect of one call on the management canister       *)
(* together with its answer.  The caller does nothing with an answer but   *)
(* make the next call, whose effect is a later step.                       *)
(***************************************************************************)
EXTENDS Naturals, FiniteSets

CONSTANTS
    Canister,   \* the canisters that may be created
    Code,       \* the wasm modules, each with its module hash
    NoCode,     \* what a created canister without a module runs
    Absent,     \* the canister is not created yet
    Upgrade     \* the upgrade calls that are made, a bound: each is made once

ASSUME CodeAssumption == Absent \notin Code \cup {NoCode} /\ NoCode \notin Code

VARIABLES
    installed,  \* the module of each canister
    status,     \* whether it runs
    upgrade,    \* the upgrade calls
    reported,   \* canisters whose last stop or start was reported as failed (history)
    overlapped  \* canisters that two calls worked on at the same time (history)

canisters == <<installed, status, reported, overlapped>>

\* Where the chain of calls for one canister is; "none" when it is not on the list.
Stage == {"none", "list", "stop", "snapshot", "install", "start", "done"}

None == [pc |-> "none", code |-> NoCode, snapshots |-> FALSE,
           stage |-> [c \in Canister |-> "none"], success |-> {}]

CanistersTypeOK ==
    /\ installed \in [Canister -> Code \cup {NoCode, Absent}]
    /\ status \in [Canister -> {"running", "stopped"}]
    /\ upgrade \in [Upgrade -> [pc: {"none", "open", "ended"}, code: Code \cup {NoCode},
                                snapshots: BOOLEAN, stage: [Canister -> Stage],
                                success: SUBSET Canister]]
    /\ reported \subseteq Canister
    /\ overlapped \subseteq Canister

\* The chain of upgrade call u for canister c is somewhere between its first and last call.
InChain(u, c) == upgrade[u].stage[c] \notin {"none", "done"}

\* Canisters that an open upgrade call has on its list: until it ends its result is not recorded.
OnOpenList == {c \in Canister : \E u \in Upgrade : upgrade[u].stage[c] # "none"}

-----------------------------------------------------------------------------
(***************************************************************************)
(* upgrade_canisters: the chains of all canisters of the list start.       *)
(* busy are the canisters that some other call is working on.              *)
(***************************************************************************)
OpenUpgrade(u, list, code, snapshots, busy) ==
    /\ upgrade[u].pc = "none"
    /\ upgrade' = [upgrade EXCEPT ![u] =
           [pc |-> "open", code |-> code, snapshots |-> snapshots,
            stage |-> [c \in Canister |-> IF c \notin list THEN "none"
                                          ELSE IF snapshots THEN "list" ELSE "stop"],
            success |-> {}]]
    /\ overlapped' = overlapped \cup (list \cap (OnOpenList \cup busy))

To(u, c, stage) == upgrade' = [upgrade EXCEPT ![u].stage[c] = stage]

\* list_canister_snapshots: an error ends the chain before anything was done.
ListSnapshots(u, c) ==
    /\ upgrade[u].stage[c] = "list"
    /\ To(u, c, "stop") \/ To(u, c, "done")
    /\ UNCHANGED canisters

\* stop_canister: after an answer that is not an error the canister is stopped.
StopCanister(u, c) ==
    /\ upgrade[u].stage[c] = "stop"
    /\ installed[c] # Absent
    /\ status' = [status EXCEPT ![c] = "stopped"]
    /\ To(u, c, IF upgrade[u].snapshots THEN "snapshot" ELSE "install")
    /\ UNCHANGED <<installed, reported, overlapped>>

StopFailsIgnored(u, c) == \* mutant: goes on after the error
    /\ upgrade[u].stage[c] = "stop"
    /\ To(u, c, "install")
    /\ reported' = reported \cup {c}
    /\ UNCHANGED <<installed, status, overlapped>>

(***************************************************************************)
(* An error ends the chain: the call was refused, or it timed out while    *)
(* the canister waited for its open calls and the canister stops later.    *)
(***************************************************************************)
StopFails(u, c) ==
    /\ upgrade[u].stage[c] = "stop"
    /\ \E s \in {status[c], "stopped"} : status' = [status EXCEPT ![c] = s]
    /\ To(u, c, "done")
    /\ reported' = reported \cup {c}
    /\ UNCHANGED <<installed, overlapped>>

\* take_canister_snapshot: without the snapshot nothing is installed.
TakeSnapshot(u, c) ==
    /\ upgrade[u].stage[c] = "snapshot"
    /\ To(u, c, "install") \/ To(u, c, "start")
    /\ UNCHANGED canisters

\* install_code in upgrade mode, which needs a module to replace.
InstallUpgrade(u, c) ==
    /\ upgrade[u].stage[c] = "install"
    /\ installed[c] \in Code
    /\ installed' = [installed EXCEPT ![c] = upgrade[u].code]
    /\ upgrade' = [upgrade EXCEPT ![u].stage[c] = "start", ![u].success = @ \cup {c}]
    /\ UNCHANGED <<status, reported, overlapped>>

InstallUpgradeReturns(u, c) == \* mutant: returns on the error, as after a failed stop
    /\ upgrade[u].stage[c] = "install"
    /\ To(u, c, "done")
    /\ UNCHANGED canisters

\* A module that traps in its post_upgrade, or a management canister that rejects the call.
InstallUpgradeFails(u, c) ==
    /\ upgrade[u].stage[c] = "install"
    /\ To(u, c, "start")
    /\ UNCHANGED canisters

\* start_canister, called whether or not the module was installed.
StartCanister(u, c) ==
    /\ upgrade[u].stage[c] = "start"
    /\ To(u, c, "done")
    /\ \/ status' = [status EXCEPT ![c] = "running"] /\ reported' = reported \ {c}
       \/ reported' = reported \cup {c} /\ UNCHANGED status
    /\ UNCHANGED <<installed, overlapped>>

ChainStep(u, c) ==
    \/ ListSnapshots(u, c) \/ StopCanister(u, c) \/ StopFails(u, c) \/ TakeSnapshot(u, c)
    \/ InstallUpgrade(u, c) \/ InstallUpgradeFails(u, c) \/ StartCanister(u, c)

\* join_all: every chain of the list has ended.
AllEnded(u) == upgrade[u].pc = "open" /\ \A c \in Canister : ~InChain(u, c)
=============================================================================
