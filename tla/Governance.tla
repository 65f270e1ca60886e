------------------------------ MODULE Governance ------------------------------
(***************************************************************************)
(* Who decides in the YieldVault contract:                                 *)
(*   lib.rs         admin rotation, pause, dual-approval emergency actions,*)
(*                  DAO proposals for the benji strategy, storage migration*)
(*   emergency.rs   storage of the emergency proposals                     *)
(*   upgrade.rs     storage of the admin, the pending admin, the version   *)
(*                                                                         *)
(* An invocation is atomic and fails unless the address it names signs it, *)
(* so an action is enabled exactly when that address can make the call.    *)
(* The effect of an emergency divest on the books is Vault's divest, which *)
(* needs nobody's signature and so is always possible there; the effects   *)
(* of pausing and of a new benji strategy are Vault's set_paused and       *)
(* execute_strategy_proposal.                                              *)
(***************************************************************************)
EXTENDS Integers, Sequences

CONSTANTS Addresses,      \* who may sign
          None,           \* an absent Option
          InitialAdmin,   \* argument of initialize
          Strategies,     \* what a DAO proposal may name
          Hashes,         \* contract code
          InitialHash,
          Reasons,        \* arguments of pause
          EmergencyCalls, \* arguments of propose_emergency_action
          Weights,        \* vote weights
          Thresholds,     \* arguments of set_dao_threshold
          Targets,        \* arguments of migrate_storage
          STORAGE_VERSION,\* 2 in the code
          MaxI128,        \* largest vote tally
          MaxProposals    \* bound: proposals of each kind

ASSUME GovernanceAssumption ==
    /\ InitialAdmin \in Addresses /\ None \notin Addresses
    /\ InitialHash \in Hashes /\ None \notin Hashes
    /\ None \notin Strategies /\ None \notin Nat
    /\ Reasons \subseteq 0..6
    /\ EmergencyCalls \subseteq
          [kind : {"Pause", "Unpause", "EmergencyDivest", "ForceUpgrade"},
           pause_reason_code : Nat, divest_amount : Nat \cup {None},
           wasm_hash : Hashes \cup {None}]
    /\ Weights \subseteq Int /\ Thresholds \subseteq Int
    /\ Targets \subseteq Nat /\ STORAGE_VERSION \in Nat
    /\ MaxI128 \in Nat \ {0} /\ MaxProposals \in Nat

VARIABLES
    admin, pending_admin,       \* ProxyDataKey::Admin, PendingAdmin
    storage_version, wasm,      \* ProxyDataKey::StorageVersion, running code
    is_paused, pause_reason,    \* DataKey::State.is_paused, PauseReason
    primary, secondary,         \* DataKey::EmergencyApprover...
    emergency,                  \* DataKey::EmergencyProposal(id), by id
    dao_threshold,              \* DataKey::DaoThreshold
    proposals,                  \* DataKey::Proposal(id), by id
    votes,                      \* DataKey::Vote(id, voter), with the ballot
    benji_strategy,             \* DataKey::BenjiStrategy
    nominated_by,               \* history: who proposed the pending admin
    executions                  \* history: confirmed emergency actions

adminVars == <<admin, pending_admin, nominated_by>>
codeVars == <<storage_version, wasm>>
pauseVars == <<is_paused, pause_reason>>
emergencyVars == <<primary, secondary, emergency, executions>>
daoVars == <<dao_threshold, proposals, votes, benji_strategy>>
vars == <<adminVars, codeVars, pauseVars, emergencyVars, daoVars>>

PauseReason == 0..6
EmergencyActionKind == {"Pause", "Unpause", "EmergencyDivest", "ForceUpgrade"}
EmergencyProposal == [kind : EmergencyActionKind, pause_reason_code : Nat,
                      divest_amount : Nat \cup {None},
                      wasm_hash : Hashes \cup {None}, initiator : Addresses,
                      confirmed : BOOLEAN, executed : BOOLEAN]
StrategyProposal == [strategy : Strategies, yes_votes : Int, no_votes : Int,
                     executed : BOOLEAN]
Vote == [id : Nat, voter : Addresses, support : BOOLEAN, weight : Int]
Execution == [id : Nat, by : Addresses]

TypeOK ==
    /\ admin \in Addresses /\ pending_admin \in Addresses \cup {None}
    /\ nominated_by \in Addresses \cup {None}
    /\ storage_version \in Nat /\ wasm \in Hashes
    /\ is_paused \in BOOLEAN /\ pause_reason \in PauseReason \cup {None}
    /\ primary \in Addresses \cup {None} /\ secondary \in Addresses \cup {None}
    /\ emergency \in Seq(EmergencyProposal)
    /\ dao_threshold \in Int /\ proposals \in Seq(StrategyProposal)
    /\ votes \subseteq Vote /\ benji_strategy \in Strategies \cup {None}
    /\ executions \in Seq(Execution)

\* initialize, called once at deployment.
initialize ==
    /\ admin = InitialAdmin /\ pending_admin = None /\ nominated_by = None
    /\ storage_version = STORAGE_VERSION /\ wasm = InitialHash
    /\ is_paused = FALSE /\ pause_reason = None
    /\ primary = None /\ secondary = None /\ emergency = << >>
    /\ dao_threshold = 1 /\ proposals = << >> /\ votes = {}
    /\ benji_strategy = None
    /\ executions = << >>

-----------------------------------------------------------------------------
(* The admin and the code *)

propose_admin(new_admin) ==
    /\ pending_admin' = new_admin
    /\ nominated_by' = admin
    /\ UNCHANGED <<admin, codeVars, pauseVars, emergencyVars, daoVars>>

accept_admin ==
    /\ pending_admin # None
    /\ admin' = pending_admin
    /\ pending_admin' = None
    /\ nominated_by' = None
    /\ UNCHANGED <<codeVars, pauseVars, emergencyVars, daoVars>>

cancel_admin_rotation ==
    /\ pending_admin' = None
    /\ nominated_by' = None
    /\ UNCHANGED <<admin, codeVars, pauseVars, emergencyVars, daoVars>>

\* The State record exists since initialize, so only the version is written.
run_storage_migration(target_version) ==
    /\ storage_version <= target_version /\ target_version <= STORAGE_VERSION
    /\ storage_version' = target_version

migrate_storage(target_version) ==
    /\ run_storage_migration(target_version)
    /\ UNCHANGED <<adminVars, wasm, pauseVars, emergencyVars, daoVars>>

upgrade(new_wasm_hash) ==
    /\ run_storage_migration(STORAGE_VERSION)
    /\ wasm' = new_wasm_hash
    /\ UNCHANGED <<adminVars, pauseVars, emergencyVars, daoVars>>

-----------------------------------------------------------------------------
(* Pausing *)

pause_with(reason) == is_paused' = TRUE /\ pause_reason' = reason

unpause_now == is_paused' = FALSE /\ pause_reason' = None

pause(reason) ==
    /\ pause_with(reason)
    /\ UNCHANGED <<adminVars, codeVars, emergencyVars, daoVars>>

unpause ==
    /\ unpause_now
    /\ UNCHANGED <<adminVars, codeVars, emergencyVars, daoVars>>

pause_reason_from_code(code) == IF code \in PauseReason THEN code ELSE 1

apply_emergency_pause(code) == pause_with(pause_reason_from_code(code))

apply_emergency_unpause == unpause_now

-----------------------------------------------------------------------------
(* Dual-approval emergency actions *)

set_emergency_approvers(new_primary, new_secondary) ==
    /\ new_primary # new_secondary
    /\ primary' = new_primary /\ secondary' = new_secondary
    /\ UNCHANGED <<adminVars, codeVars, pauseVars, emergency, executions,
                   daoVars>>

propose_emergency_action(call) ==
    /\ primary # None
    /\ Len(emergency) < MaxProposals    \* bound
    /\ emergency' = Append(emergency,
          [kind |-> call.kind, pause_reason_code |-> call.pause_reason_code,
           divest_amount |-> call.divest_amount, wasm_hash |-> call.wasm_hash,
           initiator |-> primary, confirmed |-> FALSE, executed |-> FALSE])
    /\ UNCHANGED <<adminVars, codeVars, pauseVars, primary, secondary,
                   executions, daoVars>>

apply(proposal) ==
    \/ /\ proposal.kind = "Pause"
       /\ apply_emergency_pause(proposal.pause_reason_code)
       /\ UNCHANGED codeVars
    \/ /\ proposal.kind = "Unpause"
       /\ apply_emergency_unpause
       /\ UNCHANGED codeVars
    \/ /\ proposal.kind = "EmergencyDivest"
       /\ proposal.divest_amount # None
       /\ UNCHANGED <<codeVars, pauseVars>>
    \/ /\ proposal.kind = "ForceUpgrade"
       /\ proposal.wasm_hash # None
       /\ wasm' = proposal.wasm_hash
       /\ UNCHANGED <<storage_version, pauseVars>>

\* Mutant: the secondary approver may confirm a proposal of its own.
may_confirm_any(id) == ~emergency[id].executed /\ ~emergency[id].confirmed

may_confirm(id) ==
    /\ ~emergency[id].executed /\ ~emergency[id].confirmed
    /\ emergency[id].initiator # secondary

confirm_emergency_action(id) ==
    /\ secondary # None
    /\ may_confirm(id)
    /\ apply(emergency[id])
    /\ emergency' = [emergency EXCEPT ![id].confirmed = TRUE,
                                      ![id].executed = TRUE]
    /\ executions' = Append(executions, [id |-> id, by |-> secondary])
    /\ UNCHANGED <<adminVars, primary, secondary, daoVars>>

-----------------------------------------------------------------------------
(* The DAO's choice of the benji strategy *)

set_dao_threshold(threshold) ==
    /\ threshold > 0
    /\ dao_threshold' = threshold
    /\ UNCHANGED <<adminVars, codeVars, pauseVars, emergencyVars, proposals,
                   votes, benji_strategy>>

create_strategy_proposal(strategy) ==
    /\ Len(proposals) < MaxProposals    \* bound
    /\ proposals' = Append(proposals, [strategy |-> strategy, yes_votes |-> 0,
                                       no_votes |-> 0, executed |-> FALSE])
    /\ UNCHANGED <<adminVars, codeVars, pauseVars, emergencyVars,
                   dao_threshold, votes, benji_strategy>>

has_voted(id, voter) == \E v \in votes : v.id = id /\ v.voter = voter

\* Mutant: a closed proposal still takes votes.
may_vote_late(id, voter) == ~has_voted(id, voter)
\* Mutant: a voter may vote again.
may_vote_twice(id, voter) == ~proposals[id].executed

may_vote(id, voter) == ~has_voted(id, voter) /\ ~proposals[id].executed

vote_on_proposal(id, voter, support, weight) ==
    LET p == proposals[id]
        tally == weight + (IF support THEN p.yes_votes ELSE p.no_votes)
    IN /\ weight > 0
       /\ may_vote(id, voter)
       /\ tally <= MaxI128
       /\ proposals' = [proposals EXCEPT ![id] =
             IF support THEN [p EXCEPT !.yes_votes = tally]
                        ELSE [p EXCEPT !.no_votes = tally]]
       /\ votes' = votes \cup {[id |-> id, voter |-> voter,
                                support |-> support, weight |-> weight]}
       /\ UNCHANGED <<adminVars, codeVars, pauseVars, emergencyVars,
                      dao_threshold, benji_strategy>>

execute_strategy_proposal(id) ==
    LET p == proposals[id] IN
    /\ ~p.executed
    /\ p.yes_votes >= dao_threshold
    /\ p.yes_votes > p.no_votes
    /\ benji_strategy' = p.strategy
    /\ proposals' = [proposals EXCEPT ![id].executed = TRUE]
    /\ UNCHANGED <<adminVars, codeVars, pauseVars, emergencyVars,
                   dao_threshold, votes>>

-----------------------------------------------------------------------------
AdminNext ==
    \/ \E a \in Addresses : propose_admin(a)
    \/ accept_admin \/ cancel_admin_rotation
    \/ \E v \in Targets : migrate_storage(v)
    \/ \E h \in Hashes : upgrade(h)
    \/ \E r \in Reasons : pause(r)
    \/ unpause

EmergencyNext ==
    \/ \E a, b \in Addresses : set_emergency_approvers(a, b)
    \/ \E call \in EmergencyCalls : propose_emergency_action(call)
    \/ \E id \in 1..Len(emergency) : confirm_emergency_action(id)

DaoNext ==
    \/ \E n \in Thresholds : set_dao_threshold(n)
    \/ \E s \in Strategies : create_strategy_proposal(s)
    \/ \E id \in 1..Len(proposals) :
          \/ \E a \in Addresses, b \in BOOLEAN, n \in Weights :
                vote_on_proposal(id, a, b, n)
          \/ execute_strategy_proposal(id)

Next == AdminNext \/ EmergencyNext \/ DaoNext

Spec == initialize /\ [][Next]_vars

-----------------------------------------------------------------------------
(* Properties *)

\* A nomination never outlives the admin who made it: the role passes only to
\* somebody the current admin chose and did not take back (lib.rs:374-411).
NominatedByAdmin == pending_admin # None => nominated_by = admin

\* A reason is stored exactly while the vault is paused, whichever of the four
\* paths paused or unpaused it last (lib.rs:455-476 and 590-602).
ReasonWhilePaused == is_paused <=> pause_reason # None

\* Every executed emergency action had two different signers, even when the
\* admin reassigns or swaps the approvers between the two signatures
\* (emergency.rs:3, "authorization from two distinct approvers").
TwoApprovers == \A i \in 1..Len(executions) :
                   executions[i].by # emergency[executions[i].id].initiator

\* An emergency proposal takes effect at most once.
ExecutedOnce == \A i, j \in 1..Len(executions) :
                   executions[i].id = executions[j].id => i = j

\* Power is used only by who holds it, and once: the admin role passes to the
\* present admin's nominee, an emergency action takes two people and is taken
\* once, however roles and approvers are reassigned in between.
Authorised == NominatedByAdmin /\ TwoApprovers /\ ExecutedOnce

\* The benji strategy, which alone may report yield, is one that an executed
\* proposal names, and every executed proposal still shows a majority: no
\* ballot counted after the decision can have changed it.
Elected ==
    /\ \A id \in 1..Len(proposals) :
          proposals[id].executed
              => proposals[id].yes_votes > proposals[id].no_votes
    /\ benji_strategy # None
          => \E id \in 1..Len(proposals) :
                proposals[id].executed /\ proposals[id].strategy = benji_strategy
=============================================================================
