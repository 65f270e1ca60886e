--------------------------- MODULE GovernanceProofs ---------------------------
(***************************************************************************)
(* The properties of Governance for every set of addresses, strategies and *)
(* code, and every number of proposals.  The inductive invariant adds to   *)
(* the properties that an execution names a proposal marked executed:      *)
(* without it a step could execute an id twice, or change the initiator an *)
(* execution is compared with.                                             *)
(***************************************************************************)
EXTENDS MCGovernance, Sums, SequenceTheorems, TLAPS

ExecutionsMarked ==
    \A i \in 1..Len(executions) :
        /\ executions[i].id \in 1..Len(emergency)
        /\ emergency[executions[i].id].executed

IInv == /\ TypeOK /\ NominatedByAdmin /\ ReasonWhilePaused
        /\ ExecutionsMarked /\ TwoApprovers /\ ExecutedOnce /\ Elected

\* The deployed contract satisfies the invariant.
LEMMA InitIInv == initialize => IInv
<1> SUFFICES ASSUME initialize PROVE IInv
  OBVIOUS
<1> USE GovernanceAssumption
<1>0. << >> \in Seq(EmergencyProposal) /\ << >> \in Seq(StrategyProposal)
      /\ << >> \in Seq(Execution)
  OBVIOUS
<1>1. TypeOK
  <2>1. emergency \in Seq(EmergencyProposal) /\ executions \in Seq(Execution)
        /\ proposals \in Seq(StrategyProposal)
    BY <1>0, Zenon DEF initialize
  <2>2. /\ admin \in Addresses /\ pending_admin \in Addresses \cup {None}
        /\ nominated_by \in Addresses \cup {None}
        /\ storage_version \in Nat /\ wasm \in Hashes
        /\ is_paused \in BOOLEAN /\ pause_reason \in PauseReason \cup {None}
        /\ primary \in Addresses \cup {None}
        /\ secondary \in Addresses \cup {None}
        /\ votes \subseteq Vote /\ benji_strategy \in Strategies \cup {None}
    BY Zenon DEF initialize
  <2>3. dao_threshold \in Int
    BY DEF initialize
  <2> QED BY <2>1, <2>2, <2>3, Zenon DEF TypeOK
<1>2. NominatedByAdmin /\ ReasonWhilePaused
  BY DEF initialize, NominatedByAdmin, ReasonWhilePaused
<1>3. ExecutionsMarked /\ TwoApprovers /\ ExecutedOnce /\ Elected
  BY DEF initialize, ExecutionsMarked, TwoApprovers, ExecutedOnce, Elected
<1> QED BY <1>1, <1>2, <1>3 DEF IInv

\* The admin's operations leave proposals and executions alone.
LEMMA AdminStep ==
    ASSUME IInv, AdminNext
    PROVE  IInv'
<1> USE GovernanceAssumption
<1>1. UNCHANGED <<emergencyVars, daoVars>>
  BY DEF AdminNext, propose_admin, accept_admin, cancel_admin_rotation,
         migrate_storage, upgrade, pause, unpause
<1>2. ExecutionsMarked' /\ TwoApprovers' /\ ExecutedOnce' /\ Elected'
  BY <1>1 DEF IInv, emergencyVars, daoVars, ExecutionsMarked, TwoApprovers,
              ExecutedOnce, Elected
<1>3. ASSUME NEW a \in Addresses, propose_admin(a)
      PROVE  TypeOK' /\ NominatedByAdmin' /\ ReasonWhilePaused'
  BY <1>3 DEF propose_admin, IInv, TypeOK, NominatedByAdmin, ReasonWhilePaused,
              codeVars, pauseVars, emergencyVars, daoVars
<1>4. ASSUME accept_admin
      PROVE  TypeOK' /\ NominatedByAdmin' /\ ReasonWhilePaused'
  BY <1>4 DEF accept_admin, IInv, TypeOK, NominatedByAdmin, ReasonWhilePaused,
              codeVars, pauseVars, emergencyVars, daoVars
<1>5. ASSUME cancel_admin_rotation
      PROVE  TypeOK' /\ NominatedByAdmin' /\ ReasonWhilePaused'
  BY <1>5 DEF cancel_admin_rotation, IInv, TypeOK, NominatedByAdmin,
              ReasonWhilePaused, codeVars, pauseVars, emergencyVars, daoVars
<1>6. ASSUME NEW v \in Targets, migrate_storage(v)
      PROVE  TypeOK' /\ NominatedByAdmin' /\ ReasonWhilePaused'
  BY <1>6 DEF migrate_storage, run_storage_migration, IInv, TypeOK,
              NominatedByAdmin, ReasonWhilePaused, adminVars, pauseVars,
              emergencyVars, daoVars
<1>7. ASSUME NEW h \in Hashes, upgrade(h)
      PROVE  TypeOK' /\ NominatedByAdmin' /\ ReasonWhilePaused'
  BY <1>7 DEF upgrade, run_storage_migration, IInv, TypeOK, NominatedByAdmin,
              ReasonWhilePaused, adminVars, pauseVars, emergencyVars, daoVars
<1>8. ASSUME NEW r \in Reasons, pause(r)
      PROVE  TypeOK' /\ NominatedByAdmin' /\ ReasonWhilePaused'
  BY <1>8 DEF pause, pause_with, PauseReason, IInv, TypeOK, NominatedByAdmin,
              ReasonWhilePaused, adminVars, codeVars, emergencyVars, daoVars
<1>9. ASSUME unpause
      PROVE  TypeOK' /\ NominatedByAdmin' /\ ReasonWhilePaused'
  BY <1>9 DEF unpause, unpause_now, PauseReason, IInv, TypeOK,
              NominatedByAdmin, ReasonWhilePaused, adminVars, codeVars,
              emergencyVars, daoVars
<1>10. TypeOK' /\ NominatedByAdmin' /\ ReasonWhilePaused'
  BY <1>3, <1>4, <1>5, <1>6, <1>7, <1>8, <1>9 DEF AdminNext
<1> QED BY <1>2, <1>10 DEF IInv

\* Reassigning the approvers touches no proposal.
LEMMA ApproversStep ==
    ASSUME IInv, NEW a \in Addresses, NEW b \in Addresses,
           set_emergency_approvers(a, b)
    PROVE  IInv'
BY DEF set_emergency_approvers, IInv, TypeOK, NominatedByAdmin,
       ReasonWhilePaused, ExecutionsMarked, TwoApprovers, ExecutedOnce, Elected,
       adminVars, codeVars, pauseVars, daoVars

\* A new emergency proposal gets a new id.
LEMMA ProposeStep ==
    ASSUME IInv, NEW call \in EmergencyCalls, propose_emergency_action(call)
    PROVE  IInv'
<1> USE GovernanceAssumption
<1> DEFINE p == [kind |-> call.kind,
                 pause_reason_code |-> call.pause_reason_code,
                 divest_amount |-> call.divest_amount,
                 wasm_hash |-> call.wasm_hash,
                 initiator |-> primary, confirmed |-> FALSE, executed |-> FALSE]
<1>1. p \in EmergencyProposal
  BY DEF propose_emergency_action, IInv, TypeOK, EmergencyProposal,
         EmergencyActionKind
<1>2. emergency' = Append(emergency, p) /\ emergency \in Seq(EmergencyProposal)
  BY DEF propose_emergency_action, IInv, TypeOK
<1>3. /\ emergency' \in Seq(EmergencyProposal)
      /\ Len(emergency') = Len(emergency) + 1
      /\ \A i \in 1..Len(emergency) : emergency'[i] = emergency[i]
  BY <1>1, <1>2
<1>4. UNCHANGED <<adminVars, codeVars, pauseVars, primary, secondary,
                  executions, daoVars>>
  BY DEF propose_emergency_action
<1>5. TypeOK'
  BY <1>3, <1>4 DEF IInv, TypeOK, adminVars, codeVars, pauseVars, daoVars
<1>6. NominatedByAdmin' /\ ReasonWhilePaused' /\ Elected'
  BY <1>4 DEF IInv, NominatedByAdmin, ReasonWhilePaused, Elected, adminVars,
              pauseVars, daoVars
<1>7. Len(emergency) \in Nat /\ executions' = executions
  BY <1>2, <1>4
<1>8. \A i \in 1..Len(executions) :
         /\ executions[i].id \in 1..Len(emergency')
         /\ emergency'[executions[i].id] = emergency[executions[i].id]
  BY <1>3, <1>7 DEF IInv, ExecutionsMarked
<1>9. ExecutionsMarked'
  BY <1>7, <1>8 DEF IInv, ExecutionsMarked
<1>10. TwoApprovers'
  BY <1>7, <1>8 DEF IInv, TwoApprovers
<1>11. ExecutedOnce'
  BY <1>7 DEF IInv, ExecutedOnce
<1> QED BY <1>5, <1>6, <1>9, <1>10, <1>11 DEF IInv

\* The effect of an emergency action keeps the pause flag and reason together.
LEMMA ApplyStep ==
    ASSUME TypeOK, ReasonWhilePaused, NEW p \in EmergencyProposal, apply(p)
    PROVE  /\ is_paused' \in BOOLEAN /\ pause_reason' \in PauseReason \cup {None}
           /\ storage_version' \in Nat /\ wasm' \in Hashes
           /\ ReasonWhilePaused'
<1> USE GovernanceAssumption
<1>0. /\ is_paused \in BOOLEAN /\ pause_reason \in PauseReason \cup {None}
      /\ storage_version \in Nat /\ wasm \in Hashes
      /\ p.wasm_hash \in Hashes \cup {None} /\ p.pause_reason_code \in Nat
  BY DEF TypeOK, EmergencyProposal
<1>1. CASE p.kind = "Pause"
  BY <1>0, <1>1 DEF apply, apply_emergency_pause, pause_with, codeVars,
     pause_reason_from_code, PauseReason, ReasonWhilePaused
<1>2. CASE p.kind = "Unpause"
  BY <1>0, <1>2 DEF apply, apply_emergency_unpause, unpause_now, codeVars,
     ReasonWhilePaused
<1>3. CASE p.kind = "EmergencyDivest"
  BY <1>0, <1>3 DEF apply, codeVars, pauseVars, ReasonWhilePaused
<1>4. CASE p.kind = "ForceUpgrade"
  BY <1>0, <1>4 DEF apply, pauseVars, ReasonWhilePaused
<1> QED BY <1>1, <1>2, <1>3, <1>4 DEF EmergencyProposal, EmergencyActionKind

\* A confirmation executes a proposal of somebody else that was not executed.
LEMMA ConfirmStep ==
    ASSUME IInv, NEW id \in 1..Len(emergency), confirm_emergency_action(id)
    PROVE  IInv'
<1> DEFINE q == [emergency[id] EXCEPT !.confirmed = TRUE, !.executed = TRUE]
           e == [id |-> id, by |-> secondary]
<1>1. /\ emergency \in Seq(EmergencyProposal)
      /\ emergency[id] \in EmergencyProposal
      /\ executions \in Seq(Execution)
  BY DEF IInv, TypeOK
<1>2. q \in EmergencyProposal /\ q.executed
      /\ q.initiator = emergency[id].initiator
  BY <1>1 DEF EmergencyProposal
<1>3. emergency' = [emergency EXCEPT ![id] = q]
  BY DEF confirm_emergency_action
<1>4. /\ emergency' \in Seq(EmergencyProposal)
      /\ Len(emergency') = Len(emergency)
      /\ \A i \in 1..Len(emergency) :
            emergency'[i] = IF i = id THEN q ELSE emergency[i]
  BY <1>1, <1>2, <1>3
<1>5. e \in Execution /\ secondary # emergency[id].initiator
      /\ ~emergency[id].executed
  BY DEF confirm_emergency_action, may_confirm, IInv, TypeOK, Execution
<1>6. /\ executions' \in Seq(Execution)
      /\ Len(executions') = Len(executions) + 1
      /\ \A i \in 1..Len(executions) : executions'[i] = executions[i]
      /\ executions'[Len(executions) + 1] = e
  BY <1>1, <1>5 DEF confirm_emergency_action
<1>c. e.id = id /\ e.by = secondary
  OBVIOUS
<1> HIDE DEF q, e
<1>7. /\ is_paused' \in BOOLEAN /\ pause_reason' \in PauseReason \cup {None}
      /\ storage_version' \in Nat /\ wasm' \in Hashes
      /\ ReasonWhilePaused'
  BY <1>1, ApplyStep DEF confirm_emergency_action, IInv
<1>8. UNCHANGED <<adminVars, primary, secondary, daoVars>>
  BY DEF confirm_emergency_action
<1>9. TypeOK'
  BY <1>4, <1>6, <1>7, <1>8 DEF IInv, TypeOK, adminVars, daoVars
<1>10. NominatedByAdmin' /\ Elected'
  BY <1>8 DEF IInv, NominatedByAdmin, Elected, adminVars, daoVars
<1>a. \A i \in 1..Len(executions') :
         i \in 1..Len(executions) \/ i = Len(executions) + 1
  BY <1>1, <1>6
<1>b. ASSUME NEW i \in 1..Len(executions')
      PROVE  /\ executions'[i].id \in 1..Len(emergency')
             /\ emergency'[executions'[i].id].executed
             /\ executions'[i].by # emergency'[executions'[i].id].initiator
  <2>1. CASE i = Len(executions) + 1
    <3>1. executions'[i] = e /\ emergency'[id] = q
      BY <2>1, <1>4, <1>6
    <3> QED BY <3>1, <1>2, <1>4, <1>5, <1>c
  <2>2. CASE i \in 1..Len(executions)
    <3>1. /\ executions[i].id \in 1..Len(emergency)
          /\ emergency[executions[i].id].executed
          /\ executions[i].by # emergency[executions[i].id].initiator
      BY <2>2 DEF IInv, ExecutionsMarked, TwoApprovers
    <3>2. executions'[i] = executions[i] /\ Len(emergency') = Len(emergency)
      BY <2>2, <1>4, <1>6
    <3>3. CASE executions[i].id = id
      <4>1. emergency'[executions[i].id] = q
        BY <3>3, <1>4
      <4> QED BY <3>1, <3>2, <3>3, <4>1, <1>2
    <3>4. CASE executions[i].id # id
      <4>1. emergency'[executions[i].id] = emergency[executions[i].id]
        BY <3>1, <3>4, <1>4
      <4> QED BY <3>1, <3>2, <4>1
    <3> QED BY <3>3, <3>4
  <2> QED BY <2>1, <2>2, <1>a
<1>11. ExecutionsMarked'
  BY <1>b DEF ExecutionsMarked
<1>12. TwoApprovers'
  BY <1>b DEF TwoApprovers
<1>13. \A i \in 1..Len(executions) : executions[i].id # id
  BY <1>5 DEF IInv, ExecutionsMarked
<1>14. ExecutedOnce'
  BY <1>1, <1>6, <1>13, <1>c DEF IInv, ExecutedOnce
<1> QED BY <1>7, <1>9, <1>10, <1>11, <1>12, <1>14 DEF IInv

\* A DAO step that keeps proposals well formed and elections decided.
LEMMA DaoKeeps ==
    ASSUME IInv, UNCHANGED <<adminVars, codeVars, pauseVars, emergencyVars>>,
           dao_threshold' \in Int, proposals' \in Seq(StrategyProposal),
           votes' \subseteq Vote, benji_strategy' \in Strategies \cup {None},
           Elected'
    PROVE  IInv'
<1>1. TypeOK'
  BY DEF IInv, TypeOK, adminVars, codeVars, pauseVars, emergencyVars
<1>2. NominatedByAdmin' /\ ReasonWhilePaused'
  BY DEF IInv, NominatedByAdmin, ReasonWhilePaused, adminVars, pauseVars
<1>3. ExecutionsMarked' /\ TwoApprovers' /\ ExecutedOnce'
  BY DEF IInv, ExecutionsMarked, TwoApprovers, ExecutedOnce, emergencyVars
<1> QED BY <1>1, <1>2, <1>3 DEF IInv

\* A new DAO proposal is not executed and gets a new id.
LEMMA CreateStep ==
    ASSUME IInv, NEW s \in Strategies, create_strategy_proposal(s)
    PROVE  IInv'
<1> DEFINE p == [strategy |-> s, yes_votes |-> 0, no_votes |-> 0,
                 executed |-> FALSE]
<1>1. p \in StrategyProposal /\ proposals \in Seq(StrategyProposal)
      /\ proposals' = Append(proposals, p)
  BY DEF create_strategy_proposal, StrategyProposal, IInv, TypeOK
<1>2. /\ proposals' \in Seq(StrategyProposal)
      /\ Len(proposals') = Len(proposals) + 1
      /\ \A i \in 1..Len(proposals) : proposals'[i] = proposals[i]
      /\ proposals'[Len(proposals) + 1] = p
  BY <1>1
<1>3. UNCHANGED benji_strategy
  BY DEF create_strategy_proposal
<1>4. Elected'
  BY <1>1, <1>2, <1>3 DEF IInv, Elected
<1>5. /\ dao_threshold' \in Int /\ votes' \subseteq Vote
      /\ benji_strategy' \in Strategies \cup {None}
  BY DEF create_strategy_proposal, IInv, TypeOK
<1>6. UNCHANGED <<adminVars, codeVars, pauseVars, emergencyVars>>
  BY DEF create_strategy_proposal
<1> QED BY <1>2, <1>4, <1>5, <1>6, DaoKeeps

\* A ballot changes the tally of an open proposal only.
LEMMA VoteStep ==
    ASSUME IInv, NEW id \in 1..Len(proposals), NEW a \in Addresses,
           NEW b \in BOOLEAN, NEW n \in Weights, vote_on_proposal(id, a, b, n)
    PROVE  IInv'
<1> USE GovernanceAssumption
<1>1. proposals \in Seq(StrategyProposal) /\ proposals[id] \in StrategyProposal
      /\ n \in Int
  BY DEF IInv, TypeOK
<1> DEFINE p == proposals[id]
           tally == n + (IF b THEN p.yes_votes ELSE p.no_votes)
           q == IF b THEN [p EXCEPT !.yes_votes = tally]
                     ELSE [p EXCEPT !.no_votes = tally]
<1>2. p.yes_votes \in Int /\ p.no_votes \in Int /\ p.strategy \in Strategies
      /\ p.executed \in BOOLEAN
  BY <1>1 DEF StrategyProposal
<1>3. q \in StrategyProposal /\ q.executed = p.executed
  <2>1. tally \in Int
    BY <1>1, <1>2
  <2> HIDE DEF tally
  <2>2. /\ [p EXCEPT !.yes_votes = tally] \in StrategyProposal
        /\ [p EXCEPT !.yes_votes = tally].executed = p.executed
    BY <2>1, <1>1, <1>2 DEF StrategyProposal
  <2>3. /\ [p EXCEPT !.no_votes = tally] \in StrategyProposal
        /\ [p EXCEPT !.no_votes = tally].executed = p.executed
    BY <2>1, <1>1, <1>2 DEF StrategyProposal
  <2> QED BY <2>2, <2>3
<1>4. ~p.executed
  BY DEF vote_on_proposal, may_vote
<1>5. proposals' = [proposals EXCEPT ![id] = q]
  BY DEF vote_on_proposal
<1>6. /\ proposals' \in Seq(StrategyProposal)
      /\ Len(proposals') = Len(proposals)
      /\ \A i \in 1..Len(proposals) :
            proposals'[i] = IF i = id THEN q ELSE proposals[i]
  BY <1>1, <1>3, <1>5
<1> HIDE DEF q
<1>7. UNCHANGED benji_strategy
  BY DEF vote_on_proposal
<1>a. \A i \in 1..Len(proposals) :
         proposals'[i].executed =>
            /\ proposals[i].executed
            /\ proposals'[i] = proposals[i]
  BY <1>3, <1>4, <1>6
<1>b. \A i \in 1..Len(proposals) :
         proposals[i].executed => proposals'[i] = proposals[i]
  BY <1>4, <1>6
<1>8. Elected'
  BY <1>6, <1>7, <1>a, <1>b DEF IInv, Elected
<1>9. [id |-> id, voter |-> a, support |-> b, weight |-> n] \in Vote
  BY <1>1 DEF Vote
<1>10. /\ dao_threshold' \in Int /\ votes' \subseteq Vote
       /\ benji_strategy' \in Strategies \cup {None}
  BY <1>9 DEF vote_on_proposal, IInv, TypeOK
<1>11. UNCHANGED <<adminVars, codeVars, pauseVars, emergencyVars>>
  BY DEF vote_on_proposal
<1> QED BY <1>6, <1>8, <1>10, <1>11, DaoKeeps

\* Executing a proposal elects the strategy it names.
LEMMA ExecuteStep ==
    ASSUME IInv, NEW id \in 1..Len(proposals), execute_strategy_proposal(id)
    PROVE  IInv'
<1> USE GovernanceAssumption
<1>1. proposals \in Seq(StrategyProposal) /\ proposals[id] \in StrategyProposal
  BY DEF IInv, TypeOK
<1> DEFINE p == proposals[id]
           q == [p EXCEPT !.executed = TRUE]
<1>2. /\ q \in StrategyProposal /\ q.executed /\ q.strategy = p.strategy
      /\ q.yes_votes = p.yes_votes /\ q.no_votes = p.no_votes
      /\ p.strategy \in Strategies
  BY <1>1 DEF StrategyProposal
<1>3. /\ proposals' = [proposals EXCEPT ![id] = q]
      /\ benji_strategy' = p.strategy
      /\ p.yes_votes > p.no_votes
  BY DEF execute_strategy_proposal
<1>4. /\ proposals' \in Seq(StrategyProposal)
      /\ Len(proposals') = Len(proposals)
      /\ \A i \in 1..Len(proposals) :
            proposals'[i] = IF i = id THEN q ELSE proposals[i]
  BY <1>1, <1>2, <1>3
<1>5. Elected'
  BY <1>2, <1>3, <1>4 DEF IInv, Elected
<1>6. /\ dao_threshold' \in Int /\ votes' \subseteq Vote
      /\ benji_strategy' \in Strategies \cup {None}
  BY <1>2, <1>3 DEF execute_strategy_proposal, IInv, TypeOK
<1>7. UNCHANGED <<adminVars, codeVars, pauseVars, emergencyVars>>
  BY DEF execute_strategy_proposal
<1> QED BY <1>4, <1>5, <1>6, <1>7, DaoKeeps

\* The invariant is inductive.
LEMMA NextStep ==
    ASSUME IInv, [Next]_vars
    PROVE  IInv'
<1> USE GovernanceAssumption
<1>1. CASE AdminNext
  BY <1>1, AdminStep
<1>2. CASE EmergencyNext
  BY <1>2, ApproversStep, ProposeStep, ConfirmStep DEF EmergencyNext
<1>3. CASE DaoNext
  <2>1. ASSUME NEW n \in Thresholds, set_dao_threshold(n) PROVE IInv'
    <3>1. Elected'
      BY <2>1 DEF set_dao_threshold, IInv, Elected
    <3> QED BY <2>1, <3>1, DaoKeeps DEF set_dao_threshold, IInv, TypeOK
  <2> QED BY <1>3, <2>1, CreateStep, VoteStep, ExecuteStep DEF DaoNext
<1>4. CASE UNCHANGED vars
  <2>1. UNCHANGED <<adminVars, codeVars, pauseVars, emergencyVars>>
        /\ UNCHANGED daoVars
    BY <1>4 DEF vars
  <2>2. Elected'
    BY <2>1 DEF IInv, Elected, daoVars
  <2> QED BY <2>1, <2>2, DaoKeeps DEF daoVars, IInv, TypeOK
<1> QED BY <1>1, <1>2, <1>3, <1>4 DEF Next

\* The invariant holds in every reachable state.
LEMMA Invariance == Spec => []IInv
<1>1. initialize => IInv
  BY InitIInv
<1>2. IInv /\ [Next]_vars => IInv'
  BY NextStep
<1> QED BY <1>1, <1>2, PTL DEF Spec

\* Every reachable state is well typed; an emergency pause always stores a
\* reason of the enum, whatever code the proposal carries.
THEOREM GovernanceTypes == Spec => []TypeOK
<1>1. IInv => TypeOK
  BY DEF IInv
<1> QED BY <1>1, Invariance, PTL

\* A pending nomination is the current admin's: accept_admin never hands the
\* role to somebody only a former admin chose.
THEOREM NominationsAreCurrent == Spec => []NominatedByAdmin
<1>1. IInv => NominatedByAdmin
  BY DEF IInv
<1> QED BY <1>1, Invariance, PTL

\* The pause flag and the stored reason agree on every path.
THEOREM PauseHasReason == Spec => []ReasonWhilePaused
<1>1. IInv => ReasonWhilePaused
  BY DEF IInv
<1> QED BY <1>1, Invariance, PTL

\* confirm_emergency_action never executes on one address's word alone.
THEOREM DualApproval == Spec => []TwoApprovers
<1>1. IInv => TwoApprovers
  BY DEF IInv
<1> QED BY <1>1, Invariance, PTL

\* confirm_emergency_action executes a proposal at most once.
THEOREM EmergencyOnce == Spec => []ExecutedOnce
<1>1. IInv => ExecutedOnce
  BY DEF IInv
<1> QED BY <1>1, Invariance, PTL

\* Power is used only by who holds it, and once, whatever is reassigned
\* between a nomination or a proposal and its acceptance.
THEOREM AuthorityHolds == Spec => []Authorised
<1>1. NominatedByAdmin /\ TwoApprovers /\ ExecutedOnce => Authorised
  BY DEF Authorised
<1> QED BY <1>1, NominationsAreCurrent, DualApproval, EmergencyOnce, PTL

\* The benji strategy was elected, and an election is final.
THEOREM BenjiIsElected == Spec => []Elected
<1>1. IInv => Elected
  BY DEF IInv
<1> QED BY <1>1, Invariance, PTL

-----------------------------------------------------------------------------
(* The tallies *)

\* Finitely many ballots were cast, each on a proposal that exists.
BallotsKnown ==
    /\ IsFiniteSet(votes)
    /\ \A v \in votes : v.id \in 1..Len(proposals)

TallyInv == IInv /\ BallotsKnown /\ TallyIsBallots

\* A ballot more on one side of one proposal is its weight more in that total.
LEMMA WeightAdds ==
    ASSUME IsFiniteSet(votes), NEW v, v \notin votes,
           \A u \in votes \cup {v} : u.weight \in Int,
           votes' = votes \cup {v}, NEW id, NEW b
    PROVE  /\ Weight(id, b) \in Int
           /\ Weight(id, b)' = IF v.id = id /\ v.support = b
                               THEN Weight(id, b) + v.weight ELSE Weight(id, b)
<1> DEFINE f == [u \in votes |-> u.weight]
           g == [u \in votes \cup {v} |-> u.weight]
           B == ballots(id, b)
           C == {u \in votes \cup {v} : u.id = id /\ u.support = b}
<1>1. Weight(id, b) = SumFunctionOnSet(f, B) /\ Weight(id, b)' = SumFunctionOnSet(g, C)
  BY DEF Weight, ballots
<1>2. B \subseteq votes /\ IsFiniteSet(B) /\ v \notin B
  BY FS_Subset DEF ballots
<1>3. \A u \in B : f[u] \in Int /\ f[u] = g[u]
  BY <1>2
<1>4. \A u \in B \cup {v} : g[u] \in Int
  BY <1>2
<1>5. g[v] = v.weight
  OBVIOUS
<1>6. C = IF v.id = id /\ v.support = b THEN B \cup {v} ELSE B
  BY DEF ballots
<1> HIDE DEF f, g, B, C
<1>7. SumFunctionOnSet(f, B) \in Int
  BY <1>2, <1>3, SumInt
<1>8. SumFunctionOnSet(f, B) = SumFunctionOnSet(g, B)
  BY <1>2, <1>3, SumSame
<1>9. SumFunctionOnSet(g, B \cup {v}) = SumFunctionOnSet(g, B) + v.weight
  BY <1>2, <1>4, <1>5, SumAdd
<1> QED BY <1>1, <1>6, <1>7, <1>8, <1>9

\* A step that casts no ballot keeps the tallies of the proposals there are.
LEMMA TallyKept ==
    ASSUME TallyInv, UNCHANGED votes, Len(proposals') = Len(proposals),
           \A id \in 1..Len(proposals) :
              /\ proposals'[id].yes_votes = proposals[id].yes_votes
              /\ proposals'[id].no_votes = proposals[id].no_votes
    PROVE  BallotsKnown' /\ TallyIsBallots'
<1>1. BallotsKnown'
  BY DEF TallyInv, BallotsKnown
<1>2. \A id, b : Weight(id, b)' = Weight(id, b)
  BY DEF Weight, ballots
<1>3. TallyIsBallots'
  BY <1>2 DEF TallyInv, TallyIsBallots
<1> QED BY <1>1, <1>3

\* A new proposal has no ballots.
LEMMA TallyCreate ==
    ASSUME TallyInv, NEW s \in Strategies, create_strategy_proposal(s)
    PROVE  BallotsKnown' /\ TallyIsBallots'
<1> DEFINE p == [strategy |-> s, yes_votes |-> 0, no_votes |-> 0, executed |-> FALSE]
           n == Len(proposals)
<1>1. /\ proposals \in Seq(StrategyProposal) /\ n \in Nat
      /\ proposals' = Append(proposals, p) /\ votes' = votes
  BY DEF create_strategy_proposal, TallyInv, IInv, TypeOK
<1>2. /\ Len(proposals') = n + 1
      /\ \A i \in 1..n : proposals'[i] = proposals[i]
      /\ proposals'[n + 1] = p
  BY <1>1
<1>3. p.yes_votes = 0 /\ p.no_votes = 0
  OBVIOUS
<1> HIDE DEF p, n
<1>4. \A i \in 1..(n + 1) : i \in 1..n \/ i = n + 1
  BY <1>1
<1>5. BallotsKnown'
  BY <1>1, <1>2 DEF TallyInv, BallotsKnown, n
<1>6. \A id, b : Weight(id, b)' = Weight(id, b)
  BY <1>1 DEF Weight, ballots
<1>7. \A b : Weight(n + 1, b) = 0
  <2> SUFFICES ASSUME NEW b PROVE Weight(n + 1, b) = 0
    OBVIOUS
  <2>1. ballots(n + 1, b) = {}
    BY <1>1 DEF ballots, TallyInv, BallotsKnown, n
  <2> QED BY <2>1, SumEmpty DEF Weight
<1>8. TallyIsBallots'
  <2>1. ASSUME NEW id \in 1..(n + 1)
        PROVE  /\ proposals'[id].yes_votes = Weight(id, TRUE)
               /\ proposals'[id].no_votes = Weight(id, FALSE)
    <3>1. CASE id = n + 1
      BY <3>1, <1>2, <1>3, <1>7
    <3>2. CASE id \in 1..n
      BY <3>2, <1>2 DEF TallyInv, TallyIsBallots, n
    <3> QED BY <3>1, <3>2, <1>4
  <2> QED BY <2>1, <1>1, <1>2, <1>6 DEF TallyInv, TallyIsBallots
<1> QED BY <1>5, <1>8

\* A ballot is the first of its voter on the proposal, and its weight is added
\* to one tally of it.
LEMMA TallyVote ==
    ASSUME TallyInv, NEW id \in 1..Len(proposals), NEW a \in Addresses,
           NEW b \in BOOLEAN, NEW n \in Weights, vote_on_proposal(id, a, b, n)
    PROVE  BallotsKnown' /\ TallyIsBallots'
<1> USE GovernanceAssumption
<1> DEFINE p == proposals[id]
           tally == n + (IF b THEN p.yes_votes ELSE p.no_votes)
           q == IF b THEN [p EXCEPT !.yes_votes = tally]
                     ELSE [p EXCEPT !.no_votes = tally]
           v == [id |-> id, voter |-> a, support |-> b, weight |-> n]
<1>1. /\ proposals \in Seq(StrategyProposal) /\ proposals[id] \in StrategyProposal
      /\ n \in Int /\ votes \subseteq Vote
  BY DEF TallyInv, IInv, TypeOK
<1>2. p.yes_votes \in Int /\ p.no_votes \in Int
  BY <1>1 DEF StrategyProposal
<1>3. /\ q.yes_votes = IF b THEN p.yes_votes + n ELSE p.yes_votes
      /\ q.no_votes = IF b THEN p.no_votes ELSE p.no_votes + n
  <2>1. n + p.yes_votes = p.yes_votes + n /\ n + p.no_votes = p.no_votes + n
    BY <1>1, <1>2
  <2>2. CASE b
    BY <1>1, <2>1, <2>2 DEF StrategyProposal
  <2>3. CASE ~b
    BY <1>1, <2>1, <2>3 DEF StrategyProposal
  <2> QED BY <2>2, <2>3
<1>4. proposals' = [proposals EXCEPT ![id] = q] /\ votes' = votes \cup {v}
  BY DEF vote_on_proposal
<1>5. \A u \in votes : ~(u.id = id /\ u.voter = a)
  BY DEF vote_on_proposal, may_vote, has_voted
<1>6. v.id = id /\ v.voter = a /\ v.support = b /\ v.weight = n
  OBVIOUS
<1>7. v \notin votes /\ \A u \in votes \cup {v} : u.weight \in Int
  BY <1>1, <1>5, <1>6 DEF Vote
<1> HIDE DEF q, v
<1>8. /\ Len(proposals') = Len(proposals)
      /\ \A i \in 1..Len(proposals) :
            proposals'[i] = IF i = id THEN q ELSE proposals[i]
  BY <1>1, <1>4
<1>9. \A i : \A c : /\ Weight(i, c) \in Int
                    /\ Weight(i, c)' = IF id = i /\ b = c THEN Weight(i, c) + n ELSE Weight(i, c)
  BY <1>4, <1>6, <1>7, WeightAdds DEF TallyInv, BallotsKnown
<1>10. BallotsKnown'
  BY <1>4, <1>6, <1>8, FS_AddElement DEF TallyInv, BallotsKnown
<1>11. \A u, w \in votes' : u.id = w.id /\ u.voter = w.voter => u = w
  BY <1>4, <1>5, <1>6 DEF TallyInv, TallyIsBallots
<1>12. ASSUME NEW i \in 1..Len(proposals)
       PROVE  /\ proposals'[i].yes_votes = Weight(i, TRUE)'
              /\ proposals'[i].no_votes = Weight(i, FALSE)'
  <2>1. proposals[i].yes_votes = Weight(i, TRUE) /\ proposals[i].no_votes = Weight(i, FALSE)
    BY DEF TallyInv, TallyIsBallots
  <2>2. CASE i # id
    BY <1>8, <1>9, <2>1, <2>2
  <2>3. CASE i = id
    <3>1. CASE b
      BY <1>3, <1>8, <1>9, <2>1, <2>3, <3>1
    <3>2. CASE ~b
      BY <1>3, <1>8, <1>9, <2>1, <2>3, <3>2
    <3> QED BY <3>1, <3>2
  <2> QED BY <2>2, <2>3
<1>13. TallyIsBallots'
  BY <1>8, <1>11, <1>12 DEF TallyIsBallots
<1> QED BY <1>10, <1>13

\* Every tally is the weight of the ballots cast for it, one for each voter, for
\* any number of proposals, voters and weights.
THEOREM TalliesAreBallots == Spec => []TallyIsBallots
<1>1. initialize => TallyInv
  <2> SUFFICES ASSUME initialize PROVE BallotsKnown /\ TallyIsBallots
    BY InitIInv DEF TallyInv
  <2>1. votes = {} /\ proposals = << >>
    BY DEF initialize
  <2> QED BY <2>1, FS_EmptySet DEF BallotsKnown, TallyIsBallots
<1>2. TallyInv /\ [Next]_vars => TallyInv'
  <2> SUFFICES ASSUME TallyInv, [Next]_vars PROVE BallotsKnown' /\ TallyIsBallots'
    BY NextStep DEF TallyInv
  <2>1. ASSUME UNCHANGED <<votes, proposals>> PROVE BallotsKnown' /\ TallyIsBallots'
    BY <2>1, TallyKept
  <2>2. CASE AdminNext \/ EmergencyNext \/ UNCHANGED vars
    <3>1. UNCHANGED <<votes, proposals>>
      BY <2>2 DEF AdminNext, propose_admin, accept_admin, cancel_admin_rotation,
         migrate_storage, upgrade, pause, unpause, EmergencyNext, set_emergency_approvers,
         propose_emergency_action, confirm_emergency_action, vars, daoVars
    <3> QED BY <2>1, <3>1
  <2>3. ASSUME NEW m \in Thresholds, set_dao_threshold(m)
        PROVE  BallotsKnown' /\ TallyIsBallots'
    BY <2>1, <2>3 DEF set_dao_threshold
  <2>4. ASSUME NEW id \in 1..Len(proposals), execute_strategy_proposal(id)
        PROVE  BallotsKnown' /\ TallyIsBallots'
    <3>1. /\ proposals \in Seq(StrategyProposal) /\ proposals[id] \in StrategyProposal
          /\ proposals' = [proposals EXCEPT ![id] = [@ EXCEPT !.executed = TRUE]]
          /\ votes' = votes
      BY <2>4 DEF TallyInv, IInv, TypeOK, execute_strategy_proposal
    <3> DEFINE q == [proposals[id] EXCEPT !.executed = TRUE]
    <3>2. q.yes_votes = proposals[id].yes_votes /\ q.no_votes = proposals[id].no_votes
      BY <3>1 DEF StrategyProposal
    <3> HIDE DEF q
    <3>3. /\ Len(proposals') = Len(proposals)
          /\ \A i \in 1..Len(proposals) :
                proposals'[i] = IF i = id THEN q ELSE proposals[i]
      BY <3>1 DEF q
    <3> QED BY <3>1, <3>2, <3>3, TallyKept
  <2> QED BY <2>2, <2>3, <2>4, TallyCreate, TallyVote DEF Next, DaoNext
<1>3. TallyInv => TallyIsBallots
  BY DEF TallyInv
<1> QED BY <1>1, <1>2, <1>3, PTL DEF Spec

-----------------------------------------------------------------------------
(* The shipment index: its sequences *)

\* first_above splits an ascending sequence at the value.
LEMMA FirstAboveSplits ==
    ASSUME NEW ids \in Seq(Nat), ascending(ids), NEW value \in Nat,
           NEW k, k = first_above(ids, value)
    PROVE  /\ k \in Nat /\ 1 <= k /\ k <= Len(ids) + 1
           /\ \A i \in 1..Len(ids) : i < k => ids[i] <= value
           /\ \A i \in 1..Len(ids) : k <= i => ids[i] > value
<1> DEFINE above == {i \in 1..Len(ids) : ids[i] > value}
<1>0. Len(ids) \in Nat /\ \A i \in 1..Len(ids) : ids[i] \in Nat
  OBVIOUS
<1>1. CASE above = {}
  <2>1. k = Len(ids) + 1
    BY <1>1 DEF first_above
  <2> QED BY <1>0, <1>1, <2>1
<1>2. CASE above # {}
  <2>1. k = Min(above)
    BY <1>2 DEF first_above
  <2>2. above \subseteq Nat
    BY <1>0
  <2> HIDE DEF above
  <2>3. k \in above /\ \A y \in above : k <= y
    BY <1>2, <2>1, <2>2, MinIsLeast
  <2> USE DEF above
  <2>4. k \in Nat /\ 1 <= k /\ k <= Len(ids) + 1 /\ ids[k] > value
    BY <1>0, <2>3
  <2>5. \A i \in 1..Len(ids) : i < k => ids[i] <= value
    BY <1>0, <2>3
  <2>6. ASSUME NEW i \in 1..Len(ids), k <= i PROVE ids[i] > value
    <3>1. k \in 1..Len(ids) /\ ids[k] \in Nat /\ ids[i] \in Nat
      BY <2>3
    <3>2. k < i => ids[k] < ids[i]
      BY <3>1 DEF ascending
    <3> QED BY <1>0, <2>4, <2>6, <3>1, <3>2
  <2> QED BY <2>4, <2>5, <2>6
<1> QED BY <1>1, <1>2

\* The places of two sequences in a row.
LEMMA JoinedPlaces ==
    ASSUME NEW a \in Seq(Nat), NEW c \in Seq(Nat), NEW n \in Nat, Len(a) = n,
           NEW m \in Nat, Len(c) = m, NEW new, new = a \o c
    PROVE  /\ new \in Seq(Nat) /\ Len(new) = n + m
           /\ \A i \in Nat : 1 <= i /\ i <= n => new[i] = a[i]
           /\ \A i \in Nat : n < i /\ i <= n + m => new[i] = c[i - n]
<1>1. /\ new \in Seq(Nat) /\ Len(new) = n + m
      /\ \A i \in 1..(n + m) : new[i] = IF i <= n THEN a[i] ELSE c[i - n]
  BY ConcatProperties
<1>2. \A i \in Nat : /\ 1 <= i /\ i <= n => i \in 1..(n + m) /\ i <= n
                    /\ n < i /\ i <= n + m => i \in 1..(n + m) /\ ~(i <= n)
  OBVIOUS
<1> QED BY <1>1, <1>2

\* The places of a sequence with one element more, or one less.
LEMMA InsertedPlaces ==
    ASSUME NEW ids \in Seq(Nat), NEW id \in Nat, NEW k \in Nat, 1 <= k, k <= Len(ids) + 1,
           NEW new, new = InsertAt(ids, k, id)
    PROVE  /\ new \in Seq(Nat) /\ Len(new) = Len(ids) + 1
           /\ \A i \in 1..Len(new) : new[i] = IF i < k THEN ids[i]
                                              ELSE IF i = k THEN id ELSE ids[i - 1]
<1> DEFINE a == SubSeq(ids, 1, k - 1)
           c == SubSeq(ids, k, Len(ids))
<1>1. /\ a \in Seq(Nat) /\ Len(a) = k - 1
      /\ \A i \in 1..(k - 1) : a[i] = ids[i]
  OBVIOUS
<1>2. /\ c \in Seq(Nat) /\ Len(c) = Len(ids) + 1 - k
      /\ \A i \in 1..(Len(ids) + 1 - k) : c[i] = ids[k + i - 1]
  OBVIOUS
<1>3. new = a \o <<id>> \o c
  BY DEF InsertAt
<1> HIDE DEF a, c
<1>4. /\ a \o <<id>> \in Seq(Nat) /\ Len(a \o <<id>>) = k
      /\ \A i \in 1..k : (a \o <<id>>)[i] = IF i < k THEN ids[i] ELSE id
  BY <1>1
<1> DEFINE ab == a \o <<id>>
<1>5. ab \in Seq(Nat) /\ Len(ab) = k /\ new = ab \o c
  BY <1>3, <1>4
<1>6. \A i \in 1..k : ab[i] = IF i < k THEN ids[i] ELSE id
  BY <1>4
<1> HIDE DEF ab
<1>7. /\ new \in Seq(Nat) /\ Len(new) = Len(ids) + 1
      /\ \A i \in Nat : 1 <= i /\ i <= k => new[i] = ab[i]
      /\ \A i \in Nat : k < i /\ i <= Len(ids) + 1 => new[i] = c[i - k]
  <2> DEFINE m == Len(ids) + 1 - k
  <2>1. m \in Nat /\ k + m = Len(ids) + 1 /\ Len(c) = m
    BY <1>2
  <2> HIDE DEF m
  <2>2. /\ Len(ab) \in Nat /\ Len(c) \in Nat /\ ab \in Seq(Nat) /\ c \in Seq(Nat)
        /\ Len(ab) = Len(ab) /\ Len(c) = Len(c) /\ new = ab \o c
    BY <1>2, <1>5, <2>1
  <2>3. /\ new \in Seq(Nat) /\ Len(new) = Len(ab) + Len(c)
        /\ \A i \in Nat : 1 <= i /\ i <= Len(ab) => new[i] = ab[i]
        /\ \A i \in Nat : Len(ab) < i /\ i <= Len(ab) + Len(c) => new[i] = c[i - Len(ab)]
    BY ONLY <2>2, JoinedPlaces
  <2>4. Len(ab) = k /\ Len(ab) + Len(c) = Len(ids) + 1
    BY <1>5, <2>1
  <2> QED BY <2>3, <2>4
<1>8. ASSUME NEW i \in 1..Len(new)
      PROVE  new[i] = IF i < k THEN ids[i] ELSE IF i = k THEN id ELSE ids[i - 1]
  <2>1. CASE i <= k
    <3>1. i \in 1..k /\ i \in Nat /\ 1 <= i
      BY <2>1
    <3>2. new[i] = ab[i] /\ ab[i] = IF i < k THEN ids[i] ELSE id
      BY <3>1, <1>6, <1>7, <2>1
    <3> QED BY <3>1, <3>2, <2>1
  <2>2. CASE i > k
    <3>1. i - k \in 1..(Len(ids) + 1 - k) /\ k + (i - k) - 1 = i - 1
      BY <1>7, <2>2
    <3>2. new[i] = c[i - k]
      BY <1>7, <2>2
    <3>3. c[i - k] = ids[i - 1]
      BY <1>2, <3>1
    <3> QED BY <2>2, <3>2, <3>3
  <2> QED BY <2>1, <2>2
<1> QED BY <1>7, <1>8

LEMMA RemovedPlaces ==
    ASSUME NEW ids \in Seq(Nat), NEW k \in 1..Len(ids), NEW new, new = RemoveAt(ids, k)
    PROVE  /\ new \in Seq(Nat) /\ Len(new) = Len(ids) - 1
           /\ \A i \in 1..Len(new) : new[i] = IF i < k THEN ids[i] ELSE ids[i + 1]
<1> DEFINE a == SubSeq(ids, 1, k - 1)
           c == SubSeq(ids, k + 1, Len(ids))
<1>1. /\ a \in Seq(Nat) /\ Len(a) = k - 1
      /\ \A i \in 1..(k - 1) : a[i] = ids[i]
  OBVIOUS
<1>2. /\ c \in Seq(Nat) /\ Len(c) = Len(ids) - k
      /\ \A i \in 1..(Len(ids) - k) : c[i] = ids[k + i]
  OBVIOUS
<1>3. new = a \o c
  BY DEF RemoveAt
<1> HIDE DEF a, c
<1>4. /\ new \in Seq(Nat) /\ Len(new) = Len(ids) - 1
      /\ \A i \in Nat : 1 <= i /\ i <= k - 1 => new[i] = a[i]
      /\ \A i \in Nat : k - 1 < i /\ i <= Len(ids) - 1 => new[i] = c[i - (k - 1)]
  <2>1. /\ Len(a) \in Nat /\ Len(c) \in Nat /\ a \in Seq(Nat) /\ c \in Seq(Nat)
        /\ Len(a) = Len(a) /\ Len(c) = Len(c) /\ new = a \o c
    BY <1>1, <1>2, <1>3
  <2>2. /\ new \in Seq(Nat) /\ Len(new) = Len(a) + Len(c)
        /\ \A i \in Nat : 1 <= i /\ i <= Len(a) => new[i] = a[i]
        /\ \A i \in Nat : Len(a) < i /\ i <= Len(a) + Len(c) => new[i] = c[i - Len(a)]
    BY ONLY <2>1, JoinedPlaces
  <2>3. Len(a) = k - 1 /\ Len(a) + Len(c) = Len(ids) - 1
    BY <1>1, <1>2
  <2> QED BY <2>2, <2>3
<1>5. ASSUME NEW i \in 1..Len(new) PROVE new[i] = IF i < k THEN ids[i] ELSE ids[i + 1]
  <2>1. CASE i < k
    <3>1. i \in 1..(k - 1) /\ i \in Nat /\ 1 <= i /\ i <= k - 1
      BY <2>1
    <3>2. new[i] = a[i] /\ a[i] = ids[i]
      BY <3>1, <1>1, <1>4
    <3> QED BY <3>2, <2>1
  <2>2. CASE i >= k
    <3> DEFINE j == i - (k - 1)
    <3>0. Len(ids) \in Nat /\ Len(new) = Len(ids) - 1
      BY <1>4
    <3>1. /\ j \in 1..(Len(ids) - k) /\ k + j = i + 1
          /\ i \in Nat /\ k - 1 < i /\ i <= Len(ids) - 1
      BY <3>0, <2>2
    <3>2. new[i] = c[j]
      BY <1>4, <3>1
    <3> HIDE DEF j
    <3>3. c[j] = ids[i + 1]
      BY <1>2, <3>1
    <3> QED BY <2>2, <3>2, <3>3
  <2> QED BY <2>1, <2>2
<1> QED BY <1>4, <1>5

LEMMA SeqRange ==
    ASSUME NEW s \in Seq(Nat) PROVE Range(s) = {s[i] : i \in 1..Len(s)}
BY DEF Range

\* insert_sorted_unique keeps the order and adds the id.
LEMMA InsertKeepsOrder ==
    ASSUME NEW ids \in Seq(Nat), ascending(ids), NEW id \in Nat, id \notin Range(ids),
           NEW new, new = insert_sorted_unique(ids, id)
    PROVE  new \in Seq(Nat) /\ ascending(new) /\ Range(new) = Range(ids) \cup {id}
<1> DEFINE k == first_above(ids, id)
<1>0. /\ Len(ids) \in Nat /\ \A i \in 1..Len(ids) : ids[i] \in Nat
      /\ Range(ids) = {ids[i] : i \in 1..Len(ids)}
  BY DEF Range
<1>1. /\ k \in Nat /\ 1 <= k /\ k <= Len(ids) + 1
      /\ \A i \in 1..Len(ids) : i < k => ids[i] <= id
      /\ \A i \in 1..Len(ids) : k <= i => ids[i] > id
  BY FirstAboveSplits
<1>2. new = InsertAt(ids, k, id)
  BY DEF insert_sorted_unique
<1> HIDE DEF k
<1>3. /\ new \in Seq(Nat) /\ Len(new) = Len(ids) + 1
      /\ \A i \in 1..Len(new) : new[i] = IF i < k THEN ids[i]
                                         ELSE IF i = k THEN id ELSE ids[i - 1]
  BY <1>1, <1>2, InsertedPlaces
<1>4. \A i \in 1..Len(ids) : i < k => ids[i] < id
  <2> SUFFICES ASSUME NEW i \in 1..Len(ids), i < k PROVE ids[i] < id
    OBVIOUS
  <2>1. ids[i] # id /\ ids[i] <= id /\ ids[i] \in Nat
    BY <1>0, <1>1
  <2> QED BY <2>1
<1>5. ascending(new)
  <2> SUFFICES ASSUME NEW i \in 1..Len(new), NEW j \in 1..Len(new), i < j
               PROVE  new[i] < new[j]
    BY DEF ascending
  <2>0. i \in Nat /\ j \in Nat /\ i <= Len(ids) + 1 /\ j <= Len(ids) + 1 /\ 1 <= i
    BY <1>0, <1>3
  <2>1. CASE j < k
    <3>1. i \in 1..Len(ids) /\ j \in 1..Len(ids) /\ i < k
      BY <2>0, <2>1, <1>0, <1>1
    <3> QED BY <2>1, <3>1, <1>3 DEF ascending
  <2>2. CASE j = k
    <3>1. i \in 1..Len(ids) /\ i < k
      BY <2>0, <2>2, <1>0, <1>1
    <3>2. new[i] = ids[i] /\ new[j] = id
      BY <2>2, <3>1, <1>3
    <3> QED BY <3>1, <3>2, <1>4
  <2>3. CASE k < j
    <3>1. j - 1 \in 1..Len(ids) /\ k <= j - 1 /\ new[j] = ids[j - 1]
      BY <2>0, <2>3, <1>0, <1>1, <1>3
    <3>2. CASE i < k
      <4>1. i \in 1..Len(ids) /\ new[i] = ids[i] /\ i < j - 1
        BY <2>0, <3>1, <3>2, <1>0, <1>1, <1>3
      <4> QED BY <3>1, <4>1 DEF ascending
    <3>3. CASE i = k
      <4>1. new[i] = id /\ ids[j - 1] > id /\ ids[j - 1] \in Nat
        BY <3>1, <3>3, <1>0, <1>1, <1>3
      <4> QED BY <3>1, <4>1
    <3>4. CASE k < i
      <4>1. i - 1 \in 1..Len(ids) /\ new[i] = ids[i - 1] /\ i - 1 < j - 1
        BY <2>0, <3>4, <1>0, <1>1, <1>3
      <4> QED BY <3>1, <4>1 DEF ascending
    <3> QED BY <2>0, <1>1, <3>2, <3>3, <3>4
  <2> QED BY <2>0, <1>1, <2>1, <2>2, <2>3
<1>6. Range(new) = Range(ids) \cup {id}
  <2>0. Range(new) = {new[i] : i \in 1..Len(new)}
    BY <1>3, SeqRange
  <2>1. ASSUME NEW x \in Range(new) PROVE x \in Range(ids) \cup {id}
    <3>1. PICK i \in 1..Len(new) : x = new[i]
      BY <2>0
    <3>2. CASE i < k
      <4>1. i \in 1..Len(ids)
        BY <3>2, <1>0, <1>1, <1>3
      <4> QED BY <3>1, <3>2, <4>1, <1>0, <1>3
    <3>3. CASE i = k
      BY <3>1, <3>3, <1>3
    <3>4. CASE k < i
      <4>1. i - 1 \in 1..Len(ids)
        BY <3>4, <1>0, <1>1, <1>3
      <4>2. x = ids[i - 1]
        BY <3>1, <3>4, <1>1, <1>3
      <4> QED BY <4>1, <4>2, <1>0
    <3> QED BY <1>1, <1>0, <1>3, <3>2, <3>3, <3>4
  <2>2. ASSUME NEW i \in 1..Len(ids) PROVE ids[i] \in Range(new)
    <3>1. CASE i < k
      <4>1. i \in 1..Len(new) /\ new[i] = ids[i]
        BY <3>1, <1>0, <1>3
      <4> QED BY <4>1, <2>0
    <3>2. CASE k <= i
      <4>1. i + 1 \in 1..Len(new) /\ new[i + 1] = ids[i]
        <5>1. i + 1 \in 1..Len(new) /\ ~(i + 1 < k) /\ i + 1 # k /\ (i + 1) - 1 = i
          BY <3>2, <1>0, <1>1, <1>3
        <5> QED BY <5>1, <1>3
      <4> QED BY <4>1, <2>0
    <3> QED BY <1>1, <3>1, <3>2
  <2>3. id \in Range(new)
    <3>1. k \in 1..Len(new) /\ new[k] = id
      BY <1>0, <1>1, <1>3
    <3> QED BY <3>1, <2>0
  <2> QED BY <1>0, <2>1, <2>2, <2>3
<1> QED BY <1>3, <1>5, <1>6

\* remove_id keeps the order and takes the id out.
LEMMA RemoveKeepsOrder ==
    ASSUME NEW ids \in Seq(Nat), ascending(ids), NEW id \in Nat,
           NEW new, new = remove_id(ids, id)
    PROVE  new \in Seq(Nat) /\ ascending(new) /\ Range(new) = Range(ids) \ {id}
<1> DEFINE places == {i \in 1..Len(ids) : ids[i] = id}
<1>0. /\ Len(ids) \in Nat /\ \A i \in 1..Len(ids) : ids[i] \in Nat
      /\ Range(ids) = {ids[i] : i \in 1..Len(ids)}
  BY DEF Range
<1>1. CASE places = {}
  BY <1>0, <1>1 DEF remove_id
<1>2. CASE places # {}
  <2>1. places \subseteq Nat
    BY <1>0
  <2>2. new = RemoveAt(ids, Min(places))
    BY <1>2 DEF remove_id
  <2> HIDE DEF places
  <2>3. Min(places) \in places
    BY <1>2, <2>1, MinIsLeast
  <2>4. PICK k \in 1..Len(ids) : k = Min(places) /\ ids[k] = id
    BY <2>3 DEF places
  <2>5. /\ new \in Seq(Nat) /\ Len(new) = Len(ids) - 1
        /\ \A i \in 1..Len(new) : new[i] = IF i < k THEN ids[i] ELSE ids[i + 1]
    BY <2>2, <2>4, RemovedPlaces
  <2>6. \A i \in 1..Len(ids) : i # k => ids[i] # id
    <3> SUFFICES ASSUME NEW i \in 1..Len(ids), i # k PROVE ids[i] # id
      OBVIOUS
    <3>1. (i < k => ids[i] < ids[k]) /\ (k < i => ids[k] < ids[i])
      BY DEF ascending
    <3>2. i < k \/ k < i
      OBVIOUS
    <3> QED BY <1>0, <2>4, <3>1, <3>2
  <2>7. ascending(new)
    <3> SUFFICES ASSUME NEW i \in 1..Len(new), NEW j \in 1..Len(new), i < j
                 PROVE  new[i] < new[j]
      BY DEF ascending
    <3> DEFINE old(x) == IF x < k THEN x ELSE x + 1
    <3>0. /\ i \in Nat /\ j \in Nat /\ k \in Nat /\ 1 <= i /\ 1 <= j
          /\ i <= Len(ids) - 1 /\ j <= Len(ids) - 1
      BY <1>0, <2>5
    <3>1. old(i) \in 1..Len(ids) /\ old(j) \in 1..Len(ids) /\ old(i) < old(j)
      <4>1. \A n, a, b, c \in Nat :
               1 <= a /\ a < b /\ b <= n - 1
               => /\ (IF a < c THEN a ELSE a + 1) \in 1..n
                  /\ (IF b < c THEN b ELSE b + 1) \in 1..n
                  /\ (IF a < c THEN a ELSE a + 1) < (IF b < c THEN b ELSE b + 1)
        OBVIOUS
      <4> QED BY ONLY <4>1, <3>0, <1>0, i < j
    <3>2. new[i] = ids[old(i)] /\ new[j] = ids[old(j)]
      BY <2>5
    <3> HIDE DEF old
    <3> QED BY <3>1, <3>2 DEF ascending
  <2>8. Range(new) = Range(ids) \ {id}
    <3>0. Range(new) = {new[i] : i \in 1..Len(new)}
      BY <2>5, SeqRange
    <3>1. ASSUME NEW i \in 1..Len(new) PROVE new[i] \in Range(ids) /\ new[i] # id
      <4>1. CASE i < k
        <5>1. i \in 1..Len(ids) /\ i # k /\ new[i] = ids[i]
          BY <4>1, <1>0, <2>5
        <5> QED BY <5>1, <1>0, <2>6
      <4>2. CASE ~(i < k)
        <5>1. i + 1 \in 1..Len(ids) /\ i + 1 # k /\ new[i] = ids[i + 1]
          BY <4>2, <1>0, <2>5
        <5> QED BY <5>1, <1>0, <2>6
      <4> QED BY <4>1, <4>2
    <3>2. ASSUME NEW i \in 1..Len(ids), ids[i] # id PROVE ids[i] \in Range(new)
      <4>1. CASE i < k
        <5>1. i \in 1..Len(new)
          BY <4>1, <1>0, <2>5
        <5>2. new[i] = ids[i]
          BY <4>1, <5>1, <2>5
        <5> QED BY <5>1, <5>2, <3>0
      <4>2. CASE k < i
        <5>1. i - 1 \in 1..Len(new) /\ ~(i - 1 < k) /\ (i - 1) + 1 = i
          BY <4>2, <1>0, <2>5
        <5>2. new[i - 1] = ids[i]
          BY <5>1, <2>5
        <5> QED BY <5>1, <5>2, <3>0
      <4>3. i # k
        BY <3>2, <2>4
      <4> QED BY <4>1, <4>2, <4>3
    <3>3. \A x \in Range(new) : x \in Range(ids) /\ x # id
      BY <3>0, <3>1
    <3>4. \A x \in Range(ids) : x # id => x \in Range(new)
      BY <1>0, <3>2
    <3> QED BY ONLY <3>3, <3>4
  <2> QED BY <2>5, <2>7, <2>8
<1> QED BY <1>1, <1>2

\* A part of an ascending sequence is ascending and holds what stands there.
LEMMA SliceOrder ==
    ASSUME NEW ids \in Seq(Nat), ascending(ids), NEW a \in Nat, NEW b \in Nat,
           1 <= a, a <= b + 1, b <= Len(ids), NEW new, new = SubSeq(ids, a, b)
    PROVE  /\ new \in Seq(Nat) /\ ascending(new)
           /\ Range(new) = {ids[i] : i \in a..b}
<1>0. Len(ids) \in Nat
  OBVIOUS
<1>1. /\ new \in Seq(Nat) /\ Len(new) = b - a + 1
      /\ \A i \in 1..(b - a + 1) : new[i] = ids[a + i - 1]
  BY <1>0
<1>2. ascending(new)
  <2> SUFFICES ASSUME NEW i \in 1..Len(new), NEW j \in 1..Len(new), i < j
               PROVE  new[i] < new[j]
    BY DEF ascending
  <2>1. i \in 1..(b - a + 1) /\ j \in 1..(b - a + 1)
    BY <1>1
  <2>2. /\ a + i - 1 \in 1..Len(ids) /\ a + j - 1 \in 1..Len(ids)
        /\ a + i - 1 < a + j - 1
    BY <1>0, <2>1
  <2>3. ids[a + i - 1] < ids[a + j - 1]
    BY <2>2 DEF ascending
  <2> QED BY <1>1, <2>1, <2>3
<1>3. Range(new) = {new[i] : i \in 1..Len(new)}
  BY <1>1, SeqRange
<1>4. \A i \in 1..(b - a + 1) : a + i - 1 \in a..b
  OBVIOUS
<1>5. ASSUME NEW i \in a..b PROVE ids[i] \in Range(new)
  <2>1. i - a + 1 \in 1..(b - a + 1) /\ a + (i - a + 1) - 1 = i
    OBVIOUS
  <2>2. new[i - a + 1] = ids[i]
    BY <1>1, <2>1
  <2> QED BY <1>1, <1>3, <2>1, <2>2
<1>6. \A x \in Range(new) : x \in {ids[i] : i \in a..b}
  BY <1>1, <1>3, <1>4
<1>7. \A x \in {ids[i] : i \in a..b} : x \in Range(new)
  BY <1>5
<1>8. Range(new) = {ids[i] : i \in a..b}
  BY ONLY <1>6, <1>7
<1> QED BY <1>1, <1>2, <1>8

\* Two ascending sequences in a row, the second above the first.
LEMMA JoinKeepsOrder ==
    ASSUME NEW a \in Seq(Nat), NEW c \in Seq(Nat), ascending(a), ascending(c),
           \A x \in Range(a), y \in Range(c) : x < y, NEW new, new = a \o c
    PROVE  new \in Seq(Nat) /\ ascending(new) /\ Range(new) = Range(a) \cup Range(c)
<1>0. /\ Len(a) \in Nat /\ Len(c) \in Nat /\ Len(a) = Len(a) /\ Len(c) = Len(c)
  OBVIOUS
<1>1. /\ new \in Seq(Nat) /\ Len(new) = Len(a) + Len(c)
      /\ \A i \in Nat : 1 <= i /\ i <= Len(a) => new[i] = a[i]
      /\ \A i \in Nat : Len(a) < i /\ i <= Len(a) + Len(c) => new[i] = c[i - Len(a)]
  BY <1>0, JoinedPlaces
<1>2. /\ Range(a) = {a[i] : i \in 1..Len(a)} /\ Range(c) = {c[i] : i \in 1..Len(c)}
      /\ Range(new) = {new[i] : i \in 1..Len(new)}
  BY <1>1, SeqRange
<1>3. \A i \in 1..Len(new) : \/ i \in 1..Len(a) /\ new[i] = a[i]
                             \/ /\ ~(i <= Len(a)) /\ i - Len(a) \in 1..Len(c)
                                /\ new[i] = c[i - Len(a)]
  <2> SUFFICES ASSUME NEW i \in 1..Len(new)
               PROVE  \/ i \in 1..Len(a) /\ new[i] = a[i]
                      \/ /\ ~(i <= Len(a)) /\ i - Len(a) \in 1..Len(c)
                         /\ new[i] = c[i - Len(a)]
    OBVIOUS
  <2>1. i \in Nat /\ 1 <= i /\ i <= Len(a) + Len(c)
    BY <1>0, <1>1
  <2>2. CASE i <= Len(a)
    BY <1>0, <1>1, <2>1, <2>2
  <2>3. CASE Len(a) < i
    BY <1>0, <1>1, <2>1, <2>3
  <2> QED BY <1>0, <2>1, <2>2, <2>3
<1>4. ascending(new)
  <2> SUFFICES ASSUME NEW i \in 1..Len(new), NEW j \in 1..Len(new), i < j
               PROVE  new[i] < new[j]
    BY DEF ascending
  <2>1. CASE i \in 1..Len(a) /\ new[i] = a[i]
    <3>1. CASE j \in 1..Len(a) /\ new[j] = a[j]
      BY <2>1, <3>1 DEF ascending
    <3>2. CASE ~(j <= Len(a)) /\ j - Len(a) \in 1..Len(c) /\ new[j] = c[j - Len(a)]
      BY <1>2, <2>1, <3>2
    <3> QED BY <1>3, <3>1, <3>2
  <2>2. CASE ~(i <= Len(a)) /\ i - Len(a) \in 1..Len(c) /\ new[i] = c[i - Len(a)]
    <3>1. ~(j <= Len(a)) /\ i - Len(a) < j - Len(a) /\ j \notin 1..Len(a)
      BY <1>0, <2>2
    <3>2. j - Len(a) \in 1..Len(c) /\ new[j] = c[j - Len(a)]
      BY <1>3, <3>1
    <3> QED BY <2>2, <3>1, <3>2 DEF ascending
  <2> QED BY <1>3, <2>1, <2>2
<1>5. \A x \in Range(new) : x \in Range(a) \cup Range(c)
  BY <1>2, <1>3
<1>6. \A i \in 1..Len(a) : a[i] \in Range(new)
  <2> SUFFICES ASSUME NEW i \in 1..Len(a) PROVE a[i] \in Range(new)
    OBVIOUS
  <2>1. i \in 1..Len(new) /\ new[i] = a[i]
    BY <1>0, <1>1
  <2> QED BY <1>2, <2>1
<1>7. \A i \in 1..Len(c) : c[i] \in Range(new)
  <2> SUFFICES ASSUME NEW i \in 1..Len(c) PROVE c[i] \in Range(new)
    OBVIOUS
  <2>1. /\ Len(a) + i \in 1..Len(new) /\ Len(a) + i \in Nat /\ Len(a) < Len(a) + i
        /\ Len(a) + i <= Len(a) + Len(c) /\ (Len(a) + i) - Len(a) = i
    BY <1>0, <1>1
  <2>2. new[Len(a) + i] = c[i]
    BY <1>1, <2>1
  <2> QED BY <1>2, <2>1, <2>2
<1>8. \A x \in Range(a) \cup Range(c) : x \in Range(new)
  BY <1>2, <1>6, <1>7
<1>9. Range(new) = Range(a) \cup Range(c)
  BY ONLY <1>5, <1>8
<1> QED BY <1>1, <1>4, <1>9

-----------------------------------------------------------------------------
(* The shipment index: what its listings say *)

Scan == [status : ShipmentStatus, cursor : Nat \cup {Absent}, got : Seq(Nat),
         stayed : SUBSET Ids, done : BOOLEAN]

\* The pages read so far hold nothing above the cursor, and every shipment up
\* to the cursor that has stayed in the status.
PagesReach(c) ==
    /\ \A x \in Range(scan.got) : x <= c
    /\ \A id \in scan.stayed : id <= c => id \in Range(scan.got)

ScanInv ==
    /\ scan \in Scan
    /\ ascending(scan.got)
    /\ scan.stayed \subseteq {id \in Ids : status_of[id] = scan.status}
    /\ ~scan.done /\ scan.cursor = Absent => scan.got = << >>
    /\ ~scan.done /\ scan.cursor # Absent => PagesReach(scan.cursor)
    /\ scan.done => scan.stayed \subseteq Range(scan.got)

\* The inductive invariant of the shipment index and of a client that pages
\* through it.
ShipmentInv ==
    /\ status_of \in [Ids -> ShipmentStatus \cup {Absent}]
    /\ by_status \in [ShipmentStatus -> Seq(Nat)]
    /\ IndexExact
    /\ scan # NoScan => ScanInv

\* The index stays exact when a shipment is added or moved.
LEMMA IndexAdd ==
    ASSUME ShipmentInv, NEW id \in Ids, NEW s \in ShipmentStatus, add_shipment(id, s)
    PROVE  /\ status_of' \in [Ids -> ShipmentStatus \cup {Absent}]
           /\ by_status' \in [ShipmentStatus -> Seq(Nat)]
           /\ IndexExact'
<1>0. /\ status_of \in [Ids -> ShipmentStatus \cup {Absent}]
      /\ by_status \in [ShipmentStatus -> Seq(Nat)]
      /\ status_of[id] = Absent /\ id \in Nat /\ Absent # s
      /\ status_of' = [status_of EXCEPT ![id] = s]
      /\ by_status' = [by_status EXCEPT ![s] = insert_sorted_unique(@, id)]
  BY ShipmentAssumption DEF ShipmentInv, add_shipment
<1>1. ascending(by_status[s]) /\ Range(by_status[s]) = {x \in Ids : status_of[x] = s}
  BY DEF ShipmentInv, IndexExact
<1> DEFINE new == insert_sorted_unique(by_status[s], id)
<1>2. by_status' = [by_status EXCEPT ![s] = new]
  BY <1>0
<1>3. /\ new \in Seq(Nat) /\ ascending(new)
      /\ Range(new) = Range(by_status[s]) \cup {id}
  <2>1. id \notin Range(by_status[s]) /\ by_status[s] \in Seq(Nat)
    BY <1>0, <1>1
  <2> QED BY <1>0, <1>1, <2>1, InsertKeepsOrder
<1> HIDE DEF new
<1>4. /\ status_of' \in [Ids -> ShipmentStatus \cup {Absent}]
      /\ by_status' \in [ShipmentStatus -> Seq(Nat)]
  BY <1>0, <1>2, <1>3
<1>5. ASSUME NEW t \in ShipmentStatus
      PROVE  ascending(by_status'[t])
             /\ Range(by_status'[t]) = {x \in Ids : status_of'[x] = t}
  <2>1. CASE t = s
    <3>1. by_status'[t] = new
      BY <1>0, <1>2, <2>1
    <3>2. {x \in Ids : status_of'[x] = t} = {x \in Ids : status_of[x] = s} \cup {id}
      BY <1>0, <2>1
    <3> QED BY <1>1, <1>3, <3>1, <3>2
  <2>2. CASE t # s
    <3>1. by_status'[t] = by_status[t]
      BY <1>0, <1>2, <2>2
    <3>2. {x \in Ids : status_of'[x] = t} = {x \in Ids : status_of[x] = t}
      BY <1>0, <2>2, ShipmentAssumption
    <3> QED BY <3>1, <3>2 DEF ShipmentInv, IndexExact
  <2> QED BY <2>1, <2>2
<1> QED BY <1>4, <1>5 DEF IndexExact, ascending

LEMMA IndexMove ==
    ASSUME ShipmentInv, NEW id \in Ids, NEW s \in ShipmentStatus,
           update_shipment_status(id, s), status_of[id] # s
    PROVE  /\ status_of' \in [Ids -> ShipmentStatus \cup {Absent}]
           /\ by_status' \in [ShipmentStatus -> Seq(Nat)]
           /\ IndexExact'
<1>0. /\ status_of \in [Ids -> ShipmentStatus \cup {Absent}]
      /\ by_status \in [ShipmentStatus -> Seq(Nat)]
      /\ status_of[id] # Absent /\ id \in Nat
      /\ status_of' = [status_of EXCEPT ![id] = s]
      /\ by_status' = [by_status EXCEPT ![status_of[id]] = remove_id(@, id),
                                        ![s] = insert_sorted_unique(@, id)]
  BY ShipmentAssumption DEF ShipmentInv, update_shipment_status
<1>1. PICK o \in ShipmentStatus : o = status_of[id] /\ o # s
  BY <1>0
<1>2. \A t \in ShipmentStatus :
         ascending(by_status[t]) /\ Range(by_status[t]) = {x \in Ids : status_of[x] = t}
  BY DEF ShipmentInv, IndexExact
<1> DEFINE new == insert_sorted_unique(by_status[s], id)
           old == remove_id(by_status[o], id)
<1>3. by_status' = [t \in ShipmentStatus |-> IF t = s THEN new
                                              ELSE IF t = o THEN old ELSE by_status[t]]
  BY <1>0, <1>1
<1>4. /\ new \in Seq(Nat) /\ ascending(new)
      /\ Range(new) = Range(by_status[s]) \cup {id}
  <2>1. id \notin Range(by_status[s]) /\ by_status[s] \in Seq(Nat)
    BY <1>0, <1>1, <1>2
  <2> QED BY <1>0, <1>2, <2>1, InsertKeepsOrder
<1>5. /\ old \in Seq(Nat) /\ ascending(old)
      /\ Range(old) = Range(by_status[o]) \ {id}
  <2>1. by_status[o] \in Seq(Nat) /\ ascending(by_status[o]) /\ id \in Nat
    BY <1>0, <1>2
  <2> QED BY ONLY <2>1, RemoveKeepsOrder
<1> HIDE DEF new, old
<1>6. /\ status_of' \in [Ids -> ShipmentStatus \cup {Absent}]
      /\ by_status' \in [ShipmentStatus -> Seq(Nat)]
  <2>1. status_of' \in [Ids -> ShipmentStatus \cup {Absent}]
    BY <1>0
  <2>2. by_status' \in [ShipmentStatus -> Seq(Nat)]
    BY ONLY <1>0, <1>3, <1>4, <1>5
  <2> QED BY <2>1, <2>2
<1>7. \A x \in Ids : status_of'[x] = IF x = id THEN s ELSE status_of[x]
  BY <1>0
<1>8. ASSUME NEW t \in ShipmentStatus
      PROVE  ascending(by_status'[t])
             /\ Range(by_status'[t]) = {x \in Ids : status_of'[x] = t}
  <2>0. by_status'[t] = IF t = s THEN new ELSE IF t = o THEN old ELSE by_status[t]
    BY <1>3
  <2>1. CASE t = s
    <3>1. {x \in Ids : status_of'[x] = t} = {x \in Ids : status_of[x] = s} \cup {id}
      BY <1>7, <2>1
    <3>2. by_status'[t] = new /\ Range(by_status[s]) = {x \in Ids : status_of[x] = s}
      BY <1>2, <2>0, <2>1
    <3> QED BY ONLY <1>4, <3>1, <3>2
  <2>2. CASE t = o
    <3>1. {x \in Ids : status_of'[x] = t} = {x \in Ids : status_of[x] = o} \ {id}
      BY <1>1, <1>7, <2>2
    <3> QED BY <1>1, <1>2, <1>5, <2>0, <2>2, <3>1
  <2>3. CASE t # s /\ t # o
    <3>1. {x \in Ids : status_of'[x] = t} = {x \in Ids : status_of[x] = t}
      BY <1>1, <1>7, <2>3
    <3> QED BY <1>2, <2>0, <2>3, <3>1
  <2> QED BY <2>1, <2>2, <2>3
<1> QED BY <1>6, <1>8 DEF IndexExact, ascending

\* A change of the index leaves a client's scan what it was, but for the
\* shipments that left the status.
LEMMA ScanWatches ==
    ASSUME scan # NoScan => ScanInv, scan' = watched(status_of')
    PROVE  scan' # NoScan => ScanInv'
<1> SUFFICES ASSUME scan' # NoScan PROVE ScanInv'
  OBVIOUS
<1>1. scan # NoScan /\ ScanInv
  BY DEF watched
<1>2. scan' = [scan EXCEPT !.stayed = {x \in scan.stayed : status_of'[x] = scan.status}]
  BY <1>1 DEF watched
<1>3. scan \in Scan
  BY <1>1 DEF ScanInv
<1>4. /\ scan' \in Scan /\ scan'.got = scan.got /\ scan'.cursor = scan.cursor
      /\ scan'.done = scan.done /\ scan'.status = scan.status
      /\ scan'.stayed = {x \in scan.stayed : status_of'[x] = scan.status}
  BY <1>2, <1>3 DEF Scan
<1>5. scan.stayed \subseteq Ids
  BY <1>3 DEF Scan
<1>6. ascending(scan'.got) /\ (~scan'.done /\ scan'.cursor = Absent => scan'.got = << >>)
  BY <1>1, <1>4 DEF ScanInv
<1>7. scan'.stayed \subseteq {x \in Ids : status_of'[x] = scan'.status}
  BY <1>4, <1>5
<1>8. scan'.done => scan'.stayed \subseteq Range(scan'.got)
  BY <1>1, <1>4 DEF ScanInv
<1>9. ~scan'.done /\ scan'.cursor # Absent => PagesReach(scan.cursor)'
  BY <1>1, <1>4 DEF ScanInv, PagesReach
<1> QED BY <1>4, <1>6, <1>7, <1>8, <1>9 DEF ScanInv, PagesReach, ascending

\* A page starts above what has been read and below nothing that is missing.
LEMMA ScanResumes ==
    ASSUME ShipmentInv, scan # NoScan, ~scan.done,
           NEW ids, ids = by_status[scan.status],
           NEW start, start = index_after_cursor(ids, scan.cursor)
    PROVE  /\ start \in Nat /\ 1 <= start /\ start <= Len(ids) + 1
           /\ \A x \in Range(scan.got), i \in 1..Len(ids) : start <= i => x < ids[i]
           /\ \A i \in 1..Len(ids) : i < start /\ ids[i] \in scan.stayed
                                     => ids[i] \in Range(scan.got)
<1>0. /\ ScanInv /\ scan.status \in ShipmentStatus /\ scan.got \in Seq(Nat)
      /\ scan.cursor \in Nat \cup {Absent} /\ scan.stayed \subseteq Ids
  BY DEF ShipmentInv, ScanInv, Scan
<1>1. ids \in Seq(Nat) /\ ascending(ids) /\ Len(ids) \in Nat
  BY <1>0 DEF ShipmentInv, IndexExact
<1>2. \A i \in 1..Len(ids) : ids[i] \in Nat
  BY <1>1
<1>3. CASE scan.cursor = Absent
  <2>1. scan.got = << >> /\ start = 1
    BY <1>0, <1>3 DEF ScanInv, index_after_cursor
  <2>2. Range(scan.got) = {}
    BY <2>1 DEF Range
  <2> QED BY <1>1, <2>1, <2>2
<1>4. CASE scan.cursor # Absent
  <2>1. PICK c \in Nat : c = scan.cursor
    BY <1>0, <1>4
  <2>2. PagesReach(c)
    BY <1>0, <1>4, <2>1 DEF ScanInv
  <2>3. start = first_above(ids, c)
    BY <1>4, <2>1 DEF index_after_cursor
  <2>4. /\ start \in Nat /\ 1 <= start /\ start <= Len(ids) + 1
        /\ \A i \in 1..Len(ids) : i < start => ids[i] <= c
        /\ \A i \in 1..Len(ids) : start <= i => ids[i] > c
    BY ONLY <1>1, <2>3, c \in Nat, FirstAboveSplits
  <2>5. \A x \in Range(scan.got) : x \in Nat /\ x <= c
    BY <1>0, <2>2, SeqRange DEF PagesReach
  <2>6. \A x, y, z \in Nat : x <= y /\ y < z => x < z
    OBVIOUS
  <2>7. \A x \in Range(scan.got), i \in 1..Len(ids) : start <= i => x < ids[i]
    BY <1>2, <2>1, <2>4, <2>5
  <2>8. \A i \in 1..Len(ids) : i < start /\ ids[i] \in scan.stayed
                               => ids[i] \in Range(scan.got)
    BY <2>2, <2>4 DEF PagesReach
  <2> QED BY <2>4, <2>7, <2>8
<1> QED BY <1>3, <1>4

\* A page ends within the index, and before its end only if it is not empty.
LEMMA PageEnds ==
    ASSUME NEW n \in Nat, NEW start \in Nat, 1 <= start, start <= n + 1,
           NEW page_size \in Nat, page_size # 0,
           NEW end, end = Min({n, start + Min({page_size, MAX_PAGE_SIZE}) - 1})
    PROVE  /\ end \in Nat /\ end <= n /\ start <= end + 1
           /\ end < n => start <= end
<1> DEFINE m == Min({page_size, MAX_PAGE_SIZE})
<1>1. m \in {page_size, MAX_PAGE_SIZE}
  BY MinIsLeast, ShipmentAssumption
<1>2. m \in Nat /\ 1 <= m
  BY <1>1, ShipmentAssumption
<1>3. end = Min({n, start + m - 1})
  OBVIOUS
<1> HIDE DEF m
<1>4. {n, start + m - 1} \subseteq Nat
  BY <1>2
<1>5. end \in {n, start + m - 1} /\ \A y \in {n, start + m - 1} : end <= y
  BY ONLY <1>3, <1>4, MinIsLeast
<1> QED BY <1>2, <1>5

LEMMA PageRead ==
    ASSUME ShipmentInv, NEW page_size \in PageSizes, shipment_ids_by_status(page_size)
    PROVE  scan' # NoScan => ScanInv'
<1> DEFINE ids == by_status[scan.status]
           start == index_after_cursor(ids, scan.cursor)
           end == Min({Len(ids), start + Min({page_size, MAX_PAGE_SIZE}) - 1})
           page == SubSeq(ids, start, end)
           next == next_cursor(ids, end)
<1>0. /\ scan # NoScan /\ ~scan.done /\ page_size # 0 /\ page_size \in Nat
      /\ scan' = [scan EXCEPT !.got = @ \o page, !.cursor = next, !.done = next = Absent]
      /\ status_of' = status_of
  BY ShipmentAssumption DEF shipment_ids_by_status
<1>1. ScanInv /\ scan \in Scan /\ scan.status \in ShipmentStatus
  BY <1>0 DEF ShipmentInv, ScanInv, Scan
<1>2. /\ ids \in Seq(Nat) /\ ascending(ids) /\ Len(ids) \in Nat
      /\ Range(ids) = {id \in Ids : status_of[id] = scan.status}
  BY <1>1 DEF ShipmentInv, IndexExact
<1>3. /\ start \in Nat /\ 1 <= start /\ start <= Len(ids) + 1
      /\ \A x \in Range(scan.got), i \in 1..Len(ids) : start <= i => x < ids[i]
      /\ \A i \in 1..Len(ids) : i < start /\ ids[i] \in scan.stayed
                                => ids[i] \in Range(scan.got)
  BY <1>0, ScanResumes
<1> HIDE DEF ids, start
<1>4. /\ end \in Nat /\ end <= Len(ids) /\ start <= end + 1
      /\ end < Len(ids) => start <= end
  BY <1>0, <1>2, <1>3, PageEnds
<1>5. next = IF end < Len(ids) THEN ids[end] ELSE Absent
  BY DEF next_cursor
<1> HIDE DEF end, next
<1>6. page \in Seq(Nat) /\ ascending(page) /\ Range(page) = {ids[i] : i \in start..end}
  BY <1>2, <1>3, <1>4, SliceOrder
<1> HIDE DEF page
<1> DEFINE got == scan.got \o page
<1>7. scan.got \in Seq(Nat) /\ ascending(scan.got)
  BY <1>1 DEF ScanInv, Scan
<1>8. got \in Seq(Nat) /\ ascending(got) /\ Range(got) = Range(scan.got) \cup Range(page)
  <2>1. \A i \in start..end : i \in 1..Len(ids) /\ start <= i
    BY <1>2, <1>3, <1>4
  <2>2. \A x \in Range(scan.got), y \in Range(page) : x < y
    BY <1>3, <1>6, <2>1
  <2> QED BY <1>6, <1>7, <2>2, JoinKeepsOrder
<1> HIDE DEF got
<1>9. /\ scan'.got = got /\ scan'.cursor = next /\ scan'.done = (next = Absent)
      /\ scan'.stayed = scan.stayed /\ scan'.status = scan.status
  BY <1>0, <1>1 DEF Scan, got
<1>10. end < Len(ids) => end \in 1..Len(ids) /\ next = ids[end] /\ next \in Nat
  BY <1>2, <1>3, <1>4, <1>5
<1>11. next \in Nat \cup {Absent} /\ (next = Absent <=> end = Len(ids))
  BY <1>2, <1>4, <1>5, <1>10, ShipmentAssumption
<1>12. scan' \in Scan
  <2>1. scan' = [scan EXCEPT !.got = got, !.cursor = next, !.done = (next = Absent)]
    BY <1>0 DEF got
  <2>2. (next = Absent) \in BOOLEAN
    OBVIOUS
  <2> QED BY <1>1, <1>8, <1>11, <2>1, <2>2 DEF Scan
\* What stands up to the end of the page has been read.
<1>13. ASSUME NEW i \in 1..Len(ids), i <= end, ids[i] \in scan.stayed
       PROVE  ids[i] \in Range(got)
  <2>1. CASE i < start
    BY <1>3, <1>8, <1>13, <2>1
  <2>2. CASE start <= i
    <3>1. i \in start..end
      BY <1>3, <1>4, <1>13, <2>2
    <3> QED BY <1>6, <1>8, <3>1
  <2> QED BY <1>3, <2>1, <2>2
<1>14. \A id \in scan.stayed : \E i \in 1..Len(ids) : id = ids[i]
  <2>1. scan.stayed \subseteq Range(ids)
    BY <1>1, <1>2 DEF ScanInv
  <2> QED BY <1>2, <2>1, SeqRange
<1>15. next = Absent => scan.stayed \subseteq Range(got)
  BY <1>2, <1>11, <1>13, <1>14
<1>16. ASSUME next # Absent PROVE PagesReach(scan.cursor)'
  <2>1. end \in 1..Len(ids) /\ next = ids[end] /\ next \in Nat
    BY <1>4, <1>2, <1>10, <1>11, <1>16
  <2>2. \A i \in 1..Len(ids) : ids[i] \in Nat /\ (ids[i] <= next <=> i <= end)
    <3> SUFFICES ASSUME NEW i \in 1..Len(ids)
                 PROVE  ids[i] \in Nat /\ (ids[i] <= next <=> i <= end)
      OBVIOUS
    <3>1. ids[i] \in Nat
      BY <1>2
    <3>2. (i < end => ids[i] < ids[end]) /\ (end < i => ids[end] < ids[i])
      BY <1>2, <2>1 DEF ascending
    <3>3. i < end \/ i = end \/ end < i
      BY <2>1
    <3> QED BY <2>1, <3>1, <3>2, <3>3
  <2>3. ASSUME NEW x \in Range(got) PROVE x <= next
    <3>1. CASE x \in Range(page)
      <4>1. PICK i \in start..end : x = ids[i]
        BY <1>6, <3>1
      <4>2. i \in 1..Len(ids) /\ i <= end
        BY <1>2, <1>3, <1>4
      <4> QED BY <2>2, <4>1, <4>2
    <3>2. CASE x \in Range(scan.got)
      <4>1. x < ids[end] /\ x \in Nat
        <5>1. start <= end
          BY <1>2, <1>4, <1>11, <1>16
        <5>2. x < ids[end]
          BY <1>3, <2>1, <3>2, <5>1
        <5> QED BY <1>7, <3>2, <5>2, SeqRange
      <4> QED BY <2>1, <4>1
    <3> QED BY <1>8, <3>1, <3>2
  <2>4. \A id \in scan.stayed : id <= next => id \in Range(got)
    BY <1>13, <1>14, <2>2
  <2> QED BY <1>9, <2>3, <2>4 DEF PagesReach
<1>17. scan'.stayed \subseteq {id \in Ids : status_of'[id] = scan'.status}
  BY <1>0, <1>1, <1>9 DEF ScanInv
<1> QED BY <1>8, <1>9, <1>12, <1>15, <1>16, <1>17 DEF ScanInv, PagesReach, ascending

\* The index of a status is exact after any sequence of additions and moves,
\* and a client that pages through it meets every shipment that stays, once.
THEOREM ListingsAreExact == ShipmentSpec => []ListingExact
<1>1. ShipmentInit => ShipmentInv
  <2> SUFFICES ASSUME ShipmentInit PROVE ShipmentInv
    OBVIOUS
  <2>1. /\ status_of = [id \in Ids |-> Absent] /\ scan = NoScan
        /\ by_status = [s \in ShipmentStatus |-> << >>]
    BY DEF ShipmentInit
  <2>2. Range(<< >>) = {} /\ ascending(<< >>)
    BY DEF Range, ascending
  <2>3. IndexExact
    BY <2>1, <2>2, ShipmentAssumption DEF IndexExact
  <2> QED BY <2>1, <2>3 DEF ShipmentInv
<1>2. ShipmentInv /\ [ShipmentNext]_shipmentVars => ShipmentInv'
  <2> SUFFICES ASSUME ShipmentInv, [ShipmentNext]_shipmentVars PROVE ShipmentInv'
    OBVIOUS
  <2>1. CASE UNCHANGED shipmentVars
    BY <2>1 DEF shipmentVars, ShipmentInv, IndexExact, ascending, ScanInv, PagesReach
  <2>2. ASSUME NEW id \in Ids, NEW s \in ShipmentStatus, add_shipment(id, s)
        PROVE  ShipmentInv'
    <3>1. scan' # NoScan => ScanInv'
      BY <2>2, ScanWatches DEF ShipmentInv, add_shipment
    <3> QED BY <2>2, <3>1, IndexAdd DEF ShipmentInv
  <2>3. ASSUME NEW id \in Ids, NEW s \in ShipmentStatus, update_shipment_status(id, s)
        PROVE  ShipmentInv'
    <3>1. CASE status_of[id] = s
      BY <2>1, <2>3, <3>1 DEF update_shipment_status
    <3>2. CASE status_of[id] # s
      <4>1. scan' # NoScan => ScanInv'
        BY <2>3, <3>2, ScanWatches DEF ShipmentInv, update_shipment_status
      <4> QED BY <2>3, <3>2, <4>1, IndexMove DEF ShipmentInv
    <3> QED BY <3>1, <3>2
  <2>4. ASSUME NEW n \in PageSizes, shipment_ids_by_status(n) PROVE ShipmentInv'
    <3>1. scan' # NoScan => ScanInv'
      BY <2>4, PageRead
    <3>2. UNCHANGED <<status_of, by_status>>
      BY <2>4 DEF shipment_ids_by_status
    <3> QED BY <3>1, <3>2 DEF ShipmentInv, IndexExact, ascending
  <2>5. ASSUME NEW s \in ShipmentStatus, start_scan(s) PROVE ShipmentInv'
    <3>1. /\ UNCHANGED <<status_of, by_status>>
          /\ scan' = [status |-> s, cursor |-> Absent, got |-> << >>,
                      stayed |-> {id \in Ids : status_of[id] = s}, done |-> FALSE]
      BY <2>5 DEF start_scan
    <3>2. << >> \in Seq(Nat) /\ ascending(<< >>)
      BY DEF ascending
    <3>3. /\ scan' \in Scan /\ scan'.got = << >> /\ ~scan'.done
          /\ scan'.cursor = Absent /\ scan'.status = s
          /\ scan'.stayed = {id \in Ids : status_of[id] = s}
      BY <3>1, <3>2 DEF Scan
    <3>4. ScanInv'
      BY <3>1, <3>2, <3>3 DEF ScanInv, ascending
    <3> QED BY <3>1, <3>4 DEF ShipmentInv, IndexExact, ascending
  <2> QED BY <2>1, <2>2, <2>3, <2>4, <2>5 DEF ShipmentNext
<1>3. ShipmentInv => ListingExact
  BY DEF ShipmentInv, ScanInv, ListingExact, ScanComplete, ScanOnce
<1> QED BY <1>1, <1>2, <1>3, PTL DEF ShipmentSpec
=============================================================================
