---------------------------- MODULE MCGovernance ----------------------------
(* Governance and the shipment index of the vault contract, explored one at *)
(* a time: they share no storage but the admin, whose signature both need.  *)
EXTENDS Governance, Shipments, Functions, TLC

VARIABLE focus   \* the part that is explored

ContractInit == focus \in {"governance", "shipments"} /\ initialize /\ ShipmentInit

ContractNext ==
    \/ focus = "governance" /\ Next /\ UNCHANGED <<focus, shipmentVars>>
    \/ focus = "shipments" /\ ShipmentNext /\ UNCHANGED <<focus, vars>>

ContractSpec == ContractInit /\ [][ContractNext]_<<focus, vars, shipmentVars>>

\* One proposal of each kind, with a reason code the enum does not have and
\* with a divest that carries no amount.
Call(kind, code, amount, hash) ==
    [kind |-> kind, pause_reason_code |-> code, divest_amount |-> amount,
     wasm_hash |-> hash]
MCEmergencyCalls ==
    {Call("Pause", 7, None, None), Call("Unpause", 0, None, None),
     Call("EmergencyDivest", 0, None, None), Call("EmergencyDivest", 0, 1, None)}
    \cup {Call("ForceUpgrade", 0, None, h) : h \in Hashes \ {InitialHash}}

\* Bound: the strategy votes and everything else are explored one at a time.
\* They share no variable but the admin, who opens a vote.
OneTrack ==
    \/ proposals = << >> /\ dao_threshold = 1
    \/ /\ admin = InitialAdmin /\ pending_admin = None /\ wasm = InitialHash
       /\ ~is_paused /\ emergency = << >> /\ {primary, secondary} = {None}

\* The admin is the one address that is told apart at the start.
VoterSymmetry == Permutations(Addresses \ {InitialAdmin})

ballots(id, support) == {v \in votes : v.id = id /\ v.support = support}
Weight(id, support) ==
    SumFunctionOnSet([v \in votes |-> v.weight], ballots(id, support))

\* The tallies of a proposal are the ballots cast on it, one for each voter:
\* no ballot is lost, counted twice or counted for another proposal.
TallyIsBallots ==
    /\ \A id \in 1..Len(proposals) :
          /\ proposals[id].yes_votes = Weight(id, TRUE)
          /\ proposals[id].no_votes = Weight(id, FALSE)
    /\ \A v, w \in votes : v.id = w.id /\ v.voter = w.voter => v = w
=============================================================================
