------------------------------ MODULE TokenUse ------------------------------
(***************************************************************************)
(* What signed wallet actions promise of a nonce, whatever the store: it   *)
(* is issued once, for one purpose, and lets through at most one request,  *)
(* which comes after it was issued.                                        *)
(***************************************************************************)
CONSTANTS Tokens, Users, Purposes, NotGiven

VARIABLES given,   \* token -> what it was issued for
          usedBy   \* token -> the requests it let through

tokenVars == <<given, usedBy>>

Init ==
    /\ given = [t \in Tokens |-> NotGiven]
    /\ usedBy = [t \in Tokens |-> {}]

Give(t, p) ==
    /\ given[t] = NotGiven
    /\ given' = [given EXCEPT ![t] = p]
    /\ UNCHANGED usedBy

Use(t, u) ==
    /\ given[t] # NotGiven /\ usedBy[t] = {}
    /\ usedBy' = [usedBy EXCEPT ![t] = {u}]
    /\ UNCHANGED given

Next ==
    \E t \in Tokens : \/ \E p \in Purposes : Give(t, p)
                      \/ \E u \in Users : Use(t, u)

Spec == Init /\ [][Next]_tokenVars
=============================================================================
