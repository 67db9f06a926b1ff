-------------------------- MODULE DelegationClaims --------------------------
(***************************************************************************)
(* What the staking and delegation tables promise to a delegator.  A claim *)
(* on a staking of the node is what was delegated to it and not taken back *)
(* yet.  It is raised by a delegation and lowered by a withdrawal, and by  *)
(* nothing else: whatever happens to the node (settlements, penalties,     *)
(* double signs, its exit), the delegator is owed the same amount.         *)
(***************************************************************************)
EXTENDS Integers

CONSTANTS
    Delegators,         \* delegating addresses
    MaxGen,             \* bound: stakings of the node, one after the other
    DelegateThreshold,  \* a claim that would fall below is paid out in full
    MaxClaim            \* bound: the largest claim

VARIABLES
    claim,      \* what each delegator is owed from each staking
    phase       \* "none", "open", "leaving" or "closed" for each staking

vars == <<claim, phase>>

Gens == 1..MaxGen

Init ==
    /\ claim = [d \in Delegators |-> [g \in Gens |-> 0]]
    /\ phase \in {[g \in Gens |-> "none"],
                  [g \in Gens |-> IF g = 1 THEN "open" ELSE "none"]}

\* A node stakes again only when its earlier stakings are over.
Open(g) ==
    /\ phase[g] = "none"
    /\ \A h \in 1 .. g - 1 : phase[h] = "closed"
    /\ phase' = [phase EXCEPT ![g] = "open"]
    /\ UNCHANGED claim

OnlyClaim(d, g) ==
    /\ claim' = [claim EXCEPT ![d][g] = claim'[d][g]]
    /\ UNCHANGED phase

Delegate(d, g, a) ==
    /\ phase[g] = "open"
    /\ claim'[d][g] = claim[d][g] + a
    /\ OnlyClaim(d, g)

Withdraw(d, g, a) ==
    /\ a <= claim[d][g]
    /\ claim'[d][g] = LET rest == claim[d][g] - a
                      IN  IF rest < DelegateThreshold THEN 0 ELSE rest
    /\ OnlyClaim(d, g)

Leave(g) ==
    /\ phase[g] = "open"
    /\ phase' = [phase EXCEPT ![g] = "leaving"]
    /\ UNCHANGED claim

Close(g) ==
    /\ phase[g] \in {"open", "leaving"}
    /\ phase' = [phase EXCEPT ![g] = "closed"]
    /\ UNCHANGED claim

Next ==
    \E g \in Gens :
        \/ Open(g) \/ Leave(g) \/ Close(g)
        \/ \E d \in Delegators, a \in 1..MaxClaim : Delegate(d, g, a) \/ Withdraw(d, g, a)

Spec == Init /\ [][Next]_vars
=============================================================================
