---------------------------- MODULE BlockLedger ----------------------------
(***************************************************************************)
(* What block collection promises to everything that reads MySQL: the      *)
(* statistics are the result of applying the blocks of the chain one by    *)
(* one, in the order of their numbers, each of them at most once.  Only a  *)
(* block the BlockEventHandler may give up on can be passed over.          *)
(***************************************************************************)
EXTENDS Integers

CONSTANTS
    MaxBlock,       \* bound: the highest block of the model's chain
    FaultyBlocks    \* blocks whose receipts the node may fail to serve

VARIABLES
    curNumber,      \* network_stat.cur_number, -1 before block 1
    applied         \* how many committed transactions applied each block

vars == <<curNumber, applied>>

Counted == 1..MaxBlock     \* the genesis block has no statistics

Init ==
    /\ curNumber = -1
    /\ applied = [b \in Counted |-> 0]

\* Block b is the next one: what lies between was given up on.
Apply(b) ==
    /\ b > curNumber
    /\ \A n \in 1 .. b - 1 : n > curNumber => n \in FaultyBlocks
    /\ applied[b] = 0
    /\ curNumber' = b
    /\ applied' = [applied EXCEPT ![b] = 1]

Next == \E b \in Counted : Apply(b)

Spec == Init /\ [][Next]_vars
=============================================================================
