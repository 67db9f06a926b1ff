---------------------------- MODULE FacadeScripts ----------------------------
(***************************************************************************)
(* The Hardhat scripts that put PScanQueryFacade and Multicall3 on a chain *)
(* and try the facade out.  A script awaits the node between its steps:    *)
(* any of these calls may be refused or its answer lost, which ends the    *)
(* script with exit code 1 whatever the node has done by then.  deploy()   *)
(* resolves when the creation is sent; blocks are mined independently.     *)
(*                                                                         *)
(* A contract's address is made of its creator and the creator's nonce, so *)
(* it is that pair here.  Only these scripts spend the nonces of the first *)
(* account (environment).  One script runs at a time, at most MaxRuns.     *)
(***************************************************************************)
EXTENDS ErcDetection, Sequences

CONSTANTS
    MaxRuns,        \* bound: scripts run
    MaxHeight,      \* bound: height of each chain
    QueryNonce,     \* nonce in the address execute-pScanQueryFacade.js holds
    SampleNetwork   \* the network the nine sample contracts are on

ASSUME ScriptsAssumption ==
    /\ MaxRuns \in Nat
    /\ MaxHeight \in Nat
    /\ QueryNonce \in Nat
    /\ SampleNetwork \in {"platon_dev", "platon_prod"}

VARIABLES
    script,     \* the script in the shell
    runs,       \* scripts run so far
    sent,       \* creations each network's node has accepted, in nonce order
    born,       \* heights of the creations that are mined, a prefix of sent
    height      \* height of each network

scripts == <<script, runs, sent, born, height>>

\* hardhat.config.js
Networks == {"platon_dev", "platon_prod"}
Accounts(net) == IF net = "platon_dev" THEN <<"key1", "key2", "key3">> ELSE <<"key1">>
Owner(net) == Accounts(net)[1]

Deployable == {"PScanQueryFacade", "Multicall3"}
QueryAddress == [creator |-> "key1", nonce |-> QueryNonce]

\* The code at an address at the end of block h.
CodeAt(net, address, h) ==
    IF /\ address.creator = Owner(net)
       /\ address.nonce \in 1..Len(born[net])
       /\ born[net][address.nonce] <= h
    THEN sent[net][address.nonce]
    ELSE "none"

\* The step the script is at, the nonce of its creation, what it has printed,
\* and its exit code or 2 while it runs.
Shell(name, contract, net, step, exit) ==
    [name |-> name, contract |-> contract, net |-> net, step |-> step, nonce |-> 0,
     printed |-> <<>>, exit |-> exit]

Idle == Shell("none", "none", "none", "none", 0)

ScriptsInit ==
    /\ script = Idle
    /\ runs = 0
    /\ sent = [net \in Networks |-> <<>>]
    /\ born = [net \in Networks |-> <<>>]
    /\ height = [net \in Networks |-> 0]

\* npx hardhat run <script> --network <net>; the signers are read from the
\* configuration and the owner is printed.
RunDeploy(contract, net) ==
    /\ script.exit # 2
    /\ runs < MaxRuns
    /\ runs' = runs + 1
    /\ script' = Shell("deploy", contract, net, "balance", 2)
    /\ UNCHANGED <<sent, born, height>>

RunQuery(net) ==
    /\ script.exit # 2
    /\ runs < MaxRuns
    /\ runs' = runs + 1
    /\ script' = Shell("query", "none", net, "ercInfo", 2)
    /\ UNCHANGED <<sent, born, height>>

\* getBalance; the factory comes from the compiled artifact without a call.
DeployBalance ==
    /\ script.step = "balance"
    /\ script' = [script EXCEPT !.step = "deploy"]
    /\ UNCHANGED <<runs, sent, born, height>>

\* mutant: the nonce is counted from mined creations
DeploySendMinedNonce ==
    /\ script.step = "deploy"
    /\ sent' = [sent EXCEPT ![script.net] = Append(@, script.contract)]
    /\ script' = [script EXCEPT !.step = "sent", !.nonce = Len(born[script.net]) + 1]
    /\ UNCHANGED <<runs, born, height>>

\* deploy() hands the creation to the node, under the next nonce.
DeploySend ==
    /\ script.step = "deploy"
    /\ sent' = [sent EXCEPT ![script.net] = Append(@, script.contract)]
    /\ script' = [script EXCEPT !.step = "sent", !.nonce = Len(sent[script.net]) + 1]
    /\ UNCHANGED <<runs, born, height>>

\* The node's answer arrives: the address is printed.
DeployPrint ==
    /\ script.step = "sent"
    /\ script' = [script EXCEPT !.step = "none", !.exit = 0,
           !.printed = <<[creator |-> Owner(script.net), nonce |-> script.nonce]>>]
    /\ UNCHANGED <<runs, sent, born, height>>

\* One of the nine calls; a call of an address without the facade is rejected.
QueryNext ==
    LET sample == IF script.net = SampleNetwork
                  THEN Samples[Len(script.printed) + 1] ELSE Account
    IN  /\ script.step = "ercInfo"
        /\ CodeAt(script.net, QueryAddress, height[script.net]) = "PScanQueryFacade"
        /\ ~FacadeFails(sample)
        /\ script' = IF Len(script.printed) = 8
                     THEN [script EXCEPT !.printed = Append(@, Bitmap(sample)),
                                         !.step = "none", !.exit = 0]
                     ELSE [script EXCEPT !.printed = Append(@, Bitmap(sample))]
        /\ UNCHANGED <<runs, sent, born, height>>

\* An awaited call is refused, or its answer does not arrive.
Reject ==
    /\ script.exit = 2
    /\ script' = [script EXCEPT !.step = "none", !.exit = 1]
    /\ UNCHANGED <<runs, sent, born, height>>

\* The next block of a network takes some of the creations that wait.
Mine(net) ==
    /\ height[net] < MaxHeight
    /\ height' = [height EXCEPT ![net] = @ + 1]
    /\ \E k \in 0 .. Len(sent[net]) - Len(born[net]) :
          born' = [born EXCEPT ![net] = @ \o [i \in 1..k |-> height[net] + 1]]
    /\ UNCHANGED <<script, runs, sent>>

ScriptsNext ==
    \/ \E net \in Networks :
          RunQuery(net) \/ Mine(net) \/ \E contract \in Deployable : RunDeploy(contract, net)
    \/ DeployBalance \/ DeploySend \/ DeployPrint \/ QueryNext \/ Reject
-----------------------------------------------------------------------------
(***************************************************************************)
(* The query script ends well only if the facade answers all of its calls, *)
(* and then it has printed, on the network with the samples, what the      *)
(* comment over ercInfo2ErcContractId lists.  It cannot be right against   *)
(* an address that another order of deployments gave to another contract.  *)
(***************************************************************************)
QueryPrintsTheTable ==
    (script.name = "query" /\ script.exit = 0) =>
        /\ \E h \in 0..MaxHeight :
              CodeAt(script.net, QueryAddress, h) = "PScanQueryFacade"
        /\ script.net = SampleNetwork => script.printed = DocumentedBitmaps

(***************************************************************************)
(* A deployment that ends well printed the address of the contract it was  *)
(* for, although the creation may not be mined and others may be waiting.  *)
(***************************************************************************)
PrintedAddressIsRight ==
    (script.name = "deploy" /\ script.exit = 0) =>
        LET address == script.printed[1]
        IN  CodeAt(script.net, address, height[script.net]) \in {"none", script.contract}
=============================================================================
