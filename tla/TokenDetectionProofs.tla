------------------------ MODULE TokenDetectionProofs ------------------------
(***************************************************************************)
(* Theorems about the scripts and about the recognition of tokens, for     *)
(* every number of script runs, blocks, contracts and kinds of contracts.  *)
(***************************************************************************)
EXTENDS TokenDetection, SequenceTheorems, SetTheorems, TLAPS

-----------------------------------------------------------------------------
LEMMA BitTyped ==
    ASSUME NEW c, NEW v \in Nat
    PROVE  Bit(c, v) \in {0, v}
  BY DEF Bit

(***************************************************************************)
(* The bitmap of ErcDetectService and of the facade gives back the         *)
(* standard it was made for, whatever optional interfaces are claimed.     *)
(***************************************************************************)
LEMMA BitmapIsRead ==
    ASSUME NEW p
    PROVE  BitmapType(Bitmap(p)) \in {"UNKNOWN", Standard(p)}
<1>1. CASE Is721(p)
  <2> DEFINE a == Bit(Supports(p, "metadata"), 8)
             b == Bit(Supports(p, "enumerable"), 16)
  <2>1. a \in {0, 8} /\ b \in {0, 16}
    BY BitTyped
  <2>2. Bitmap(p) = 6 + a + b
    BY <1>1, <2>1 DEF Bitmap, Erc721Bitmap
  <2> HIDE DEF a, b
  <2>3. BitmapType(Bitmap(p)) = "ERC721"
    BY <2>1, <2>2 DEF BitmapType
  <2> QED BY <1>1, <2>3 DEF Standard
<1>2. CASE ~Is721(p) /\ Is1155(p)
  <2> DEFINE a == Bit(Supports(p, "uri"), 64)
  <2>1. a \in {0, 64}
    BY BitTyped
  <2>2. Bitmap(p) = 34 + a
    BY <1>2, <2>1 DEF Bitmap, Erc1155Bitmap
  <2> HIDE DEF a
  <2>3. BitmapType(Bitmap(p)) = "ERC1155"
    BY <2>1, <2>2 DEF BitmapType
  <2> QED BY <1>2, <2>3 DEF Standard
<1>3. CASE ~Is721(p) /\ ~Is1155(p)
  <2>1. Bitmap(p) = Erc20Bitmap(p)
    BY <1>3 DEF Bitmap
  <2>2. Erc20Bitmap(p) \in {0, 1}
    BY BitTyped DEF Erc20Bitmap
  <2>3. BitmapType(Bitmap(p)) \in {"UNKNOWN", "ERC20"}
    BY <2>1, <2>2 DEF BitmapType
  <2> QED BY <1>3, <2>3 DEF Standard
<1> QED BY <1>1, <1>2, <1>3

LEMMA DetectedIsStandard ==
    ASSUME NEW p
    PROVE  DetectedType(p) \in {"UNKNOWN", Standard(p)}
  BY BitmapIsRead DEF DetectedType

LEMMA StandardIsToken ==
    ASSUME NEW p
    PROVE  Standard(p) \in TokenTypes /\ "UNKNOWN" \notin TokenTypes /\ "failed" \notin TokenTypes
  BY DEF Standard, TokenTypes

(***************************************************************************)
(* A type that is detected is a standard the contract meets.               *)
(***************************************************************************)
LEMMA DetectedIsMet ==
    ASSUME NEW p
    PROVE  DetectedType(p) \in Meets(p) \cup {"UNKNOWN"}
<1>1. CASE Is721(p)
  BY <1>1, DetectedIsStandard DEF Standard, Meets, TokenTypes
<1>2. CASE ~Is721(p) /\ Is1155(p)
  BY <1>2, DetectedIsStandard DEF Standard, Meets, TokenTypes, Is1155
<1>3. CASE ~Is721(p) /\ ~Is1155(p)
  <2> DEFINE all == p.code /\ \A method \in MethodNames : Answered(p, method)
             named == "blank" \notin {p.answer["name"], p.answer["symbol"]}
  <2>1. SUFFICES ASSUME DetectedType(p) # "UNKNOWN" PROVE DetectedType(p) \in Meets(p)
    OBVIOUS
  <2>2. Bitmap(p) = IF all THEN 1 ELSE 0
    BY <1>3 DEF Bitmap, Erc20Bitmap, Bit
  <2> HIDE DEF all
  <2>3. all /\ BitmapType(Bitmap(p)) = "ERC20"
    BY <2>1, <2>2 DEF DetectedType, BitmapType
  <2>4. named /\ DetectedType(p) = "ERC20"
    BY <2>1, <2>3 DEF DetectedType
  <2> QED BY <2>3, <2>4 DEF Meets, TokenTypes, all
<1> QED BY <1>1, <1>2, <1>3

(***************************************************************************)
(* Errors among the answers take standards from a contract and give none.  *)
(***************************************************************************)
LEMMA MisreadIsMet ==
    ASSUME NEW p \in Contract
    PROVE  Misread(p) \subseteq Meets(p) \cup {"UNKNOWN"}
<1>1. SUFFICES ASSUME NEW claims \in SUBSET p.supports,
                      NEW q, q = [p EXCEPT !.supports = claims]
               PROVE  DetectedType(q) \in Meets(p) \cup {"UNKNOWN"}
  BY DEF Misread
<1>2. q.code = p.code /\ q.supports = claims /\ q.answer = p.answer
  BY <1>1 DEF Contract
<1>3. \A interface : Supports(q, interface) => Supports(p, interface)
  BY <1>2 DEF Supports
<1>4. Is721(q) => Is721(p)
  BY <1>2, <1>3 DEF Is721
<1>5. Meets(q) \subseteq Meets(p)
  BY <1>2, <1>3, <1>4 DEF Meets, Answered
<1> QED BY <1>5, DetectedIsMet

(***************************************************************************)
(* The samples of the query script give the bitmaps of the comment.        *)
(***************************************************************************)
LEMMA SamplesAreDocumented ==
    ASSUME NEW i \in 1..9
    PROVE  Bitmap(Samples[i]) = DocumentedBitmaps[i]
<1>1. i \in {1, 2, 3, 4, 5, 6, 7, 8, 9}
  OBVIOUS
<1>2. CASE i = 1
  BY <1>2 DEF Samples, DocumentedBitmaps, Bitmap, Is721, Is1155, Supports, Erc20Bitmap, Bit, Plain,
     Answered, AllAnswer, MethodNames
<1>3. CASE i = 2
  BY <1>3 DEF Samples, DocumentedBitmaps, Bitmap, Is721, Is1155, Supports, Erc20Bitmap, Bit, Account
<1>4. CASE i = 3
  BY <1>4 DEF Samples, DocumentedBitmaps, Bitmap, Is721, Is1155, Supports, Erc20Bitmap, Bit, Erc20, Token,
     Answered, AllAnswer, MethodNames
<1>5. CASE i \in {4, 5, 6}
  BY <1>5 DEF Samples, DocumentedBitmaps, Bitmap, Is721, Supports, Erc721Bitmap, Bit, Token, Full721
<1>6. CASE i \in {7, 8, 9}
  BY <1>6 DEF Samples, DocumentedBitmaps, Bitmap, Is721, Is1155, Supports, Erc1155Bitmap, Bit, Token
<1> QED BY <1>1, <1>2, <1>3, <1>4, <1>5, <1>6
-----------------------------------------------------------------------------
(***************************************************************************)
(* The chains: creations are mined in the order they were accepted in, and *)
(* at a height the network has reached.                                    *)
(***************************************************************************)
ChainsTyped ==
    /\ sent \in [Networks -> Seq(Deployable)]
    /\ born \in [Networks -> Seq(Nat)]
    /\ height \in [Networks -> Nat]
    /\ \A net \in Networks :
          /\ height[net] <= MaxHeight
          /\ Len(born[net]) <= Len(sent[net])

Creator == {"key1", "key2", "key3"}

Shells ==
    [name : {"none", "deploy", "query"},
     contract : Deployable \cup {"none"},
     net : Networks \cup {"none"},
     step : {"none", "balance", "deploy", "sent", "ercInfo"},
     nonce : Nat,
     printed : Seq(Nat) \cup Seq([creator : Creator, nonce : Nat]),
     exit : {0, 1, 2}]

\* A deployment knows the nonce of its creation, and prints that address.
DeployIsRight ==
    /\ script.step \in {"balance", "deploy", "sent"} =>
          /\ script.name = "deploy" /\ script.net \in Networks /\ script.contract \in Deployable
          /\ script.exit = 2
    /\ script.step = "sent" =>
          /\ script.nonce \in 1..Len(sent[script.net])
          /\ sent[script.net][script.nonce] = script.contract
    /\ (script.name = "deploy" /\ script.exit = 0) =>
          /\ script.net \in Networks
          /\ \E n \in 1..Len(sent[script.net]) :
                /\ script.printed = <<[creator |-> Owner(script.net), nonce |-> n]>>
                /\ sent[script.net][n] = script.contract

\* The query prints the answers in the order of the samples, of the facade.
QueryIsRight ==
    /\ script.step = "ercInfo" =>
          script.name = "query" /\ script.exit = 2 /\ Len(script.printed) <= 8
    /\ script.name = "query" =>
          /\ script.net \in Networks
          /\ script.printed \in Seq(Nat)
          /\ script.exit = 0 => Len(script.printed) = 9
          /\ Len(script.printed) >= 1 =>
                CodeAt(script.net, QueryAddress, height[script.net]) = "PScanQueryFacade"
          /\ script.net = SampleNetwork =>
                \A i \in 1..Len(script.printed) : i <= 9 /\ script.printed[i] = Bitmap(Samples[i])

ScriptsInv == ChainsTyped /\ script \in Shells /\ DeployIsRight /\ QueryIsRight

LEMMA OwnerIsCreator == \A net : Owner(net) = "key1"
  BY DEF Owner, Accounts

LEMMA ScriptsStart == ScriptsInit => ScriptsInv
<1> SUFFICES ASSUME ScriptsInit PROVE ScriptsInv
  OBVIOUS
<1> USE DEF ScriptsInit
<1>1. ChainsTyped
  BY ScriptsAssumption DEF ChainsTyped
<1>2. script \in Shells
  BY DEF Idle, Shell, Shells
<1>3. DeployIsRight /\ QueryIsRight
  BY DEF DeployIsRight, QueryIsRight, Idle, Shell
<1> QED BY <1>1, <1>2, <1>3 DEF ScriptsInv

(***************************************************************************)
(* A new script starts from nothing, whatever the chains are.              *)
(***************************************************************************)
LEMMA NewScript ==
    ASSUME ScriptsInv, NEW net \in Networks, NEW contract \in Deployable,
           UNCHANGED <<sent, born, height>>,
           \/ script' = Shell("deploy", contract, net, "balance", 2)
           \/ script' = Shell("query", "none", net, "ercInfo", 2)
           \/ script' = Idle
    PROVE  ScriptsInv'
<1>1. ChainsTyped'
  BY DEF ScriptsInv, ChainsTyped
<1>2. PICK name \in {"none", "deploy", "query"}, of \in Deployable \cup {"none"},
           on \in Networks \cup {"none"}, step \in {"none", "balance", "ercInfo"}, exit \in {0, 2} :
         /\ script' = Shell(name, of, on, step, exit)
         /\ step = "balance" => name = "deploy" /\ on \in Networks /\ of \in Deployable /\ exit = 2
         /\ step = "ercInfo" => name = "query" /\ exit = 2
         /\ name # "none" => on \in Networks /\ exit = 2
  <2>1. CASE script' = Shell("deploy", contract, net, "balance", 2)
    BY <2>1
  <2>2. CASE script' = Shell("query", "none", net, "ercInfo", 2)
    BY <2>2
  <2>3. CASE script' = Idle
    BY <2>3 DEF Idle
  <2> QED BY <2>1, <2>2, <2>3
<1>3. <<>> \in Seq(Nat) /\ Len(<<>>) = 0
  OBVIOUS
<1>4. (script \in Shells)'
  BY <1>2, <1>3 DEF Shell, Shells
<1>5. /\ script'.name = name /\ script'.contract = of /\ script'.net = on /\ script'.step = step
      /\ script'.exit = exit /\ script'.printed = <<>>
  BY <1>2 DEF Shell
<1>6. DeployIsRight'
  BY <1>2, <1>5 DEF DeployIsRight
<1>7. QueryIsRight'
  BY <1>2, <1>3, <1>5 DEF QueryIsRight
<1> QED BY <1>1, <1>4, <1>6, <1>7 DEF ScriptsInv

LEMMA BalanceStep == ScriptsInv /\ DeployBalance => ScriptsInv'
<1> SUFFICES ASSUME ScriptsInv, DeployBalance PROVE ScriptsInv'
  OBVIOUS
<1> USE DEF ScriptsInv, DeployBalance
<1>1. ChainsTyped'
  BY DEF ChainsTyped
<1>2. (script \in Shells)'
  BY DEF Shells
<1>3. /\ script'.name = script.name /\ script'.net = script.net /\ script'.exit = script.exit
      /\ script'.contract = script.contract /\ script'.step = "deploy"
  BY DEF Shells
<1>4. script.name = "deploy" /\ script.exit = 2
  BY DEF DeployIsRight
<1>5. DeployIsRight' /\ QueryIsRight'
  BY <1>3, <1>4 DEF DeployIsRight, QueryIsRight
<1> QED BY <1>1, <1>2, <1>5

LEMMA SendStep == ScriptsInv /\ DeploySend => ScriptsInv'
<1> SUFFICES ASSUME ScriptsInv, DeploySend PROVE ScriptsInv'
  OBVIOUS
<1> USE DEF ScriptsInv, DeploySend
<1> DEFINE net == script.net
           n == Len(sent[net]) + 1
<1>1. net \in Networks /\ script.name = "deploy" /\ script.exit = 2 /\ script.contract \in Deployable
  BY DEF DeployIsRight
<1>2. /\ sent' \in [Networks -> Seq(Deployable)]
      /\ sent'[net] = Append(sent[net], script.contract)
      /\ \A other \in Networks \ {net} : sent'[other] = sent[other]
  BY <1>1 DEF ChainsTyped
<1>3. Len(sent'[net]) = n /\ sent'[net][n] = script.contract /\ n \in Nat
  BY <1>1, <1>2 DEF ChainsTyped
<1>4. ChainsTyped'
  BY <1>1, <1>2, <1>3 DEF ChainsTyped
<1>5. (script \in Shells)'
  BY <1>3 DEF Shells
<1>6. /\ script'.name = script.name /\ script'.net = net /\ script'.exit = script.exit
      /\ script'.contract = script.contract /\ script'.step = "sent" /\ script'.nonce = n
  BY DEF Shells
<1> HIDE DEF n, net
<1>7. DeployIsRight' /\ QueryIsRight'
  BY <1>1, <1>3, <1>6 DEF DeployIsRight, QueryIsRight
<1> QED BY <1>4, <1>5, <1>7

LEMMA PrintStep == ScriptsInv /\ DeployPrint => ScriptsInv'
<1> SUFFICES ASSUME ScriptsInv, DeployPrint PROVE ScriptsInv'
  OBVIOUS
<1> USE DEF ScriptsInv, DeployPrint
<1>1. ChainsTyped'
  BY DEF ChainsTyped
<1>2. <<[creator |-> Owner(script.net), nonce |-> script.nonce]>>
         \in Seq([creator : Creator, nonce : Nat])
  BY OwnerIsCreator DEF Shells, Creator
<1>3. (script \in Shells)'
  BY <1>2 DEF Shells
<1>4. /\ script'.name = script.name /\ script'.net = script.net /\ script'.contract = script.contract
      /\ script'.step = "none"
      /\ script'.printed = <<[creator |-> Owner(script.net), nonce |-> script.nonce]>>
  BY DEF Shells
<1>5. /\ script.name = "deploy" /\ script.net \in Networks
      /\ script.nonce \in 1..Len(sent[script.net])
      /\ sent[script.net][script.nonce] = script.contract
  BY DEF DeployIsRight
<1>6. DeployIsRight' /\ QueryIsRight'
  BY <1>4, <1>5 DEF DeployIsRight, QueryIsRight
<1> QED BY <1>1, <1>3, <1>6

LEMMA RejectStep == ScriptsInv /\ Reject => ScriptsInv'
<1> SUFFICES ASSUME ScriptsInv, Reject PROVE ScriptsInv'
  OBVIOUS
<1> USE DEF ScriptsInv, Reject
<1>1. ChainsTyped'
  BY DEF ChainsTyped
<1>2. (script \in Shells)'
  BY DEF Shells
<1>3. /\ script'.name = script.name /\ script'.net = script.net /\ script'.exit = 1
      /\ script'.printed = script.printed /\ script'.step = "none"
  BY DEF Shells
<1>4. DeployIsRight' /\ QueryIsRight'
  BY <1>3 DEF DeployIsRight, QueryIsRight, CodeAt
<1> QED BY <1>1, <1>2, <1>4

LEMMA QueryStep == ScriptsInv /\ QueryNext => ScriptsInv'
<1> SUFFICES ASSUME ScriptsInv, QueryNext PROVE ScriptsInv'
  OBVIOUS
<1> USE DEF ScriptsInv
<1> DEFINE k == Len(script.printed)
<1>1. PICK sample :
         /\ script.net = SampleNetwork => sample = Samples[k + 1]
         /\ script.step = "ercInfo"
         /\ CodeAt(script.net, QueryAddress, height[script.net]) = "PScanQueryFacade"
         /\ script' = IF k = 8
                      THEN [script EXCEPT !.printed = Append(@, Bitmap(sample)),
                                          !.step = "none", !.exit = 0]
                      ELSE [script EXCEPT !.printed = Append(@, Bitmap(sample))]
         /\ UNCHANGED <<sent, born, height>>
  BY DEF QueryNext
<1>2. /\ script.name = "query" /\ script.exit = 2 /\ script.net \in Networks
      /\ script.printed \in Seq(Nat) /\ k <= 8 /\ k \in Nat
  BY <1>1 DEF QueryIsRight
<1>3. Bitmap(sample) \in Nat
  BY BitTyped DEF Bitmap, Erc721Bitmap, Erc1155Bitmap, Erc20Bitmap
<1> DEFINE p == Append(script.printed, Bitmap(sample))
<1>4. /\ p \in Seq(Nat) /\ Len(p) = k + 1 /\ p[k + 1] = Bitmap(sample)
      /\ \A i \in 1..k : p[i] = script.printed[i]
  BY <1>2, <1>3
<1>5. ChainsTyped'
  BY <1>1 DEF ChainsTyped
<1>6. /\ script'.name = "query" /\ script'.net = script.net /\ script'.printed = p
      /\ script'.step \in {"none", "ercInfo"} /\ script'.exit \in {0, 2}
      /\ script'.step = "ercInfo" => k # 8 /\ script'.exit = 2
      /\ script'.exit = 0 => k = 8
  BY <1>1, <1>2 DEF Shells
<1>7. (script \in Shells)'
  BY <1>1, <1>4 DEF Shells
<1>8. script.net = SampleNetwork => \A i \in 1..Len(p) : i <= 9 /\ p[i] = Bitmap(Samples[i])
  BY <1>1, <1>2, <1>4 DEF QueryIsRight
<1> HIDE DEF p, k
<1>9. DeployIsRight'
  BY <1>6 DEF DeployIsRight
<1>10. CodeAt(script.net, QueryAddress, height[script.net])' = "PScanQueryFacade"
  BY <1>1, <1>6 DEF CodeAt
<1>11. QueryIsRight'
  <2>1. script'.step = "ercInfo" => Len(p) <= 8
    BY <1>2, <1>4, <1>6
  <2>2. script'.exit = 0 => Len(p) = 9
    BY <1>4, <1>6
  <2> QED BY <1>2, <1>4, <1>6, <1>8, <1>10, <2>1, <2>2 DEF QueryIsRight
<1> QED BY <1>5, <1>7, <1>9, <1>11

(***************************************************************************)
(* A new block adds to what is mined: code that is there stays there.      *)
(***************************************************************************)
LEMMA MineStep == ASSUME NEW net \in Networks, ScriptsInv, Mine(net) PROVE ScriptsInv'
<1> USE DEF ScriptsInv
<1>1. PICK k \in 0 .. Len(sent[net]) - Len(born[net]) :
         born' = [born EXCEPT ![net] = @ \o [i \in 1..k |-> height[net] + 1]]
  BY DEF Mine
<1>2. /\ height' \in [Networks -> Nat] /\ height'[net] = height[net] + 1 /\ height[net] < MaxHeight
      /\ \A other \in Networks \ {net} : height'[other] = height[other]
      /\ height \in [Networks -> Nat]
  BY DEF Mine, ChainsTyped
<1> DEFINE new == [i \in 1..k |-> height[net] + 1]
<1>3. new \in Seq(Nat) /\ Len(new) = k
  BY <1>1 DEF ChainsTyped
<1>4. /\ born' \in [Networks -> Seq(Nat)] /\ Len(born'[net]) = Len(born[net]) + k
      /\ \A i \in 1..Len(born[net]) : born'[net][i] = born[net][i]
      /\ \A other \in Networks \ {net} : born'[other] = born[other]
  BY <1>1, <1>3 DEF ChainsTyped
<1> HIDE DEF new
<1>5. UNCHANGED <<script, sent>>
  BY DEF Mine
<1>6. ChainsTyped'
  BY <1>1, <1>2, <1>4, <1>5, ScriptsAssumption DEF ChainsTyped
<1>7. DeployIsRight'
  BY <1>5 DEF DeployIsRight
<1>8. ASSUME NEW other \in Networks, CodeAt(other, QueryAddress, height[other]) = "PScanQueryFacade"
      PROVE  CodeAt(other, QueryAddress, height[other])' = "PScanQueryFacade"
  <2>1. height[other] <= height'[other] /\ height[other] \in Nat /\ height'[other] \in Nat
    <3>1. CASE other = net
      BY <1>2, <3>1
    <3>2. CASE other # net
      BY <1>2, <3>2
    <3> QED BY <3>1, <3>2
  <2>2. /\ QueryAddress.creator = Owner(other)
        /\ QueryAddress.nonce \in 1..Len(born[other])
        /\ born[other][QueryAddress.nonce] <= height[other]
        /\ sent[other][QueryAddress.nonce] = "PScanQueryFacade"
    BY <1>8 DEF CodeAt
  <2>3. /\ QueryAddress.nonce \in 1..Len(born'[other])
        /\ born'[other][QueryAddress.nonce] = born[other][QueryAddress.nonce]
    BY <1>1, <1>4, <2>2 DEF ChainsTyped
  <2>4. born[other][QueryAddress.nonce] \in Nat
    BY <2>2 DEF ChainsTyped
  <2> QED BY <1>5, <2>1, <2>2, <2>3, <2>4 DEF CodeAt
<1>9. QueryIsRight'
  BY <1>5, <1>8 DEF QueryIsRight
<1> QED BY <1>5, <1>6, <1>7, <1>9

LEMMA ScriptsStep == ScriptsInv /\ ScriptsNext => ScriptsInv'
<1> SUFFICES ASSUME ScriptsInv, ScriptsNext PROVE ScriptsInv'
  OBVIOUS
<1>1. ASSUME NEW net \in Networks, RunQuery(net) PROVE ScriptsInv'
  BY <1>1, NewScript DEF RunQuery, Deployable
<1>2. ASSUME NEW net \in Networks, NEW contract \in Deployable, RunDeploy(contract, net)
      PROVE  ScriptsInv'
  BY <1>2, NewScript DEF RunDeploy
<1> QED BY <1>1, <1>2, BalanceStep, SendStep, PrintStep, RejectStep, QueryStep, MineStep DEF ScriptsNext
-----------------------------------------------------------------------------
(***************************************************************************)
(* The agent is configured with a facade that is mined, and with the       *)
(* height it was mined at; nothing moves it afterwards.                    *)
(***************************************************************************)
Configured ==
    /\ stage \in {"off", "idle", "block"}
    /\ block \in Nat
    /\ stage # "off" =>
          \E n \in 1..Len(born[AgentNetwork]) :
             /\ config.address = [creator |-> Owner(AgentNetwork), nonce |-> n]
             /\ config.number = born[AgentNetwork][n]
             /\ sent[AgentNetwork][n] = "PScanQueryFacade"
    /\ ~unseen

Types == TokenTypes \cup {"none", "EVM"}

Tables ==
    [token : [Contracts -> TokenTypes \cup {"none"}], tracker : [Contracts -> {"none", "event", "now"}],
     address : [Contracts -> Types \cup {"ACCOUNT"}],
     dropped : SUBSET Contracts, created : SUBSET Contracts, early : SUBSET Contracts]

\* The types a row of c may say: a standard it meets, the first unless an answer
\* was lost.
RightType(c, type) ==
    /\ type \in Meets(code[c])
    /\ (UsesFacade \/ c \notin spoiled) => type = Standard(code[c])

\* In a block a token row is the committed one or a right one.
RowsAreRight ==
    /\ rows \in Tables /\ saved \in Tables
    /\ types \in [Contracts -> Types]
    /\ code \in [Contracts -> Contract]
    /\ stage # "block" => rows = saved
    /\ \A c \in Contracts : rows.token[c] = saved.token[c] \/ RightType(c, rows.token[c])

DetectionInv == ScriptsInv /\ Configured /\ RowsAreRight

LEMMA FacadeFound ==
    ASSUME DetectionInv, stage # "off", UsesFacade
    PROVE  CodeAt(AgentNetwork, config.address, block) = "PScanQueryFacade"
<1>1. PICK n \in 1..Len(born[AgentNetwork]) :
         /\ config.address = [creator |-> Owner(AgentNetwork), nonce |-> n]
         /\ config.number = born[AgentNetwork][n]
         /\ sent[AgentNetwork][n] = "PScanQueryFacade"
  BY DEF DetectionInv, Configured
<1>2. born[AgentNetwork][n] \in Nat /\ block \in Nat
  BY <1>1, DetectionAssumption DEF DetectionInv, ScriptsInv, ChainsTyped, Configured
<1>3. born[AgentNetwork][n] <= block
  BY <1>1, <1>2 DEF UsesFacade
<1>4. config.address.creator = Owner(AgentNetwork) /\ config.address.nonce = n
  BY <1>1
<1> QED BY <1>1, <1>3, <1>4 DEF CodeAt

(***************************************************************************)
(* A detection that names a token names a right one, as far as it is known *)
(* after it which detections were spoiled; none is ever taken back.        *)
(***************************************************************************)
LEMMA DetectIsRight ==
    ASSUME NEW c \in Contracts, NEW result \in TokenTypes \cup {"UNKNOWN", "failed"},
           DetectionInv, stage # "off", Detect(c, result)
    PROVE  /\ result \in TokenTypes =>
                 /\ result \in Meets(code[c])
                 /\ (UsesFacade \/ c \notin spoiled') => result = Standard(code[c])
           /\ \A d \in Contracts : d \notin spoiled' => d \notin spoiled
           /\ ~unseen'
<1>1. "UNKNOWN" \notin TokenTypes /\ "failed" \notin TokenTypes
  BY StandardIsToken
<1>2. DetectionOf(c) \in TokenTypes =>
         DetectionOf(c) = Standard(code[c]) /\ DetectionOf(c) \in Meets(code[c])
  BY <1>1, DetectedIsStandard, DetectedIsMet DEF DetectionOf
<1>3. code[c] \in Contract
  BY DEF DetectionInv, RowsAreRight
<1>4. ASSUME result \in Spoiled(c), result \in TokenTypes
      PROVE  ~UsesFacade /\ result \in Meets(code[c])
  BY <1>1, <1>3, <1>4, MisreadIsMet DEF Spoiled
<1>5. \/ result = DetectionOf(c) /\ spoiled' = spoiled
      \/ result \in Spoiled(c) /\ spoiled' = spoiled \cup {c}
  BY DEF Detect
<1>6. ~unseen'
  BY FacadeFound DEF Detect, DetectionInv, Configured
<1> QED BY <1>2, <1>4, <1>5, <1>6

(***************************************************************************)
(* Once the agent runs, the scripts and its configuration stay.            *)
(***************************************************************************)
LEMMA StillConfigured ==
    ASSUME DetectionInv, stage # "off", UNCHANGED <<scripts, config>>,
           stage' \in {"idle", "block"}, block' \in Nat, ~unseen'
    PROVE  ScriptsInv' /\ Configured'
<1>1. UNCHANGED <<script, runs, sent, born, height>>
  BY DEF scripts
<1>2. ScriptsInv'
  BY <1>1 DEF DetectionInv, ScriptsInv, ChainsTyped, DeployIsRight, QueryIsRight, CodeAt
<1>3. Configured'
  BY <1>1 DEF DetectionInv, Configured
<1> QED BY <1>2, <1>3

\* The rows after a contract was resolved, at its creation and later.
LEMMA CreatedRows ==
    ASSUME rows \in Tables, NEW c \in Contracts,
           NEW result \in TokenTypes \cup {"UNKNOWN", "failed"},
           rows' = [ResolvedRows(c, result, FALSE) EXCEPT
               !.created = @ \cup {c},
               !.early = IF c \in pending \/ rows.address[c] # "none" THEN @ \cup {c} ELSE @]
    PROVE  /\ rows' \in Tables
           /\ rows'.token[c] = IF result \in TokenTypes THEN result ELSE rows.token[c]
           /\ rows'.tracker[c] = IF result = "UNKNOWN" THEN "event" ELSE rows.tracker[c]
           /\ c \in rows'.dropped <=> c \in rows.dropped \/ result = "failed"
           /\ c \in rows'.created
           /\ c \in rows'.early <=> c \in rows.early \/ c \in pending \/ rows.address[c] # "none"
           /\ rows'.address = rows.address
           /\ \A d \in Contracts : d # c =>
                 /\ rows'.token[d] = rows.token[d] /\ rows'.tracker[d] = rows.tracker[d]
                 /\ d \in rows'.dropped <=> d \in rows.dropped
                 /\ d \in rows'.created <=> d \in rows.created
                 /\ d \in rows'.early <=> d \in rows.early
<1> DEFINE m == IF result \in TokenTypes THEN result ELSE rows.token[c]
           k == IF result = "UNKNOWN" THEN "event" ELSE rows.tracker[c]
           x == IF result = "failed" THEN rows.dropped \cup {c} ELSE rows.dropped
           n == rows.created \cup {c}
           e == IF c \in pending \/ rows.address[c] # "none" THEN rows.early \cup {c} ELSE rows.early
           t == ResolvedRows(c, result, FALSE)
<1>0. c \in Contracts
  OBVIOUS
<1>1. t = [rows EXCEPT !.token[c] = m, !.tracker[c] = k, !.dropped = x]
  BY DEF ResolvedRows, Tables
<1>2. /\ c \in x <=> c \in rows.dropped \/ result = "failed"
      /\ c \in n
      /\ c \in e <=> c \in rows.early \/ c \in pending \/ rows.address[c] # "none"
      /\ \A d \in Contracts : d # c => /\ d \in x <=> d \in rows.dropped
                                       /\ d \in n <=> d \in rows.created
                                       /\ d \in e <=> d \in rows.early
  OBVIOUS
<1>3. /\ m \in TokenTypes \cup {"none"} /\ k \in {"none", "event", "now"}
      /\ x \in SUBSET Contracts /\ n \in SUBSET Contracts /\ e \in SUBSET Contracts
  BY DEF Tables
<1>4. rows' = [t EXCEPT !.created = @ \cup {c},
                        !.early = IF c \in pending \/ rows.address[c] # "none" THEN @ \cup {c} ELSE @]
  OBVIOUS
<1> HIDE DEF m, k, x, t
<1>5. t.created = rows.created /\ t.early = rows.early
      /\ t = [token |-> t.token, tracker |-> t.tracker, address |-> t.address,
              dropped |-> t.dropped, created |-> t.created, early |-> t.early]
  BY <1>1 DEF Tables
<1>6. rows' = [t EXCEPT !.created = n, !.early = e]
  BY <1>4, <1>5
<1> HIDE DEF n, e
<1>7. /\ rows'.token = [rows.token EXCEPT ![c] = m] /\ rows'.tracker = [rows.tracker EXCEPT ![c] = k]
      /\ rows'.address = rows.address
      /\ rows'.dropped = x /\ rows'.created = n /\ rows'.early = e
  BY <1>1, <1>5, <1>6 DEF Tables
<1>8. /\ rows.token \in [Contracts -> TokenTypes \cup {"none"}]
      /\ rows.tracker \in [Contracts -> {"none", "event", "now"}]
      /\ rows.address \in [Contracts -> Types \cup {"ACCOUNT"}]
  BY DEF Tables
<1>9. rows'.token[c] = m /\ rows'.tracker[c] = k
  BY ONLY <1>0, <1>7, <1>8
<1>10. \A d \in Contracts : d # c => rows'.token[d] = rows.token[d] /\ rows'.tracker[d] = rows.tracker[d]
  BY ONLY <1>0, <1>7, <1>8
<1>11. rows' \in Tables
  <2>1. rows' = [token |-> rows'.token, tracker |-> rows'.tracker, address |-> rows'.address,
                 dropped |-> rows'.dropped, created |-> rows'.created, early |-> rows'.early]
    BY <1>5, <1>6
  <2>2. rows'.token \in [Contracts -> TokenTypes \cup {"none"}]
    BY ONLY <1>0, <1>3, <1>7, <1>8
  <2>3. rows'.tracker \in [Contracts -> {"none", "event", "now"}]
    BY ONLY <1>0, <1>3, <1>7, <1>8
  <2> QED BY ONLY <1>3, <1>7, <1>8, <2>1, <2>2, <2>3 DEF Tables
<1>12. \A d \in Contracts : d # c => /\ d \in rows'.dropped <=> d \in rows.dropped
                                     /\ d \in rows'.created <=> d \in rows.created
                                     /\ d \in rows'.early <=> d \in rows.early
  BY ONLY <1>2, <1>7
<1>13. /\ c \in rows'.dropped <=> c \in rows.dropped \/ result = "failed"
       /\ c \in rows'.created
       /\ c \in rows'.early <=> c \in rows.early \/ c \in pending \/ rows.address[c] # "none"
  BY ONLY <1>2, <1>7
<1> QED BY ONLY <1>7, <1>9, <1>10, <1>11, <1>12, <1>13 DEF m, k

LEMMA TrackedRows ==
    ASSUME rows \in Tables, NEW c \in Contracts,
           NEW result \in TokenTypes \cup {"UNKNOWN", "failed"},
           rows' = IF result \in TokenTypes
                   THEN [ResolvedRows(c, result, TRUE) EXCEPT
                            !.address[c] = IF @ = "none" THEN @ ELSE result]
                   ELSE ResolvedRows(c, result, TRUE)
    PROVE  /\ rows' \in Tables
           /\ rows'.token[c] = IF result \in TokenTypes THEN result ELSE rows.token[c]
           /\ rows'.tracker[c] = IF result = "failed" THEN rows.tracker[c] ELSE "none"
           /\ c \in rows'.dropped <=> c \in rows.dropped \/ result = "UNKNOWN"
           /\ rows'.address[c] = IF result \in TokenTypes /\ rows.address[c] # "none"
                                 THEN result ELSE rows.address[c]
           /\ rows'.created = rows.created /\ rows'.early = rows.early
           /\ \A d \in Contracts : d # c =>
                 /\ rows'.token[d] = rows.token[d] /\ rows'.tracker[d] = rows.tracker[d]
                 /\ rows'.address[d] = rows.address[d]
                 /\ d \in rows'.dropped <=> d \in rows.dropped
<1> DEFINE m == IF result \in TokenTypes THEN result ELSE rows.token[c]
           k == IF result = "failed" THEN rows.tracker[c] ELSE "none"
           x == IF result = "UNKNOWN" THEN rows.dropped \cup {c} ELSE rows.dropped
           a == IF result \in TokenTypes /\ rows.address[c] # "none"
                THEN result ELSE rows.address[c]
           t == ResolvedRows(c, result, TRUE)
<1>0. c \in Contracts
  OBVIOUS
<1>1. t = [rows EXCEPT !.token[c] = m, !.tracker[c] = k, !.dropped = x]
  BY DEF ResolvedRows, Tables
<1>2. /\ c \in x <=> c \in rows.dropped \/ result = "UNKNOWN"
      /\ \A d \in Contracts : d # c => (d \in x <=> d \in rows.dropped)
  OBVIOUS
<1>3. /\ m \in TokenTypes \cup {"none"} /\ k \in {"none", "event", "now"}
      /\ x \in SUBSET Contracts /\ a \in Types \cup {"ACCOUNT"}
  BY DEF Tables, Types
<1>4. rows' = IF result \in TokenTypes
              THEN [t EXCEPT !.address[c] = IF @ = "none" THEN @ ELSE result]
              ELSE t
  OBVIOUS
<1> HIDE DEF m, k, x, t
<1>5. /\ t.token = [rows.token EXCEPT ![c] = m] /\ t.tracker = [rows.tracker EXCEPT ![c] = k]
      /\ t.dropped = x /\ t.address = rows.address /\ t.created = rows.created /\ t.early = rows.early
      /\ t = [token |-> t.token, tracker |-> t.tracker, address |-> t.address,
              dropped |-> t.dropped, created |-> t.created, early |-> t.early]
  BY <1>1 DEF Tables
<1>6. /\ rows.token \in [Contracts -> TokenTypes \cup {"none"}]
      /\ rows.tracker \in [Contracts -> {"none", "event", "now"}]
      /\ rows.address \in [Contracts -> Types \cup {"ACCOUNT"}]
      /\ rows.created \in SUBSET Contracts /\ rows.early \in SUBSET Contracts
  BY DEF Tables
<1> DEFINE b == [rows.address EXCEPT ![c] = a]
<1>7. b[c] = a /\ b \in [Contracts -> Types \cup {"ACCOUNT"}]
      /\ \A d \in Contracts : d # c => b[d] = rows.address[d]
  BY <1>3, <1>6
<1>8. rows' = [t EXCEPT !.address = b]
  <2>1. CASE result \in TokenTypes
    <3> DEFINE v == IF rows.address[c] = "none" THEN rows.address[c] ELSE result
    <3>1. rows' = [t EXCEPT !.address[c] = IF @ = "none" THEN @ ELSE result]
      BY <1>4, <2>1
    <3>2. rows' = [t EXCEPT !.address[c] = v]
      BY <1>5, <3>1
    <3>3. v = a
      BY <2>1
    <3> HIDE DEF v, a
    <3> QED BY <1>5, <3>2, <3>3
  <2>2. CASE result \notin TokenTypes
    <3>1. b = rows.address
      BY <1>6, <2>2
    <3> HIDE DEF b
    <3> QED BY <1>4, <1>5, <2>2, <3>1
  <2> QED BY <2>1, <2>2
<1> HIDE DEF a, b
<1>9. /\ rows'.token = [rows.token EXCEPT ![c] = m] /\ rows'.tracker = [rows.tracker EXCEPT ![c] = k]
      /\ rows'.address = b /\ rows'.dropped = x
      /\ rows'.created = rows.created /\ rows'.early = rows.early
  BY <1>5, <1>8
<1>10. rows'.token[c] = m /\ rows'.tracker[c] = k
  BY ONLY <1>0, <1>6, <1>9
<1>11. \A d \in Contracts : d # c => rows'.token[d] = rows.token[d] /\ rows'.tracker[d] = rows.tracker[d]
  BY ONLY <1>0, <1>6, <1>9
<1>12. rows' \in Tables
  <2>1. rows' = [token |-> rows'.token, tracker |-> rows'.tracker, address |-> rows'.address,
                 dropped |-> rows'.dropped, created |-> rows'.created, early |-> rows'.early]
    BY <1>5, <1>8
  <2>2. rows'.token \in [Contracts -> TokenTypes \cup {"none"}]
    BY ONLY <1>0, <1>3, <1>6, <1>9
  <2>3. rows'.tracker \in [Contracts -> {"none", "event", "now"}]
    BY ONLY <1>0, <1>3, <1>6, <1>9
  <2> QED BY ONLY <1>3, <1>6, <1>7, <1>9, <2>1, <2>2, <2>3 DEF Tables
<1> QED BY <1>2, <1>7, <1>9, <1>10, <1>11, <1>12 DEF m, k, a

(***************************************************************************)
(* The token rows stay right when one contract gets the type it was        *)
(* detected as.                                                            *)
(***************************************************************************)
LEMMA ResolvedIsRight ==
    ASSUME NEW c \in Contracts, NEW result \in TokenTypes \cup {"UNKNOWN", "failed"},
           DetectionInv, UNCHANGED <<saved, code, block, config>>,
           rows'.token[c] = IF result \in TokenTypes THEN result ELSE rows.token[c],
           \A d \in Contracts : d # c => rows'.token[d] = rows.token[d],
           result \in TokenTypes =>
              /\ result \in Meets(code[c])
              /\ (UsesFacade \/ c \notin spoiled') => result = Standard(code[c]),
           \A d \in Contracts : d \notin spoiled' => d \notin spoiled
    PROVE  \A d \in Contracts : rows'.token[d] = saved'.token[d] \/ RightType(d, rows.token[d])'
<1>1. UsesFacade' <=> UsesFacade
  BY DEF UsesFacade
<1>2. ASSUME NEW d \in Contracts, rows'.token[d] = rows.token[d]
      PROVE  rows'.token[d] = saved'.token[d] \/ RightType(d, rows.token[d])'
  BY <1>1, <1>2 DEF DetectionInv, RowsAreRight, RightType
<1>3. ASSUME result \in TokenTypes
      PROVE  RightType(c, rows.token[c])'
  BY <1>1, <1>3 DEF RightType
<1> QED BY <1>2, <1>3
-----------------------------------------------------------------------------
LEMMA DetectionStart == Init => DetectionInv
<1> SUFFICES ASSUME Init PROVE DetectionInv
  OBVIOUS
<1>1. ScriptsInv
  BY ScriptsStart DEF Init
<1>2. Configured
  BY DEF Init, AgentInit, Configured
<1>3. none \in [Contracts -> {"none"}]
  BY DEF none
<1>4. rows \in Tables /\ saved = rows /\ types = none /\ stage = "off"
      /\ code = [c \in Contracts |-> Account]
  BY <1>3 DEF Init, AgentInit, Tables, Types, NotCreated
<1>5. Account \in Contract
  BY DEF Account, AllAnswer, Contract, Answers
<1>6. RowsAreRight
  BY <1>3, <1>4, <1>5 DEF RowsAreRight, Types
<1> QED BY <1>1, <1>2, <1>6 DEF DetectionInv

(***************************************************************************)
(* The steps that leave the tables alone, or throw a transaction away.     *)
(***************************************************************************)
LEMMA RowsStay ==
    ASSUME DetectionInv, UNCHANGED <<saved, code>>,
           \/ rows' = saved
           \/ UNCHANGED <<rows, block, config, spoiled>>,
           types' \in [Contracts -> Types],
           stage' # "block" => rows' = saved
    PROVE  RowsAreRight'
<1>1. CASE rows' = saved
  BY <1>1 DEF DetectionInv, RowsAreRight
<1>2. CASE UNCHANGED <<rows, block, config, spoiled>>
  <2>1. \A type : \A c \in Contracts : RightType(c, type) => RightType(c, type)'
    BY <1>2 DEF RightType, UsesFacade
  <2> QED BY <1>2, <2>1 DEF DetectionInv, RowsAreRight
<1> QED BY <1>1, <1>2

LEMMA StartStep == DetectionInv /\ StartAgent => DetectionInv'
<1> SUFFICES ASSUME DetectionInv, StartAgent PROVE DetectionInv'
  OBVIOUS
<1>1. ScriptsInv'
  BY NewScript, DetectionAssumption DEF StartAgent, DetectionInv, Deployable
<1>2. PICK n \in 1..Len(sent[AgentNetwork]) :
         /\ script.printed = <<[creator |-> Owner(AgentNetwork), nonce |-> n]>>
         /\ sent[AgentNetwork][n] = "PScanQueryFacade"
  BY DEF StartAgent, DetectionInv, ScriptsInv, DeployIsRight
<1>3. script.printed[1] = [creator |-> Owner(AgentNetwork), nonce |-> n]
  BY <1>2
<1>4. n \in 1..Len(born[AgentNetwork])
  BY <1>3, DetectionAssumption DEF StartAgent, DetectionInv, ScriptsInv, ChainsTyped
<1>5. config'.address = script.printed[1] /\ config'.number = born[AgentNetwork][n]
  BY <1>3 DEF StartAgent
<1>6. stage' = "idle" /\ UNCHANGED <<sent, born, block, unseen>>
  BY DEF StartAgent, counters
<1>7. Configured'
  BY <1>2, <1>3, <1>4, <1>5, <1>6 DEF Configured, DetectionInv
<1>8. RowsAreRight'
  <2>1. UNCHANGED <<rows, saved, types, code>> /\ stage = "off"
    BY DEF StartAgent, tables, caches
  <2> QED BY <1>6, <2>1, RowsStay DEF DetectionInv, RowsAreRight
<1> QED BY <1>1, <1>7, <1>8 DEF DetectionInv

LEMMA NextBlockStep == DetectionInv /\ NextBlock => DetectionInv'
<1> SUFFICES ASSUME DetectionInv, NextBlock PROVE DetectionInv'
  OBVIOUS
<1>1. /\ stage = "idle" /\ stage' = "block" /\ block' = block + 1
      /\ UNCHANGED <<scripts, config, rows, saved, types, unseen>>
  BY DEF NextBlock, tables, caches, counters
<1>2. block' \in Nat /\ ~unseen'
  BY <1>1 DEF DetectionInv, Configured
<1>3. ScriptsInv' /\ Configured'
  BY <1>1, <1>2, StillConfigured
<1>4. code' \in [Contracts -> Contract]
  <2>1. Account \in Contract
    BY DEF Account, AllAnswer, Contract, Answers
  <2>2. PICK now \in [Contracts -> Profiles], here \in SUBSET Contracts :
           code' = [c \in Contracts |-> IF c \in here THEN now[c] ELSE NotCreated]
    <3>1. PICK steps \in Contents : \E now \in [Contracts -> Profiles] :
             code' = [c \in Contracts |->
                        IF c \in Created \/ \E i \in 1..Len(steps) : steps[i] = <<"create", c>>
                        THEN now[c] ELSE NotCreated]
      BY DEF NextBlock
    <3> DEFINE here == {c \in Contracts :
                 c \in Created \/ \E i \in 1..Len(steps) : steps[i] = <<"create", c>>}
    <3>2. here \in SUBSET Contracts
      OBVIOUS
    <3> QED BY <3>1, <3>2
  <2> QED BY <2>1, <2>2, DetectionAssumption DEF NotCreated
<1>5. RowsAreRight'
  BY <1>1, <1>4 DEF DetectionInv, RowsAreRight
<1> QED BY <1>3, <1>5 DEF DetectionInv

LEMMA CreateStep ==
    ASSUME NEW c \in Contracts, DetectionInv, CreateContract(c) PROVE DetectionInv'
<1>1. PICK result \in TokenTypes \cup {"UNKNOWN", "failed"} :
         /\ Detect(c, result)
         /\ rows' = [ResolvedRows(c, result, FALSE) EXCEPT
                !.created = @ \cup {c},
                !.early = IF c \in pending \/ rows.address[c] # "none" THEN @ \cup {c} ELSE @]
         /\ types' = [types EXCEPT ![c] = IF result \in TokenTypes THEN result ELSE "EVM"]
  BY DEF CreateContract
<1>2. stage = "block" /\ UNCHANGED <<scripts, saved, stage, config, block, code>>
  BY DEF CreateContract, Step
<1>3. /\ result \in TokenTypes =>
            /\ result \in Meets(code[c])
            /\ (UsesFacade \/ c \notin spoiled') => result = Standard(code[c])
      /\ \A d \in Contracts : d \notin spoiled' => d \notin spoiled
      /\ ~unseen'
  BY <1>1, <1>2, DetectIsRight
<1>4. ScriptsInv' /\ Configured'
  BY <1>2, <1>3, StillConfigured DEF DetectionInv, Configured
<1>5. types' \in [Contracts -> Types]
  BY <1>1 DEF DetectionInv, RowsAreRight, Types
<1>6. rows \in Tables
  BY DEF DetectionInv, RowsAreRight
<1>7. rows' = [ResolvedRows(c, result, FALSE) EXCEPT
          !.created = @ \cup {c},
          !.early = IF c \in pending \/ rows.address[c] # "none" THEN @ \cup {c} ELSE @]
  BY <1>1
<1>8. /\ rows' \in Tables
      /\ rows'.token[c] = IF result \in TokenTypes THEN result ELSE rows.token[c]
      /\ \A d \in Contracts : d # c => rows'.token[d] = rows.token[d]
  BY <1>6, <1>7, CreatedRows
<1>9. \A d \in Contracts : rows'.token[d] = saved'.token[d] \/ RightType(d, rows.token[d])'
  BY <1>2, <1>3, <1>8, ResolvedIsRight
<1>10. RowsAreRight'
  BY <1>2, <1>5, <1>8, <1>9 DEF RowsAreRight, DetectionInv
<1> QED BY <1>4, <1>10 DEF DetectionInv

LEMMA TrackerStep ==
    ASSUME NEW c \in Contracts, NEW kind, DetectionInv, LookAgain(kind, c) PROVE DetectionInv'
<1>1. PICK result \in TokenTypes \cup {"UNKNOWN", "failed"} :
         /\ Detect(c, result)
         /\ IF result \in TokenTypes
            THEN /\ types' = [types EXCEPT ![c] = result]
                 /\ rows' = [ResolvedRows(c, result, TRUE) EXCEPT
                        !.address[c] = IF @ = "none" THEN @ ELSE result]
            ELSE rows' = ResolvedRows(c, result, TRUE) /\ types' = types
  BY DEF LookAgain, TokenTracker
<1>2. stage = "block" /\ UNCHANGED <<scripts, saved, stage, config, block, code>>
  BY DEF LookAgain, Step
<1>3. /\ result \in TokenTypes =>
            /\ result \in Meets(code[c])
            /\ (UsesFacade \/ c \notin spoiled') => result = Standard(code[c])
      /\ \A d \in Contracts : d \notin spoiled' => d \notin spoiled
      /\ ~unseen'
  BY <1>1, <1>2, DetectIsRight
<1>4. ScriptsInv' /\ Configured'
  BY <1>2, <1>3, StillConfigured DEF DetectionInv, Configured
<1>5. types' \in [Contracts -> Types]
  BY <1>1 DEF DetectionInv, RowsAreRight, Types
<1>6. rows \in Tables
  BY DEF DetectionInv, RowsAreRight
<1>7. rows' = IF result \in TokenTypes
              THEN [ResolvedRows(c, result, TRUE) EXCEPT
                       !.address[c] = IF @ = "none" THEN @ ELSE result]
              ELSE ResolvedRows(c, result, TRUE)
  BY <1>1
<1>8. /\ rows' \in Tables
      /\ rows'.token[c] = IF result \in TokenTypes THEN result ELSE rows.token[c]
      /\ \A d \in Contracts : d # c => rows'.token[d] = rows.token[d]
  BY <1>6, <1>7, TrackedRows
<1>9. \A d \in Contracts : rows'.token[d] = saved'.token[d] \/ RightType(d, rows.token[d])'
  BY <1>2, <1>3, <1>8, ResolvedIsRight
<1>10. RowsAreRight'
  BY <1>2, <1>5, <1>8, <1>9 DEF RowsAreRight, DetectionInv
<1> QED BY <1>4, <1>10 DEF DetectionInv

LEMMA OtherStep ==
    ASSUME NEW c \in Contracts, DetectionInv,
           \/ TypeCreation(c)
           \/ CollectAddress(c)
           \/ \E kind \in {"event", "now"} : NoNeed(kind, c)
    PROVE  DetectionInv'
<1>1. /\ stage = "block"
      /\ UNCHANGED <<scripts, rows, saved, stage, config, block, code, types, unseen, spoiled>>
  BY DEF TypeCreation, CollectAddress, NoNeed, Step, caches
<1>2. ScriptsInv' /\ Configured'
  BY <1>1, StillConfigured DEF DetectionInv, Configured
<1>3. RowsAreRight'
  BY <1>1, RowsStay DEF DetectionInv, RowsAreRight
<1> QED BY <1>2, <1>3 DEF DetectionInv

LEMMA CommitStep == DetectionInv /\ CommitBlock => DetectionInv'
<1> SUFFICES ASSUME DetectionInv, CommitBlock PROVE DetectionInv'
  OBVIOUS
<1> DEFINE a == [c \in Contracts |->
                   IF rows.address[c] = "none" /\ c \in pending THEN NewAddress(c)
                   ELSE rows.address[c]]
<1>1. /\ stage = "block" /\ stage' = "idle" /\ rows' = saved'
      /\ UNCHANGED <<scripts, config, block, code, types, unseen>>
  BY DEF CommitBlock
<1>2. ScriptsInv' /\ Configured'
  BY <1>1, StillConfigured DEF DetectionInv, Configured
<1>3. rows \in Tables /\ types \in [Contracts -> Types]
  BY DEF DetectionInv, RowsAreRight
<1>4. saved' = [rows EXCEPT !.address = a]
  BY <1>3 DEF CommitBlock, Tables
<1>5. a \in [Contracts -> Types \cup {"ACCOUNT"}]
  BY <1>3 DEF Tables, NewAddress
<1> HIDE DEF a
<1>6. saved' \in Tables
  BY <1>3, <1>4, <1>5 DEF Tables
<1>7. RowsAreRight'
  BY <1>1, <1>3, <1>6 DEF RowsAreRight, DetectionInv
<1> QED BY <1>2, <1>7 DEF DetectionInv

LEMMA FailStep == DetectionInv /\ (AttemptFails \/ Restart) => DetectionInv'
<1> SUFFICES ASSUME DetectionInv, AttemptFails \/ Restart PROVE DetectionInv'
  OBVIOUS
<1>1. /\ stage \in {"idle", "block"} /\ rows' = saved
      /\ UNCHANGED <<scripts, saved, stage, config, block, code, unseen>>
  BY DEF AttemptFails, Restart
<1>2. ScriptsInv' /\ Configured'
  BY <1>1, StillConfigured DEF DetectionInv, Configured
<1>3. RebuiltTypes \in [Contracts -> Types] /\ types \in [Contracts -> Types]
  BY DEF RebuiltTypes, DetectionInv, RowsAreRight, Tables, Types
<1>4. types' \in [Contracts -> Types]
  BY <1>3 DEF AttemptFails, Restart
<1>5. RowsAreRight'
  BY <1>1, <1>4, RowsStay
<1> QED BY <1>2, <1>5 DEF DetectionInv

LEMMA TriggerStep ==
    ASSUME NEW c \in Contracts, DetectionInv, SetTrigger(c) PROVE DetectionInv'
<1>1. /\ stage = "idle" /\ rows' = saved' /\ rows' = [rows EXCEPT !.tracker[c] = "now"]
      /\ UNCHANGED <<scripts, stage, config, block, code, types, unseen>>
  BY DEF SetTrigger, caches, work, counters
<1>2. ScriptsInv' /\ Configured'
  BY <1>1, StillConfigured DEF DetectionInv, Configured
<1>3. rows \in Tables
  BY DEF DetectionInv, RowsAreRight
<1>4. rows' \in Tables
  BY <1>1, <1>3 DEF Tables
<1>5. RowsAreRight'
  BY <1>1, <1>4 DEF DetectionInv, RowsAreRight
<1> QED BY <1>2, <1>5 DEF DetectionInv

LEMMA ScriptsAlone ==
    DetectionInv /\ stage = "off" /\ ScriptsNext /\ UNCHANGED agent => DetectionInv'
<1> SUFFICES ASSUME DetectionInv, stage = "off", ScriptsNext, UNCHANGED agent PROVE DetectionInv'
  OBVIOUS
<1>1. UNCHANGED <<rows, saved, types, stage, config, block, code, spoiled, unseen>>
  BY DEF agent, tables, caches, work, counters
<1>2. ScriptsInv'
  BY ScriptsStep DEF DetectionInv
<1>3. RowsAreRight'
  BY <1>1, RowsStay DEF DetectionInv, RowsAreRight
<1>4. Configured'
  BY <1>1 DEF DetectionInv, Configured
<1> QED BY <1>2, <1>3, <1>4 DEF DetectionInv

LEMMA DetectionStays == DetectionInv /\ UNCHANGED vars => DetectionInv'
<1> SUFFICES ASSUME DetectionInv, UNCHANGED vars PROVE DetectionInv'
  OBVIOUS
<1>1. UNCHANGED <<script, sent, born, height, rows, saved, types, stage, config, block, code, spoiled,
                  unseen>>
  BY DEF vars, scripts, agent, tables, caches, work, counters
<1>2. ScriptsInv'
  BY <1>1 DEF DetectionInv, ScriptsInv, ChainsTyped, DeployIsRight, QueryIsRight, CodeAt
<1>3. RowsAreRight'
  BY <1>1, RowsStay DEF DetectionInv, RowsAreRight
<1>4. Configured'
  BY <1>1 DEF DetectionInv, Configured
<1> QED BY <1>2, <1>3, <1>4 DEF DetectionInv

LEMMA DetectionInvariant == Spec => []DetectionInv
<1>1. DetectionInv /\ [Next]_vars => DetectionInv'
  BY ScriptsAlone, StartStep, NextBlockStep, CommitStep, FailStep, CreateStep, OtherStep, TriggerStep,
     TrackerStep, DetectionStays DEF Next
<1> QED BY DetectionStart, <1>1, PTL DEF Spec
-----------------------------------------------------------------------------
(***************************************************************************)
(* The agent asks the facade only about blocks in which it exists, for     *)
(* every order of deployments, mined blocks, failures and restarts.        *)
(***************************************************************************)
THEOREM FacadeExists == Spec => []FacadeIsThere
<1>1. DetectionInv => FacadeIsThere
  BY DEF DetectionInv, Configured, FacadeIsThere
<1> QED BY <1>1, DetectionInvariant, PTL

(***************************************************************************)
(* An attempt writes a token row only with a standard its contract meets,  *)
(* for all contracts and all answers the node refuses; through the facade, *)
(* or where it refused none, with the first of them.                       *)
(***************************************************************************)
THEOREM TypesAreStandards == Spec => []TypesAreRight
<1>1. DetectionInv => TypesAreRight
  BY DEF DetectionInv, RowsAreRight, TypesAreRight, RightType
<1> QED BY <1>1, DetectionInvariant, PTL

(***************************************************************************)
(* A deployment that succeeds prints the address of its own contract.      *)
(***************************************************************************)
THEOREM PrintedAddress == Spec => []PrintedAddressIsRight
<1>1. ASSUME ScriptsInv PROVE PrintedAddressIsRight
  <2> SUFFICES ASSUME script.name = "deploy", script.exit = 0
               PROVE  CodeAt(script.net, script.printed[1], height[script.net])
                          \in {"none", script.contract}
    BY DEF PrintedAddressIsRight
  <2>1. PICK n \in 1..Len(sent[script.net]) :
           /\ script.printed = <<[creator |-> Owner(script.net), nonce |-> n]>>
           /\ sent[script.net][n] = script.contract
    BY <1>1 DEF ScriptsInv, DeployIsRight
  <2>2. script.printed[1].nonce = n
    BY <2>1
  <2> QED BY <2>1, <2>2 DEF CodeAt
<1> QED BY <1>1, DetectionInvariant, PTL DEF DetectionInv

(***************************************************************************)
(* A query that succeeds was answered by the facade, and prints the        *)
(* documented bitmaps on the network of the samples.                       *)
(***************************************************************************)
THEOREM QueryIsDocumented == Spec => []QueryPrintsTheTable
<1>1. ASSUME ScriptsInv PROVE QueryPrintsTheTable
  <2> SUFFICES ASSUME script.name = "query", script.exit = 0
               PROVE  /\ \E h \in 0..MaxHeight :
                            CodeAt(script.net, QueryAddress, h) = "PScanQueryFacade"
                      /\ script.net = SampleNetwork => script.printed = DocumentedBitmaps
    BY DEF QueryPrintsTheTable
  <2>1. script.net \in Networks /\ script.printed \in Seq(Nat) /\ Len(script.printed) = 9
    BY <1>1 DEF ScriptsInv, QueryIsRight
  <2>2. CodeAt(script.net, QueryAddress, height[script.net]) = "PScanQueryFacade"
    BY <1>1, <2>1 DEF ScriptsInv, QueryIsRight
  <2>3. height[script.net] \in 0..MaxHeight
    BY <1>1, <2>1, ScriptsAssumption DEF ScriptsInv, ChainsTyped
  <2>4. ASSUME script.net = SampleNetwork PROVE script.printed = DocumentedBitmaps
    <3>1. \A i \in 1..9 : script.printed[i] = Bitmap(Samples[i])
      BY <1>1, <2>1, <2>4 DEF ScriptsInv, QueryIsRight
    <3>2. \A i \in 1..9 : script.printed[i] = DocumentedBitmaps[i]
      BY <3>1, SamplesAreDocumented
    <3>3. DocumentedBitmaps \in Seq(Nat) /\ Len(DocumentedBitmaps) = 9
      BY DEF DocumentedBitmaps
    <3> HIDE DEF DocumentedBitmaps
    <3>4. /\ script.printed \in Seq(Nat) /\ DocumentedBitmaps \in Seq(Nat)
          /\ Len(script.printed) = Len(DocumentedBitmaps)
          /\ \A i \in 1..Len(script.printed) : script.printed[i] = DocumentedBitmaps[i]
      BY <2>1, <3>2, <3>3
    <3> QED BY ONLY <3>4, SeqEqual
  <2> QED BY <2>2, <2>3, <2>4
<1> QED BY <1>1, DetectionInvariant, PTL DEF DetectionInv
-----------------------------------------------------------------------------
(***************************************************************************)
(* What is left to do in an attempt, as sequences of steps.                *)
(***************************************************************************)
\* A step of an attempt: what it does, to which contract.
Steps == {"create", "event", "type", "collect", "now"} \X Contracts

Occurs(kind, c, steps) == \E i \in 1..Len(steps) : steps[i] = <<kind, c>>

Once(kind, c, steps) ==
    \A i, j \in 1..Len(steps) : steps[i] = <<kind, c>> /\ steps[j] = <<kind, c>> => i = j

\* The solutions of the recursive definition in FlattenSeq.
IsFlattening(f, seqs, n) ==
    f = [i \in 1..n |-> IF i = 1 THEN seqs[i] ELSE f[i - 1] \o seqs[i]]

LEMMA FlatteningExists ==
    ASSUME NEW seqs, NEW n \in Nat
    PROVE  \E f : IsFlattening(f, seqs, n)
<1> DEFINE P == {i \in Nat : \E f : IsFlattening(f, seqs, i)}
<1>1. 0 \in P
  <2>1. IsFlattening([i \in 1..0 |-> 0], seqs, 0)
    BY DEF IsFlattening
  <2> QED BY <2>1
<1>2. ASSUME NEW i \in 0 .. n - 1, i \in P PROVE i + 1 \in P
  <2>1. PICK f : IsFlattening(f, seqs, i)
    BY <1>2
  <2> DEFINE g == [k \in 1 .. i + 1 |->
                     IF k = i + 1 THEN (IF k = 1 THEN seqs[k] ELSE f[k - 1] \o seqs[k]) ELSE f[k]]
  <2>2. \A k \in 1..i : f[k] = IF k = 1 THEN seqs[k] ELSE f[k - 1] \o seqs[k]
    BY <2>1 DEF IsFlattening
  <2>3. \A k \in 1 .. i + 1 : k # 1 => k - 1 \in 1..i /\ g[k - 1] = f[k - 1]
    OBVIOUS
  <2>4. \A k \in 1 .. i + 1 : g[k] = IF k = 1 THEN seqs[k] ELSE g[k - 1] \o seqs[k]
    BY <2>2, <2>3
  <2>5. IsFlattening(g, seqs, i + 1)
    BY <2>4 DEF IsFlattening
  <2> QED BY <1>2, <2>5
<1> HIDE DEF P
<1>3. n \in P
  BY <1>1, <1>2, UpToInduction
<1> QED BY <1>3 DEF P

\* Sequences put one after the other are a sequence of the same things.
LEMMA FlattenTyped ==
    ASSUME NEW S, NEW seqs \in Seq(Seq(S))
    PROVE  FlattenSeq(seqs) \in Seq(S)
<1> DEFINE n == Len(seqs)
           f == CHOOSE g : IsFlattening(g, seqs, n)
<1>1. CASE n = 0
  <2>1. FlattenSeq(seqs) = <<>>
    BY <1>1 DEF FlattenSeq
  <2> QED BY <2>1
<1>2. CASE n # 0
  <2>1. n \in Nat /\ \A i \in 1..n : seqs[i] \in Seq(S)
    OBVIOUS
  <2>2. FlattenSeq(seqs) = f[n]
    BY <1>2 DEF FlattenSeq, IsFlattening
  <2>3. IsFlattening(f, seqs, n)
    BY <2>1, FlatteningExists
  <2> HIDE DEF f
  <2>4. \A i \in 1..n : f[i] = IF i = 1 THEN seqs[i] ELSE f[i - 1] \o seqs[i]
    BY <2>3 DEF IsFlattening
  <2> DEFINE P == {i \in Nat : i \in 1..n => f[i] \in Seq(S)}
  <2>5. 0 \in P
    OBVIOUS
  <2>6. ASSUME NEW i \in 0 .. n - 1, i \in P PROVE i + 1 \in P
    <3>1. i + 1 \in 1..n /\ seqs[i + 1] \in Seq(S)
      BY <2>1
    <3>2. CASE i = 0
      BY <2>4, <3>1, <3>2
    <3>3. CASE i # 0
      <4>1. i \in 1..n /\ (i + 1) - 1 = i /\ i + 1 # 1
        BY <2>1, <3>3
      <4>4. f[i] \in Seq(S)
        BY <2>6, <4>1
      <4>5. f[i + 1] = f[i] \o seqs[i + 1]
        BY <2>4, <3>1, <4>1
      <4>2. f[i + 1] \in Seq(S)
        BY <3>1, <4>4, <4>5
      <4> QED BY <3>1, <4>2
    <3> QED BY <3>2, <3>3
  <2> HIDE DEF P
  <2>7. n \in P
    BY <2>1, <2>5, <2>6, UpToInduction
  <2>8. f[n] \in Seq(S)
    BY <1>2, <2>1, <2>7 DEF P
  <2> QED BY <2>2, <2>8
<1> QED BY <1>1, <1>2

\* A set put into a sequence, each member once.
LEMMA SetToSeqIs ==
    ASSUME NEW S, IsFiniteSet(S)
    PROVE  /\ SetToSeq(S) \in Seq(S)
           /\ \A i, j \in 1..Len(SetToSeq(S)) : SetToSeq(S)[i] = SetToSeq(S)[j] => i = j
<1>1. Cardinality(S) \in Nat /\ \E f \in [1..Cardinality(S) -> S] : IsInjective(f)
  BY FS_CardinalityType DEF ExistsBijection, Bijection, Injection
<1>2. SetToSeq(S) \in [1..Cardinality(S) -> S] /\ IsInjective(SetToSeq(S))
  BY <1>1 DEF SetToSeq
<1> QED BY <1>1, <1>2 DEF IsInjective

LEMMA ContentTyped ==
    ASSUME NEW steps \in Contents
    PROVE  /\ steps \in Seq(Steps)
           /\ \A c \in Contracts : ~Occurs("now", c, steps)
<1> DEFINE K == {"create", "event", "type", "collect"} \X Contracts
<1>1. ASSUME NEW t \in Transactions PROVE t \in Seq(K)
  <2>1. PICK c \in Contracts : t \in {<<<<"create", c>>, <<"type", c>>>>,
                                      <<<<"create", c>>, <<"event", c>>, <<"type", c>>>>,
                                      <<<<"create", c>>>>, <<<<"event", c>>>>,
                                      <<<<"collect", c>>>>}
    BY DEF Transactions
  <2>2. <<"create", c>> \in K /\ <<"event", c>> \in K /\ <<"type", c>> \in K /\ <<"collect", c>> \in K
    OBVIOUS
  <2> HIDE DEF K
  <2>3. ASSUME NEW a \in K, NEW b \in K, NEW e \in K
        PROVE  <<a>> \in Seq(K) /\ <<a, b>> \in Seq(K) /\ <<a, b, e>> \in Seq(K)
    OBVIOUS
  <2> DEFINE a == <<"create", c>>
             b == <<"event", c>>
             e == <<"type", c>>
             o == <<"collect", c>>
  <2>4. /\ t \in {<<a, e>>, <<a, b, e>>, <<a>>, <<b>>, <<o>>}
        /\ a \in K /\ b \in K /\ e \in K /\ o \in K
    BY <2>1, <2>2
  <2> HIDE DEF a, b, e, o
  <2>5. /\ <<a, e>> \in Seq(K) /\ <<a, b, e>> \in Seq(K)
        /\ <<a>> \in Seq(K) /\ <<b>> \in Seq(K) /\ <<o>> \in Seq(K)
    BY <2>3, <2>4
  <2> QED BY <2>4, <2>5
<1>2. PICK n \in 0..MaxTx : \E txs \in [1..n -> Transactions] : steps = FlattenSeq(txs)
  BY DEF Contents
<1>20. PICK txs \in [1..n -> Transactions] : steps = FlattenSeq(txs)
  BY <1>2
<1>3. n \in Nat
  BY <1>2, DetectionAssumption
<1>4. txs \in Seq(Seq(K))
  BY <1>1, <1>3
<1> HIDE DEF K
<1>5. steps \in Seq(K)
  BY <1>20, <1>4, FlattenTyped
<1>6. \A i \in 1..Len(steps) : steps[i] \in K
  BY <1>5
<1>7. Len(steps) \in Nat /\ steps = [i \in 1..Len(steps) |-> steps[i]]
  BY <1>5
<1>8. \A i \in 1..Len(steps) : steps[i] \in Steps /\ \A c \in Contracts : steps[i] # <<"now", c>>
  BY <1>6 DEF K, Steps
<1> QED BY <1>7, <1>8 DEF Occurs

LEMMA TailIs ==
    ASSUME NEW s \in Seq(Steps), s # <<>>, NEW k, NEW c, Head(s) = <<k, c>>
    PROVE  /\ Tail(s) \in Seq(Steps)
           /\ Occurs(k, c, s)
           /\ \A kind, d : /\ Occurs(kind, d, Tail(s)) => Occurs(kind, d, s)
                           /\ <<kind, d>> # <<k, c>> => (Occurs(kind, d, s) => Occurs(kind, d, Tail(s)))
                           /\ Once(kind, d, s) => Once(kind, d, Tail(s))
           /\ Once(k, c, s) => ~Occurs(k, c, Tail(s))
<1> DEFINE t == Tail(s)
<1>1. /\ t \in Seq(Steps) /\ Len(s) \in Nat /\ Len(s) > 0 /\ Len(t) = Len(s) - 1
      /\ \A i \in 1..Len(t) : t[i] = s[i + 1]
      /\ s[1] = <<k, c>>
  OBVIOUS
<1> HIDE DEF t
<1>2. \A i \in 1..Len(s) : i # 1 => i - 1 \in 1..Len(t) /\ t[i - 1] = s[i]
  BY <1>1
<1>3. ASSUME NEW kind, NEW d, Occurs(kind, d, t) PROVE Occurs(kind, d, s)
  BY <1>1, <1>3 DEF Occurs
<1>4. ASSUME NEW kind, NEW d, <<kind, d>> # <<k, c>>, Occurs(kind, d, s) PROVE Occurs(kind, d, t)
  BY <1>1, <1>2, <1>4 DEF Occurs
<1>5. ASSUME NEW kind, NEW d, Once(kind, d, s) PROVE Once(kind, d, t)
  <2>1. SUFFICES ASSUME NEW i \in 1..Len(t), NEW j \in 1..Len(t), t[i] = <<kind, d>>, t[j] = <<kind, d>>
                 PROVE  i = j
    BY DEF Once
  <2>2. i + 1 \in 1..Len(s) /\ j + 1 \in 1..Len(s) /\ s[i + 1] = <<kind, d>> /\ s[j + 1] = <<kind, d>>
    BY <1>1, <2>1
  <2>3. i + 1 = j + 1
    BY <1>5, <2>2 DEF Once
  <2> QED BY <2>3
<1>6. ASSUME Once(k, c, s) PROVE ~Occurs(k, c, t)
  BY <1>1, <1>6 DEF Once, Occurs
<1>7. Occurs(k, c, s)
  BY <1>1 DEF Occurs
<1> QED BY <1>1, <1>3, <1>4, <1>5, <1>6, <1>7 DEF t

\* An attempt begins with the trackers whose trigger is set.
LEMMA AttemptIs ==
    ASSUME NEW steps \in Seq(Steps), \A c \in Contracts : ~Occurs("now", c, steps)
    PROVE  /\ Triggered \o steps \in Seq(Steps)
           /\ \A c \in Contracts :
                 /\ \A kind \in {"create", "event", "type"} :
                       Occurs(kind, c, Triggered \o steps) <=> Occurs(kind, c, steps)
                 /\ Occurs("now", c, Triggered \o steps) => saved.tracker[c] = "now"
                 /\ Once("now", c, Triggered \o steps)
                 /\ Once("create", c, steps) => Once("create", c, Triggered \o steps)
<1> DEFINE N == {<<"now", c>> : c \in {d \in Contracts : saved.tracker[d] = "now"}}
           s == Triggered
           t == s \o steps
<1>1. IsFiniteSet(N)
  <2> DEFINE D == {d \in Contracts : saved.tracker[d] = "now"}
             f == [c \in D |-> <<"now", c>>]
  <2>1. IsFiniteSet(D)
    BY DetectionAssumption, FS_Subset
  <2>2. f \in Surjection(D, N)
    BY DEF Surjection
  <2> HIDE DEF D, N, f
  <2> QED BY <2>1, <2>2, FS_Surjection
<1>2. s \in Seq(N) /\ \A i, j \in 1..Len(s) : s[i] = s[j] => i = j
  BY <1>1, SetToSeqIs DEF Triggered
<1> HIDE DEF s
<1>3. \A i \in 1..Len(s) : s[i] \in N
  BY <1>2
<1>4. \A i \in 1..Len(s) : /\ s[i] \in Steps
                           /\ \E c \in Contracts : s[i] = <<"now", c>> /\ saved.tracker[c] = "now"
  BY <1>3 DEF Steps
<1> HIDE DEF N
<1>5. Len(s) \in Nat /\ Len(steps) \in Nat /\ s \in Seq(Steps)
  BY <1>2, <1>4
<1>6. /\ t \in Seq(Steps) /\ Len(t) = Len(s) + Len(steps)
      /\ \A i \in 1..Len(t) : t[i] = IF i <= Len(s) THEN s[i] ELSE steps[i - Len(s)]
  BY <1>5
<1>7. \A i \in 1..Len(steps) : Len(s) + i \in 1..Len(t) /\ t[Len(s) + i] = steps[i]
  BY <1>5, <1>6
<1>8. \A i \in 1..Len(t) : i \in 1..Len(s) \/ i - Len(s) \in 1..Len(steps)
  BY <1>5, <1>6
<1> HIDE DEF t
<1>9. ASSUME NEW c \in Contracts, NEW kind \in {"create", "event", "type"}
      PROVE  Occurs(kind, c, t) <=> Occurs(kind, c, steps)
  <2>1. ASSUME NEW i \in 1..Len(t), t[i] = <<kind, c>>
        PROVE  i - Len(s) \in 1..Len(steps) /\ steps[i - Len(s)] = <<kind, c>>
    <3>1. i \notin 1..Len(s)
      BY <1>4, <1>5, <1>6, <2>1
    <3> QED BY <1>5, <1>6, <1>8, <2>1, <3>1
  <2> QED BY <1>7, <2>1 DEF Occurs
<1>10. ASSUME NEW c \in Contracts, NEW i \in 1..Len(t), t[i] = <<"now", c>>
       PROVE  i \in 1..Len(s) /\ s[i] = <<"now", c>> /\ saved.tracker[c] = "now"
  <2>1. i \in 1..Len(s)
    BY <1>5, <1>6, <1>8, <1>10 DEF Occurs
  <2>2. s[i] = <<"now", c>>
    BY <1>5, <1>6, <1>10, <2>1
  <2> QED BY <1>4, <2>1, <2>2
<1>11. ASSUME NEW c \in Contracts, Once("create", c, steps)
       PROVE  Once("create", c, t)
  <2>1. ASSUME NEW i \in 1..Len(t), t[i] = <<"create", c>>
        PROVE  i - Len(s) \in 1..Len(steps) /\ steps[i - Len(s)] = <<"create", c>>
    <3>1. i \notin 1..Len(s)
      BY <1>4, <1>5, <1>6, <2>1
    <3> QED BY <1>5, <1>6, <1>8, <2>1, <3>1
  <2>2. SUFFICES ASSUME NEW i \in 1..Len(t), NEW j \in 1..Len(t),
                        t[i] = <<"create", c>>, t[j] = <<"create", c>>
                 PROVE  i = j
    BY DEF Once
  <2>3. i - Len(s) = j - Len(s)
    BY <1>11, <2>1, <2>2 DEF Once
  <2> QED BY <1>5, <2>3
<1>12. \A c \in Contracts : Once("now", c, t)
  BY <1>2, <1>10 DEF Once
<1>13. \A c \in Contracts : Occurs("now", c, t) => saved.tracker[c] = "now"
  BY <1>10 DEF Occurs
<1> QED BY <1>6, <1>9, <1>11, <1>12, <1>13 DEF t, s
-----------------------------------------------------------------------------
(***************************************************************************)
(* The recognition of one contract, between blocks and at every step of    *)
(* every attempt.                                                          *)
(***************************************************************************)
Kind(type) == IF type = "none" THEN "EVM" ELSE type

\* Its creation is committed, or done in this attempt.
Born(c) == c \in rows.created

NoPlace(table, c) ==
    table.token[c] = "none" /\ table.tracker[c] = "none" /\ c \notin table.dropped

OnePlace(table, c) ==
    \/ table.token[c] # "none" /\ table.tracker[c] = "none" /\ c \notin table.dropped
    \/ table.token[c] = "none" /\ table.tracker[c] # "none" /\ c \notin table.dropped
    \/ table.token[c] = "none" /\ table.tracker[c] = "none" /\ c \in table.dropped

AttemptsTyped ==
    /\ todo \in Seq(Steps) /\ content \in Seq(Steps)
    /\ tokens \in [Contracts -> SUBSET TokenTypes]
    /\ stage # "block" => todo = <<>> /\ pending = {}

\* A creation is left to do as long as the contract is not born, a trigger as
\* long as the tracker has it, and neither is done twice.
TodoOf(c) ==
    /\ Once("create", c, todo) /\ Once("now", c, todo)
    /\ Occurs("create", c, todo) => ~Born(c) /\ Occurs("create", c, content)
    /\ Occurs("now", c, todo) => saved.tracker[c] = "now" /\ rows.tracker[c] = "now"
    /\ Born(c) => c \in saved.created \/ Occurs("create", c, content)
    /\ c \in saved.created => Born(c) /\ (c \in saved.early <=> c \in rows.early)
    /\ stage = "block" => Once("create", c, content) /\ ~Occurs("now", c, content)
    /\ (stage = "block" /\ Occurs("create", c, content)) =>
          c \notin saved.created /\ (Born(c) \/ Occurs("create", c, todo))

\* From its creation on it has one place.
PlaceOf(c) ==
    /\ c \notin saved.created => NoPlace(saved, c)
    /\ c \in saved.created => OnePlace(saved, c)
    /\ ~Born(c) => NoPlace(rows, c)
    /\ Born(c) => OnePlace(rows, c)

\* An address row says which token its contract is, if any, or ACCOUNT since
\* before the creation; one that is still to be written will say it.
AddressOf(c) ==
    /\ c \notin saved.created => saved.address[c] \in {"none", "ACCOUNT"} /\ c \notin saved.early
    /\ c \in saved.created =>
          \/ saved.address[c] = Kind(saved.token[c])
          \/ saved.address[c] = "ACCOUNT" /\ c \in saved.early
    /\ ~Born(c) => rows.address[c] = saved.address[c] /\ c \notin rows.early
    /\ (Born(c) /\ rows.address[c] = "none") => c \in pending /\ types[c] = Kind(rows.token[c])
    /\ (Born(c) /\ rows.address[c] # "none") =>
          \/ rows.address[c] = Kind(rows.token[c])
          \/ rows.address[c] = "ACCOUNT" /\ c \in rows.early
    /\ \/ rows.address[c] = saved.address[c]
       \/ rows.address[c] = rows.token[c] /\ rows.token[c] # "none" /\ saved.address[c] # "none"

\* What the caches say, with what a failed attempt leaves of a creation that is
\* done again, and what a restart forgets.
ViewOf(c) ==
    /\ ~Born(c) => types[c] = "none" \/ Occurs("create", c, todo)
    /\ (Born(c) /\ types[c] = "EVM") => c \in evm \/ c \in rows.early
    /\ c \notin stale =>
          /\ tokens[c] = Listed(rows.token[c])
          /\ Born(c) =>
                \/ types[c] = Kind(rows.token[c])
                \/ /\ types[c] = "none" /\ rows.token[c] = "none"
                   /\ rows.address[c] = "ACCOUNT" /\ c \in rows.early

\* A tracked contract the map knows, whose event is behind, has been looked at.
FoundOf(c) ==
    ( /\ stage = "block" /\ c \notin stale \cup spoiled
      /\ saved.tracker[c] = "event" /\ types[c] # "none" ) =>
        \/ /\ rows.tracker[c] = "event"
           /\ Occurs("event", c, content) => Occurs("event", c, todo)
        \/ rows.token[c] = DetectionOf(c)
        \/ DetectionOf(c) \notin TokenTypes

ContractInv(c) == TodoOf(c) /\ PlaceOf(c) /\ AddressOf(c) /\ ViewOf(c) /\ FoundOf(c)

RecognitionInv == AttemptsTyped /\ \A c \in Contracts : ContractInv(c)

LEMMA KindIs ==
    /\ \A t \in TokenTypes :
          Kind(t) = t /\ Listed(t) = {t} /\ t \notin {"none", "EVM", "ACCOUNT", "UNKNOWN", "failed"}
    /\ Kind("none") = "EVM" /\ Listed("none") = {}
    /\ \A t : t \notin TokenTypes => Listed(t) = {}
  BY DEF Kind, Listed, TokenTypes

\* A step of an attempt leaves alone what it is not about.
LEMMA OtherContract ==
    ASSUME NEW d \in Contracts, ContractInv(d), stage = "block",
           UNCHANGED <<stage, saved, content, code, config, block, scripts>>,
           \A kind \in {"create", "event", "now"} :
              /\ Occurs(kind, d, todo') <=> Occurs(kind, d, todo)
              /\ Once(kind, d, todo) => Once(kind, d, todo'),
           rows'.token[d] = rows.token[d], rows'.tracker[d] = rows.tracker[d],
           rows'.address[d] = rows.address[d], d \in rows'.dropped <=> d \in rows.dropped,
           d \in rows'.created <=> d \in rows.created, d \in rows'.early <=> d \in rows.early,
           types'[d] = types[d], tokens'[d] = tokens[d],
           d \in evm => d \in evm', d \in pending => d \in pending',
           d \in stale' <=> d \in stale, d \in spoiled' <=> d \in spoiled
    PROVE  ContractInv(d)'
<1>1. DetectionOf(d)' = DetectionOf(d)
  BY DEF DetectionOf, UsesFacade, CodeAt, scripts
<1>2. TodoOf(d)'
  BY DEF ContractInv, TodoOf, Born
<1>3. PlaceOf(d)'
  BY DEF ContractInv, PlaceOf, Born, NoPlace, OnePlace
<1>4. AddressOf(d)'
  BY DEF ContractInv, AddressOf, Born
<1>5. ViewOf(d)'
  BY DEF ContractInv, ViewOf, Born
<1>6. FoundOf(d)'
  BY <1>1 DEF ContractInv, FoundOf
<1> QED BY <1>2, <1>3, <1>4, <1>5, <1>6 DEF ContractInv

\* A step takes the head off what is left to do.
LEMMA StepIs ==
    ASSUME AttemptsTyped, NEW k, NEW c \in Contracts, Step(k, c)
    PROVE  /\ stage = "block" /\ todo' \in Seq(Steps) /\ Occurs(k, c, todo)
           /\ UNCHANGED <<stage, saved, content, code, config, block, scripts>>
           /\ \A kind, d : /\ Occurs(kind, d, todo') => Occurs(kind, d, todo)
                           /\ kind # k \/ d # c => (Occurs(kind, d, todo) => Occurs(kind, d, todo'))
                           /\ Once(kind, d, todo) => Once(kind, d, todo')
           /\ Once(k, c, todo) => ~Occurs(k, c, todo')
<1>1. /\ todo \in Seq(Steps) /\ todo # <<>> /\ Head(todo) = <<k, c>> /\ todo' = Tail(todo)
      /\ stage = "block" /\ UNCHANGED <<stage, saved, content, code, config, block, scripts>>
  BY DEF Step, AttemptsTyped
<1>2. \A kind, d : kind # k \/ d # c => <<kind, d>> # <<k, c>>
  OBVIOUS
<1> QED BY <1>1, <1>2, TailIs

LEMMA CreateFound ==
    ASSUME NEW c \in Contracts, DetectionInv, RecognitionInv, CreateContract(c)
    PROVE  RecognitionInv'
<1>1. PICK result \in TokenTypes \cup {"UNKNOWN", "failed"} :
         /\ Detect(c, result)
         /\ rows' = [ResolvedRows(c, result, FALSE) EXCEPT
                !.created = @ \cup {c},
                !.early = IF c \in pending \/ rows.address[c] # "none" THEN @ \cup {c} ELSE @]
         /\ Cached(c, result)
         /\ types' = [types EXCEPT ![c] = IF result \in TokenTypes THEN result ELSE "EVM"]
         /\ evm' = IF result \in TokenTypes \/ c \in pending THEN evm ELSE evm \cup {c}
  BY DEF CreateContract
<1>2. Step("create", c) /\ pending' = pending \cup {c}
  BY DEF CreateContract
<1>3. /\ stage = "block" /\ todo' \in Seq(Steps) /\ Occurs("create", c, todo)
      /\ UNCHANGED <<stage, saved, content, code, config, block, scripts>>
      /\ \A kind, d : /\ Occurs(kind, d, todo') => Occurs(kind, d, todo)
                      /\ kind # "create" \/ d # c => (Occurs(kind, d, todo) => Occurs(kind, d, todo'))
                      /\ Once(kind, d, todo) => Once(kind, d, todo')
      /\ Once("create", c, todo) => ~Occurs("create", c, todo')
  BY <1>2, StepIs DEF RecognitionInv
<1>4. /\ rows \in Tables /\ types \in [Contracts -> Types]
      /\ tokens \in [Contracts -> SUBSET TokenTypes]
  BY DEF DetectionInv, RowsAreRight, RecognitionInv, AttemptsTyped
<1>5. /\ rows'.token[c] = IF result \in TokenTypes THEN result ELSE rows.token[c]
      /\ rows'.tracker[c] = IF result = "UNKNOWN" THEN "event" ELSE rows.tracker[c]
      /\ c \in rows'.dropped <=> c \in rows.dropped \/ result = "failed"
      /\ c \in rows'.created
      /\ c \in rows'.early <=> c \in rows.early \/ c \in pending \/ rows.address[c] # "none"
      /\ rows'.address = rows.address
      /\ \A d \in Contracts : d # c =>
            /\ rows'.token[d] = rows.token[d] /\ rows'.tracker[d] = rows.tracker[d]
            /\ d \in rows'.dropped <=> d \in rows.dropped
            /\ d \in rows'.created <=> d \in rows.created
            /\ d \in rows'.early <=> d \in rows.early
  <2>1. rows' = [ResolvedRows(c, result, FALSE) EXCEPT
            !.created = @ \cup {c},
            !.early = IF c \in pending \/ rows.address[c] # "none" THEN @ \cup {c} ELSE @]
    BY <1>1
  <2> QED BY <1>4, <2>1, CreatedRows
<1>6. /\ types'[c] = IF result \in TokenTypes THEN result ELSE "EVM"
      /\ tokens'[c] = tokens[c] \cup Listed(result)
      /\ c \in stale' <=> c \in stale /\ ~(result \in TokenTypes /\ tokens[c] \subseteq {result})
      /\ tokens' \in [Contracts -> SUBSET TokenTypes]
      /\ \A d \in Contracts : d # c =>
            /\ types'[d] = types[d] /\ tokens'[d] = tokens[d]
            /\ d \in evm => d \in evm'
            /\ d \in stale' <=> d \in stale
            /\ d \in spoiled' <=> d \in spoiled
            /\ d \in pending => d \in pending'
  <2>1. types' = [types EXCEPT ![c] = IF result \in TokenTypes THEN result ELSE "EVM"]
    BY <1>1
  <2>2. tokens' = [tokens EXCEPT ![c] = tokens[c] \cup Listed(result)]
    BY <1>1, <1>4 DEF Cached
  <2>3. \A d \in Contracts : d # c =>
           /\ d \in evm => d \in evm'
           /\ d \in stale' <=> d \in stale
           /\ d \in pending => d \in pending'
    BY <1>1, <1>2 DEF Cached
  <2>4. \A d \in Contracts : d # c => (d \in spoiled' <=> d \in spoiled)
    BY <1>1 DEF Detect
  <2>5. c \in stale' <=> c \in stale /\ ~(result \in TokenTypes /\ tokens[c] \subseteq {result})
    BY <1>1 DEF Cached
  <2>6. Listed(result) \in SUBSET TokenTypes
    BY DEF Listed
  <2>7. tokens' \in [Contracts -> SUBSET TokenTypes]
    BY <1>4, <2>2, <2>6
  <2> QED BY <1>4, <2>1, <2>2, <2>3, <2>4, <2>5, <2>7
<1>7. ContractInv(c)
  BY DEF RecognitionInv
<1>8. /\ ~Born(c) /\ NoPlace(rows, c) /\ NoPlace(saved, c) /\ c \notin saved.created
      /\ c \in pending' /\ Born(c)' /\ Occurs("create", c, content)
  BY <1>2, <1>3, <1>5, <1>7 DEF ContractInv, TodoOf, PlaceOf, Born
<1>9. rows.token[c] = "none" /\ types'[c] = Kind(rows'.token[c])
  BY <1>5, <1>6, <1>8, KindIs DEF NoPlace
<1>10. TodoOf(c)'
  <2>1. rows'.tracker[c] = "now" \/ ~Occurs("now", c, todo')
    BY <1>3, <1>7, <1>8 DEF ContractInv, TodoOf, NoPlace
  <2> QED BY <1>3, <1>7, <1>8, <2>1 DEF ContractInv, TodoOf
<1>11. PlaceOf(c)'
  <2>1. OnePlace(rows, c)'
    BY <1>5, <1>8, KindIs DEF OnePlace, NoPlace
  <2> QED BY <1>3, <1>8, <2>1 DEF PlaceOf, NoPlace
<1>12. AddressOf(c)'
  <2>1. rows'.address[c] = saved.address[c] /\ saved.address[c] \in {"none", "ACCOUNT"}
    BY <1>5, <1>7, <1>8 DEF ContractInv, AddressOf
  <2>2. saved.address[c] # "none" => c \in rows'.early
    BY <1>5, <2>1
  <2> QED BY <1>3, <1>7, <1>8, <1>9, <2>1, <2>2 DEF ContractInv, AddressOf
<1>13. ViewOf(c)'
  <2>1. types'[c] = "EVM" => c \in evm' \/ c \in rows'.early
    BY <1>1, <1>5, <1>6, KindIs
  <2>2. ASSUME c \notin stale' PROVE tokens'[c] = Listed(rows'.token[c])
    <3>1. CASE result \in TokenTypes
      <4>1. tokens[c] \subseteq {result}
        BY <1>6, <1>7, <1>9, <2>2, <3>1, KindIs DEF ContractInv, ViewOf
      <4> QED BY <1>5, <1>6, <3>1, <4>1, KindIs
    <3>2. CASE result \notin TokenTypes
      <4>1. tokens[c] = {}
        BY <1>6, <1>7, <1>9, <2>2, <3>2, KindIs DEF ContractInv, ViewOf
      <4> QED BY <1>5, <1>6, <1>9, <3>2, <4>1, KindIs
    <3> QED BY <3>1, <3>2
  <2> QED BY <1>8, <1>9, <2>1, <2>2 DEF ViewOf
<1>14. FoundOf(c)'
  BY <1>3, <1>8 DEF FoundOf, NoPlace
<1>15. ASSUME NEW d \in Contracts, d # c PROVE ContractInv(d)'
  <2>1. ContractInv(d)
    BY DEF RecognitionInv
  <2> QED BY <1>3, <1>5, <1>6, <1>15, <2>1, OtherContract
<1>16. AttemptsTyped'
  BY <1>3, <1>6 DEF RecognitionInv, AttemptsTyped
<1> QED BY <1>10, <1>11, <1>12, <1>13, <1>14, <1>15, <1>16 DEF RecognitionInv, ContractInv

LEMMA LookFound ==
    ASSUME NEW c \in Contracts, NEW kind \in {"event", "now"}, DetectionInv, RecognitionInv,
           LookAgain(kind, c)
    PROVE  RecognitionInv'
<1>1. PICK result \in TokenTypes \cup {"UNKNOWN", "failed"} :
         /\ Detect(c, result)
         /\ Cached(c, result)
         /\ IF result \in TokenTypes
            THEN /\ types' = [types EXCEPT ![c] = result]
                 /\ evm' = evm \ {c}
                 /\ rows' = [ResolvedRows(c, result, TRUE) EXCEPT
                        !.address[c] = IF @ = "none" THEN @ ELSE result]
            ELSE /\ rows' = ResolvedRows(c, result, TRUE)
                 /\ UNCHANGED <<types, evm>>
  BY DEF LookAgain, TokenTracker
<1>2. Step(kind, c) /\ NeedsTracker(kind, c) /\ pending' = pending
  BY DEF LookAgain
<1>3. /\ stage = "block" /\ todo' \in Seq(Steps) /\ Occurs(kind, c, todo)
      /\ UNCHANGED <<stage, saved, content, code, config, block, scripts>>
      /\ \A k, d : /\ Occurs(k, d, todo') => Occurs(k, d, todo)
                   /\ k # kind \/ d # c => (Occurs(k, d, todo) => Occurs(k, d, todo'))
                   /\ Once(k, d, todo) => Once(k, d, todo')
      /\ Once(kind, c, todo) => ~Occurs(kind, c, todo')
  BY <1>2, StepIs DEF RecognitionInv
<1>4. /\ rows \in Tables /\ types \in [Contracts -> Types]
      /\ tokens \in [Contracts -> SUBSET TokenTypes]
  BY DEF DetectionInv, RowsAreRight, RecognitionInv, AttemptsTyped
<1>5. /\ rows'.token[c] = IF result \in TokenTypes THEN result ELSE rows.token[c]
      /\ rows'.tracker[c] = IF result = "failed" THEN rows.tracker[c] ELSE "none"
      /\ c \in rows'.dropped <=> c \in rows.dropped \/ result = "UNKNOWN"
      /\ rows'.address[c] = IF result \in TokenTypes /\ rows.address[c] # "none"
                            THEN result ELSE rows.address[c]
      /\ rows'.created = rows.created /\ rows'.early = rows.early
      /\ \A d \in Contracts : d # c =>
            /\ rows'.token[d] = rows.token[d] /\ rows'.tracker[d] = rows.tracker[d]
            /\ rows'.address[d] = rows.address[d]
            /\ d \in rows'.dropped <=> d \in rows.dropped
  <2>1. rows' = IF result \in TokenTypes
                THEN [ResolvedRows(c, result, TRUE) EXCEPT
                         !.address[c] = IF @ = "none" THEN @ ELSE result]
                ELSE ResolvedRows(c, result, TRUE)
    BY <1>1
  <2> QED BY <1>4, <2>1, TrackedRows
<1>6. /\ types'[c] = IF result \in TokenTypes THEN result ELSE types[c]
      /\ tokens'[c] = tokens[c] \cup Listed(result)
      /\ c \in stale' <=> c \in stale /\ ~(result \in TokenTypes /\ tokens[c] \subseteq {result})
      /\ result \notin TokenTypes => evm' = evm
      /\ tokens' \in [Contracts -> SUBSET TokenTypes]
      /\ \A d \in Contracts : d # c =>
            /\ types'[d] = types[d] /\ tokens'[d] = tokens[d]
            /\ d \in evm => d \in evm'
            /\ d \in stale' <=> d \in stale
            /\ d \in spoiled' <=> d \in spoiled
  <2>1. types' = IF result \in TokenTypes THEN [types EXCEPT ![c] = result] ELSE types
    BY <1>1
  <2>2. tokens' = [tokens EXCEPT ![c] = tokens[c] \cup Listed(result)]
    BY <1>1, <1>4 DEF Cached
  <2>3. \A d \in Contracts : d # c => /\ d \in evm => d \in evm'
                                      /\ d \in stale' <=> d \in stale
    BY <1>1 DEF Cached
  <2>4. \A d \in Contracts : d # c => (d \in spoiled' <=> d \in spoiled)
    BY <1>1 DEF Detect
  <2>5. c \in stale' <=> c \in stale /\ ~(result \in TokenTypes /\ tokens[c] \subseteq {result})
    BY <1>1 DEF Cached
  <2>6. Listed(result) \in SUBSET TokenTypes
    BY DEF Listed
  <2>7. tokens' \in [Contracts -> SUBSET TokenTypes]
    BY <1>4, <2>2, <2>6
  <2>8. result \notin TokenTypes => evm' = evm
    BY <1>1
  <2> QED BY <1>4, <2>1, <2>2, <2>3, <2>4, <2>5, <2>7, <2>8
<1>7. ContractInv(c)
  BY DEF RecognitionInv
<1>8. types[c] = "EVM" /\ rows.tracker[c] = kind
  BY <1>2, <1>3, <1>7 DEF NeedsTracker, ContractInv, TodoOf
<1>9. Born(c) /\ rows.token[c] = "none" /\ c \notin rows.dropped
  BY <1>7, <1>8 DEF ContractInv, PlaceOf, NoPlace, OnePlace
<1>10. types'[c] = Kind(rows'.token[c]) /\ Born(c)'
  BY <1>5, <1>6, <1>8, <1>9, KindIs DEF Born
<1>11. TodoOf(c)'
  <2>1. ~Occurs("create", c, todo') /\ ~Occurs("now", c, todo')
    BY <1>3, <1>7, <1>8, <1>9 DEF ContractInv, TodoOf
  <2> QED BY <1>3, <1>5, <1>7, <1>9, <1>10, <2>1 DEF ContractInv, TodoOf
<1>12. PlaceOf(c)'
  <2>1. OnePlace(rows, c)'
    BY <1>5, <1>8, <1>9, KindIs DEF OnePlace
  <2> QED BY <1>3, <1>7, <1>10, <2>1 DEF ContractInv, PlaceOf, NoPlace, OnePlace
<1>13. AddressOf(c)'
  <2>1. rows.address[c] = saved.address[c] \/ saved.address[c] # "none"
    BY <1>7 DEF ContractInv, AddressOf
  <2>2. CASE result \in TokenTypes
    <3>1. rows'.token[c] = result /\ Kind(result) = result /\ result # "none"
      BY <1>5, <2>2, KindIs
    <3>2. CASE rows.address[c] = "none"
      <4>1. rows'.address[c] = "none" /\ saved.address[c] = "none" /\ c \in pending
        BY <1>5, <1>7, <1>9, <3>2 DEF ContractInv, AddressOf
      <4> QED BY <1>2, <1>3, <1>5, <1>7, <1>10, <4>1 DEF ContractInv, AddressOf
    <3>3. CASE rows.address[c] # "none"
      <4>1. rows'.address[c] = result /\ saved.address[c] # "none"
        BY <1>5, <2>1, <2>2, <3>3
      <4> QED BY <1>3, <1>7, <1>10, <3>1, <4>1 DEF ContractInv, AddressOf
    <3> QED BY <3>2, <3>3
  <2>3. CASE result \notin TokenTypes
    BY <1>2, <1>3, <1>5, <1>6, <1>7, <1>9, <1>10, <2>3 DEF ContractInv, AddressOf
  <2> QED BY <2>2, <2>3
<1>14. ViewOf(c)'
  <2>1. types'[c] = "EVM" => c \in evm' \/ c \in rows'.early
    BY <1>5, <1>6, <1>7, <1>9, KindIs DEF ContractInv, ViewOf
  <2>2. ASSUME c \notin stale' PROVE tokens'[c] = Listed(rows'.token[c])
    <3>1. CASE result \in TokenTypes
      <4>1. tokens[c] \subseteq {result}
        BY <1>6, <1>7, <1>9, <2>2, <3>1, KindIs DEF ContractInv, ViewOf
      <4> QED BY <1>5, <1>6, <3>1, <4>1, KindIs
    <3>2. CASE result \notin TokenTypes
      <4>1. tokens[c] = {}
        BY <1>6, <1>7, <1>9, <2>2, <3>2, KindIs DEF ContractInv, ViewOf
      <4> QED BY <1>5, <1>6, <1>9, <3>2, <4>1, KindIs
    <3> QED BY <3>1, <3>2
  <2> QED BY <1>10, <2>1, <2>2 DEF ViewOf
<1>15. FoundOf(c)'
  <2>1. DetectionOf(c)' = DetectionOf(c)
    BY <1>3 DEF DetectionOf, UsesFacade, CodeAt, scripts
  <2>2. c \notin spoiled' => result = DetectionOf(c)
    BY <1>1 DEF Detect
  <2> QED BY <1>5, <2>1, <2>2 DEF FoundOf
<1>16. ASSUME NEW d \in Contracts, d # c PROVE ContractInv(d)'
  <2>1. ContractInv(d)
    BY DEF RecognitionInv
  <2> QED BY <1>2, <1>3, <1>5, <1>6, <1>16, <2>1, OtherContract
<1>17. AttemptsTyped'
  BY <1>2, <1>3, <1>6 DEF RecognitionInv, AttemptsTyped
<1> QED BY <1>11, <1>12, <1>13, <1>14, <1>15, <1>16, <1>17 DEF RecognitionInv, ContractInv

\* What is not looked at again is no tracked contract, but one a failed attempt
\* left as a token in the caches.
LEMMA NoNeedFound ==
    ASSUME NEW c \in Contracts, NEW kind \in {"event", "now"}, DetectionInv, RecognitionInv,
           NoNeed(kind, c)
    PROVE  RecognitionInv'
<1>1. Step(kind, c) /\ ~NeedsTracker(kind, c)
      /\ UNCHANGED <<rows, types, tokens, evm, pending, spoiled, stale>>
  BY DEF NoNeed, caches
<1>2. /\ stage = "block" /\ todo' \in Seq(Steps) /\ Occurs(kind, c, todo)
      /\ UNCHANGED <<stage, saved, content, code, config, block, scripts>>
      /\ \A k, d : /\ Occurs(k, d, todo') => Occurs(k, d, todo)
                   /\ k # kind \/ d # c => (Occurs(k, d, todo) => Occurs(k, d, todo'))
                   /\ Once(k, d, todo) => Once(k, d, todo')
      /\ Once(kind, c, todo) => ~Occurs(kind, c, todo')
  BY <1>1, StepIs DEF RecognitionInv
<1>3. ContractInv(c)
  BY DEF RecognitionInv
<1>4. TodoOf(c)'
  BY <1>1, <1>2, <1>3 DEF ContractInv, TodoOf, Born
<1>5. PlaceOf(c)' /\ AddressOf(c)'
  BY <1>1, <1>2, <1>3 DEF ContractInv, PlaceOf, AddressOf, Born, NoPlace, OnePlace
<1>6. ViewOf(c)'
  BY <1>1, <1>2, <1>3 DEF ContractInv, ViewOf, Born
<1>7. FoundOf(c)'
  <2>1. DetectionOf(c)' = DetectionOf(c)
    BY <1>2 DEF DetectionOf, UsesFacade, CodeAt, scripts
  <2>2. CASE kind = "now"
    BY <1>1, <1>2, <1>3, <2>1, <2>2 DEF ContractInv, FoundOf
  <2>3. CASE kind = "event"
    <3>1. SUFFICES ASSUME c \notin stale \cup spoiled, saved.tracker[c] = "event",
                          types[c] # "none", rows.tracker[c] = "event"
                   PROVE  FALSE
      BY <1>1, <1>2, <1>3, <2>1 DEF ContractInv, FoundOf
    <3>2. Born(c)
      BY <1>3, <3>1 DEF ContractInv, PlaceOf, Born, NoPlace
    <3>3. rows.token[c] = "none"
      BY <1>3, <3>1, <3>2 DEF ContractInv, PlaceOf, OnePlace
    <3>4. types[c] = "EVM"
      BY <1>3, <3>1, <3>2, <3>3 DEF ContractInv, ViewOf, Kind
    <3> QED BY <1>1, <2>3, <3>1, <3>4 DEF NeedsTracker
  <2> QED BY <2>2, <2>3
<1>8. ASSUME NEW d \in Contracts, d # c PROVE ContractInv(d)'
  <2>1. ContractInv(d)
    BY DEF RecognitionInv
  <2> QED BY <1>1, <1>2, <1>8, <2>1, OtherContract
<1>9. AttemptsTyped'
  BY <1>1, <1>2 DEF RecognitionInv, AttemptsTyped
<1> QED BY <1>3, <1>4, <1>5, <1>6, <1>7, <1>8, <1>9 DEF RecognitionInv, ContractInv

LEMMA TypeFound ==
    ASSUME NEW c \in Contracts, DetectionInv, RecognitionInv, TypeCreation(c)
    PROVE  RecognitionInv'
<1>1. Step("type", c) /\ UNCHANGED <<rows, types, tokens, evm, pending, spoiled, stale>>
  BY DEF TypeCreation
<1>2. /\ stage = "block" /\ todo' \in Seq(Steps)
      /\ UNCHANGED <<stage, saved, content, code, config, block, scripts>>
      /\ \A k, d : /\ Occurs(k, d, todo') => Occurs(k, d, todo)
                   /\ k # "type" \/ d # c => (Occurs(k, d, todo) => Occurs(k, d, todo'))
                   /\ Once(k, d, todo) => Once(k, d, todo')
  BY <1>1, StepIs DEF RecognitionInv
<1>3. ASSUME NEW d \in Contracts PROVE ContractInv(d)'
  <2>1. ContractInv(d)
    BY DEF RecognitionInv
  <2> QED BY <1>1, <1>2, <2>1, OtherContract
<1>4. AttemptsTyped'
  BY <1>1, <1>2 DEF RecognitionInv, AttemptsTyped
<1> QED BY <1>3, <1>4 DEF RecognitionInv

LEMMA CollectFound ==
    ASSUME NEW c \in Contracts, DetectionInv, RecognitionInv, CollectAddress(c)
    PROVE  RecognitionInv'
<1>1. /\ Step("collect", c) /\ UNCHANGED <<rows, types, tokens, evm, spoiled, stale>>
      /\ pending' = pending \cup {c}
  BY DEF CollectAddress
<1>2. /\ stage = "block" /\ todo' \in Seq(Steps)
      /\ UNCHANGED <<stage, saved, content, code, config, block, scripts>>
      /\ \A k, d : /\ Occurs(k, d, todo') => Occurs(k, d, todo)
                   /\ k # "collect" \/ d # c => (Occurs(k, d, todo) => Occurs(k, d, todo'))
                   /\ Once(k, d, todo) => Once(k, d, todo')
  BY <1>1, StepIs DEF RecognitionInv
<1>3. ASSUME NEW d \in Contracts PROVE ContractInv(d)'
  <2>1. ContractInv(d) /\ (d \in pending => d \in pending')
    BY <1>1 DEF RecognitionInv
  <2> QED BY <1>1, <1>2, <2>1, OtherContract
<1>4. AttemptsTyped'
  BY <1>1, <1>2 DEF RecognitionInv, AttemptsTyped
<1> QED BY <1>3, <1>4 DEF RecognitionInv

(***************************************************************************)
(* The steps of the block as a whole.                                      *)
(***************************************************************************)
LEMMA CommitFound ==
    ASSUME DetectionInv, RecognitionInv, CommitBlock PROVE RecognitionInv'
<1> DEFINE a == [c \in Contracts |-> IF rows.address[c] = "none" /\ c \in pending THEN NewAddress(c)
                                     ELSE rows.address[c]]
<1>1. /\ stage = "block" /\ stage' = "idle" /\ rows' = saved' /\ pending' = {} /\ todo = <<>>
      /\ UNCHANGED <<content, todo, code, types, tokens, stale>>
      /\ \A c : c \in evm => c \in evm'
  BY DEF CommitBlock
<1>2. /\ rows \in Tables /\ types \in [Contracts -> Types]
      /\ tokens \in [Contracts -> SUBSET TokenTypes] /\ content \in Seq(Steps)
  BY DEF DetectionInv, RowsAreRight, RecognitionInv, AttemptsTyped
<1>3. saved' = [rows EXCEPT !.address = a]
  BY <1>2 DEF CommitBlock, Tables
<1>4. \A c \in Contracts : a[c] = IF rows.address[c] = "none" /\ c \in pending
                                  THEN IF types[c] = "none" THEN "ACCOUNT" ELSE types[c]
                                  ELSE rows.address[c]
  BY DEF NewAddress
<1> HIDE DEF a
<1>5. /\ saved'.token = rows.token /\ saved'.tracker = rows.tracker
      /\ saved'.dropped = rows.dropped /\ saved'.created = rows.created
      /\ saved'.early = rows.early /\ saved'.address = a
  BY <1>2, <1>3 DEF Tables
<1>6. \A kind, c : ~Occurs(kind, c, todo) /\ Once(kind, c, todo)
  BY <1>1 DEF Occurs, Once
<1>7. ASSUME NEW c \in Contracts PROVE ContractInv(c)'
  <2>1. ContractInv(c)
    BY DEF RecognitionInv
  <2>2. Born(c)' <=> Born(c)
    BY <1>1, <1>5 DEF Born
  <2>3. Kind(rows.token[c]) # "none"
    BY DEF Kind
  <2>4. TodoOf(c)'
    BY <1>1, <1>5, <1>6, <2>2 DEF TodoOf, Born
  <2>5. PlaceOf(c)'
    BY <1>1, <1>5, <2>1 DEF ContractInv, PlaceOf, Born, NoPlace, OnePlace
  <2>6. ~Born(c) => a[c] \in {"none", "ACCOUNT"} /\ c \notin rows.early
    <3>1. SUFFICES ASSUME ~Born(c) PROVE a[c] \in {"none", "ACCOUNT"} /\ c \notin rows.early
      OBVIOUS
    <3>2. types[c] = "none"
      BY <1>6, <2>1, <3>1 DEF ContractInv, ViewOf
    <3>3. rows.address[c] \in {"none", "ACCOUNT"} /\ c \notin rows.early
      BY <2>1, <3>1 DEF ContractInv, AddressOf, TodoOf
    <3> QED BY <1>4, <3>2, <3>3
  <2>7. Born(c) => a[c] = Kind(rows.token[c]) \/ (a[c] = "ACCOUNT" /\ c \in rows.early)
    BY <1>4, <2>1, <2>3 DEF ContractInv, AddressOf
  <2>8. AddressOf(c)'
    BY <1>1, <1>5, <2>2, <2>3, <2>6, <2>7 DEF AddressOf, Born
  <2>9. rows.address[c] = "ACCOUNT" => a[c] = "ACCOUNT"
    BY <1>4
  <2>10. ViewOf(c)'
    BY <1>1, <1>5, <2>1, <2>2, <2>9 DEF ContractInv, ViewOf
  <2>11. FoundOf(c)'
    BY <1>1 DEF FoundOf
  <2> QED BY <2>4, <2>5, <2>8, <2>10, <2>11 DEF ContractInv
<1>8. AttemptsTyped'
  BY <1>1, <1>2 DEF RecognitionInv, AttemptsTyped
<1> QED BY <1>7, <1>8 DEF RecognitionInv

LEMMA FailFound ==
    ASSUME DetectionInv, RecognitionInv, AttemptFails PROVE RecognitionInv'
<1>1. /\ stage = "block" /\ rows' = saved /\ pending' = {} /\ todo' = Triggered \o content
      /\ UNCHANGED <<stage, saved, content, code, types, tokens>>
      /\ \A c : c \in evm => c \in evm'
      /\ \A c \in Contracts : c \notin stale' => c \notin stale /\ tokens[c] = Listed(saved.token[c])
  BY DEF AttemptFails
<1>2. /\ content \in Seq(Steps) /\ tokens \in [Contracts -> SUBSET TokenTypes]
      /\ saved \in Tables /\ rows \in Tables
      /\ \A c \in Contracts : ~Occurs("now", c, content)
  BY <1>1 DEF DetectionInv, RowsAreRight, RecognitionInv, AttemptsTyped, ContractInv, TodoOf
<1>3. /\ todo' \in Seq(Steps)
      /\ \A c \in Contracts :
            /\ \A kind \in {"create", "event", "type"} :
                  Occurs(kind, c, todo') <=> Occurs(kind, c, content)
            /\ Occurs("now", c, todo') => saved.tracker[c] = "now"
            /\ Once("now", c, todo')
            /\ Once("create", c, content) => Once("create", c, todo')
  BY <1>1, <1>2, AttemptIs
<1>4. ASSUME NEW c \in Contracts PROVE ContractInv(c)'
  <2>1. ContractInv(c)
    BY DEF RecognitionInv
  <2>2. Born(c)' <=> c \in saved.created
    BY <1>1 DEF Born
  <2>3. TodoOf(c)'
    BY <1>1, <1>3, <2>1 DEF ContractInv, TodoOf, Born
  <2>4. PlaceOf(c)'
    BY <1>1, <2>1 DEF ContractInv, PlaceOf, Born, NoPlace, OnePlace
  <2>5. AddressOf(c)'
    BY <1>1, <2>1, <2>2 DEF ContractInv, AddressOf, Born, Kind
  <2>6. ViewOf(c)'
    <3>1. ASSUME c \notin saved.created PROVE types[c] = "none" \/ Occurs("create", c, todo')
      <4>1. CASE Born(c)
        BY <1>1, <1>3, <2>1, <3>1, <4>1 DEF ContractInv, TodoOf
      <4>2. CASE ~Born(c)
        BY <1>1, <1>3, <2>1, <4>2 DEF ContractInv, TodoOf, ViewOf
      <4> QED BY <4>1, <4>2
    <3>2. ASSUME c \in saved.created, types[c] = "EVM" PROVE c \in evm' \/ c \in saved.early
      BY <1>1, <2>1, <3>2 DEF ContractInv, TodoOf, ViewOf
    <3>3. ASSUME c \notin stale', c \in saved.created
          PROVE  \/ types[c] = Kind(saved.token[c])
                 \/ /\ types[c] = "none" /\ saved.token[c] = "none"
                    /\ saved.address[c] = "ACCOUNT" /\ c \in saved.early
      <4>1. /\ Born(c) /\ c \notin stale /\ tokens[c] = Listed(saved.token[c])
            /\ tokens[c] = Listed(rows.token[c]) /\ (c \in rows.early <=> c \in saved.early)
        BY <1>1, <2>1, <3>3 DEF ContractInv, TodoOf, ViewOf
      <4>2. /\ rows.token[c] \in TokenTypes \cup {"none"}
            /\ saved.token[c] \in TokenTypes \cup {"none"}
        BY <1>2 DEF Tables
      <4>3. rows.token[c] = saved.token[c]
        <5>1. Listed(rows.token[c]) = Listed(saved.token[c])
          BY <4>1
        <5> QED BY <4>2, <5>1, KindIs
      <4> QED BY <2>1, <4>1, <4>3 DEF ContractInv, ViewOf, AddressOf
    <3> QED BY <1>1, <2>2, <3>1, <3>2, <3>3 DEF ViewOf
  <2>7. FoundOf(c)'
    BY <1>1, <1>3 DEF FoundOf
  <2> QED BY <2>3, <2>4, <2>5, <2>6, <2>7 DEF ContractInv
<1>5. AttemptsTyped'
  BY <1>1, <1>2, <1>3 DEF AttemptsTyped
<1> QED BY <1>4, <1>5 DEF RecognitionInv

\* A restart rebuilds the caches as the commits left them.
LEMMA RestartFound ==
    ASSUME DetectionInv, RecognitionInv, Restart PROVE RecognitionInv'
<1>1. /\ stage \in {"idle", "block"} /\ rows' = saved /\ pending' = {} /\ stale' = {}
      /\ types' = RebuiltTypes /\ tokens' = [c \in Contracts |-> Listed(saved.token[c])]
      /\ evm' = {c \in Contracts : saved.address[c] = "EVM"}
      /\ todo' = IF stage = "block" THEN Triggered \o content ELSE <<>>
      /\ UNCHANGED <<stage, saved, content, code>>
  BY DEF Restart
<1>2. content \in Seq(Steps) /\ saved \in Tables
  BY DEF RecognitionInv, AttemptsTyped, DetectionInv, RowsAreRight
<1>3. /\ todo' \in Seq(Steps)
      /\ stage # "block" => todo' = <<>>
      /\ \A c \in Contracts :
            /\ stage = "block" =>
                  \A kind \in {"create", "event", "type"} :
                     Occurs(kind, c, todo') <=> Occurs(kind, c, content)
            /\ Occurs("now", c, todo') => saved.tracker[c] = "now"
            /\ Once("now", c, todo')
            /\ (stage # "block" \/ Once("create", c, content)) => Once("create", c, todo')
            /\ stage # "block" => ~Occurs("create", c, todo')
  <2>1. CASE stage = "block"
    <3>1. todo' = Triggered \o content /\ \A c \in Contracts : ~Occurs("now", c, content)
      BY <1>1, <2>1 DEF RecognitionInv, ContractInv, TodoOf
    <3> QED BY <1>2, <2>1, <3>1, AttemptIs
  <2>2. CASE stage # "block"
    <3>1. todo' = <<>>
      BY <1>1, <2>2
    <3>2. \A kind, c : ~Occurs(kind, c, todo') /\ Once(kind, c, todo')
      BY <3>1 DEF Occurs, Once
    <3> QED BY <2>2, <3>1, <3>2
  <2> QED BY <2>1, <2>2
<1>4. ASSUME NEW c \in Contracts PROVE ContractInv(c)'
  <2>1. ContractInv(c)
    BY DEF RecognitionInv
  <2>2. TodoOf(c)'
    BY <1>1, <1>3, <2>1 DEF ContractInv, TodoOf, Born
  <2>3. PlaceOf(c)'
    BY <1>1, <2>1 DEF ContractInv, PlaceOf, Born, NoPlace, OnePlace
  <2>4. Born(c)' <=> c \in saved.created
    BY <1>1 DEF Born
  <2>5. AddressOf(c)'
    BY <1>1, <2>1, <2>4 DEF ContractInv, AddressOf, Born, Kind
  <2>6. /\ types'[c] = IF saved.token[c] # "none" THEN saved.token[c]
                       ELSE IF saved.address[c] = "EVM" THEN "EVM" ELSE "none"
        /\ tokens'[c] = Listed(saved.token[c])
        /\ c \in evm' <=> saved.address[c] = "EVM"
    BY <1>1 DEF RebuiltTypes
  <2>7. ViewOf(c)'
    <3>1. CASE c \in saved.created
      <4>1. /\ saved.token[c] \in TokenTypes \cup {"none"}
            /\ \/ saved.address[c] = Kind(saved.token[c])
               \/ saved.address[c] = "ACCOUNT" /\ c \in saved.early
        BY <1>2, <2>1, <3>1 DEF ContractInv, AddressOf, Tables
      <4>2. \/ types'[c] = Kind(saved.token[c])
            \/ /\ types'[c] = "none" /\ saved.token[c] = "none"
               /\ saved.address[c] = "ACCOUNT" /\ c \in saved.early
        BY <2>6, <4>1 DEF Kind
      <4>3. types'[c] = "EVM" => c \in evm'
        BY <2>6, <4>1, KindIs
      <4> QED BY <1>1, <2>4, <2>6, <3>1, <4>2, <4>3 DEF ViewOf
    <3>2. CASE c \notin saved.created
      <4>1. saved.token[c] = "none" /\ saved.address[c] # "EVM"
        BY <2>1, <3>2 DEF ContractInv, PlaceOf, AddressOf, NoPlace
      <4> QED BY <1>1, <2>4, <2>6, <3>2, <4>1 DEF ViewOf
    <3> QED BY <3>1, <3>2
  <2>8. FoundOf(c)'
    BY <1>1, <1>3 DEF FoundOf
  <2> QED BY <2>2, <2>3, <2>5, <2>7, <2>8 DEF ContractInv
<1>5. AttemptsTyped'
  <2>1. tokens' \in [Contracts -> SUBSET TokenTypes]
    BY <1>1 DEF Listed
  <2> QED BY <1>1, <1>2, <1>3, <2>1 DEF AttemptsTyped
<1> QED BY <1>4, <1>5 DEF RecognitionInv

\* A block of the chain creates a contract once, and none that is there.
LEMMA BlockFound ==
    ASSUME DetectionInv, RecognitionInv, NextBlock PROVE RecognitionInv'
<1>1. PICK steps \in Contents :
         Possible(steps) /\ content' = steps /\ todo' = Triggered \o steps
  BY DEF NextBlock
<1>3. /\ stage = "idle" /\ stage' = "block" /\ rows = saved /\ todo = <<>> /\ pending = {}
      /\ UNCHANGED <<rows, saved, types, tokens, evm, pending, stale>>
  BY DEF NextBlock, tables, caches, counters, DetectionInv, RowsAreRight, RecognitionInv, AttemptsTyped
<1>4. steps \in Seq(Steps) /\ \A c \in Contracts : ~Occurs("now", c, steps)
  BY <1>1, ContentTyped
<1>5. /\ todo' \in Seq(Steps)
      /\ \A c \in Contracts :
            /\ \A kind \in {"create", "event", "type"} :
                  Occurs(kind, c, todo') <=> Occurs(kind, c, steps)
            /\ Occurs("now", c, todo') => saved.tracker[c] = "now"
            /\ Once("now", c, todo')
            /\ Once("create", c, steps) => Once("create", c, todo')
  BY <1>1, <1>4, AttemptIs
<1>6. \A kind, c : ~Occurs(kind, c, todo)
  BY <1>3 DEF Occurs
<1>7. ASSUME NEW c \in Contracts PROVE ContractInv(c)'
  <2>1. ContractInv(c)
    BY DEF RecognitionInv
  <2>2. /\ Once("create", c, steps)
        /\ Occurs("create", c, steps) => c \notin Created
    <3>1. ASSUME NEW i \in 1..Len(steps), steps[i] = <<"create", c>>
          PROVE  c \notin Created /\ \A j \in 1 .. i - 1 : steps[j] # steps[i]
      <4>1. steps[i][1] = "create" /\ steps[i][2] = c
        BY <3>1
      <4> QED BY <1>1, <4>1 DEF Possible
    <3>2. ASSUME NEW i \in 1..Len(steps), NEW j \in 1..Len(steps),
                 steps[i] = <<"create", c>>, steps[j] = <<"create", c>>
          PROVE  i = j
      <4>1. ~(i < j) /\ ~(j < i)
        BY <3>1, <3>2
      <4> QED BY <4>1
    <3> QED BY <3>1, <3>2 DEF Once, Occurs
  <2>7. TodoOf(c)'
    BY <1>1, <1>3, <1>4, <1>5, <2>2 DEF TodoOf, Born, Created
  <2>8. PlaceOf(c)' /\ AddressOf(c)'
    BY <1>3, <2>1 DEF ContractInv, PlaceOf, AddressOf, Born, NoPlace, OnePlace
  <2>9. ViewOf(c)'
    BY <1>3, <1>6, <2>1 DEF ContractInv, ViewOf, Born
  <2>10. FoundOf(c)'
    BY <1>1, <1>3, <1>5 DEF FoundOf
  <2> QED BY <2>7, <2>8, <2>9, <2>10 DEF ContractInv
<1>8. AttemptsTyped'
  BY <1>1, <1>3, <1>4, <1>5 DEF RecognitionInv, AttemptsTyped
<1> QED BY <1>7, <1>8 DEF RecognitionInv

LEMMA TriggerFound ==
    ASSUME NEW c \in Contracts, DetectionInv, RecognitionInv, SetTrigger(c) PROVE RecognitionInv'
<1>1. /\ stage = "idle" /\ saved.tracker[c] = "event" /\ rows' = saved' /\ rows = saved
      /\ rows' = [rows EXCEPT !.tracker[c] = "now"] /\ todo = <<>> /\ pending = {}
      /\ UNCHANGED <<stage, content, todo, code, types, tokens, evm, pending, stale>>
  BY DEF SetTrigger, caches, work, counters, DetectionInv, RowsAreRight, RecognitionInv, AttemptsTyped
<1>2. rows \in Tables
  BY DEF DetectionInv, RowsAreRight
<1>3. /\ rows'.token = rows.token /\ rows'.address = rows.address /\ rows'.dropped = rows.dropped
      /\ rows'.created = rows.created /\ rows'.early = rows.early
      /\ rows'.tracker = [rows.tracker EXCEPT ![c] = "now"]
  BY <1>1, <1>2 DEF Tables
<1>4. \A d \in Contracts : rows'.tracker[d] = IF d = c THEN "now" ELSE rows.tracker[d]
  BY <1>2, <1>3 DEF Tables
<1>5. \A kind, d : ~Occurs(kind, d, todo) /\ Once(kind, d, todo)
  BY <1>1 DEF Occurs, Once
<1>6. ASSUME NEW d \in Contracts PROVE ContractInv(d)'
  <2>1. ContractInv(d)
    BY DEF RecognitionInv
  <2>2. TodoOf(d)'
    BY <1>1, <1>3, <1>5, <2>1 DEF ContractInv, TodoOf, Born
  <2>6. (NoPlace(rows, d)' <=> NoPlace(rows, d)) /\ (OnePlace(rows, d)' <=> OnePlace(rows, d))
    <3>1. rows'.tracker[d] = "none" <=> rows.tracker[d] = "none"
      BY <1>1, <1>4
    <3> QED BY <1>3, <3>1 DEF NoPlace, OnePlace
  <2>7. NoPlace(saved, d)' = NoPlace(rows, d)' /\ OnePlace(saved, d)' = OnePlace(rows, d)'
    BY <1>1 DEF NoPlace, OnePlace
  <2>3. PlaceOf(d)' /\ AddressOf(d)'
    BY <1>1, <1>3, <2>1, <2>6, <2>7 DEF ContractInv, PlaceOf, AddressOf, Born
  <2>4. ViewOf(d)'
    BY <1>1, <1>3, <2>1 DEF ContractInv, ViewOf, Born
  <2>5. FoundOf(d)'
    BY <1>1 DEF FoundOf
  <2> QED BY <2>2, <2>3, <2>4, <2>5 DEF ContractInv
<1>7. AttemptsTyped'
  BY <1>1 DEF RecognitionInv, AttemptsTyped
<1> QED BY <1>6, <1>7 DEF RecognitionInv

\* The steps in which no block is at work and no table changes.
LEMMA QuietFound ==
    ASSUME RecognitionInv, stage # "block", stage' # "block",
           UNCHANGED <<rows, saved, types, tokens, evm, pending, stale, content, todo, code>>
    PROVE  RecognitionInv'
<1>1. ASSUME NEW c \in Contracts PROVE ContractInv(c)'
  <2>1. ContractInv(c)
    BY DEF RecognitionInv
  <2>2. TodoOf(c)'
    BY <2>1 DEF ContractInv, TodoOf, Born
  <2>3. PlaceOf(c)' /\ AddressOf(c)'
    BY <2>1 DEF ContractInv, PlaceOf, AddressOf, Born, NoPlace, OnePlace
  <2>4. ViewOf(c)'
    BY <2>1 DEF ContractInv, ViewOf, Born
  <2> QED BY <2>2, <2>3, <2>4 DEF ContractInv, FoundOf
<1>2. AttemptsTyped'
  BY DEF RecognitionInv, AttemptsTyped
<1> QED BY <1>1, <1>2 DEF RecognitionInv

LEMMA RecognitionStart == Init => RecognitionInv
<1> SUFFICES ASSUME Init PROVE RecognitionInv
  OBVIOUS
<1>1. none \in [Contracts -> Types] /\ \A c \in Contracts : none[c] = "none"
  BY DEF none, Types
<1>2. /\ stage = "off" /\ content = <<>> /\ todo = <<>> /\ pending = {} /\ stale = {}
      /\ types = none /\ tokens = [c \in Contracts |-> {}] /\ saved = rows
      /\ rows.token = none /\ rows.tracker = none /\ rows.address = none
      /\ rows.dropped = {} /\ rows.created = {} /\ rows.early = {}
  BY DEF Init, AgentInit
<1>3. ASSUME NEW c \in Contracts PROVE ContractInv(c)
  <2>1. TodoOf(c)
    BY <1>1, <1>2 DEF TodoOf, Once, Occurs, Born
  <2>2. PlaceOf(c) /\ AddressOf(c) /\ FoundOf(c)
    BY <1>1, <1>2 DEF PlaceOf, AddressOf, FoundOf, Born, NoPlace
  <2>3. ViewOf(c)
    BY <1>1, <1>2, KindIs DEF ViewOf, Born
  <2> QED BY <2>1, <2>2, <2>3 DEF ContractInv
<1>4. AttemptsTyped
  BY <1>1, <1>2 DEF AttemptsTyped
<1> QED BY <1>3, <1>4 DEF RecognitionInv

LEMMA RecognitionStep == DetectionInv /\ RecognitionInv /\ [Next]_vars => RecognitionInv'
<1> SUFFICES ASSUME DetectionInv, RecognitionInv, [Next]_vars PROVE RecognitionInv'
  OBVIOUS
<1>1. CASE stage = "off" /\ ScriptsNext /\ UNCHANGED agent
  BY <1>1, QuietFound DEF agent, tables, caches, work, counters
<1>2. CASE StartAgent
  BY <1>2, QuietFound DEF StartAgent, tables, caches, counters
<1>3. CASE NextBlock \/ CommitBlock \/ AttemptFails \/ Restart
  BY <1>3, BlockFound, CommitFound, FailFound, RestartFound
<1>4. ASSUME NEW c \in Contracts, CreateContract(c) \/ TypeCreation(c) \/ CollectAddress(c) \/ SetTrigger(c)
      PROVE  RecognitionInv'
  BY <1>4, CreateFound, TypeFound, CollectFound, TriggerFound
<1>5. ASSUME NEW c \in Contracts, NEW kind \in {"event", "now"}, LookAgain(kind, c) \/ NoNeed(kind, c)
      PROVE  RecognitionInv'
  BY <1>5, LookFound, NoNeedFound
<1>6. CASE UNCHANGED vars
  <2>1. UNCHANGED <<scripts, stage, rows, saved, types, tokens, evm, pending, stale, content, todo,
                    code, config, block, spoiled>>
    BY <1>6 DEF vars, agent, tables, caches, work, counters
  <2>2. CASE stage = "block"
    <3>1. ASSUME NEW c \in Contracts PROVE ContractInv(c)'
      BY <2>1, <2>2, OtherContract DEF RecognitionInv
    <3>2. AttemptsTyped'
      BY <2>1 DEF RecognitionInv, AttemptsTyped
    <3> QED BY <3>1, <3>2 DEF RecognitionInv
  <2>3. CASE stage # "block"
    BY <2>1, <2>3, QuietFound
  <2> QED BY <2>2, <2>3
<1> QED BY <1>1, <1>2, <1>3, <1>4, <1>5, <1>6 DEF Next

LEMMA RecognitionInvariant == Spec => [](DetectionInv /\ RecognitionInv)
<1>1. DetectionInv /\ RecognitionInv /\ [Next]_vars => RecognitionInv'
  BY RecognitionStep
<1> QED BY DetectionInvariant, RecognitionStart, <1>1, PTL DEF Spec
-----------------------------------------------------------------------------
(***************************************************************************)
(* No contract is lost and none is held twice: between blocks each one     *)
(* that was created has a token row or a tracker row or was given up,      *)
(* whatever failed and was analysed again.                                 *)
(***************************************************************************)
THEOREM PlaceOfContracts == Spec => []TokenOrTracked
<1>1. DetectionInv /\ RecognitionInv => TokenOrTracked
  <2> SUFFICES ASSUME DetectionInv, RecognitionInv, NEW c \in Created
               PROVE  Cardinality({place \in {"token", "tracker", "dropped"} :
                         CASE place = "token" -> saved.token[c] # "none"
                           [] place = "tracker" -> saved.tracker[c] # "none"
                           [] place = "dropped" -> c \in saved.dropped}) = 1
    BY DEF TokenOrTracked
  <2> DEFINE S == {place \in {"token", "tracker", "dropped"} :
                     CASE place = "token" -> saved.token[c] # "none"
                       [] place = "tracker" -> saved.tracker[c] # "none"
                       [] place = "dropped" -> c \in saved.dropped}
  <2>1. OnePlace(saved, c)
    BY DEF RecognitionInv, ContractInv, PlaceOf, Created, DetectionInv, RowsAreRight, Tables
  <2>2. S = {"token"} \/ S = {"tracker"} \/ S = {"dropped"}
    BY <2>1 DEF OnePlace
  <2> HIDE DEF S
  <2>3. Cardinality(S) = 1
    BY <2>2, FS_Singleton
  <2> QED BY <2>3 DEF S
<1> QED BY RecognitionInvariant, <1>1, PTL

(***************************************************************************)
(* Between blocks the tables, the map of types and the token caches agree, *)
(* and a restart would rebuild the map; but for what a failed attempt left *)
(* in ErcCache, and for contracts whose address was known before they were *)
(* created: those may have an address row that says ACCOUNT, and are then  *)
(* missing from the map after a restart.                                   *)
(***************************************************************************)
THEOREM CachesAgree == Spec => []ViewsAgree
<1>1. DetectionInv /\ RecognitionInv => ViewsAgree
  <2> SUFFICES ASSUME DetectionInv, RecognitionInv, stage = "idle", NEW c \in Contracts \ stale
               PROVE  /\ tokens[c] = Listed(saved.token[c])
                      /\ c \in Created \ saved.early =>
                            /\ types[c] = RebuiltTypes[c]
                            /\ types[c] = saved.address[c]
                            /\ types[c] = "EVM" => c \in evm
                      /\ c \in saved.early =>
                            /\ saved.address[c] \in {types[c], "ACCOUNT"}
                            /\ types[c] \in {RebuiltTypes[c], "EVM"}
                      /\ c \notin Created =>
                            /\ saved.address[c] \in {"none", "ACCOUNT"}
                            /\ types[c] = "none"
    BY DEF ViewsAgree
  <2>1. /\ ContractInv(c) /\ rows = saved /\ todo = <<>>
        /\ saved.token[c] \in TokenTypes \cup {"none"}
    BY DEF RecognitionInv, AttemptsTyped, DetectionInv, RowsAreRight, Tables
  <2>2. ~Occurs("create", c, todo)
    BY <2>1 DEF Occurs
  <2>3. RebuiltTypes[c] = IF saved.token[c] # "none" THEN saved.token[c]
                          ELSE IF saved.address[c] = "EVM" THEN "EVM" ELSE "none"
    BY DEF RebuiltTypes
  <2>4. tokens[c] = Listed(saved.token[c])
    BY <2>1 DEF ContractInv, ViewOf
  <2>5. ASSUME c \in Created
        PROVE  /\ \/ types[c] = Kind(saved.token[c])
                  \/ /\ types[c] = "none" /\ saved.token[c] = "none"
                     /\ saved.address[c] = "ACCOUNT" /\ c \in saved.early
               /\ \/ saved.address[c] = Kind(saved.token[c])
                  \/ saved.address[c] = "ACCOUNT" /\ c \in saved.early
               /\ types[c] = "EVM" => c \in evm \/ c \in saved.early
    BY <2>1, <2>5 DEF ContractInv, ViewOf, AddressOf, Born, Created
  <2>6. c \in saved.early => c \in Created
    BY <2>1 DEF ContractInv, AddressOf, Created
  <2>7. ASSUME c \notin Created PROVE saved.address[c] \in {"none", "ACCOUNT"} /\ types[c] = "none"
    BY <2>1, <2>2, <2>7 DEF ContractInv, ViewOf, AddressOf, Born, Created
  <2>8. ASSUME c \in Created \ saved.early
        PROVE  /\ types[c] = RebuiltTypes[c]
               /\ types[c] = saved.address[c]
               /\ types[c] = "EVM" => c \in evm
    BY <2>1, <2>3, <2>5, <2>8, KindIs DEF Kind
  <2>9. ASSUME c \in saved.early
        PROVE  saved.address[c] \in {types[c], "ACCOUNT"} /\ types[c] \in {RebuiltTypes[c], "EVM"}
    BY <2>1, <2>3, <2>5, <2>6, <2>9, KindIs DEF Kind
  <2> QED BY <2>4, <2>7, <2>8, <2>9
<1> QED BY RecognitionInvariant, <1>1, PTL

(***************************************************************************)
(* A tracked contract that emits a token event and is a token then is one  *)
(* in the tables the block commits, through every retry and restart; but   *)
(* for one whose detection was spoiled, one a failed attempt recognised    *)
(* and lost, and one a restart has forgotten because its address row says  *)
(* ACCOUNT since before its creation.                                      *)
(***************************************************************************)
THEOREM EmittingTokens == Spec => EmittingTokenIsFound
<1>1. ASSUME DetectionInv, RecognitionInv, CommitBlock,
             NEW c \in Contracts \ (stale \cup spoiled \cup Forgotten),
             saved.tracker[c] = "event",
             \E i \in 1..Len(content) : content[i] = <<"event", c>>,
             DetectionOf(c) \in TokenTypes
      PROVE  saved'.token[c] = DetectionOf(c)
  <2>1. stage = "block" /\ todo = <<>> /\ ContractInv(c)
    BY <1>1 DEF CommitBlock, RecognitionInv
  <2>2. ~Occurs("event", c, todo) /\ Occurs("event", c, content)
    BY <1>1, <2>1 DEF Occurs
  <2>3. types[c] # "none"
    <3>1. SUFFICES ASSUME types[c] = "none" PROVE c \in Forgotten
      BY <1>1
    <3>2. c \in saved.created /\ Born(c) /\ (c \in saved.early <=> c \in rows.early)
      BY <1>1, <2>1 DEF ContractInv, PlaceOf, NoPlace, TodoOf
    <3>3. rows.address[c] = "ACCOUNT" /\ c \in rows.early /\ rows.token[c] = "none"
      BY <1>1, <2>1, <3>1, <3>2 DEF ContractInv, ViewOf, Kind
    <3>4. saved.address[c] = "ACCOUNT"
      BY <2>1, <3>3 DEF ContractInv, AddressOf
    <3> QED BY <3>1, <3>2, <3>3, <3>4 DEF Forgotten
  <2>4. rows.token[c] = DetectionOf(c)
    BY <1>1, <2>1, <2>2, <2>3 DEF ContractInv, FoundOf
  <2>5. saved'.token = rows.token
    BY <1>1 DEF CommitBlock, DetectionInv, RowsAreRight, Tables
  <2> QED BY <2>4, <2>5
<1>2. DetectionInv /\ RecognitionInv =>
        (CommitBlock =>
           \A c \in Contracts \ (stale \cup spoiled \cup Forgotten) :
               ( /\ saved.tracker[c] = "event"
                 /\ \E i \in 1..Len(content) : content[i] = <<"event", c>>
                 /\ DetectionOf(c) \in TokenTypes )
               => saved'.token[c] = DetectionOf(c))
  BY <1>1
<1> QED BY RecognitionInvariant, <1>2, PTL DEF EmittingTokenIsFound
=============================================================================
