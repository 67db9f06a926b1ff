---------------------------- MODULE ErcDetection ----------------------------
(***************************************************************************)
(* What a contract is taken for.  The same questions are asked twice: by   *)
(* the contract PScanQueryFacade, which answers all of them in one call,   *)
(* and by ErcDetectService itself for blocks from before the facade.  Both *)
(* return a bitmap; they differ in what a missing or unreadable answer     *)
(* does.  A contract is known here by its answers only: the interfaces it  *)
(* claims and what each method does with a call.                           *)
(***************************************************************************)
EXTENDS Integers

Interfaces == {"erc165", "erc721", "metadata", "enumerable", "erc1155", "uri"}
Methods == <<"decimals", "name", "symbol", "totalSupply">>
MethodNames == {"decimals", "name", "symbol", "totalSupply"}

\* A method may return a value, a blank name, nothing that can be decoded (a
\* fallback that answers everything, a name of type bytes32), or revert.
Answers == {"value", "blank", "garbled", "reverts"}

Contract == [code : BOOLEAN, supports : SUBSET Interfaces, answer : [MethodNames -> Answers]]

TokenTypes == {"ERC20", "ERC721", "ERC1155"}

Answered(p, method) == p.answer[method] \in {"value", "blank"}

Bit(condition, value) == IF condition THEN value ELSE 0

\* Every interface is asked for only if the contract supports ERC165.
Supports(p, interface) == {"erc165", interface} \subseteq p.supports

Is721(p) == p.code /\ Supports(p, "erc721")
Is1155(p) == p.code /\ ~Is721(p) /\ Supports(p, "erc1155")

\* The first two questions; both bitmaps begin with the bit of ERC165.
Erc721Bitmap(p) == 2 + 4 + Bit(Supports(p, "metadata"), 8) + Bit(Supports(p, "enumerable"), 16)

\* mutant: the bitmap starts anew, without the bit of ERC165
Erc1155BitmapAnew(p) == 32 + Bit(Supports(p, "uri"), 64)

Erc1155Bitmap(p) == 2 + 32 + Bit(Supports(p, "uri"), 64)

\* The last one starts over: the methods are called in turn, up to the first
\* that does not answer.
Erc20Bitmap(p) == Bit(p.code /\ \A method \in MethodNames : Answered(p, method), 1)

Bitmap(p) ==
    IF Is721(p) THEN Erc721Bitmap(p)
    ELSE IF Is1155(p) THEN Erc1155Bitmap(p)
    ELSE Erc20Bitmap(p)

\* Solidity's try catches a revert, not an answer that cannot be decoded, and
\* the name and supply of an ERC721 are asked for without try.
FacadeFails(p) ==
    \/ /\ Is721(p)
       /\ \/ Supports(p, "metadata") /\ ~(Answered(p, "name") /\ Answered(p, "symbol"))
          \/ Supports(p, "enumerable") /\ ~Answered(p, "totalSupply")
    \/ /\ Is1155(p)
       /\ "garbled" \in {p.answer["name"], p.answer["symbol"]}
    \/ /\ p.code /\ ~Is721(p) /\ ~Is1155(p)
       /\ \E i \in 1..4 :
             /\ p.answer[Methods[i]] = "garbled"
             /\ \A j \in 1 .. i - 1 : Answered(p, Methods[j])

\* mutant: an ERC721 with everything optional is taken for an ERC1155
BitmapTypeOffByOne(bitmap) ==
    IF bitmap >= 30 THEN "ERC1155"
    ELSE IF bitmap > 1 THEN "ERC721"
    ELSE IF bitmap > 0 THEN "ERC20"
    ELSE "UNKNOWN"

BitmapType(bitmap) ==
    IF bitmap > 30 THEN "ERC1155"
    ELSE IF bitmap > 1 THEN "ERC721"
    ELSE IF bitmap > 0 THEN "ERC20"
    ELSE "UNKNOWN"

\* getContractId: an ERC20 has to have a name and a symbol.
DetectedType(p) ==
    IF BitmapType(Bitmap(p)) = "ERC20" /\ "blank" \in {p.answer["name"], p.answer["symbol"]}
    THEN "UNKNOWN"
    ELSE BitmapType(Bitmap(p))

\* The types ErcDetectService may find in p when the node answers some of its
\* calls with an error: detectInputData returns null for one that is not a
\* timeout, so that the interface counts as missing and the next question is
\* asked, and an ERC20 without all of its methods is none.
Misread(p) ==
    {DetectedType([p EXCEPT !.supports = claims]) : claims \in SUBSET p.supports} \cup {"UNKNOWN"}
-----------------------------------------------------------------------------
(***************************************************************************)
(* By the standards: which of them a contract meets, and the first one.    *)
(***************************************************************************)
Meets(p) ==
    {type \in TokenTypes :
        \/ type = "ERC721" /\ Is721(p)
        \/ type = "ERC1155" /\ p.code /\ Supports(p, "erc1155")
        \/ /\ type = "ERC20" /\ p.code /\ \A method \in MethodNames : Answered(p, method)
           /\ "blank" \notin {p.answer["name"], p.answer["symbol"]}}

Standard(p) ==
    IF Is721(p) THEN "ERC721" ELSE IF Is1155(p) THEN "ERC1155" ELSE "ERC20"
-----------------------------------------------------------------------------
AllAnswer(answer) == [method \in MethodNames |-> answer]
Token(interfaces) ==
    [code |-> TRUE, supports |-> interfaces, answer |-> AllAnswer("value")]

Plain == [code |-> TRUE, supports |-> {}, answer |-> AllAnswer("reverts")]
Account == [code |-> FALSE, supports |-> {}, answer |-> AllAnswer("garbled")]
Erc20 == Token({})
Fallback == [code |-> TRUE, supports |-> {}, answer |-> AllAnswer("garbled")]
Unnamed721 == [code |-> TRUE, supports |-> {"erc165", "erc721", "metadata"},
               answer |-> AllAnswer("reverts")]
Full721 == Token({"erc165", "erc721", "metadata", "enumerable"})

\* The samples execute-pScanQueryFacade.js asks about, in its order ...
Samples == <<Plain, Account, Erc20,
             Token({"erc165", "erc721"}),
             Token({"erc165", "erc721", "metadata"}),
             Full721,
             Token({"erc165", "erc1155"}),
             Token({"erc165", "erc1155", "uri"}),
             Token({"erc165", "erc1155", "uri"})>>

\* ... and the bitmaps the comment over ercInfo2ErcContractId lists for them.
DocumentedBitmaps == <<0, 0, 1, 6, 14, 30, 34, 98, 98>>
=============================================================================
