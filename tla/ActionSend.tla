----------------------------- MODULE ActionSend -----------------------------
(***************************************************************************)
(* How an Account sends an action (account/account.h, account.cpp): the    *)
(* core of the action is encoded as protobuf (encoder/encoder.cpp) into a  *)
(* buffer of Capacity bytes, hashed and signed; then the same core is      *)
(* written as JSON (api/rpc.cpp) and posted with the signature.  The chain *)
(* reads the JSON, encodes what it says as protobuf, and takes the action  *)
(* when the signature is one of that encoding and the nonce is the one the *)
(* account is at.  The request or the reply may be lost; a request that    *)
(* was given up may get to the chain later, behind others; and somebody    *)
(* else who has the key may get an action in between.                      *)
(*                                                                         *)
(* An action is [kind, body, data, form]: body stands for amount,          *)
(* recipient or contract and the data, data is the number of bytes the     *)
(* data text of an execution has, and form is how that text is written:    *)
(* "hex", "0x" with that prefix, "odd" with half a byte more, or "bad"     *)
(* with a character that is no digit.  A hash is taken to be as good as    *)
(* what was hashed.                                                        *)
(*                                                                         *)
(* The chain is external.  pb_encode (nanopb) writes nothing of a          *)
(* submessage that does not fit in what is left of the buffer.             *)
(***************************************************************************)
EXTENDS Naturals, Sequences, SequencesExt

CONSTANTS
    Actions,    \* the actions an application sends
    ChainIds,   \* the chain ids it puts in a transfer it builds itself
    Nonces,     \* the nonces it passes
    HeadSize,   \* bytes of a core before the data of an execution
    Capacity,   \* bytes of encodedCore (1024)
    MaxSends,   \* bound: actions sent
    MaxOthers   \* bound: actions of the same account that somebody else sent

ASSUME ActionsAssumption ==
    \A a \in Actions : a \in [kind : {"transfer", "execution"}, body : {a.body},
                              data : Nat, form : {"hex", "0x", "odd", "bad"}]
ASSUME NoncesAssumption == Nonces \subseteq Nat
ASSUME SizesAssumption == HeadSize \in Nat /\ Capacity \in Nat /\ HeadSize <= Capacity
ASSUME ChainIdsAssumption == ChainIds \subseteq Nat
ASSUME BoundsAssumption == MaxSends \in Nat /\ MaxOthers \in Nat

VARIABLES
    pc,         \* "idle", "sign", "post", "chain" or "reply"
    core,       \* the ActionCore of the latest send
    signed,     \* what the signature of it was made of
    overrun,    \* the base64 text of its data ran past base64Data
    verdict,    \* what the chain made of it, "NONE" when it never got there
    ret,        \* what the send returned, "NONE" while it runs
    asked,      \* every core the application asked to send
    late,       \* requests given up that may still get to the chain
    accepted,   \* the sends the chain took, by number, in the order it took them
    others      \* actions the chain took from somebody else with the key

vars == <<pc, core, signed, overrun, verdict, ret, asked, late, accepted, others>>

\* The nonce the account is at: its next action has to have it.
Pending == Len(accepted) + others + 1

\* signer.str2hex into data.length() / 2 bytes that were zeroed, as encoder
\* and rpc both do it without a look at the result: behind a prefix the text
\* is a byte shorter than the buffer, a digit too many goes behind the bytes
\* that are encoded, and a bad digit ends the conversion.
Converted(a) ==
    IF a.kind = "transfer" THEN a
    ELSE
    CASE a.form = "hex" -> a
      [] a.form = "0x" -> [a EXCEPT !.data = a.data + 1, !.form = "hex then a zero"]
      [] a.form = "odd" -> [a EXCEPT !.form = "hex"]
      [] a.form = "bad" -> [a EXCEPT !.form = "hex then zeros"]

DataBytes(a) == IF a.kind = "transfer" THEN 0 ELSE Converted(a).data

Cut == [kind |-> "cut"]
Spoilt == [kind |-> "spoilt"]

\* Fault: the buffer takes anything.
EncodedInFull(c, n) ==
    [version |-> 1, nonce |-> c.nonce, size |-> DataBytes(c.action),
     action |-> Converted(c.action)]

\* pb_encode of the core, into a buffer of n bytes.  The chain id is not in it.
Encoded(c, n) ==
    [version |-> 1, nonce |-> c.nonce, size |-> DataBytes(c.action),
     action |-> IF HeadSize + DataBytes(c.action) <= n THEN Converted(c.action) ELSE Cut]

\* What the chain encodes: the core it read from the JSON, in full.  A chain id
\* other than 0 is a field of it.
ChainEncoded(json) ==
    [version |-> 1, nonce |-> json.nonce, size |-> DataBytes(json.action),
     action |-> Converted(json.action)]

\* bintob64: the characters for n bytes, and the terminator.
Base64Size(n) == 4 * ((n + 2) \div 3) + 1

Core(a, n, c) == [action |-> a, nonce |-> n, chainId |-> c]

Init ==
    /\ pc = "idle"
    /\ \E a \in Actions : core = Core(a, 0, 0)
    /\ signed = Cut
    /\ overrun = FALSE
    /\ verdict = "NONE"
    /\ ret = "NONE"
    /\ asked = <<>>
    /\ late = {}
    /\ accepted = <<>>
    /\ others = 0

\* sendTokenTransferAction and sendExecutionAction, with chain id 0, or a
\* transfer the application built, signed and sent by itself.
Send(a, n, c) ==
    /\ pc = "idle"
    /\ Len(asked) < MaxSends
    /\ a.kind = "execution" => c = 0
    /\ pc' = "sign"
    /\ core' = Core(a, n, c)
    /\ asked' = Append(asked, Core(a, n, c))
    /\ overrun' = FALSE
    /\ verdict' = "NONE"
    /\ ret' = "NONE"
    /\ UNCHANGED <<signed, late, accepted, others>>

\* Fault: off by one in the size of the buffer.
SignShort ==
    /\ pc = "sign"
    /\ pc' = "post"
    /\ signed' = Encoded(core, Capacity - 1)
    /\ UNCHANGED <<core, overrun, verdict, ret, asked, late, accepted, others>>

\* signTokenTransferAction, signExecutionAction: whatever pb_encode wrote.
Sign ==
    /\ pc = "sign"
    /\ pc' = "post"
    /\ signed' = Encoded(core, Capacity)
    /\ UNCHANGED <<core, overrun, verdict, ret, asked, late, accepted, others>>

\* Wallets::sendTokenTransfer and sendExecution of api/rpc.cpp, and the post.
\* The digit too many of an odd text is written behind data: to nothing that
\* matters, or to the text of the signature or of the key.
Post ==
    /\ pc = "post"
    /\ pc' = "chain"
    /\ overrun' = /\ core.action.kind = "execution"
                  /\ Base64Size(DataBytes(core.action)) > 2 * DataBytes(core.action)
    /\ \/ UNCHANGED signed
       \/ /\ core.action.kind = "execution" /\ core.action.form = "odd"
          /\ signed' = Spoilt
    /\ UNCHANGED <<core, verdict, ret, asked, late, accepted, others>>

\* The request of the latest send: its JSON says asked[send].
Request == [send |-> Len(asked), signed |-> signed]

\* What the chain asks of a request before it takes the action.
Taken(r) ==
    LET json == asked[r.send]
    IN  /\ r.signed = ChainEncoded(json)
        /\ json.chainId = 0
        /\ json.nonce = Pending

ChainAccepts ==
    /\ pc = "chain"
    /\ Taken(Request)
    /\ pc' = "reply"
    /\ verdict' = "accepted"
    /\ accepted' = Append(accepted, Len(asked))
    /\ UNCHANGED <<core, signed, overrun, ret, asked, late, others>>

ChainRefuses ==
    /\ pc = "chain"
    /\ ~Taken(Request)
    /\ pc' = "reply"
    /\ verdict' = "refused"
    /\ UNCHANGED <<core, signed, overrun, ret, asked, late, accepted, others>>

\* Fault: the request goes out again until there is an answer.
RequestLostAgain ==
    /\ pc = "chain"
    /\ pc' = "post"
    /\ UNCHANGED <<core, signed, overrun, verdict, ret, asked, late, accepted, others>>

\* The transport gives up.  Whether the request is gone, nobody knows.
RequestLost ==
    /\ pc = "chain"
    /\ pc' = "idle"
    /\ ret' = "ERROR_HTTP"
    /\ late' = late \cup {Request}
    /\ UNCHANGED <<core, signed, overrun, verdict, asked, accepted, others>>

\* A request that was given up gets to the chain, and nobody sees the reply.
LateArrives(r) ==
    /\ late' = late \ {r}
    /\ accepted' = IF Taken(r) THEN Append(accepted, r.send) ELSE accepted
    /\ UNCHANGED <<pc, core, signed, overrun, verdict, ret, asked, others>>

\* Fault: an error object passes for an answer.
ReplyTaken ==
    /\ pc = "reply"
    /\ pc' = "idle"
    /\ ret' = "SUCCESS"
    /\ UNCHANGED <<core, signed, overrun, verdict, asked, late, accepted, others>>

\* The reply to a refused action is an error object, or an error status.
Reply ==
    /\ pc = "reply"
    /\ pc' = "idle"
    /\ IF verdict = "accepted"
       THEN ret' = "SUCCESS"
       ELSE ret' \in {"ERROR_JSON_PARSE", "ERROR_GRPC"}
    /\ UNCHANGED <<core, signed, overrun, verdict, asked, late, accepted, others>>

\* No reply, a reply cut short, or a status that the transport misread.
ReplyLost ==
    /\ pc = "reply"
    /\ pc' = "idle"
    /\ ret' \in {"ERROR_HTTP", "ERROR_JSON_PARSE", "ERROR_GRPC"}
    /\ UNCHANGED <<core, signed, overrun, verdict, asked, late, accepted, others>>

\* Another board with the same key gets an action to the chain.
OthersSend ==
    /\ others < MaxOthers
    /\ others' = others + 1
    /\ UNCHANGED <<pc, core, signed, overrun, verdict, ret, asked, late, accepted>>

\* A send under way goes on.
Step ==
    \/ Sign
    \/ Post
    \/ ChainAccepts
    \/ ChainRefuses
    \/ RequestLost
    \/ Reply
    \/ ReplyLost

Next ==
    \/ \E a \in Actions, n \in Nonces, c \in ChainIds \cup {0} : Send(a, n, c)
    \/ Step
    \/ \E r \in late : LateArrives(r)
    \/ OthersSend

Spec == Init /\ [][Next]_vars

-----------------------------------------------------------------------------
(* Properties *)

TypeOK ==
    /\ pc \in {"idle", "sign", "post", "chain", "reply"}
    /\ core.action \in Actions
    /\ core.nonce \in Nat
    /\ core.chainId \in ChainIds \cup {0}
    /\ overrun \in BOOLEAN
    /\ verdict \in {"NONE", "accepted", "refused"}
    /\ ret \in {"NONE", "SUCCESS", "ERROR_HTTP", "ERROR_JSON_PARSE", "ERROR_GRPC"}
    /\ Len(asked) <= MaxSends
    /\ accepted \in Seq(1..MaxSends)
    /\ \A r \in late : r.send \in DOMAIN asked
    /\ others \in 0..MaxOthers

Fits(a) == HeadSize + DataBytes(a) <= Capacity

\* The JSON and the protobuf of a core agree on everything the chain checks:
\* an action that gets there with the nonce the account is at is refused only
\* when its core does not fit in encodedCore or names a chain, or when half a
\* byte of its data was written over something else.
RefusedForAReason ==
    [][verdict = "NONE" /\ verdict' = "refused" =>
        \/ core.nonce # Pending
        \/ core.chainId # 0
        \/ ~Fits(core.action)
        \/ core.action.form = "odd"]_vars

\* An action whose core does not fit is signed for its first fields and its
\* size only; that signature never gets it accepted, neither in time nor late.
CutIsNeverAccepted ==
    \A i \in DOMAIN accepted :
        LET c == asked[accepted[i]] IN Fits(c.action) /\ c.chainId = 0

\* The chain takes each action at most once for a send that asked for it, also
\* when the request gets there behind those of later sends; and a send that
\* returned SUCCESS had its own action taken, whatever came late before it.
AcceptedWasAsked ==
    /\ \A i \in DOMAIN accepted : accepted[i] \in DOMAIN asked
    /\ \A i, j \in DOMAIN accepted : accepted[i] = accepted[j] => i = j
    /\ ret = "SUCCESS" => \E i \in DOMAIN accepted : accepted[i] = Len(asked)

\* base64Data has room for the text of the data, as rpc.cpp says of its size:
\* "Double the size is enough for a base64 encoded message".
DoubleIsEnough == ~overrun
=============================================================================
