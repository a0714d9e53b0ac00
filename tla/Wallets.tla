------------------------------ MODULE Wallets -------------------------------
(***************************************************************************)
(* The six calls of api/wallet/wallets.cpp, composed with the promise of   *)
(* IHTTP::post (HttpPost).  A call builds a request (api/rpc.cpp), posts   *)
(* it, parses the response (protobuf/pb_api.cpp) into a local response     *)
(* object, and only then copies it to the caller's out parameter.          *)
(*                                                                         *)
(* A reply is abstracted to the one fault it has, [field, fault]:          *)
(*    none      a well-formed answer to the call                           *)
(*    missing   `field` is absent, too long or of another JSON type (an    *)
(*              error object misses the first field of every answer)       *)
(*    odd       `field` is a string as it should be, whose text is not a   *)
(*              number, or not 32 bytes of hex                             *)
(*    notJson   not JSON at all, be there a '{' in it or not               *)
(*    headerJson, headerText   a well-formed answer behind a header with a *)
(*              '{' in it, of a JSON object that ends with the header and  *)
(*              has none of our fields, or of some other text              *)
(* A proper prefix of a JSON object is not JSON either; of what follows an *)
(* object cJSON_Parse takes no notice.                                     *)
(*                                                                         *)
(* An out parameter is abstracted to the post it was copied from and the   *)
(* fields of it that do not hold what that reply said.                     *)
(***************************************************************************)
EXTENDS HttpPost

ActionHead == <<"actionInfo", "action", "core">>
ActionCoreHead == <<"senderPubKey", "signature", "version", "core.nonce", "gasLimit", "gasPrice">>
ActionTail == <<"actHash", "blkHash", "timestamp", "blkHeight", "sender", "gasFee">>

\* The fields fromJson reads for each call, in the order it reads them.
Fields == [
    getAccount |-> <<"accountMeta", "address", "balance", "nonce",
                     "pendingNonce", "numActions", "isContract">>,
    getBalance |-> <<"accountMeta", "balance">>,
    getTransactionByHash |->
        ActionHead \o <<"transfer">> \o ActionCoreHead
            \o <<"amount", "recipient", "payload">> \o ActionTail,
    getExecutionByHash |->
        ActionHead \o <<"execution">> \o ActionCoreHead
            \o <<"amount", "contract", "data">> \o ActionTail,
    sendTokenTransfer |-> <<"actionHash">>,
    sendExecution |-> <<"actionHash">>]

Ops == DOMAIN Fields
FieldSet(o) == {Fields[o][i] : i \in DOMAIN Fields[o]}
AllFields == UNION {FieldSet(o) : o \in Ops}

\* The strings the code goes on to read as a number or as hex.
ConvertedFields == {"core.nonce", "gasLimit", "actionHash"}

GoodReply == [field |-> "-", fault |-> "none"]
NotJson == [field |-> "-", fault |-> "notJson"]
HeaderFaults == {"headerJson", "headerText"}

\* What a server may answer to call o.
RepliesTo(o) ==
    {GoodReply, NotJson}
        \cup [field : {"-"}, fault : HeaderFaults]
        \cup [field : FieldSet(o), fault : {"missing"}]
        \cup [field : FieldSet(o) \cap ConvertedFields, fault : {"odd"}]

ASSUME KindsAssumption == Kinds \subseteq UNION {RepliesTo(o) : o \in Ops}

\* A JSON body begins with its '{', which is the first but for those of headers.
ASSUME JsonStartAssumption ==
    \A k \in Kinds :
        /\ k.fault \in HeaderFaults => Start[k] < HeaderLen
        /\ k.fault \in {"none", "missing", "odd"} => Start[k] = HeaderLen

VARIABLES
    op,     \* the latest call
    stage,  \* where it is: "idle", "post" or "decode"
    ret,    \* what it returned, "NONE" while it runs
    out     \* out[o]: the caller's out parameter for call o

callVars == <<op, stage, ret, out>>
allVars == <<phase, cur, reply, response, result, op, stage, ret, out>>

WInit ==
    /\ Init
    /\ op = "getAccount"
    /\ stage = "idle"
    /\ ret = "NONE"
    /\ out = [o \in Ops |-> [post |-> 0, missing |-> FieldSet(o)]]

\* The application calls o: the request is built and posted.
Call(o, k) ==
    /\ stage = "idle"
    /\ k \in RepliesTo(o)
    /\ Begin(k)
    /\ op' = o
    /\ stage' = "post"
    /\ ret' = "NONE"
    /\ UNCHANGED out

\* post() fails: getAccount says ERROR_HTTP, the others pass the code on.
PostFails ==
    /\ stage = "post"
    /\ Fail
    /\ stage' = "idle"
    /\ ret' = IF op = "getAccount" THEN "ERROR_HTTP" ELSE result'
    /\ UNCHANGED <<op, out>>

PostSucceeds ==
    /\ stage = "post"
    /\ Succeed
    /\ stage' = "decode"
    /\ UNCHANGED <<op, ret, out>>

\* The platform took a '{' of a header for the start of the body.
FromHeader == response # <<>> /\ response[1][2] <= HeaderLen

\* cJSON_Parse accepts the response: it begins with JSON, and all of it is there.
Parses ==
    IF FromHeader
    THEN reply.fault = "headerJson" /\ Len(response) >= HeaderLen - Start[reply]
    ELSE reply.fault # "notJson" /\ response = Body(cur, BodyLen)

\* The answer fromJson gets to see; an object out of a header lacks everything.
Seen ==
    CASE FromHeader -> [field |-> Fields[op][1], fault |-> "missing"]
      [] ~FromHeader /\ reply.fault \in HeaderFaults -> GoodReply
      [] OTHER -> reply

\* Fault: getAccount does without the account object as well.
StopsParseLess(o, k) == k.fault = "missing" /\ k.field # "accountMeta"

\* A field that is missing stops fromJson with ERROR_JSON_PARSE, except for
\* the account object in getBalance, which is then silently left alone.
StopsParse(o, k) ==
    k.fault = "missing" /\ ~(o = "getBalance" /\ k.field = "accountMeta")

FieldsFrom(o, f) ==
    {g \in FieldSet(o) : \E i, j \in DOMAIN Fields[o] :
        i <= j /\ Fields[o][i] = f /\ Fields[o][j] = g}

\* The fields that are not filled from a reply k that parses.  A nonce that
\* is no number ends fromJson with the SUCCESS of the step before; a gas limit
\* that is none is read by atol as another number; a hash that is not 32 bytes
\* of hex is refused by str2hex, whose result is not looked at.
Unfilled(o, k) ==
    CASE k.fault = "none" -> {}
      [] k.fault = "odd" /\ k.field # "core.nonce" -> {k.field}
      [] OTHER -> FieldsFrom(o, k.field)

\* fromJson, then the copy to the out parameter.
DecodeOk ==
    /\ stage = "decode"
    /\ Parses
    /\ ~StopsParse(op, Seen)
    /\ stage' = "idle"
    /\ ret' = "SUCCESS"
    /\ out' = [out EXCEPT ![op] = [post |-> cur, missing |-> Unfilled(op, Seen)]]
    /\ UNCHANGED <<vars, op>>

\* Fault: the fields read so far are copied out all the same.
DecodeFailsCopies ==
    /\ stage = "decode"
    /\ ~Parses \/ StopsParse(op, Seen)
    /\ stage' = "idle"
    /\ ret' = "ERROR_JSON_PARSE"
    /\ out' = [out EXCEPT ![op] = [post |-> cur, missing |-> Unfilled(op, Seen)]]
    /\ UNCHANGED <<vars, op>>

DecodeFails ==
    /\ stage = "decode"
    /\ ~Parses \/ StopsParse(op, Seen)
    /\ stage' = "idle"
    /\ ret' = "ERROR_JSON_PARSE"
    /\ UNCHANGED <<vars, op, out>>

WNext ==
    \/ \E o \in Ops, k \in Kinds : Call(o, k)
    \/ PostFails
    \/ PostSucceeds
    \/ DecodeOk
    \/ DecodeFails

WSpec == WInit /\ [][WNext]_allVars

-----------------------------------------------------------------------------
(* Properties *)

Rets == {"NONE", "SUCCESS", "ERROR_JSON_PARSE"} \cup Errors

WTypeOK ==
    /\ cur \in 0..MaxPosts
    /\ reply \in Kinds
    /\ op \in Ops
    /\ stage \in {"idle", "post", "decode"}
    /\ phase = IF stage = "post" THEN "posting" ELSE "idle"
    /\ result \in {"NONE", "SUCCESS"} \cup Errors
    /\ ret \in Rets
    /\ out \in [Ops -> [post : 0..MaxPosts, missing : SUBSET AllFields]]

\* A call that fails, at the transport or half way through the fields of the
\* reply, leaves the caller with what it had, in every out parameter; and no
\* call touches the out parameter of another.
FailureKeepsOutput ==
    [][out' # out => /\ ret' = "SUCCESS"
                     /\ \A o \in Ops \ {op} : out'[o] = out[o]]_allVars

\* A call that returns SUCCESS without having read every field says so of no
\* reply but two: one with a text that is no number or no hash, and one with no
\* account object for getBalance, as the JSON out of a header is.  getAccount,
\* from which the nonce of the next action comes, is all or nothing.
AccountIsWhole ==
    stage = "idle" /\ ret = "SUCCESS" /\ out[op].missing # {} =>
        /\ op # "getAccount"
        /\ \/ reply.fault = "odd"
           \/ op = "getBalance"
                 /\ (reply.field = "accountMeta" \/ reply.fault = "headerJson")
=============================================================================
