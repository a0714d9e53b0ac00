------------------------------- MODULE EspPost ------------------------------
(***************************************************************************)
(* PlatformHTTP::post of the ESP32 and ESP8266 (http/esp/http.cpp), on the *)
(* HTTPClient of the Arduino cores.  The client object lives across posts: *)
(* the headers it collected last are there until collectHeaders is called  *)
(* again.  The code HTTPClient::POST returns is not looked at, so a post   *)
(* nobody answered goes the way of one whose reply has no grpc-status: no  *)
(* header is atoi("") = 0 is OK, and the response is empty; and one that   *)
(* failed after the line of its grpc-status goes by what that line said.   *)
(*                                                                         *)
(* HTTPClient is external: begin() forgets the reply to an earlier post,   *)
(* collectHeaders empties the headers asked for, POST waits (setTimeout)   *)
(* for the headers of the reply, getString reads what arrives of the body. *)
(***************************************************************************)
EXTENDS Transport

CONSTANTS
    Status      \* Status[k]: its grpc-status, "none", "zero" or "nonzero"

ASSUME StatusAssumption == Status \in [Kinds -> {"none", "zero", "nonzero"}]

VARIABLES
    got,        \* of the reply to the latest post have come: "nothing" that
                \* counts, the "status" line, or all of the "headers"
    header      \* the grpc-status _httpClient has collected: post and value

espVars == <<pc, cur, reply, got, header, response, result>>

\* No header of that name has been collected.
NoHeader == [post |-> 0, value |-> "none"]

\* The grpc-message of the reply to post q, written as unit 0 of that reply.
Message(q) == <<<<q, 0>>>>

EspInit ==
    /\ Outside
    /\ got = "nothing"
    /\ header = NoHeader

EspBegin(k) ==
    /\ Enter(k, "initialize")
    /\ got' = "nothing"
    /\ UNCHANGED header

\* begin() refuses the URL.
InitializeFails ==
    /\ pc = "initialize"
    /\ pc' = "idle"
    /\ result' = "ERROR_HTTP"
    /\ UNCHANGED <<cur, reply, got, header, response>>

\* Fault: no collectHeaders.
InitializeKeepsHeader ==
    /\ pc = "initialize"
    /\ pc' = "post"
    /\ UNCHANGED <<cur, reply, got, header, response, result>>

\* begin(), then collectHeaders.
Initialize ==
    /\ pc = "initialize"
    /\ pc' = "post"
    /\ header' = NoHeader
    /\ UNCHANGED <<cur, reply, got, response, result>>

\* What is collected once the line of the grpc-status has come, if there is one.
Collected ==
    IF Status[reply] = "none" THEN header ELSE [post |-> cur, value |-> Status[reply]]

\* POST returns with the headers of the reply.
PostAnswered ==
    /\ pc = "post"
    /\ pc' = "body"
    /\ got' = "headers"
    /\ header' = Collected
    /\ UNCHANGED <<cur, reply, response, result>>

\* POST returns an error: no connection, or no end of the headers within the
\* timeout, before or after the line of the grpc-status.
PostFails ==
    /\ pc = "post"
    /\ pc' = "body"
    /\ got' \in {"nothing", "status"}
    /\ header' = IF got' = "nothing" THEN header ELSE Collected
    /\ UNCHANGED <<cur, reply, response, result>>

\* getString: nothing after a failed POST, else what came before the timeout.
GetString ==
    /\ pc = "body"
    /\ pc' = "status"
    /\ \E n \in 0..BodyLen :
        /\ got # "headers" => n = 0
        /\ response' = Body(cur, n)
    /\ UNCHANGED <<cur, reply, got, header, result>>

\* atoi of the header: no header counts as OK.
Refused == header.value = "nonzero"

JudgeStatus ==
    /\ pc = "status"
    /\ pc' = "idle"
    /\ IF Refused
       THEN /\ response' = Message(header.post)
            /\ result' = "ERROR_GRPC"
       ELSE /\ result' = "SUCCESS"
            /\ UNCHANGED response
    /\ UNCHANGED <<cur, reply, got, header>>

\* The steps of a post that has begun.
EspStep ==
    \/ InitializeFails
    \/ Initialize
    \/ PostAnswered
    \/ PostFails
    \/ GetString
    \/ JudgeStatus

EspNext ==
    \/ \E k \in Kinds : EspBegin(k)
    \/ EspStep

EspSpec == EspInit /\ [][EspNext]_espVars

-----------------------------------------------------------------------------
(* Properties *)

EspTypeOK ==
    /\ pc \in {"idle", "initialize", "post", "body", "status"}
    /\ cur \in 0..MaxPosts
    /\ reply \in Kinds
    /\ got \in {"nothing", "status", "headers"}
    /\ header \in [post : 0..MaxPosts, value : {"none", "zero", "nonzero"}]
    /\ \/ response = Message(cur)
       \/ \E n \in 0..BodyLen : response = Body(cur, n)
    /\ result \in {"NONE", "SUCCESS", "ERROR_HTTP", "ERROR_GRPC"}

\* A post is a gRPC error exactly when its own reply came, as far as the line
\* that refuses it: the grpc-status of an earlier reply, which the client object
\* may still hold, never decides about a later post.
RefusedByOwnReply ==
    result \in {"SUCCESS", "ERROR_GRPC"} =>
        (result = "ERROR_GRPC" <=> got # "nothing" /\ Status[reply] = "nonzero")
=============================================================================
