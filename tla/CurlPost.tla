------------------------------ MODULE CurlPost ------------------------------
(***************************************************************************)
(* PlatformHTTP::post of the OS build (http/os/http.cpp), on libcurl.      *)
(* curl_easy_perform calls headerCallback and writeCallback in whatever    *)
(* order the reply brings header lines, body chunks and trailers, and      *)
(* returns CURLE_OK only when it has all of the reply.                     *)
(*                                                                         *)
(* Two reads of memory nobody wrote are choices over what they can give.   *)
(* grpcStatus.code is uninitialised, so a reply without a grpc-status line *)
(* is judged by what the stack held.  headerCallback copies the two bytes  *)
(* behind the colon into a buffer of one and measures it with strlen: for  *)
(* a zero right there the outcome may be OK or another code.  For a zero   *)
(* behind a space, which is no digit, and for any other status it never is *)
(* OK.                                                                     *)
(*                                                                         *)
(* libcurl is external: it allocates handles and delivers the reply.       *)
(***************************************************************************)
EXTENDS Transport

CONSTANTS
    StatusLines \* StatusLines[k]: the grpc-status lines of a reply of kind k

\* A grpc-status line: "grpc-status:0", "grpc-status: 0" or another status.
Lines == {"zero", "spaced", "nonzero"}

ASSUME StatusLinesAssumption == StatusLines \in [Kinds -> Seq(Lines)]

VARIABLES
    code,       \* grpcStatus.code, "OK" or "OTHER"
    lines,      \* grpc-status lines headerCallback has seen in this post
    handles,    \* easy handles allocated and not cleaned up
    slists,     \* lists of request headers allocated and not freed
    globals,    \* curl_global_init calls without a curl_global_cleanup
    transfers,  \* posts that got a handle (history)
    failures    \* transfers that did not end with CURLE_OK (history)

libVars == <<handles, slists, globals, transfers, failures>>
curlVars == <<pc, cur, reply, code, lines, response, result, libVars>>

Codes == {"OK", "OTHER"}

CurlInit ==
    /\ Outside
    /\ code = "OK"
    /\ lines = 0
    /\ handles = 0
    /\ slists = 0
    /\ globals = 0
    /\ transfers = 0
    /\ failures = 0

\* post() is entered: curl_global_init, and a GrpcStatus on the stack.
CurlBegin(k) ==
    /\ Enter(k, "init")
    /\ code' \in Codes
    /\ lines' = 0
    /\ globals' = globals + 1
    /\ UNCHANGED <<handles, slists, transfers, failures>>

\* A handle, and curl_slist_append of a header to it; post() has no
\* curl_slist_free_all.
EasyInit ==
    /\ pc = "init"
    /\ pc' = "perform"
    /\ handles' = handles + 1
    /\ slists' = slists + 1
    /\ transfers' = transfers + 1
    /\ UNCHANGED <<cur, reply, code, lines, response, result, globals, failures>>

\* curl_easy_init returns nullptr: nothing is sent.
EasyInitFails ==
    /\ pc = "init"
    /\ pc' = "cleanup"
    /\ UNCHANGED <<cur, reply, code, lines, response, result, libVars>>

\* What headerCallback makes of a grpc-status line.
ParsedStatus(line) == IF line = "zero" THEN Codes ELSE {"OTHER"}

\* Fault: the first line decides, a trailer does not.
HeaderCallbackOnce ==
    /\ pc = "perform"
    /\ lines < Len(StatusLines[reply])
    /\ lines' = lines + 1
    /\ IF lines = 0
       THEN code' \in ParsedStatus(StatusLines[reply][1])
       ELSE UNCHANGED code
    /\ UNCHANGED <<pc, cur, reply, response, result, libVars>>

\* The last line to arrive decides.  Other header lines change nothing but
\* the message, which is only printed.
HeaderCallback ==
    /\ pc = "perform"
    /\ lines < Len(StatusLines[reply])
    /\ lines' = lines + 1
    /\ code' \in ParsedStatus(StatusLines[reply][lines + 1])
    /\ UNCHANGED <<pc, cur, reply, response, result, libVars>>

\* n units of the body arrive in one chunk.
WriteCallback(n) ==
    /\ pc = "perform"
    /\ Len(response) + n <= BodyLen
    /\ response' = response \o Units(cur, HeaderLen + Len(response), n)
    /\ UNCHANGED <<pc, cur, reply, code, lines, result, libVars>>

\* Fault: no curl_easy_cleanup.
PerformOkLeaks ==
    /\ pc = "perform"
    /\ lines = Len(StatusLines[reply])
    /\ Len(response) = BodyLen
    /\ pc' = "cleanup"
    /\ UNCHANGED <<cur, reply, code, lines, response, result, libVars>>

\* curl_easy_perform returns CURLE_OK.
PerformOk ==
    /\ pc = "perform"
    /\ lines = Len(StatusLines[reply])
    /\ Len(response) = BodyLen
    /\ pc' = "cleanup"
    /\ handles' = handles - 1
    /\ UNCHANGED <<cur, reply, code, lines, response, result, slists, globals, transfers,
                   failures>>

\* Fault: a failed transfer is cleaned up and then judged like any other.
PerformFailsGoesOn ==
    /\ pc = "perform"
    /\ pc' = "cleanup"
    /\ handles' = handles - 1
    /\ UNCHANGED <<cur, reply, code, lines, response, result, slists, globals, transfers,
                   failures>>

\* It returns an error, at any point of the transfer: post() returns before
\* it reaches curl_easy_cleanup and curl_global_cleanup.
PerformFails ==
    /\ pc = "perform"
    /\ pc' = "idle"
    /\ result' = "ERROR_HTTP"
    /\ failures' = failures + 1
    /\ UNCHANGED <<cur, reply, code, lines, response, handles, slists, globals, transfers>>

Cleanup ==
    /\ pc = "cleanup"
    /\ pc' = "idle"
    /\ globals' = globals - 1
    /\ result' = IF code = "OK" THEN "SUCCESS" ELSE "ERROR_GRPC"
    /\ UNCHANGED <<cur, reply, code, lines, response, handles, slists, transfers, failures>>

CurlNext ==
    \/ \E k \in Kinds : CurlBegin(k)
    \/ EasyInit
    \/ EasyInitFails
    \/ HeaderCallback
    \/ \E n \in 1..BodyLen : WriteCallback(n)
    \/ PerformOk
    \/ PerformFails
    \/ Cleanup

CurlSpec == CurlInit /\ [][CurlNext]_curlVars

-----------------------------------------------------------------------------
(* Properties *)

CurlTypeOK ==
    /\ pc \in {"idle", "init", "perform", "cleanup"}
    /\ cur \in 0..MaxPosts
    /\ reply \in Kinds
    /\ code \in Codes
    /\ lines \in Nat
    /\ response \in Seq((1..MaxPosts) \X (1..ReplyLen))
    /\ result \in {"NONE", "SUCCESS", "ERROR_HTTP", "ERROR_GRPC"}
    /\ handles \in Nat
    /\ slists \in Nat
    /\ globals \in Nat
    /\ transfers \in Nat
    /\ failures \in Nat

\* With SUCCESS the caller has the whole body, or nothing at all because curl
\* gave no handle; never part of a body.
SuccessIsWhole == result = "SUCCESS" => response \in {<<>>, Body(cur, BodyLen)}

\* A reply whose last grpc-status line is anything but a zero right behind the
\* colon is never a SUCCESS, whatever the stack held, whatever an earlier line
\* said and wherever in the reply the last one came.
RefusalIsError ==
    result = "SUCCESS" /\ lines > 0 => StatusLines[reply][lines] = "zero"

\* What curl still holds between posts is exactly what the posts before left
\* behind: a list of headers for every post that got a handle, whatever came of
\* it, and a handle and a global initialisation besides for every transfer that
\* failed.
HeldPerPost ==
    pc = "idle" =>
        /\ slists = transfers
        /\ handles = failures /\ globals = failures

\* Whatever came of a post, its handle is cleaned up when it returns.
AlwaysCleanup == pc = "idle" => handles = 0
=============================================================================
