---------------------------- MODULE PlatformHttp ----------------------------
(***************************************************************************)
(* makeHTTP: the program is built for one platform, and every post it ever *)
(* makes is the post of that platform.  The variables of the others stay   *)
(* as they are.                                                            *)
(*                                                                         *)
(* Fairness: the sketch of a Nano keeps running, and so does that of an    *)
(* ESP, whose HTTPClient gives up after the timeout that Initialize sets.  *)
(* Nothing is asked of the network, and nothing of libcurl, which is given *)
(* no timeout.                                                             *)
(***************************************************************************)
EXTENDS NanoPost, CurlPost, EspPost

VARIABLE platform   \* what the program is built for

nanoOnly == <<conn, arrived, buffer, elapsed>>
curlOnly == <<code, lines, libVars>>
espOnly == <<got, header>>
platformVars == <<platform, pc, cur, reply, response, result, nanoOnly, curlOnly, espOnly>>

PlatformInit ==
    /\ platform \in {"nano33", "os", "esp"}
    /\ NanoInit
    /\ CurlInit
    /\ EspInit

OnNano == platform = "nano33" /\ UNCHANGED <<platform, curlOnly, espOnly>>
OnOs == platform = "os" /\ UNCHANGED <<platform, nanoOnly, espOnly>>
OnEsp == platform = "esp" /\ UNCHANGED <<platform, nanoOnly, curlOnly>>

PlatformNext ==
    \/ NanoNext /\ OnNano
    \/ CurlNext /\ OnOs
    \/ EspNext /\ OnEsp

PlatformSpec ==
    /\ PlatformInit
    /\ [][PlatformNext]_platformVars
    /\ WF_platformVars(PostStep /\ OnNano)
    /\ WF_platformVars(EspStep /\ OnEsp)

-----------------------------------------------------------------------------
(* Properties *)

\* On a Nano, SUCCESS hands over the reply to this very request from its first
\* '{' on, wherever that is.
NanoFromBrace == platform = "nano33" => SuccessFromBrace

\* With libcurl, SUCCESS hands over the whole body or nothing at all.
OsWholeOrNothing == platform = "os" => SuccessIsWhole

\* On an ESP, only the reply to this very post makes it a gRPC error.
EspOwnReply == platform = "esp" => RefusedByOwnReply

\* post() comes back on every board, even when the server never sends a byte.
PostReturns == platform # "os" /\ pc # "idle" ~> pc = "idle"
=============================================================================
