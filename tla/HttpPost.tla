------------------------------ MODULE HttpPost ------------------------------
(***************************************************************************)
(* What IHTTP::post (http/http.h) promises its caller, whatever platform   *)
(* implements it.  A post hands over a request and comes back with a       *)
(* ResultCode; with SUCCESS the response is what has come, without a gap   *)
(* and possibly nothing, of the server's reply to that very request, from  *)
(* where the body begins or from the first '{' of the reply, and with an   *)
(* error the caller has no response to use.  A caller cannot tell the two  *)
(* starts apart: the one platform looks for a '{' and takes it for the     *)
(* body, the others know where the header ends.                            *)
(*                                                                         *)
(* A reply is a run of units, HeaderLen of them HTTP header and BodyLen    *)
(* of them body.  Unit k of the reply to post q is <<q, k>>: a unit says   *)
(* which request it answers, so a stale or mixed response shows.           *)
(***************************************************************************)
EXTENDS Naturals, Sequences

CONSTANTS
    Kinds,      \* what a server may answer
    HeaderLen,  \* units of HTTP header in a reply
    BodyLen,    \* units of body in a reply
    Start,      \* Start[k]: units of a reply of kind k before its first '{',
                \* wherever that is; all of them when it has none
    MaxPosts    \* bound: posts made in a behaviour

ASSUME HeaderLenAssumption == HeaderLen \in Nat
ASSUME BodyLenAssumption == BodyLen \in Nat \ {0}
ASSUME MaxPostsAssumption == MaxPosts \in Nat

VARIABLES
    phase,      \* "idle" or "posting"
    cur,        \* number of the latest post, 0 before the first
    reply,      \* what the server answers the latest post
    response,   \* the out parameter, as far as the caller may use it
    result      \* ResultCode of the latest post, "NONE" while it runs

vars == <<phase, cur, reply, response, result>>

Errors == {"ERROR_HTTP", "ERROR_GRPC"}

\* n successive units of the reply to post q, after the first a.
Units(q, a, n) == [i \in 1..n |-> <<q, a + i>>]

\* The first n units of the body of the reply to post q.
Body(q, n) == Units(q, HeaderLen, n)

ReplyLen == HeaderLen + BodyLen

ASSUME StartAssumption == Start \in [Kinds -> 0..ReplyLen]

Init ==
    /\ phase = "idle"
    /\ cur = 0
    /\ reply \in Kinds
    /\ response = <<>>
    /\ result = "NONE"

\* The caller starts the next post with an empty response string.
Begin(k) ==
    /\ phase = "idle"
    /\ cur < MaxPosts
    /\ phase' = "posting"
    /\ cur' = cur + 1
    /\ reply' = k
    /\ response' = <<>>
    /\ result' = "NONE"

Succeed ==
    /\ phase = "posting"
    /\ phase' = "idle"
    /\ \E a \in {HeaderLen, Start[reply]} :
           \E n \in 0..ReplyLen - a : response' = Units(cur, a, n)
    /\ result' = "SUCCESS"
    /\ UNCHANGED <<cur, reply>>

Fail ==
    /\ phase = "posting"
    /\ phase' = "idle"
    /\ \E e \in Errors : result' = e
    /\ UNCHANGED <<cur, reply, response>>

Next ==
    \/ \E k \in Kinds : Begin(k)
    \/ Succeed
    \/ Fail

Spec == Init /\ [][Next]_vars
=============================================================================
