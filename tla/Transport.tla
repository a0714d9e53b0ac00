----------------------------- MODULE Transport ------------------------------
(***************************************************************************)
(* What the three PlatformHTTP::post have in common: the server's replies, *)
(* the variables every post has, how one is entered, and the promise of    *)
(* IHTTP::post that each has to keep.  Unit k of the reply to post q is    *)
(* <<q, k>>, as in HttpPost.                                               *)
(***************************************************************************)
EXTENDS Naturals, Sequences

CONSTANTS
    Kinds,      \* what a server may answer
    HeaderLen,  \* units of HTTP header in a reply
    BodyLen,    \* units of body in a reply
    Start,      \* Start[k]: units of a reply of kind k before its first '{',
                \* wherever that is; all of them when it has none
    MaxPosts    \* bound: posts made in a behaviour

ASSUME HeaderLenAssumption == HeaderLen \in Nat
ASSUME BodyLenAssumption == BodyLen \in Nat \ {0}
ASSUME MaxPostsAssumption == MaxPosts \in Nat

VARIABLES
    pc,         \* where post() is: "idle" is outside of it
    cur,        \* number of the latest post, 0 before the first
    reply,      \* kind of the reply to the latest post
    response,   \* the out parameter
    result      \* ResultCode of the latest post, "NONE" while it runs

ReplyLen == HeaderLen + BodyLen

ASSUME StartAssumption == Start \in [Kinds -> 0..ReplyLen]

\* n successive units of the reply to post q, after the first a.
Units(q, a, n) == [i \in 1..n |-> <<q, a + i>>]

\* The first n units of the body of the reply to post q.
Body(q, n) == Units(q, HeaderLen, n)

Outside ==
    /\ pc = "idle"
    /\ cur = 0
    /\ reply \in Kinds
    /\ response = <<>>
    /\ result = "NONE"

\* The caller calls post() with an empty response; its first step is at place.
Enter(k, place) ==
    /\ pc = "idle"
    /\ cur < MaxPosts
    /\ pc' = place
    /\ cur' = cur + 1
    /\ reply' = k
    /\ response' = <<>>
    /\ result' = "NONE"

\* The promise of IHTTP::post: with an error there is no response to use.
Promise == INSTANCE HttpPost WITH
    phase <- IF pc = "idle" THEN "idle" ELSE "posting",
    response <- IF result = "SUCCESS" THEN response ELSE <<>>

\* Every post of the platform keeps the promise of IHTTP::post.
HttpPostSpec == Promise!Spec
=============================================================================
