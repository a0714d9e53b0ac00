------------------------------ MODULE NanoPost ------------------------------
(***************************************************************************)
(* PlatformHTTP::post of the Nano 33 IoT (http/nano33/http.cpp): connect a *)
(* WiFiClient, print the request, poll for a first byte at most Timeout    *)
(* times, read while bytes are available, close, and keep what is there    *)
(* from the first '{' on, be it in a header line or in the middle of a     *)
(* page.  The units of the reply arrive one at a time, in between any      *)
(* two steps of the sketch, or never.  The reader does not know the length *)
(* of a reply: it stops at the first moment nothing is buffered.  A post   *)
(* that times out leaves its socket open, so the reply may still arrive    *)
(* while the next post is under way.                                       *)
(*                                                                         *)
(* WiFiClient is external (WiFiNINA): connect() closes the socket the      *)
(* client holds and starts with an empty receive buffer.                   *)
(***************************************************************************)
EXTENDS Transport

CONSTANTS
    Timeout     \* polls waitForResponse makes before it gives up

ASSUME TimeoutAssumption == Timeout \in Nat \ {0}

VARIABLES
    conn,       \* the post whose socket `client` holds, 0 if none
    arrived,    \* units of the reply that have reached the socket
    buffer,     \* units received on the socket and not read yet
    elapsed     \* polls made by waitForResponse

clientVars == <<pc, cur, reply, elapsed, response, result>>
socketVars == <<conn, arrived, buffer>>
nanoVars == <<pc, cur, reply, conn, arrived, buffer, elapsed, response, result>>

NanoInit ==
    /\ Outside
    /\ conn = 0
    /\ arrived = 0
    /\ buffer = <<>>
    /\ elapsed = 0

Available == buffer # <<>>

-----------------------------------------------------------------------------
(* The sketch, in post(). *)

NanoBegin(k) ==
    /\ Enter(k, "connect")
    /\ UNCHANGED <<socketVars, elapsed>>

\* The socket variables once the client has dropped the socket it held.
Drop(q) ==
    /\ conn' = q
    /\ arrived' = 0
    /\ buffer' = <<>>

\* initialize() returns false: connect() closed the old socket, got no new one.
ConnectFails ==
    /\ pc = "connect"
    /\ Drop(0)
    /\ pc' = "idle"
    /\ result' = "ERROR_HTTP"
    /\ UNCHANGED <<cur, reply, elapsed, response>>

\* Fault: a socket that is still open is used again.
ConnectKeepsSocket ==
    /\ pc = "connect"
    /\ IF conn = 0 THEN Drop(cur) ELSE UNCHANGED socketVars
    /\ pc' = "send"
    /\ UNCHANGED <<cur, reply, elapsed, response, result>>

ConnectSucceeds ==
    /\ pc = "connect"
    /\ Drop(cur)
    /\ pc' = "send"
    /\ UNCHANGED <<cur, reply, elapsed, response, result>>

\* The client.print calls; no result is looked at.
SendRequest ==
    /\ pc = "send"
    /\ pc' = "wait"
    /\ elapsed' = 0
    /\ UNCHANGED <<cur, reply, socketVars, response, result>>

\* Fault: the polls are not counted.
PollUncounted ==
    /\ pc = "wait"
    /\ ~Available
    /\ UNCHANGED nanoVars

\* One turn of the loop of waitForResponse, delay(1) included.  The last turn
\* returns false without another look at the socket.
Poll ==
    /\ pc = "wait"
    /\ ~Available
    /\ elapsed' = elapsed + 1
    /\ IF elapsed' < Timeout
       THEN UNCHANGED <<pc, result>>
       ELSE /\ pc' = "idle"
            /\ result' = "ERROR_HTTP"
    /\ UNCHANGED <<cur, reply, socketVars, response>>

Ready ==
    /\ pc = "wait"
    /\ Available
    /\ pc' = "read"
    /\ UNCHANGED <<cur, reply, socketVars, elapsed, response, result>>

\* response.concat(client.read())
Read ==
    /\ pc = "read"
    /\ Available
    /\ response' = Append(response, Head(buffer))
    /\ buffer' = Tail(buffer)
    /\ UNCHANGED <<pc, cur, reply, conn, arrived, elapsed, result>>

\* Fault: off by one, the brace is seen before it is there.
BraceTooSoon == Len(response) >= Start[reply]

\* response.indexOf('{') != -1
HasBrace == Len(response) > Start[reply]

\* response.substring(response.indexOf('{'))
FromBrace == SubSeq(response, Start[reply] + 1, Len(response))

\* Fault: no client.stop().
FinishWithoutStop ==
    /\ pc = "read"
    /\ ~Available
    /\ pc' = "idle"
    /\ IF HasBrace
       THEN /\ response' = FromBrace
            /\ result' = "SUCCESS"
       ELSE result' = "ERROR_HTTP" /\ UNCHANGED response
    /\ UNCHANGED <<cur, reply, socketVars, elapsed>>

\* Fault: the header is left in the response.
FinishKeepsHeader ==
    /\ pc = "read"
    /\ ~Available
    /\ Drop(0)
    /\ pc' = "idle"
    /\ result' = IF HasBrace THEN "SUCCESS" ELSE "ERROR_HTTP"
    /\ UNCHANGED <<cur, reply, elapsed, response>>

\* Nothing more is buffered: client.stop(), then the test for '{'.
Finish ==
    /\ pc = "read"
    /\ ~Available
    /\ Drop(0)
    /\ pc' = "idle"
    /\ IF HasBrace
       THEN /\ response' = FromBrace
            /\ result' = "SUCCESS"
       ELSE /\ result' = "ERROR_HTTP"
            /\ UNCHANGED response
    /\ UNCHANGED <<cur, reply, elapsed>>

-----------------------------------------------------------------------------
(* The network: a unit of the reply reaches the open socket, once the      *)
(* request has been printed on it.                                         *)

Arrive ==
    /\ conn # 0
    /\ pc # "send"
    /\ arrived < ReplyLen
    /\ arrived' = arrived + 1
    /\ buffer' = Append(buffer, <<conn, arrived + 1>>)
    /\ UNCHANGED <<clientVars, conn>>

\* The steps of a post that has begun.
PostStep ==
    \/ ConnectFails
    \/ ConnectSucceeds
    \/ SendRequest
    \/ Poll
    \/ Ready
    \/ Read
    \/ Finish

NanoNext ==
    \/ \E k \in Kinds : NanoBegin(k)
    \/ PostStep
    \/ Arrive

NanoSpec == NanoInit /\ [][NanoNext]_nanoVars

-----------------------------------------------------------------------------
(* Properties *)

NanoTypeOK ==
    /\ pc \in {"idle", "connect", "send", "wait", "read"}
    /\ cur \in 0..MaxPosts
    /\ reply \in Kinds
    /\ conn \in 0..MaxPosts
    /\ arrived \in 0..ReplyLen
    /\ buffer \in Seq((1..MaxPosts) \X (1..ReplyLen))
    /\ elapsed \in 0..Timeout
    /\ response \in Seq((1..MaxPosts) \X (1..ReplyLen))
    /\ result \in {"NONE", "SUCCESS", "ERROR_HTTP"}

\* What is read while a post waits or reads comes from its own socket, in
\* order and without a gap: a late reply to a timed-out post never gets in.
ReadIsOurs ==
    pc \in {"wait", "read"} =>
        /\ conn = cur
        /\ response = Units(cur, 0, Len(response))
        /\ buffer = Units(cur, Len(response), Len(buffer))

\* SUCCESS hands over what has come of the reply to this very request, from
\* its first '{' on, at least the '{' and maybe not all: header text with the
\* body behind it when a header has a '{', the body from its start when it has
\* the first one, the middle of a page; and a reply with no '{' never succeeds.
SuccessFromBrace ==
    result = "SUCCESS" =>
        /\ Len(response) \in 1..ReplyLen - Start[reply]
        /\ response = Units(cur, Start[reply], Len(response))

\* Between posts the client holds a socket only when the last post timed out.
OpenSocketTimedOut ==
    pc = "idle" /\ conn # 0 =>
        /\ result = "ERROR_HTTP"
        /\ elapsed = Timeout
        /\ response = <<>>
=============================================================================
