-------------------------- MODULE Transport_proofs --------------------------
(***************************************************************************)
(* Theorems about the three PlatformHTTP::post, for every value of their   *)
(* constants.                                                              *)
(***************************************************************************)
EXTENDS PlatformHttp, SequenceTheorems, TLAPS

\* What a response is a sequence of.
Unit == (1..MaxPosts) \X (1..ReplyLen)

-----------------------------------------------------------------------------
(* Runs of units. *)

LEMMA ReplyLenType == ReplyLen \in Nat
BY HeaderLenAssumption, BodyLenAssumption DEF ReplyLen

LEMMA StartType == \A k \in Kinds : Start[k] \in 0..ReplyLen
BY StartAssumption

(* A run of units that stays inside the reply is a sequence of units. *)
LEMMA UnitsType ==
    ASSUME NEW q \in 1..MaxPosts, NEW a \in Nat, NEW n \in Nat, a + n <= ReplyLen
    PROVE  Units(q, a, n) \in Seq(Unit)
<1>1. \A i \in 1..n : <<q, a + i>> \in Unit
    BY ReplyLenType, MaxPostsAssumption DEF Unit
<1>. QED  BY <1>1, IsASeq DEF Units

(* The length of a run, and what each place of it holds. *)
LEMMA UnitsLen ==
    ASSUME NEW q, NEW a \in Nat, NEW n \in Nat
    PROVE  Len(Units(q, a, n)) = n
BY DEF Units

LEMMA UnitsEmpty ==
    ASSUME NEW q, NEW a \in Nat
    PROVE  Units(q, a, 0) = <<>>
BY DEF Units

(* One more unit of the same reply makes the run one longer. *)
LEMMA UnitsAppend ==
    ASSUME NEW q, NEW a \in Nat, NEW n \in Nat
    PROVE  Append(Units(q, a, n), <<q, a + n + 1>>) = Units(q, a, n + 1)
BY DEF Units

(* Reading one unit leaves the run that starts one later. *)
LEMMA UnitsHeadTail ==
    ASSUME NEW q, NEW a \in Nat, NEW n \in Nat \ {0}
    PROVE  /\ Head(Units(q, a, n)) = <<q, a + 1>>
           /\ Tail(Units(q, a, n)) = Units(q, a + 1, n - 1)
<1>. DEFINE S == {q} \X Nat
            s == Units(q, a, n)
            t == Units(q, a + 1, n - 1)
<1>1. /\ s \in Seq(S) /\ Len(s) = n
      /\ \A i \in 1..n : s[i] = <<q, a + i>>
    <2>1. \A i \in 1..n : <<q, a + i>> \in S
        OBVIOUS
    <2>2. s \in Seq(S)
        BY <2>1, IsASeq DEF Units
    <2>. QED  BY <2>2 DEF Units
<1>2. /\ t \in Seq(S) /\ Len(t) = n - 1
      /\ \A i \in 1..(n-1) : t[i] = <<q, a + 1 + i>>
    <2>1. \A i \in 1..(n-1) : <<q, a + 1 + i>> \in S
        OBVIOUS
    <2>2. t \in Seq(S)
        BY <2>1, IsASeq DEF Units
    <2>. QED  BY <2>2 DEF Units
<1>3. s # <<>>
    BY <1>1
<1>4. /\ Tail(s) \in Seq(S) /\ Len(Tail(s)) = n - 1
      /\ \A i \in 1..(n-1) : Tail(s)[i] = s[i+1]
    BY <1>1, <1>3, HeadTailProperties
<1>5. \A i \in 1..(n-1) : Tail(s)[i] = t[i]
    <2>1. \A i \in 1..(n-1) : i + 1 \in 1..n /\ a + 1 + i = a + (i + 1)
        OBVIOUS
    <2>. QED  BY <1>1, <1>2, <1>4, <2>1
<1>6. Tail(s) = t
    BY <1>2, <1>4, <1>5, SeqEqual
<1>7. Head(s) = <<q, a + 1>>
    BY <1>1
<1>. QED  BY <1>6, <1>7

(* Dropping the first h units of a reply that was read from its start. *)
LEMMA UnitsSubSeq ==
    ASSUME NEW q, NEW n \in Nat, NEW h \in 0..n
    PROVE  SubSeq(Units(q, 0, n), h + 1, n) = Units(q, h, n - h)
BY DEF Units

(* The length of the start of a body, and its type. *)
LEMMA BodyType ==
    ASSUME NEW q \in 1..MaxPosts, NEW n \in 0..BodyLen
    PROVE  Body(q, n) \in Seq(Unit) /\ Len(Body(q, n)) = n
<1>1. n \in Nat /\ \A i \in 1..n : <<q, HeaderLen + i>> \in Unit
    BY HeaderLenAssumption, BodyLenAssumption, MaxPostsAssumption DEF Unit, ReplyLen
<1>2. Body(q, n) \in Seq(Unit)
    BY <1>1, IsASeq DEF Body, Units
<1>. QED  BY <1>1, <1>2 DEF Body, Units

(* Of a body nobody has read yet nothing is there. *)
LEMMA BodyEmpty == \A q : Body(q, 0) = <<>>
BY DEF Body, Units

(* A chunk that follows the start of a body makes a longer start of it. *)
LEMMA BodyGrows ==
    ASSUME NEW q \in 1..MaxPosts, NEW m \in Nat, NEW n \in Nat
    PROVE  Body(q, m) \o Units(q, HeaderLen + m, n) = Body(q, m + n)
<1>. DEFINE s == Body(q, m)
            t == Units(q, HeaderLen + m, n)
            u == Body(q, m + n)
            S == {q} \X Nat
<1>1. s \in Seq(S) /\ Len(s) = m /\ \A i \in 1..m : s[i] = <<q, HeaderLen + i>>
    <2>1. \A i \in 1..m : <<q, HeaderLen + i>> \in S
        BY HeaderLenAssumption
    <2>2. s \in Seq(S)
        BY <2>1, IsASeq DEF Body, Units
    <2>. QED  BY <2>2 DEF Body, Units
<1>2. t \in Seq(S) /\ Len(t) = n /\ \A i \in 1..n : t[i] = <<q, HeaderLen + m + i>>
    <2>1. \A i \in 1..n : <<q, HeaderLen + m + i>> \in S
        BY HeaderLenAssumption
    <2>2. t \in Seq(S)
        BY <2>1, IsASeq DEF Units
    <2>. QED  BY <2>2 DEF Units
<1>3. u \in Seq(S) /\ Len(u) = m + n /\ \A i \in 1..(m + n) : u[i] = <<q, HeaderLen + i>>
    <2>1. \A i \in 1..(m + n) : <<q, HeaderLen + i>> \in S
        BY HeaderLenAssumption
    <2>2. u \in Seq(S)
        BY <2>1, IsASeq DEF Body, Units
    <2>. QED  BY <2>2 DEF Body, Units
<1>. HIDE DEF s, t, u, S
<1>4. /\ s \o t \in Seq(S) /\ Len(s \o t) = m + n
      /\ \A i \in 1..(m + n) : (s \o t)[i] = IF i <= m THEN s[i] ELSE t[i - m]
    BY <1>1, <1>2, ConcatProperties
<1>5. \A i \in 1..(m + n) : (s \o t)[i] = u[i]
    <2>. SUFFICES ASSUME NEW i \in 1..(m + n) PROVE (s \o t)[i] = u[i]
        OBVIOUS
    <2>1. CASE i <= m
        <3>1. i \in 1..m
            BY <2>1
        <3>. QED  BY <1>1, <1>3, <1>4, <2>1, <3>1
    <2>2. CASE ~(i <= m)
        <3>1. i - m \in 1..n /\ HeaderLen + m + (i - m) = HeaderLen + i
            BY <2>2, HeaderLenAssumption
        <3>2. t[i - m] = <<q, HeaderLen + i>>
            BY <1>2, <3>1
        <3>. QED  BY <1>3, <1>4, <2>2, <3>2
    <2>. QED  BY <2>1, <2>2
<1>6. s \o t = u
    BY <1>3, <1>4, <1>5, SeqEqual
<1>. QED  BY <1>6 DEF s, t, u

(* Entering post() is the start of a post that the promise is about. *)
LEMMA EnterBegins ==
    ASSUME NEW k \in Kinds, NEW place, place # "idle", Enter(k, place)
    PROVE  Promise!Begin(k)
BY DEF Enter, Promise!Begin

(* The start of a body is something the promise allows a response to be. *)
LEMMA BodyInPromise ==
    ASSUME NEW q, NEW n \in 0..BodyLen
    PROVE  /\ n \in 0..Promise!ReplyLen - HeaderLen
           /\ Body(q, n) = Promise!Units(q, HeaderLen, n)
BY HeaderLenAssumption, BodyLenAssumption DEF Promise!ReplyLen, Promise!Units, Body, Units

LEMMA OutsideInit == Outside => Promise!Init
BY DEF Outside, Promise!Init

-----------------------------------------------------------------------------
(* The post of the Nano: the inductive invariant. *)

NanoTypeInv ==
    /\ pc \in {"idle", "connect", "send", "wait", "read"}
    /\ cur \in 0..MaxPosts
    /\ reply \in Kinds
    /\ conn \in 0..MaxPosts
    /\ arrived \in 0..ReplyLen
    /\ elapsed \in 0..Timeout
    /\ response \in Seq(Unit)
    /\ buffer \in Seq(Unit)
    /\ result \in {"NONE", "SUCCESS", "ERROR_HTTP"}

\* The buffer holds the latest units to arrive on the open socket.
SocketInv ==
    /\ conn = 0 => arrived = 0 /\ buffer = <<>>
    /\ Len(buffer) <= arrived
    /\ buffer = Units(conn, arrived - Len(buffer), Len(buffer))

\* Where a post is tells whose socket is open and what has been read from it.
NanoPostInv ==
    /\ pc # "idle" => cur > 0 /\ result = "NONE"
    /\ pc \in {"connect", "send", "wait"} => response = <<>>
    /\ pc \in {"send", "wait", "read"} => conn = cur
    /\ pc = "send" => arrived = 0
    /\ pc = "wait" => arrived = Len(buffer) /\ elapsed < Timeout
    /\ pc = "read" => response = Units(cur, 0, arrived - Len(buffer))

NanoIInv == NanoTypeInv /\ SocketInv /\ NanoPostInv /\ SuccessFromBrace /\ OpenSocketTimedOut

LEMMA NanoInitIInv == NanoInit => NanoIInv
<1>. SUFFICES ASSUME NanoInit PROVE NanoIInv
    OBVIOUS
<1>1. NanoTypeInv
    BY MaxPostsAssumption, TimeoutAssumption, ReplyLenType DEF NanoInit, Outside, NanoTypeInv
<1>2. SocketInv
    BY UnitsEmpty DEF NanoInit, Outside, SocketInv
<1>3. NanoPostInv /\ SuccessFromBrace /\ OpenSocketTimedOut
    BY DEF NanoInit, Outside, NanoPostInv, SuccessFromBrace, OpenSocketTimedOut
<1>. QED  BY <1>1, <1>2, <1>3 DEF NanoIInv

(* A unit arrives: the run in the buffer grows at its end. *)
LEMMA ArriveIInv == NanoIInv /\ Arrive => NanoIInv'
<1>. SUFFICES ASSUME NanoIInv, Arrive PROVE NanoIInv'
    OBVIOUS
<1>. USE DEF NanoIInv
<1>. DEFINE b == Len(buffer)
<1>1. /\ conn \in 1..MaxPosts /\ arrived \in Nat /\ arrived + 1 <= ReplyLen
      /\ b \in Nat /\ b <= arrived /\ arrived - b \in Nat
      /\ pc # "send" /\ arrived' = arrived + 1
      /\ UNCHANGED <<pc, cur, reply, elapsed, response, result, conn>>
    BY ReplyLenType, MaxPostsAssumption, LenProperties
       DEF Arrive, clientVars, NanoTypeInv, SocketInv
<1>2. buffer' = Append(Units(conn, arrived - b, b), <<conn, (arrived - b) + b + 1>>)
    BY <1>1 DEF Arrive, SocketInv
<1>3. buffer' = Units(conn, arrived - b, b + 1)
    BY <1>1, <1>2, UnitsAppend
<1>4. Len(buffer') = b + 1
    BY <1>1, <1>3, UnitsLen
<1>5. buffer' \in Seq(Unit)
    BY <1>1, <1>3, UnitsType
<1>6. NanoTypeInv'
    BY <1>1, <1>5, ReplyLenType DEF NanoTypeInv, Unit, ReplyLen
<1>7. SocketInv'
    BY <1>1, <1>3, <1>4 DEF SocketInv
<1>8. NanoPostInv'
    <2>1. arrived' - Len(buffer') = arrived - b
        BY <1>1, <1>4
    <2>. QED  BY <1>1, <1>4, <2>1 DEF NanoPostInv
<1>9. SuccessFromBrace' /\ OpenSocketTimedOut'
    BY <1>1 DEF SuccessFromBrace, OpenSocketTimedOut
<1>. QED  BY <1>6, <1>7, <1>8, <1>9

(* A unit is read: it moves from the front of the buffer to the response. *)
LEMMA ReadIInv == NanoIInv /\ Read => NanoIInv'
<1>. SUFFICES ASSUME NanoIInv, Read PROVE NanoIInv'
    OBVIOUS
<1>. USE DEF NanoIInv
<1>. DEFINE b == Len(buffer)
            r == arrived - b
<1>1. /\ pc = "read" /\ conn = cur /\ cur \in 1..MaxPosts /\ arrived \in Nat
      /\ arrived <= ReplyLen /\ b \in Nat \ {0} /\ b <= arrived /\ r \in Nat
      /\ UNCHANGED <<pc, cur, reply, conn, arrived, elapsed, result>>
    BY ReplyLenType, MaxPostsAssumption, LenProperties, EmptySeq
       DEF Read, Available, NanoTypeInv, SocketInv, NanoPostInv
<1>2. /\ Head(buffer) = <<cur, r + 1>>
      /\ buffer' = Units(cur, r + 1, b - 1)
    <2>1. buffer = Units(cur, r, b)
        BY <1>1 DEF SocketInv
    <2>2. /\ Head(Units(cur, r, b)) = <<cur, r + 1>>
          /\ Tail(Units(cur, r, b)) = Units(cur, r + 1, b - 1)
        BY <1>1, UnitsHeadTail
    <2>3. buffer' = Tail(buffer)
        BY DEF Read
    <2>. QED  BY ONLY <2>1, <2>2, <2>3
<1>3. response' = Units(cur, 0, r + 1)
    <2>1. Append(Units(cur, 0, r), <<cur, 0 + r + 1>>) = Units(cur, 0, r + 1)
        BY <1>1, UnitsAppend
    <2>2. 0 + r + 1 = r + 1
        BY <1>1
    <2>3. response' = Append(response, <<cur, r + 1>>)
        BY <1>2 DEF Read
    <2>4. response = Units(cur, 0, r)
        BY <1>1 DEF NanoPostInv
    <2>. QED  BY <2>1, <2>2, <2>3, <2>4
<1>4. Len(buffer') = b - 1
    BY <1>1, <1>2, UnitsLen
<1>5. buffer' \in Seq(Unit) /\ response' \in Seq(Unit)
    BY <1>1, <1>2, <1>3, UnitsType, ReplyLenType
<1>6. arrived' - Len(buffer') = r + 1
    BY <1>1, <1>4
<1>7. NanoTypeInv'
    BY <1>1, <1>5 DEF NanoTypeInv, Unit, ReplyLen
<1>8. SocketInv'
    BY <1>1, <1>2, <1>4, <1>6 DEF SocketInv
<1>9. NanoPostInv'
    BY <1>1, <1>3, <1>6 DEF NanoPostInv
<1>10. SuccessFromBrace' /\ OpenSocketTimedOut'
    BY <1>1 DEF SuccessFromBrace, OpenSocketTimedOut, NanoPostInv
<1>. QED  BY <1>7, <1>8, <1>9, <1>10

(* The socket is closed and the text before the brace is cut off. *)
LEMMA FinishIInv == NanoIInv /\ Finish => NanoIInv'
<1>. SUFFICES ASSUME NanoIInv, Finish PROVE NanoIInv'
    OBVIOUS
<1>. USE DEF NanoIInv
<1>1. /\ pc = "read" /\ buffer = <<>> /\ cur \in 1..MaxPosts /\ arrived \in 0..ReplyLen
      /\ response = Units(cur, 0, arrived) /\ Len(response) = arrived
      /\ pc' = "idle" /\ conn' = 0 /\ arrived' = 0 /\ buffer' = <<>>
      /\ UNCHANGED <<cur, reply, elapsed>>
    BY MaxPostsAssumption, ReplyLenType, UnitsLen
       DEF Finish, Available, Drop, NanoTypeInv, NanoPostInv
<1>2. SocketInv'
    BY <1>1, UnitsEmpty DEF SocketInv
<1>3. NanoPostInv'
    BY <1>1 DEF NanoPostInv
<1>4. OpenSocketTimedOut'
    BY <1>1 DEF OpenSocketTimedOut
<1>5. CASE HasBrace
    <2>. DEFINE a == Start[reply]
                n == arrived - a
    <2>0. reply \in Kinds /\ a \in 0..ReplyLen
        BY StartType DEF NanoTypeInv
    <2>. HIDE DEF a
    <2>1. /\ a \in 0..arrived /\ n \in 1..ReplyLen - a /\ result' = "SUCCESS"
          /\ a + n <= ReplyLen
        BY <1>1, <1>5, <2>0, ReplyLenType DEF HasBrace, Finish, a
    <2>2. response' = Units(cur, a, n)
        <3>1. SubSeq(Units(cur, 0, arrived), a + 1, arrived) = Units(cur, a, n)
            <4>1. arrived \in Nat
                BY <1>1, ReplyLenType
            <4>. QED  BY <2>1, <4>1, UnitsSubSeq
        <3>. QED  BY <1>1, <1>5, <3>1 DEF Finish, FromBrace, a
    <2>3. Len(response') = n
        BY <2>1, <2>2, UnitsLen
    <2>4. response' \in Seq(Unit)
        BY <1>1, <2>1, <2>2, UnitsType
    <2>5. SuccessFromBrace'
        BY <1>1, <2>1, <2>2, <2>3 DEF SuccessFromBrace, a
    <2>6. NanoTypeInv'
        BY <1>1, <2>1, <2>4, MaxPostsAssumption, ReplyLenType
           DEF NanoTypeInv, Unit, ReplyLen
    <2>. QED  BY <1>2, <1>3, <1>4, <2>5, <2>6
<1>6. CASE ~HasBrace
    <2>1. result' = "ERROR_HTTP" /\ response' = response
        BY <1>6 DEF Finish
    <2>2. NanoTypeInv'
        BY <1>1, <2>1, MaxPostsAssumption, ReplyLenType DEF NanoTypeInv, Unit, ReplyLen
    <2>3. SuccessFromBrace'
        BY <2>1 DEF SuccessFromBrace
    <2>. QED  BY <1>2, <1>3, <1>4, <2>2, <2>3
<1>. QED  BY <1>5, <1>6

(* Every other step leaves the units alone or drops the socket. *)
LEMMA OtherIInv ==
    NanoIInv /\ (\/ \E k \in Kinds : NanoBegin(k)
             \/ ConnectFails
             \/ ConnectSucceeds
             \/ SendRequest
             \/ Poll
             \/ Ready
             \/ UNCHANGED nanoVars) => NanoIInv'
<1>. USE DEF NanoIInv
<1>1. ASSUME NanoIInv, NEW k \in Kinds, NanoBegin(k) PROVE NanoIInv'
    BY <1>1, MaxPostsAssumption, EmptySeq
       DEF NanoBegin, Enter, socketVars, NanoTypeInv, SocketInv, NanoPostInv, SuccessFromBrace,
           OpenSocketTimedOut, Unit, ReplyLen
<1>2. ASSUME NanoIInv, ConnectFails \/ ConnectSucceeds PROVE NanoIInv'
    <2>1. SocketInv'
        BY <1>2, UnitsEmpty DEF ConnectFails, ConnectSucceeds, Drop, SocketInv
    <2>2. NanoTypeInv'
        <3>1. arrived' \in 0..ReplyLen /\ conn' \in 0..MaxPosts
            BY <1>2, MaxPostsAssumption, ReplyLenType
               DEF ConnectFails, ConnectSucceeds, Drop, NanoTypeInv
        <3>2. buffer' \in Seq(Unit)
            BY <1>2, EmptySeq DEF ConnectFails, ConnectSucceeds, Drop
        <3>. QED
            BY <1>2, <3>1, <3>2
               DEF ConnectFails, ConnectSucceeds, NanoTypeInv, Unit, ReplyLen
    <2>3. NanoPostInv' /\ SuccessFromBrace' /\ OpenSocketTimedOut'
        BY <1>2 DEF ConnectFails, ConnectSucceeds, Drop, NanoPostInv, SuccessFromBrace,
           OpenSocketTimedOut
    <2>. QED  BY <2>1, <2>2, <2>3
<1>3. ASSUME NanoIInv, SendRequest PROVE NanoIInv'
    BY <1>3, TimeoutAssumption
       DEF SendRequest, socketVars, NanoTypeInv, SocketInv, NanoPostInv, SuccessFromBrace,
           OpenSocketTimedOut, Unit, ReplyLen
<1>4. ASSUME NanoIInv, Poll PROVE NanoIInv'
    BY <1>4, TimeoutAssumption
       DEF Poll, socketVars, NanoTypeInv, SocketInv, NanoPostInv, SuccessFromBrace,
           OpenSocketTimedOut, Unit, ReplyLen
<1>5. ASSUME NanoIInv, Ready PROVE NanoIInv'
    <2>1. arrived - Len(buffer) = 0 /\ response = Units(cur, 0, 0)
        BY <1>5, UnitsEmpty DEF Ready, NanoPostInv, NanoTypeInv
    <2>. QED
        BY <1>5, <2>1
           DEF Ready, socketVars, NanoTypeInv, SocketInv, NanoPostInv, SuccessFromBrace,
               OpenSocketTimedOut, Unit, ReplyLen
<1>6. ASSUME NanoIInv, UNCHANGED nanoVars PROVE NanoIInv'
    BY <1>6 DEF nanoVars, NanoTypeInv, SocketInv, NanoPostInv, SuccessFromBrace,
       OpenSocketTimedOut, Unit, ReplyLen
<1>. QED  BY <1>1, <1>2, <1>3, <1>4, <1>5, <1>6

LEMMA NanoNextIInv == NanoIInv /\ [NanoNext]_nanoVars => NanoIInv'
BY ArriveIInv, ReadIInv, FinishIInv, OtherIInv DEF NanoNext, PostStep

(* Every reachable state satisfies the inductive invariant. *)
THEOREM NanoInvariant == NanoSpec => []NanoIInv
<1>. QED  BY NanoInitIInv, NanoNextIInv, PTL DEF NanoSpec

(* What follows from it. *)

(* Every variable of post() keeps its type. *)
THEOREM NanoTypeCorrect == NanoSpec => []NanoTypeOK
<1>1. NanoIInv => NanoTypeOK
    BY DEF NanoIInv, NanoTypeInv, NanoTypeOK, Unit
<1>. QED  BY <1>1, NanoInvariant, PTL

(* A late reply to a timed-out post never gets into a later response. *)
THEOREM ResponseIsOurs == NanoSpec => []ReadIsOurs
<1>1. NanoIInv => ReadIsOurs
    <2>. SUFFICES ASSUME NanoIInv, pc \in {"wait", "read"} PROVE ReadIsOurs
        BY DEF ReadIsOurs
    <2>. DEFINE r == arrived - Len(buffer)
    <2>1. r \in Nat /\ conn = cur /\ buffer = Units(cur, r, Len(buffer))
        BY ReplyLenType, LenProperties DEF NanoIInv, NanoTypeInv, SocketInv, NanoPostInv
    <2>2. response = Units(cur, 0, r)
        BY <2>1, UnitsEmpty DEF NanoIInv, NanoTypeInv, NanoPostInv
    <2>3. Len(response) = r
        BY <2>1, <2>2, UnitsLen
    <2>. QED  BY <2>1, <2>2, <2>3 DEF ReadIsOurs
<1>. QED  BY <1>1, NanoInvariant, PTL

(* Between posts an open socket is one whose post timed out. *)
THEOREM SocketClosed == NanoSpec => []OpenSocketTimedOut
<1>1. NanoIInv => OpenSocketTimedOut
    BY DEF NanoIInv
<1>. QED  BY <1>1, NanoInvariant, PTL

(* A step of this post is a step of HttpPost or a stutter. *)
LEMMA NanoStepKeeps ==
    NanoIInv /\ NanoIInv' /\ [NanoNext]_nanoVars => [Promise!Next]_(Promise!vars)
<1>. USE DEF Promise!vars, Promise!Errors
<1>. SUFFICES ASSUME NanoIInv, NanoIInv', [NanoNext]_nanoVars
              PROVE  [Promise!Next]_(Promise!vars)
    OBVIOUS
<1>1. ASSUME NEW k \in Kinds, NanoBegin(k) PROVE Promise!Begin(k)
    BY <1>1, EnterBegins DEF NanoBegin
<1>2. CASE ConnectFails
    BY <1>2 DEF ConnectFails, Promise!Next, Promise!Fail, NanoIInv, NanoPostInv
<1>3. CASE ConnectSucceeds
    BY <1>3 DEF ConnectSucceeds
<1>4. CASE SendRequest
    BY <1>4 DEF SendRequest
<1>5. CASE Poll
    <2>1. CASE elapsed' < Timeout
        BY <1>5, <2>1 DEF Poll
    <2>2. CASE ~(elapsed' < Timeout)
        BY <1>5, <2>2 DEF Poll, Promise!Next, Promise!Fail, NanoIInv, NanoPostInv
    <2>. QED  BY <2>1, <2>2
<1>6. CASE Ready
    BY <1>6 DEF Ready
<1>7. CASE Read
    BY <1>7 DEF Read, NanoIInv, NanoPostInv
<1>8. CASE Finish
    <2>1. CASE HasBrace
        <3>1. /\ result' = "SUCCESS" /\ pc = "read" /\ pc' = "idle"
              /\ result = "NONE" /\ cur' = cur /\ reply' = reply
            BY <1>8, <2>1 DEF Finish, NanoIInv, NanoPostInv
        <3>2. PICK n \in 0..ReplyLen - Start[reply] : response' = Units(cur, Start[reply], n)
            <4>1. reply \in Kinds /\ Start[reply] \in 0..ReplyLen
                BY StartType DEF NanoIInv, NanoTypeInv
            <4>2. /\ Len(response') \in 1..ReplyLen - Start[reply]
                  /\ response' = Units(cur, Start[reply], Len(response'))
                BY <3>1 DEF NanoIInv, SuccessFromBrace
            <4>. QED  BY <4>1, <4>2, ReplyLenType
        <3>3. response' = Promise!Units(cur, Start[reply], n)
            BY <3>2 DEF Units, Promise!Units
        <3>4. n \in 0..Promise!ReplyLen - Start[reply]
            BY <3>2 DEF ReplyLen, Promise!ReplyLen
        <3>. QED  BY <3>1, <3>3, <3>4 DEF Promise!Next, Promise!Succeed
    <2>2. CASE ~HasBrace
        BY <1>8, <2>2 DEF Finish, Promise!Next, Promise!Fail, NanoIInv, NanoPostInv
    <2>. QED  BY <2>1, <2>2
<1>9. CASE Arrive
    BY <1>9 DEF Arrive, clientVars
<1>10. CASE UNCHANGED nanoVars
    BY <1>10 DEF nanoVars
<1>. QED
    BY <1>1, <1>2, <1>3, <1>4, <1>5, <1>6, <1>7, <1>8, <1>9, <1>10
       DEF NanoNext, PostStep, Promise!Next

(* The post of the Nano implements the promise of IHTTP::post: every step   *)
(* of the sketch and of the network is a step of HttpPost or a stutter.     *)
THEOREM NanoKeepsPromise == NanoSpec => HttpPostSpec
<1>1. NanoInit => Promise!Init
    BY OutsideInit DEF NanoInit
<1>. QED  BY <1>1, NanoStepKeeps, NanoInvariant, PTL DEF NanoSpec, HttpPostSpec, Promise!Spec
-----------------------------------------------------------------------------
(* The post of the OS build: the inductive invariant. *)

ReplyInv ==
    /\ pc \in {"idle", "init", "perform", "cleanup"}
    /\ cur \in 0..MaxPosts
    /\ reply \in Kinds
    /\ code \in Codes
    /\ lines \in 0..Len(StatusLines[reply])
    /\ result \in {"NONE", "SUCCESS", "ERROR_HTTP", "ERROR_GRPC"}
    /\ pc # "idle" => cur > 0 /\ result = "NONE"
    /\ pc = "init" => lines = 0

\* The response is a start of the body, all of it or nothing when a post that
\* may still succeed has left curl.
ResponseInv ==
    /\ \E n \in 0..BodyLen : response = Body(cur, n)
    /\ cur = 0 => response = <<>>
    /\ pc = "init" => response = <<>>
    /\ pc = "cleanup" => response \in {<<>>, Body(cur, BodyLen)}

\* The code is OK only when the latest line allows it.
CodeInv == code = "OK" /\ lines > 0 => StatusLines[reply][lines] = "zero"

ResourceInv ==
    /\ failures \in Nat /\ transfers \in Nat
    /\ slists = transfers
    /\ handles = failures + (IF pc = "perform" THEN 1 ELSE 0)
    /\ globals = failures + (IF pc = "idle" THEN 0 ELSE 1)

CurlIInv ==
    ReplyInv /\ ResponseInv /\ CodeInv /\ ResourceInv /\ SuccessIsWhole /\ RefusalIsError

LEMMA CurlInitIInv == CurlInit => CurlIInv
<1>. SUFFICES ASSUME CurlInit PROVE CurlIInv
    OBVIOUS
<1>1. StatusLines[reply] \in Seq(Lines)
    BY StatusLinesAssumption DEF CurlInit, Outside
<1>2. ReplyInv
    BY <1>1, MaxPostsAssumption, LenProperties DEF CurlInit, Outside, ReplyInv, Codes
<1>3. ResponseInv
    BY BodyEmpty, BodyLenAssumption DEF CurlInit, Outside, ResponseInv
<1>4. CodeInv /\ ResourceInv /\ SuccessIsWhole /\ RefusalIsError
    BY DEF CurlInit, Outside, CodeInv, ResourceInv, SuccessIsWhole, RefusalIsError
<1>. QED  BY <1>2, <1>3, <1>4 DEF CurlIInv

LEMMA CurlPostIInv ==
    ASSUME CurlIInv, NEW k \in Kinds, CurlBegin(k)
    PROVE  CurlIInv'
<1>1. StatusLines[k] \in Seq(Lines)
    BY StatusLinesAssumption
<1>2. ReplyInv'
    BY <1>1, MaxPostsAssumption, LenProperties DEF CurlBegin, Enter, CurlIInv, ReplyInv
<1>3. ResponseInv'
    BY BodyEmpty, BodyLenAssumption DEF CurlBegin, Enter, ResponseInv
<1>4. ResourceInv'
    BY DEF CurlBegin, Enter, CurlIInv, ResourceInv
<1>5. CodeInv' /\ SuccessIsWhole' /\ RefusalIsError'
    BY DEF CurlBegin, Enter, CodeInv, SuccessIsWhole, RefusalIsError
<1>. QED  BY <1>2, <1>3, <1>4, <1>5 DEF CurlIInv

(* The two outcomes of curl_easy_init. *)
LEMMA EasyInitIInv ==
    ASSUME CurlIInv, EasyInit \/ EasyInitFails
    PROVE  CurlIInv'
<1>1. CASE EasyInit
    BY <1>1 DEF EasyInit, CurlIInv, ReplyInv, ResponseInv, CodeInv, ResourceInv,
           SuccessIsWhole, RefusalIsError, Codes
<1>2. CASE EasyInitFails
    BY <1>2 DEF EasyInitFails, libVars, CurlIInv, ReplyInv, ResponseInv, CodeInv,
           ResourceInv, SuccessIsWhole, RefusalIsError, Codes
<1>. QED  BY <1>1, <1>2

LEMMA HeaderCallbackIInv ==
    ASSUME CurlIInv, HeaderCallback
    PROVE  CurlIInv'
<1>. DEFINE line == StatusLines[reply][lines + 1]
<1>1. StatusLines[reply] \in Seq(Lines)
    BY StatusLinesAssumption DEF CurlIInv, ReplyInv
<1>2. /\ pc = "perform" /\ lines' = lines + 1 /\ lines \in Nat
      /\ lines' \in 0..Len(StatusLines[reply]) /\ result = "NONE"
      /\ UNCHANGED <<pc, cur, reply, response, result, handles, slists, globals, transfers,
                     failures>>
    BY <1>1, LenProperties DEF HeaderCallback, libVars, CurlIInv, ReplyInv
<1>3. code' \in Codes /\ (code' = "OK" => line = "zero")
    BY DEF HeaderCallback, ParsedStatus, Codes
<1>4. ReplyInv'
    BY <1>2, <1>3 DEF CurlIInv, ReplyInv, Codes
<1>5. ResponseInv' /\ ResourceInv' /\ SuccessIsWhole' /\ RefusalIsError'
    BY <1>2 DEF CurlIInv, ResponseInv, ResourceInv, SuccessIsWhole, RefusalIsError
<1>6. CodeInv'
    BY <1>2, <1>3 DEF CodeInv
<1>. QED  BY <1>4, <1>5, <1>6 DEF CurlIInv

LEMMA WriteCallbackIInv ==
    ASSUME CurlIInv, NEW n \in 1..BodyLen, WriteCallback(n)
    PROVE  CurlIInv'
<1>1. /\ pc = "perform" /\ cur \in 1..MaxPosts /\ result = "NONE"
      /\ UNCHANGED <<pc, cur, reply, code, lines, result, handles, slists, globals,
                     transfers, failures>>
    BY MaxPostsAssumption DEF WriteCallback, libVars, CurlIInv, ReplyInv
<1>2. PICK m \in 0..BodyLen : response = Body(cur, m)
    BY DEF CurlIInv, ResponseInv
<1>3. Len(response) = m
    BY <1>1, <1>2, BodyType
<1>4. m \in Nat /\ n \in Nat /\ m + n \in 0..BodyLen
    BY <1>3, BodyLenAssumption DEF WriteCallback
<1>5. response' = Body(cur, m + n)
    BY <1>1, <1>2, <1>3, <1>4, BodyGrows DEF WriteCallback
<1>6. ResponseInv'
    BY <1>1, <1>4, <1>5 DEF ResponseInv
<1>7. ReplyInv' /\ CodeInv' /\ ResourceInv' /\ SuccessIsWhole' /\ RefusalIsError'
    BY <1>1 DEF CurlIInv, ReplyInv, CodeInv, ResourceInv, SuccessIsWhole,
           RefusalIsError, Codes
<1>. QED  BY <1>6, <1>7 DEF CurlIInv

(* The two ways out of curl_easy_perform. *)
LEMMA PerformIInv ==
    ASSUME CurlIInv, PerformOk \/ PerformFails
    PROVE  CurlIInv'
<1>1. CASE PerformOk
    <2>1. PICK m \in 0..BodyLen : response = Body(cur, m)
        BY DEF CurlIInv, ResponseInv
    <2>2. m = BodyLen
        BY <1>1, <2>1, BodyType, MaxPostsAssumption DEF PerformOk, CurlIInv, ReplyInv
    <2>3. ResponseInv'
        BY <1>1, <2>1, <2>2 DEF PerformOk, CurlIInv, ResponseInv, Body, Units
    <2>. QED
        BY <1>1, <2>3 DEF PerformOk, CurlIInv, ReplyInv, CodeInv, ResourceInv,
           SuccessIsWhole, RefusalIsError, Codes
<1>2. CASE PerformFails
    BY <1>2 DEF PerformFails, CurlIInv, ReplyInv, ResponseInv, CodeInv, ResourceInv,
           SuccessIsWhole, RefusalIsError, Codes
<1>. QED  BY <1>1, <1>2

LEMMA CleanupIInv ==
    ASSUME CurlIInv, Cleanup
    PROVE  CurlIInv'
<1>1. /\ pc = "cleanup" /\ pc' = "idle" /\ globals' = globals - 1
      /\ result' = IF code = "OK" THEN "SUCCESS" ELSE "ERROR_GRPC"
      /\ UNCHANGED <<cur, reply, code, lines, response, handles, slists, transfers, failures>>
    BY DEF Cleanup
<1>2. ReplyInv' /\ ResponseInv' /\ CodeInv' /\ ResourceInv'
    BY <1>1 DEF CurlIInv, ReplyInv, ResponseInv, CodeInv, ResourceInv, Codes
<1>3. SuccessIsWhole'
    BY <1>1 DEF CurlIInv, ResponseInv, SuccessIsWhole, Body, Units
<1>4. RefusalIsError'
    BY <1>1 DEF CurlIInv, CodeInv, RefusalIsError
<1>. QED  BY <1>2, <1>3, <1>4 DEF CurlIInv

LEMMA CurlNextIInv == CurlIInv /\ [CurlNext]_curlVars => CurlIInv'
<1>. SUFFICES ASSUME CurlIInv, [CurlNext]_curlVars PROVE CurlIInv'
    OBVIOUS
<1>1. CASE UNCHANGED curlVars
    BY <1>1 DEF curlVars, libVars, CurlIInv, ReplyInv, ResponseInv, CodeInv, ResourceInv,
           SuccessIsWhole, RefusalIsError, Codes, Body, Units
<1>. QED
    BY <1>1, CurlPostIInv, EasyInitIInv, HeaderCallbackIInv, WriteCallbackIInv,
       PerformIInv, CleanupIInv DEF CurlNext

(* Every reachable state satisfies the inductive invariant. *)
THEOREM CurlInvariant == CurlSpec => []CurlIInv
<1>. QED  BY CurlInitIInv, CurlNextIInv, PTL DEF CurlSpec

(* What follows from it. *)

(* Every variable of post() keeps its type. *)
THEOREM CurlTypeCorrect == CurlSpec => []CurlTypeOK
<1>1. CurlIInv => CurlTypeOK
    <2>. SUFFICES ASSUME CurlIInv PROVE CurlTypeOK
        OBVIOUS
    <2>1. response \in Seq(Unit)
        <3>1. CASE cur = 0
            BY <3>1, EmptySeq DEF CurlIInv, ResponseInv
        <3>2. CASE cur # 0
            BY <3>2, BodyType, MaxPostsAssumption DEF CurlIInv, ReplyInv, ResponseInv
        <3>. QED  BY <3>1, <3>2
    <2>2. /\ handles \in Nat /\ slists \in Nat /\ globals \in Nat
          /\ transfers \in Nat /\ failures \in Nat
        BY DEF CurlIInv, ResourceInv
    <2>. QED  BY <2>1, <2>2 DEF CurlIInv, ReplyInv, CurlTypeOK, Unit
<1>. QED  BY <1>1, CurlInvariant, PTL

(* A refusal is never taken for SUCCESS, whatever the stack held before and  *)
(* whatever an earlier line said.                                            *)
THEOREM RefusalReported == CurlSpec => []RefusalIsError
<1>1. CurlIInv => RefusalIsError
    BY DEF CurlIInv
<1>. QED  BY <1>1, CurlInvariant, PTL

(* Every post that got a handle leaves its list of headers behind, every     *)
(* failed one its handle and a global initialisation as well, and nothing    *)
(* else does.                                                                *)
THEOREM PostsLeak == CurlSpec => []HeldPerPost
<1>1. CurlIInv => HeldPerPost
    BY DEF CurlIInv, ResourceInv, HeldPerPost
<1>. QED  BY <1>1, CurlInvariant, PTL

(* A step of this post is a step of HttpPost or a stutter. *)
LEMMA CurlStepKeeps ==
    CurlIInv /\ [CurlNext]_curlVars => [Promise!Next]_(Promise!vars)
<1>. USE DEF Promise!vars, Promise!Errors
<1>. SUFFICES ASSUME CurlIInv, [CurlNext]_curlVars
              PROVE  [Promise!Next]_(Promise!vars)
    OBVIOUS
<1>1. ASSUME NEW k \in Kinds, CurlBegin(k) PROVE Promise!Begin(k)
    BY <1>1, EnterBegins DEF CurlBegin
<1>2. CASE EasyInit \/ EasyInitFails
    BY <1>2 DEF EasyInit, EasyInitFails
<1>3. CASE HeaderCallback
    BY <1>3 DEF HeaderCallback
<1>4. ASSUME NEW n \in 1..BodyLen, WriteCallback(n)
      PROVE  UNCHANGED Promise!vars
    BY <1>4 DEF WriteCallback, CurlIInv, ReplyInv
<1>5. CASE PerformOk
    BY <1>5 DEF PerformOk
<1>6. CASE PerformFails
    BY <1>6 DEF PerformFails, Promise!Next, Promise!Fail, CurlIInv, ReplyInv
<1>7. CASE Cleanup
    <2>1. CASE code = "OK"
        <3>1. response' \in {Body(cur, 0), Body(cur, BodyLen)}
            BY <1>7, BodyEmpty DEF Cleanup, CurlIInv, ResponseInv, Body, Units
        <3>2. \E n \in 0..Promise!ReplyLen - HeaderLen :
                  response' = Promise!Units(cur, HeaderLen, n)
            BY <3>1, BodyLenAssumption, BodyInPromise
        <3>. QED
            BY <1>7, <2>1, <3>2 DEF Cleanup, Promise!Next, Promise!Succeed,
               CurlIInv, ReplyInv
    <2>2. CASE code # "OK"
        BY <1>7, <2>2 DEF Cleanup, Promise!Next, Promise!Fail, CurlIInv, ReplyInv
    <2>. QED  BY <2>1, <2>2
<1>8. CASE UNCHANGED curlVars
    BY <1>8 DEF curlVars
<1>. QED
    BY <1>1, <1>2, <1>3, <1>4, <1>5, <1>6, <1>7, <1>8 DEF CurlNext, Promise!Next

(* The post of the OS build implements the promise of IHTTP::post: every     *)
(* call of curl and every callback is a step of HttpPost or a stutter.       *)
THEOREM CurlKeepsPromise == CurlSpec => HttpPostSpec
<1>1. CurlInit => Promise!Init
    BY OutsideInit DEF CurlInit
<1>. QED  BY <1>1, CurlStepKeeps, CurlInvariant, PTL DEF CurlSpec, HttpPostSpec, Promise!Spec
-----------------------------------------------------------------------------
(* The post of the ESP boards: the inductive invariant. *)

\* The header the client object holds when POST has returned in post q, whose
\* reply is of kind k: that of this reply, or none.
OwnHeader(q, k, g) ==
    IF g # "nothing" /\ Status[k] # "none" THEN [post |-> q, value |-> Status[k]] ELSE NoHeader

\* The response of a post that has not been refused.
SomeBody(q) == \E n \in 0..BodyLen : response = Body(q, n)

EspPostInv ==
    /\ pc # "idle" => cur > 0 /\ result = "NONE" /\ SomeBody(cur)
    /\ pc = "initialize" => got = "nothing"
    /\ pc = "post" => got = "nothing" /\ header = NoHeader
    /\ pc \in {"body", "status"} => header = OwnHeader(cur, reply, got)
    /\ result = "SUCCESS" => SomeBody(cur)

EspIInv == EspTypeOK /\ EspPostInv /\ RefusedByOwnReply

LEMMA StatusType == \A k \in Kinds : Status[k] \in {"none", "zero", "nonzero"}
BY StatusAssumption

LEMMA EspInitIInv == EspInit => EspIInv
<1>. SUFFICES ASSUME EspInit PROVE EspIInv
    OBVIOUS
<1>1. \E n \in 0..BodyLen : response = Body(cur, n)
    <2>1. response = Body(cur, 0) /\ 0 \in 0..BodyLen
        BY BodyEmpty, BodyLenAssumption DEF EspInit, Outside
    <2>. QED  BY <2>1
<1>2. header \in [post : 0..MaxPosts, value : {"none", "zero", "nonzero"}]
    BY MaxPostsAssumption DEF EspInit, Outside, NoHeader
<1>3. EspTypeOK
    <2>1. response = Message(cur) \/ \E n \in 0..BodyLen : response = Body(cur, n)
        BY <1>1
    <2>2. cur \in 0..MaxPosts
        BY MaxPostsAssumption DEF EspInit, Outside
    <2>. QED  BY <1>2, <2>1, <2>2 DEF EspInit, Outside, EspTypeOK
<1>. QED  BY <1>3 DEF EspInit, Outside, EspIInv, EspPostInv, RefusedByOwnReply

LEMMA EspPostIInv ==
    ASSUME EspIInv, NEW k \in Kinds, EspBegin(k)
    PROVE  EspIInv'
<1>1. \E n \in 0..BodyLen : response' = Body(cur', n)
    <2>1. response' = Body(cur', 0) /\ 0 \in 0..BodyLen
        BY BodyEmpty, BodyLenAssumption DEF EspBegin, Enter
    <2>. QED  BY <2>1
<1>2. EspTypeOK'
    <2>1. response' = Message(cur') \/ \E n \in 0..BodyLen : response' = Body(cur', n)
        BY <1>1
    <2>2. cur' \in 0..MaxPosts /\ header' = header
        BY MaxPostsAssumption DEF EspBegin, Enter, EspIInv, EspTypeOK
    <2>. QED  BY <2>1, <2>2 DEF EspBegin, Enter, EspIInv, EspTypeOK
<1>3. EspPostInv'
    BY <1>1 DEF EspBegin, Enter, EspIInv, EspTypeOK, EspPostInv, SomeBody
<1>. QED  BY <1>2, <1>3 DEF EspBegin, Enter, EspIInv, RefusedByOwnReply

(* begin() and collectHeaders: the header of an earlier reply is forgotten. *)
LEMMA InitializeIInv ==
    ASSUME EspIInv, InitializeFails \/ Initialize
    PROVE  EspIInv'
<1>1. CASE InitializeFails
    BY <1>1 DEF InitializeFails, EspIInv, EspTypeOK, EspPostInv, SomeBody, RefusedByOwnReply,
       Body, Units, Message, OwnHeader, NoHeader
<1>2. CASE Initialize
    BY <1>2, MaxPostsAssumption DEF Initialize, EspIInv, EspTypeOK, EspPostInv, SomeBody,
       RefusedByOwnReply, Body, Units, Message, OwnHeader, NoHeader
<1>. QED  BY <1>1, <1>2

(* POST returns, with the header of the reply of this post or with none. *)
LEMMA PostReturnsIInv ==
    ASSUME EspIInv, PostAnswered \/ PostFails
    PROVE  EspIInv'
<1>1. /\ pc = "post" /\ pc' = "body" /\ cur \in 0..MaxPosts /\ result = "NONE"
      /\ reply \in Kinds /\ header = NoHeader /\ got = "nothing"
      /\ UNCHANGED <<cur, reply, response, result>>
    BY DEF PostAnswered, PostFails, EspIInv, EspTypeOK, EspPostInv
<1>2. got' \in {"nothing", "status", "headers"} /\ header' = OwnHeader(cur, reply, got')
    BY <1>1 DEF PostAnswered, PostFails, Collected, OwnHeader
<1>3. header' \in [post : 0..MaxPosts, value : {"none", "zero", "nonzero"}]
    BY <1>1, <1>2, StatusType, MaxPostsAssumption DEF OwnHeader, NoHeader
<1>4. EspTypeOK'
    BY <1>1, <1>2, <1>3 DEF EspIInv, EspTypeOK, Message, Body, Units
<1>5. EspPostInv'
    BY <1>1, <1>2 DEF EspIInv, EspPostInv, SomeBody, OwnHeader, NoHeader, Body, Units
<1>6. RefusedByOwnReply'
    BY <1>1 DEF RefusedByOwnReply
<1>. QED  BY <1>4, <1>5, <1>6 DEF EspIInv

LEMMA GetStringIInv ==
    ASSUME EspIInv, GetString
    PROVE  EspIInv'
<1>1. \E n \in 0..BodyLen : response' = Body(cur', n)
    BY DEF GetString
<1>2. EspTypeOK'
    BY <1>1 DEF GetString, EspIInv, EspTypeOK
<1>3. EspPostInv'
    BY <1>1 DEF GetString, EspIInv, EspPostInv, SomeBody, OwnHeader, NoHeader
<1>. QED  BY <1>2, <1>3 DEF GetString, EspIInv, EspPostInv, RefusedByOwnReply

(* The verdict: only a reply that came in this post can have refused it. *)
LEMMA JudgeStatusIInv ==
    ASSUME EspIInv, JudgeStatus
    PROVE  EspIInv'
<1>1. /\ pc = "status" /\ pc' = "idle" /\ reply \in Kinds
      /\ header = OwnHeader(cur, reply, got)
      /\ UNCHANGED <<cur, reply, got, header>>
    BY DEF JudgeStatus, EspIInv, EspTypeOK, EspPostInv
<1>2. Refused <=> got # "nothing" /\ Status[reply] = "nonzero"
    BY <1>1 DEF Refused, OwnHeader, NoHeader
<1>3. Refused => header.post = cur
    BY <1>1, <1>2 DEF OwnHeader
<1>4. \/ Refused /\ response' = Message(cur') /\ result' = "ERROR_GRPC"
      \/ ~Refused /\ (\E n \in 0..BodyLen : response' = Body(cur', n)) /\ result' = "SUCCESS"
    BY <1>1, <1>3 DEF JudgeStatus, EspIInv, EspPostInv, SomeBody
<1>5. EspTypeOK'
    BY <1>1, <1>4 DEF EspIInv, EspTypeOK
<1>6. EspPostInv'
    BY <1>1, <1>4 DEF EspPostInv, SomeBody
<1>7. RefusedByOwnReply'
    BY <1>1, <1>2, <1>4 DEF RefusedByOwnReply
<1>. QED  BY <1>5, <1>6, <1>7 DEF EspIInv

LEMMA EspNextIInv == EspIInv /\ [EspNext]_espVars => EspIInv'
<1>. SUFFICES ASSUME EspIInv, [EspNext]_espVars PROVE EspIInv'
    OBVIOUS
<1>1. CASE UNCHANGED espVars
    BY <1>1 DEF espVars, EspIInv, EspTypeOK, EspPostInv, SomeBody, RefusedByOwnReply, Body,
       Units, Message, OwnHeader, NoHeader
<1>. QED
    BY <1>1, EspPostIInv, InitializeIInv, PostReturnsIInv, GetStringIInv,
       JudgeStatusIInv DEF EspNext, EspStep

(* Every reachable state satisfies the inductive invariant. *)
THEOREM EspInvariant == EspSpec => []EspIInv
<1>. QED  BY EspInitIInv, EspNextIInv, PTL DEF EspSpec

(* What follows from it. *)

(* Every variable of post() keeps its type, and the response is a start of   *)
(* the body or the message of the reply to this very post.                   *)
THEOREM EspTypeCorrect == EspSpec => []EspTypeOK
<1>1. EspIInv => EspTypeOK
    BY DEF EspIInv
<1>. QED  BY <1>1, EspInvariant, PTL

(* A step of this post is a step of HttpPost or a stutter. *)
LEMMA EspStepKeeps ==
    EspIInv /\ [EspNext]_espVars => [Promise!Next]_(Promise!vars)
<1>. USE DEF Promise!vars, Promise!Errors
<1>. SUFFICES ASSUME EspIInv, [EspNext]_espVars
              PROVE  [Promise!Next]_(Promise!vars)
    OBVIOUS
<1>1. ASSUME NEW k \in Kinds, EspBegin(k) PROVE Promise!Begin(k)
    BY <1>1, EnterBegins DEF EspBegin
<1>2. CASE InitializeFails
    BY <1>2 DEF InitializeFails, Promise!Next, Promise!Fail, EspIInv, EspPostInv
<1>3. CASE Initialize
    BY <1>3 DEF Initialize
<1>4. CASE PostAnswered \/ PostFails
    BY <1>4 DEF PostAnswered, PostFails
<1>5. CASE GetString
    BY <1>5 DEF GetString, EspIInv, EspPostInv
<1>6. CASE JudgeStatus
    <2>1. CASE Refused
        BY <1>6, <2>1 DEF JudgeStatus, Promise!Next, Promise!Fail, EspIInv, EspPostInv
    <2>2. CASE ~Refused
        <3>0. PICK m \in 0..BodyLen : response' = Body(cur, m)
            BY <1>6, <2>2 DEF JudgeStatus, EspIInv, EspPostInv, SomeBody, Body, Units
        <3>1. \E n \in 0..Promise!ReplyLen - HeaderLen :
                  response' = Promise!Units(cur, HeaderLen, n)
            BY <3>0, BodyInPromise
        <3>. QED
            BY <1>6, <2>2, <3>1 DEF JudgeStatus, Promise!Next, Promise!Succeed,
               EspIInv, EspPostInv
    <2>. QED  BY <2>1, <2>2
<1>7. CASE UNCHANGED espVars
    BY <1>7 DEF espVars
<1>. QED
    BY <1>1, <1>2, <1>3, <1>4, <1>5, <1>6, <1>7 DEF EspNext, EspStep, Promise!Next

(* The post of the ESP boards implements the promise of IHTTP::post.         *)
THEOREM EspKeepsPromise == EspSpec => HttpPostSpec
<1>1. EspInit => Promise!Init
    BY OutsideInit DEF EspInit
<1>. QED  BY <1>1, EspStepKeeps, EspInvariant, PTL DEF EspSpec, HttpPostSpec, Promise!Spec
-----------------------------------------------------------------------------
(* The program, built for one platform. *)

PlatformIInv ==
    /\ platform \in {"nano33", "os", "esp"}
    /\ platform = "nano33" => NanoIInv
    /\ platform = "os" => CurlIInv
    /\ platform = "esp" => EspIInv

(* A step of the program is one of its own platform, which stays the same. *)
LEMMA PlatformSteps ==
    ASSUME PlatformIInv, [PlatformNext]_platformVars
    PROVE  /\ platform' = platform
           /\ platform = "nano33" => [NanoNext]_nanoVars
           /\ platform = "os" => [CurlNext]_curlVars
           /\ platform = "esp" => [EspNext]_espVars
<1>1. CASE UNCHANGED platformVars
    <2>1. UNCHANGED <<platform, nanoVars, curlVars, espVars>>
        BY <1>1 DEF platformVars, nanoOnly, curlOnly, espOnly, nanoVars, curlVars, espVars
    <2>. QED  BY <2>1
<1>2. CASE PlatformNext
    BY <1>2 DEF PlatformNext, OnNano, OnOs, OnEsp
<1>. QED  BY <1>1, <1>2

LEMMA PlatformNextIInv == PlatformIInv /\ [PlatformNext]_platformVars => PlatformIInv'
BY PlatformSteps, NanoNextIInv, CurlNextIInv, EspNextIInv DEF PlatformIInv

(* On every platform the invariant of its post holds. *)
THEOREM PlatformInvariant == PlatformSpec => []PlatformIInv
<1>1. PlatformInit => PlatformIInv
    BY NanoInitIInv, CurlInitIInv, EspInitIInv DEF PlatformInit, PlatformIInv
<1>. QED  BY <1>1, PlatformNextIInv, PTL DEF PlatformSpec

(* What SUCCESS hands over on a Nano is a run of the reply to this request,  *)
(* from its first '{' on, in a header line or wherever it is.                *)
THEOREM BraceDecides == PlatformSpec => []NanoFromBrace
<1>1. PlatformIInv => NanoFromBrace
    BY DEF PlatformIInv, NanoIInv, NanoFromBrace
<1>. QED  BY <1>1, PlatformInvariant, PTL

(* With libcurl SUCCESS never hands over a part of a body, however the       *)
(* callbacks came and wherever the transfer failed.                          *)
THEOREM WholeOrNothing == PlatformSpec => []OsWholeOrNothing
<1>1. PlatformIInv => OsWholeOrNothing
    BY DEF PlatformIInv, CurlIInv, OsWholeOrNothing
<1>. QED  BY <1>1, PlatformInvariant, PTL

(* On an ESP a post is refused exactly by its own reply: what the client     *)
(* object kept of an earlier one never decides, in any number of posts.      *)
THEOREM OwnReplyDecides == PlatformSpec => []EspOwnReply
<1>1. PlatformIInv => EspOwnReply
    BY DEF PlatformIInv, EspIInv, EspOwnReply
<1>. QED  BY <1>1, PlatformInvariant, PTL

(* Whatever platform makeHTTP was built for, its posts keep the promise of   *)
(* IHTTP::post: the callers of Wallets may rest on it.                       *)
THEOREM PlatformKeepsPromise == PlatformSpec => HttpPostSpec
<1>1. PlatformInit => Promise!Init
    BY OutsideInit DEF PlatformInit, NanoInit
<1>2. PlatformIInv /\ PlatformIInv' /\ [PlatformNext]_platformVars
          => [Promise!Next]_(Promise!vars)
    BY PlatformSteps, NanoStepKeeps, CurlStepKeeps, EspStepKeeps DEF PlatformIInv
<1>. QED  BY <1>1, <1>2, PlatformInvariant, PTL DEF PlatformSpec, HttpPostSpec, Promise!Spec
=============================================================================
