--------------------------- MODULE Session_proofs ---------------------------
(***************************************************************************)
(* Theorems about ActionSend and about the sketches of Session on top of   *)
(* it, for every value of their constants: any actions, nonces and chain   *)
(* ids, a buffer of any size, any number of sends and of other boards.     *)
(***************************************************************************)
EXTENDS Session, SequenceTheorems, TLAPS

CoreSet == [action : Actions, nonce : Nat, chainId : ChainIds \cup {0}]

-----------------------------------------------------------------------------
(* Sequences that grow at the end. *)

LEMMA AppendLast ==
    ASSUME NEW S, NEW s \in Seq(S), NEW e \in S
    PROVE  /\ Append(s, e) \in Seq(S) /\ Len(Append(s, e)) = Len(s) + 1
           /\ Append(s, e)[Len(s) + 1] = e
           /\ \A i \in 1..Len(s) : Append(s, e)[i] = s[i]
           /\ Append(s, e) # <<>> /\ Last(Append(s, e)) = e
<1>1. /\ Append(s, e) \in Seq(S) /\ Len(Append(s, e)) = Len(s) + 1
      /\ Append(s, e)[Len(s) + 1] = e
      /\ \A i \in 1..Len(s) : Append(s, e)[i] = s[i]
    BY AppendProperties
<1>2. Append(s, e) # <<>>
    BY <1>1, LenProperties, EmptySeq
<1>. QED  BY <1>1, <1>2 DEF Last

LEMMA AskedCores ==
    ASSUME asked \in Seq(CoreSet)
    PROVE  \A n \in DOMAIN asked : asked[n] \in CoreSet /\ asked[n].nonce \in Nat
<1>1. DOMAIN asked = 1..Len(asked)
    BY LenProperties
<1>2. \A n \in 1..Len(asked) : asked[n] \in CoreSet
    BY ElementOfSeq
<1>. QED  BY <1>1, <1>2 DEF CoreSet

-----------------------------------------------------------------------------
(* What is signed and what the chain encodes. *)

(* No action is encoded as one that was cut off. *)
LEMMA NeverCut == \A a \in Actions : Converted(a) # Cut
<1>. SUFFICES ASSUME NEW a \in Actions PROVE Converted(a) # Cut
    OBVIOUS
<1>1. /\ a \in [kind : {"transfer", "execution"}, body : {a.body},
                data : Nat, form : {"hex", "0x", "odd", "bad"}]
    BY ActionsAssumption
<1>2. Converted(a).kind = a.kind /\ a.kind # "cut"
    BY <1>1 DEF Converted
<1>. QED  BY <1>2 DEF Cut

(* The chain agrees with the signature of a core exactly when it fits. *)
LEMMA SignatureAgrees ==
    ASSUME NEW c \in CoreSet
    PROVE  Encoded(c, Capacity) = ChainEncoded(c) <=> Fits(c.action)
<1>1. c.action \in Actions
    BY DEF CoreSet
<1>2. CASE Fits(c.action)
    BY <1>2 DEF Fits, Encoded, ChainEncoded
<1>3. CASE ~Fits(c.action)
    <2>1. Encoded(c, Capacity).action = Cut
        BY <1>3 DEF Fits, Encoded
    <2>2. ChainEncoded(c).action # Cut
        BY <1>1, NeverCut DEF ChainEncoded
    <2>. QED  BY <1>3, <2>1, <2>2
<1>. QED  BY <1>2, <1>3

(* Nor is anything the chain encodes what is left of a signature that was     *)
(* written over.                                                              *)
LEMMA SpoiltDiffers ==
    ASSUME NEW c
    PROVE  ChainEncoded(c) # Spoilt
<1>1. "version" \in DOMAIN ChainEncoded(c)
    BY DEF ChainEncoded
<1>2. "version" \notin DOMAIN Spoilt
    BY DEF Spoilt
<1>. QED  BY <1>1, <1>2

-----------------------------------------------------------------------------
(* The inductive invariant of ActionSend. *)

SeqInv ==
    /\ asked \in Seq(CoreSet) /\ Len(asked) <= MaxSends
    /\ accepted \in Seq(Nat) /\ \A i \in DOMAIN accepted : accepted[i] \in DOMAIN asked
    /\ core \in CoreSet
    /\ others \in Nat

\* What may be posted with core c.
Signatures(c) ==
    {Encoded(c, Capacity)} \cup (IF c.action.form = "odd" THEN {Spoilt} ELSE {})

\* A request that was given up has the signature of its own send.
LateInv ==
    \A r \in late : r.send \in DOMAIN asked /\ r.signed \in Signatures(asked[r.send])

\* The chain has moved past the nonces it took; so it takes no send twice.
NonceInv == \A i \in DOMAIN accepted : asked[accepted[i]].nonce < Pending

\* The chain took the latest send.
OwnTaken == \E i \in DOMAIN accepted : accepted[i] = Len(asked)

SendInv ==
    /\ pc # "idle" => asked # <<>> /\ core = asked[Len(asked)] /\ ret = "NONE"
    /\ pc = "post" => signed = Encoded(core, Capacity)
    /\ pc \in {"chain", "reply"} => signed \in Signatures(core)
    /\ pc \in {"sign", "post", "chain"} => verdict = "NONE"
    /\ pc = "reply" => verdict \in {"accepted", "refused"}
    /\ pc = "reply" /\ verdict = "accepted" => OwnTaken
    /\ ret = "SUCCESS" => OwnTaken

AInv == TypeOK /\ SeqInv /\ LateInv /\ NonceInv /\ SendInv
            /\ CutIsNeverAccepted /\ AcceptedWasAsked

LEMMA AInit == Init => AInv
<1>. SUFFICES ASSUME Init PROVE AInv
    OBVIOUS
<1>1. /\ asked = <<>> /\ accepted = <<>> /\ late = {} /\ others = 0 /\ pc = "idle"
      /\ Len(asked) = 0 /\ asked \in Seq(CoreSet) /\ accepted \in Seq(Nat)
      /\ accepted \in Seq(1..MaxSends) /\ DOMAIN accepted = {} /\ ret = "NONE"
    BY DEF Init
<1>2. core \in CoreSet
    BY DEF Init, Core, CoreSet
<1>3. TypeOK
    <2>1. core.action \in Actions /\ core.nonce \in Nat /\ core.chainId \in ChainIds \cup {0}
        BY <1>2 DEF CoreSet
    <2>2. Len(asked) <= MaxSends /\ others \in 0..MaxOthers
        BY <1>1, BoundsAssumption
    <2>3. overrun = FALSE /\ verdict = "NONE" /\ ret = "NONE"
        BY DEF Init
    <2>. QED  BY <1>1, <2>1, <2>2, <2>3 DEF TypeOK
<1>4. SeqInv
    BY <1>1, <1>2, BoundsAssumption DEF SeqInv
<1>5. LateInv /\ NonceInv /\ SendInv /\ CutIsNeverAccepted /\ AcceptedWasAsked
    BY <1>1 DEF LateInv, NonceInv, SendInv, CutIsNeverAccepted, AcceptedWasAsked
<1>. QED  BY <1>3, <1>4, <1>5 DEF AInv

(* The application asks: what was asked before stays where it is. *)
LEMMA SendAInv ==
    ASSUME AInv, NEW a \in Actions, NEW n \in Nat, NEW c \in ChainIds \cup {0},
           Send(a, n, c)
    PROVE  /\ AInv' /\ Len(asked') = Len(asked) + 1 /\ asked'[Len(asked')] = Core(a, n, c)
           /\ Len(asked) \in Nat /\ Pending' = Pending
           /\ DOMAIN asked = 1..Len(asked) /\ DOMAIN asked' = 1..Len(asked) + 1
           /\ \A i \in DOMAIN asked : asked'[i] = asked[i]
<1>. DEFINE new == Core(a, n, c)
<1>1. /\ pc = "idle" /\ pc' = "sign" /\ core' = new /\ asked' = Append(asked, new)
      /\ Len(asked) < MaxSends /\ overrun' = FALSE /\ verdict' = "NONE"
      /\ ret' = "NONE" /\ UNCHANGED <<signed, late, accepted, others>>
    BY DEF Send
<1>2. new \in CoreSet
    BY DEF Core, CoreSet
<1>3. /\ asked \in Seq(CoreSet) /\ Len(asked) \in Nat /\ DOMAIN asked = 1..Len(asked)
    BY LenProperties DEF AInv, SeqInv
<1>4. /\ asked' \in Seq(CoreSet) /\ Len(asked') = Len(asked) + 1
      /\ asked'[Len(asked)+1] = new /\ asked' # <<>>
      /\ \A i \in 1..Len(asked) : asked'[i] = asked[i]
      /\ DOMAIN asked' = 1..Len(asked) + 1
    <2>1. /\ asked' \in Seq(CoreSet) /\ Len(asked') = Len(asked) + 1
          /\ asked'[Len(asked)+1] = new /\ asked' # <<>>
          /\ \A i \in 1..Len(asked) : asked'[i] = asked[i]
        BY <1>1, <1>2, <1>3, AppendLast
    <2>. QED  BY <2>1, LenProperties
<1>5. \A i \in DOMAIN asked : i \in DOMAIN asked' /\ asked'[i] = asked[i]
    BY <1>3, <1>4
<1>6. SeqInv'
    BY <1>1, <1>2, <1>3, <1>4, <1>5, BoundsAssumption DEF AInv, SeqInv
<1>7. TypeOK'
    <2>1. /\ core'.action \in Actions /\ core'.nonce \in Nat
          /\ core'.chainId \in ChainIds \cup {0}
        BY <1>1, <1>2 DEF CoreSet
    <2>2. Len(asked') <= MaxSends
        BY <1>1, <1>3, <1>4, BoundsAssumption
    <2>3. \A r \in late' : r.send \in DOMAIN asked'
        BY <1>1, <1>5 DEF AInv, LateInv
    <2>4. others' \in 0..MaxOthers /\ accepted' \in Seq(1..MaxSends)
        BY <1>1 DEF AInv, TypeOK
    <2>. QED  BY <1>1, <2>1, <2>2, <2>3, <2>4 DEF TypeOK
<1>8. LateInv'
    BY <1>1, <1>5 DEF AInv, LateInv, Signatures
<1>9. NonceInv' /\ Pending' = Pending
    BY <1>1, <1>5 DEF AInv, SeqInv, NonceInv, Pending
<1>10. SendInv'
    BY <1>1, <1>3, <1>4 DEF SendInv
<1>11. CutIsNeverAccepted' /\ AcceptedWasAsked'
    BY <1>1, <1>5 DEF AInv, SeqInv, CutIsNeverAccepted, AcceptedWasAsked, Fits
<1>. QED  BY <1>1, <1>3, <1>4, <1>5, <1>6, <1>7, <1>8, <1>9, <1>10, <1>11 DEF AInv

(* The chain takes a request: that of a send it has not taken, and that fits. *)
LEMMA TakenAInv ==
    ASSUME AInv, NEW r, r.send \in DOMAIN asked, r.signed \in Signatures(asked[r.send]),
           Taken(r), accepted' = Append(accepted, r.send), UNCHANGED <<asked, others>>
    PROVE  /\ accepted' \in Seq(Nat) /\ accepted' \in Seq(1..MaxSends)
           /\ Len(accepted') = Len(accepted) + 1 /\ Last(accepted') = r.send
           /\ Pending' = Pending + 1 /\ Pending \in Nat /\ Pending > 0
           /\ asked[r.send].nonce = Pending
           /\ Len(accepted) \in Nat /\ DOMAIN accepted' = 1..Len(accepted) + 1
           /\ \A i \in DOMAIN accepted' : accepted'[i] \in DOMAIN asked
           /\ \A i \in DOMAIN accepted : i \in DOMAIN accepted' /\ accepted'[i] = accepted[i]
           /\ \E i \in DOMAIN accepted' : accepted'[i] = r.send
           /\ NonceInv' /\ CutIsNeverAccepted'
           /\ \A i, j \in DOMAIN accepted' : accepted'[i] = accepted'[j] => i = j
<1>. DEFINE n == r.send
<1>1. /\ asked \in Seq(CoreSet) /\ Len(asked) \in Nat /\ DOMAIN asked = 1..Len(asked)
      /\ accepted \in Seq(Nat) /\ Len(accepted) \in Nat
      /\ DOMAIN accepted = 1..Len(accepted) /\ others \in Nat
      /\ accepted \in Seq(1..MaxSends) /\ Len(asked) <= MaxSends
      /\ \A i \in DOMAIN accepted : accepted[i] \in DOMAIN asked
    BY LenProperties DEF AInv, SeqInv, TypeOK
<1>2. n \in Nat /\ n \in 1..MaxSends /\ asked[n] \in CoreSet
    BY <1>1, BoundsAssumption
<1>3. /\ accepted' \in Seq(Nat) /\ Len(accepted') = Len(accepted) + 1
      /\ accepted'[Len(accepted) + 1] = n
      /\ \A i \in 1..Len(accepted) : accepted'[i] = accepted[i]
      /\ Last(accepted') = n
    BY <1>1, <1>2, AppendLast
<1>4. accepted' \in Seq(1..MaxSends)
    BY <1>1, <1>2, AppendLast
<1>5. DOMAIN accepted' = 1..Len(accepted) + 1
    BY <1>3, LenProperties
<1>6. /\ asked[n].nonce = Pending /\ asked[n].chainId = 0
      /\ r.signed = ChainEncoded(asked[n])
    BY DEF Taken
<1>7. Fits(asked[n].action)
    BY <1>2, <1>6, SpoiltDiffers, SignatureAgrees DEF Signatures
<1>8. Pending \in Nat /\ Pending > 0 /\ Pending' = Pending + 1
    BY <1>1, <1>3 DEF Pending
<1>9. \A i \in DOMAIN accepted : asked[accepted[i]].nonce \in Nat /\ asked[accepted[i]].nonce < Pending
    BY <1>1, AskedCores DEF AInv, NonceInv
<1>10. \A i \in DOMAIN accepted : accepted[i] # n
    BY <1>6, <1>8, <1>9
<1>11. NonceInv'
    <2>. SUFFICES ASSUME NEW i \in 1..Len(accepted) + 1
                  PROVE  asked[accepted'[i]].nonce < Pending + 1
        BY <1>5, <1>8 DEF NonceInv
    <2>1. CASE i = Len(accepted) + 1
        BY <1>3, <1>6, <1>8, <2>1
    <2>2. CASE i # Len(accepted) + 1
        <3>1. i \in 1..Len(accepted)
            BY <1>1, <2>2
        <3>2. accepted'[i] = accepted[i] /\ asked[accepted[i]].nonce < Pending
            BY <1>1, <1>3, <1>9, <3>1
        <3>3. asked[accepted[i]].nonce \in Nat
            BY <1>1, <1>9, <3>1
        <3>. QED  BY <1>8, <3>2, <3>3
    <2>. QED  BY <2>1, <2>2
<1>12. CutIsNeverAccepted'
    BY <1>1, <1>3, <1>5, <1>6, <1>7 DEF AInv, CutIsNeverAccepted, Fits
<1>13. \A i, j \in DOMAIN accepted' : accepted'[i] = accepted'[j] => i = j
    <2>. SUFFICES ASSUME NEW i \in 1..Len(accepted) + 1, NEW j \in 1..Len(accepted) + 1,
                         accepted'[i] = accepted'[j]
                  PROVE  i = j
        BY <1>5
    <2>1. i = Len(accepted) + 1 \/ i \in DOMAIN accepted
        BY <1>1
    <2>2. j = Len(accepted) + 1 \/ j \in DOMAIN accepted
        BY <1>1
    <2>. QED  BY <1>1, <1>3, <1>10, <2>1, <2>2 DEF AInv, AcceptedWasAsked
<1>14. \A i \in DOMAIN accepted' : accepted'[i] \in DOMAIN asked
    BY <1>1, <1>3, <1>5
<1>15. /\ \A i \in DOMAIN accepted : i \in DOMAIN accepted' /\ accepted'[i] = accepted[i]
       /\ Len(accepted) + 1 \in DOMAIN accepted'
    BY <1>1, <1>3, <1>5
<1>. QED  BY <1>1, <1>3, <1>4, <1>5, <1>6, <1>8, <1>11, <1>12, <1>13, <1>14, <1>15

(* The chain answers the latest send. *)
LEMMA AcceptsAInv ==
    ASSUME AInv, ChainAccepts
    PROVE  /\ AInv' /\ Len(accepted') = Len(accepted) + 1 /\ Last(accepted') = Len(asked)
           /\ Pending' = Pending + 1 /\ Pending \in Nat /\ Pending > 0 /\ core.nonce = Pending
           /\ Len(accepted) \in Nat
<1>1. /\ pc = "chain" /\ pc' = "reply" /\ verdict' = "accepted" /\ Taken(Request)
      /\ accepted' = Append(accepted, Len(asked))
      /\ UNCHANGED <<core, signed, overrun, ret, asked, late, others>>
    BY DEF ChainAccepts
<1>2. /\ asked # <<>> /\ core = asked[Len(asked)] /\ ret = "NONE"
      /\ signed \in Signatures(core)
    BY <1>1 DEF AInv, SendInv
<1>3. Len(asked) \in DOMAIN asked
    <2>1. asked \in Seq(CoreSet)
        BY DEF AInv, SeqInv
    <2>. QED  BY <1>2, <2>1, LenProperties, EmptySeq
<1>4. Request.send = Len(asked) /\ Request.signed = signed
    BY DEF Request
<1>. HIDE DEF Request
<1>5. /\ accepted' \in Seq(Nat) /\ accepted' \in Seq(1..MaxSends)
      /\ Len(accepted') = Len(accepted) + 1 /\ Last(accepted') = Len(asked)
      /\ Pending' = Pending + 1 /\ Pending \in Nat /\ Pending > 0
      /\ asked[Len(asked)].nonce = Pending /\ Len(accepted) \in Nat
      /\ \A i \in DOMAIN accepted' : accepted'[i] \in DOMAIN asked
      /\ \E i \in DOMAIN accepted' : accepted'[i] = Len(asked)
      /\ NonceInv' /\ CutIsNeverAccepted'
      /\ \A i, j \in DOMAIN accepted' : accepted'[i] = accepted'[j] => i = j
    BY <1>1, <1>2, <1>3, <1>4, TakenAInv
<1>6. SeqInv' /\ LateInv'
    BY <1>1, <1>5 DEF AInv, SeqInv, LateInv
<1>7. TypeOK'
    BY <1>1, <1>5 DEF AInv, TypeOK
<1>8. SendInv'
    BY <1>1, <1>2, <1>5 DEF SendInv, OwnTaken, Signatures
<1>9. AcceptedWasAsked'
    BY <1>1, <1>2, <1>5 DEF AcceptedWasAsked
<1>. QED  BY <1>2, <1>5, <1>6, <1>7, <1>8, <1>9 DEF AInv

(* A request that was given up arrives after all. *)
LEMMA LateAInv ==
    ASSUME AInv, NEW r \in late, LateArrives(r)
    PROVE  /\ AInv'
           /\ \/ accepted' = accepted /\ Pending' = Pending
              \/ /\ Taken(r) /\ Len(accepted') = Len(accepted) + 1 /\ Last(accepted') = r.send
                 /\ Pending' = Pending + 1 /\ Pending \in Nat /\ Pending > 0
                 /\ r.send \in DOMAIN asked /\ asked[r.send].nonce = Pending
<1>1. /\ late' = late \ {r}
      /\ UNCHANGED <<pc, core, signed, overrun, verdict, ret, asked, others>>
    BY DEF LateArrives
<1>2. r.send \in DOMAIN asked /\ r.signed \in Signatures(asked[r.send])
    BY DEF AInv, LateInv
<1>3. LateInv'
    BY <1>1 DEF AInv, LateInv
<1>4. CASE Taken(r)
    <2>1. accepted' = Append(accepted, r.send)
        BY <1>4 DEF LateArrives
    <2>2. /\ accepted' \in Seq(Nat) /\ accepted' \in Seq(1..MaxSends)
          /\ Len(accepted') = Len(accepted) + 1 /\ Last(accepted') = r.send
          /\ Pending' = Pending + 1 /\ Pending \in Nat /\ Pending > 0
          /\ asked[r.send].nonce = Pending
          /\ \A i \in DOMAIN accepted' : accepted'[i] \in DOMAIN asked
          /\ \A i \in DOMAIN accepted : i \in DOMAIN accepted' /\ accepted'[i] = accepted[i]
          /\ NonceInv' /\ CutIsNeverAccepted'
          /\ \A i, j \in DOMAIN accepted' : accepted'[i] = accepted'[j] => i = j
        BY <1>1, <1>2, <1>4, <2>1, TakenAInv
    <2>3. SeqInv' /\ TypeOK'
        BY <1>1, <2>2 DEF AInv, SeqInv, TypeOK
    <2>4. OwnTaken => OwnTaken'
        BY <1>1, <2>2 DEF OwnTaken
    <2>5. SendInv'
        BY <1>1, <2>4 DEF AInv, SendInv
    <2>6. AcceptedWasAsked'
        BY <1>1, <2>2, <2>5 DEF AcceptedWasAsked, SendInv, OwnTaken
    <2>. QED  BY <1>2, <1>3, <1>4, <2>2, <2>3, <2>5, <2>6 DEF AInv
<1>5. CASE ~Taken(r)
    <2>1. accepted' = accepted
        BY <1>5 DEF LateArrives
    <2>2. SeqInv' /\ TypeOK' /\ NonceInv' /\ Pending' = Pending
        BY <1>1, <2>1 DEF AInv, SeqInv, TypeOK, NonceInv, Pending
    <2>3. SendInv' /\ CutIsNeverAccepted' /\ AcceptedWasAsked'
        BY <1>1, <2>1 DEF AInv, SendInv, OwnTaken, CutIsNeverAccepted, AcceptedWasAsked, Fits
    <2>. QED  BY <1>3, <2>1, <2>2, <2>3 DEF AInv
<1>. QED  BY <1>4, <1>5

(* Every other step of a send leaves the two sequences alone. *)
LEMMA OtherAInv ==
    ASSUME AInv,
           \/ Sign \/ Post \/ ChainRefuses \/ RequestLost \/ Reply \/ ReplyLost
           \/ OthersSend \/ UNCHANGED vars
    PROVE  AInv' /\ Pending' >= Pending /\ Pending \in Nat /\ Pending' \in Nat
<1>1. UNCHANGED <<core, asked, accepted>>
    BY DEF Sign, Post, ChainRefuses, RequestLost, Reply, ReplyLost, OthersSend, vars
<1>2. LateInv' /\ \A r \in late' : r.send \in DOMAIN asked
    <2>1. CASE RequestLost
        <3>1. asked # <<>> /\ core = asked[Len(asked)] /\ signed \in Signatures(core)
            BY <2>1 DEF RequestLost, AInv, SendInv
        <3>2. Len(asked) \in DOMAIN asked
            <4>1. asked \in Seq(CoreSet)
                BY DEF AInv, SeqInv
            <4>. QED  BY <3>1, <4>1, LenProperties, EmptySeq
        <3>. QED  BY <1>1, <2>1, <3>1, <3>2 DEF RequestLost, Request, AInv, LateInv, Signatures
    <2>2. CASE ~RequestLost
        <3>1. late' = late
            BY <2>2 DEF Sign, Post, ChainRefuses, Reply, ReplyLost, OthersSend, vars
        <3>. QED  BY <1>1, <3>1 DEF AInv, LateInv, Signatures
    <2>. QED  BY <2>1, <2>2
<1>3. TypeOK'
    <2>1. CASE Sign \/ ChainRefuses \/ RequestLost
        BY <1>1, <1>2, <2>1 DEF AInv, TypeOK, Sign, ChainRefuses, RequestLost
    <2>2. CASE Post
        <3>1. overrun' \in BOOLEAN
            BY <2>2, Zenon DEF Post
        <3>. QED  BY <1>1, <1>2, <2>2, <3>1 DEF AInv, TypeOK, Post
    <2>3. CASE Reply \/ ReplyLost
        BY <1>1, <1>2, <2>3 DEF AInv, TypeOK, Reply, ReplyLost
    <2>4. CASE OthersSend
        BY <1>1, <1>2, <2>4, BoundsAssumption DEF AInv, TypeOK, OthersSend
    <2>5. CASE UNCHANGED vars
        BY <2>5 DEF AInv, TypeOK, vars
    <2>. QED  BY <2>1, <2>2, <2>3, <2>4, <2>5
<1>4. others' \in Nat /\ others' >= others /\ others \in Nat
    <2>1. others \in Nat
        BY DEF AInv, SeqInv
    <2>2. others' = others \/ others' = others + 1
        BY DEF Sign, Post, ChainRefuses, RequestLost, Reply, ReplyLost, OthersSend, vars
    <2>. QED  BY <2>1, <2>2
<1>5. SeqInv'
    BY <1>1, <1>4 DEF AInv, SeqInv
<1>6. Pending' >= Pending /\ Pending \in Nat /\ Pending' \in Nat
    <2>1. Len(accepted) \in Nat
        BY LenProperties DEF AInv, SeqInv
    <2>. QED  BY <1>1, <1>4, <2>1 DEF Pending
<1>7. NonceInv'
    <2>1. \A i \in DOMAIN accepted :
              asked[accepted[i]].nonce \in Nat /\ asked[accepted[i]].nonce < Pending
        BY AskedCores DEF AInv, SeqInv, NonceInv
    <2>. QED  BY <1>1, <1>6, <2>1 DEF NonceInv
<1>8. CutIsNeverAccepted'
    BY <1>1 DEF AInv, CutIsNeverAccepted, Fits
<1>9. SendInv'
    <2>1. CASE Sign
        BY <2>1 DEF Sign, AInv, SendInv, OwnTaken
    <2>2. CASE Post
        BY <2>2 DEF Post, AInv, SendInv, OwnTaken, Signatures
    <2>3. CASE ChainRefuses
        BY <2>3 DEF ChainRefuses, AInv, SendInv, OwnTaken, Signatures
    <2>4. CASE RequestLost
        BY <2>4 DEF RequestLost, AInv, SendInv, OwnTaken
    <2>5. CASE Reply
        BY <2>5 DEF Reply, AInv, SendInv, OwnTaken
    <2>6. CASE ReplyLost
        BY <2>6 DEF ReplyLost, AInv, SendInv, OwnTaken
    <2>7. CASE OthersSend
        BY <2>7 DEF OthersSend, AInv, SendInv, OwnTaken, Signatures
    <2>8. CASE UNCHANGED vars
        BY <2>8 DEF vars, AInv, SendInv, OwnTaken, Signatures
    <2>. QED  BY <2>1, <2>2, <2>3, <2>4, <2>5, <2>6, <2>7, <2>8
<1>10. AcceptedWasAsked'
    BY <1>1, <1>9 DEF AInv, AcceptedWasAsked, SendInv, OwnTaken
<1>. QED  BY <1>2, <1>3, <1>5, <1>6, <1>7, <1>8, <1>9, <1>10 DEF AInv

LEMMA ANext == AInv /\ [Next]_vars => AInv'
<1>1. ASSUME AInv, NEW a \in Actions, NEW n \in Nonces, NEW c \in ChainIds \cup {0},
             Send(a, n, c)
      PROVE  AInv'
    BY <1>1, SendAInv, NoncesAssumption
<1>. QED  BY <1>1, AcceptsAInv, LateAInv, OtherAInv DEF Next, Step

(* Every reachable state of ActionSend satisfies the inductive invariant. *)
THEOREM SendInvariant == Spec => []AInv
<1>. QED  BY AInit, ANext, PTL DEF Spec

-----------------------------------------------------------------------------
(* The inductive invariant of the sketches. *)

\* The chain took the action of the command under way, or of the one whose
\* SUCCESS is shown.
Done ==
    \/ step = "sending" /\ (ret = "SUCCESS" \/ (pc = "reply" /\ verdict = "accepted"))
    \/ shown = "SUCCESS"

\* The command under way: what it has read, asked for and had taken so far.
CommandInv ==
    /\ prog = "Own" => step \in {"wifi", "begin"} /\ shown = "NONE"
    /\ prog # "Own" /\ step # "sending" => pc = "idle"
    /\ ~answered => meta = 0
    /\ answered => meta <= before + others + 1
    /\ step \in {"nonce", "sending"} => shown = "NONE"
    /\ step = "sending" /\ pc # "idle" => core.nonce = meta
    /\ Done => Len(accepted) = before + 1 /\ Last(accepted) = Len(asked) /\ answered

\* The nonces a sketch sent with were read for their commands, so that none is
\* ahead of the chain; those of a command whose action was taken, and of all
\* before it, are behind.
ReadInv ==
    prog # "Own" =>
        /\ meta <= Pending
        /\ \A n \in DOMAIN asked :
               /\ asked[n].nonce <= Pending
               /\ Done => asked[n].nonce < Pending
               /\ n \in reads \/ asked[n].nonce = 0

SInv == AInv /\ STypeOK /\ CommandInv /\ ReadInv /\ SuccessOnly

LEMMA Lengths ==
    ASSUME AInv
    PROVE  /\ Len(accepted) \in Nat /\ others \in Nat /\ Pending \in Nat
           /\ Pending = Len(accepted) + others + 1
           /\ \A n \in DOMAIN asked : asked[n].nonce \in Nat
<1>1. Len(accepted) \in Nat /\ others \in Nat
    BY LenProperties DEF AInv, SeqInv
<1>2. \A n \in DOMAIN asked : asked[n].nonce \in Nat
    BY AskedCores DEF AInv, SeqInv
<1>. QED  BY <1>1, <1>2 DEF Pending

(* Success is shown of what CommandInv says. *)
LEMMA DoneIsTaken == CommandInv => SuccessOnly
BY DEF CommandInv, Done, SuccessOnly

LEMMA SInitInv == SInit => SInv
<1>. SUFFICES ASSUME SInit PROVE SInv
    OBVIOUS
<1>1. AInv
    BY AInit DEF SInit
<1>2. accepted = <<>> /\ Len(accepted) = 0 /\ asked = <<>> /\ DOMAIN asked = {}
      /\ pc = "idle" /\ ret = "NONE"
    BY DEF SInit, Init
<1>3. STypeOK
    <2>1. TypeOK
        BY <1>1 DEF AInv
    <2>2. answered \in BOOLEAN
        BY Zenon DEF SInit
    <2>3. meta \in Nat /\ before \in 0..Len(accepted) /\ reads \subseteq DOMAIN asked
        BY <1>2 DEF SInit
    <2>. QED  BY <2>1, <2>2, <2>3 DEF SInit, STypeOK
<1>4. CommandInv
    BY <1>2 DEF SInit, CommandInv, Done
<1>5. ReadInv
    BY <1>1, <1>2, Lengths DEF SInit, ReadInv
<1>. QED  BY <1>1, <1>3, <1>4, <1>5, DoneIsTaken DEF SInv

(* The steps that ask for the nonce, and the one that waits for the WiFi. *)
LEMMA AskSInv ==
    ASSUME SInv, Connected \/ AskAnswered \/ AskFails
    PROVE  SInv'
<1>1. UNCHANGED vars /\ UNCHANGED <<prog, reads>>
    BY DEF Connected, AskAnswered, AskFails, Ask
<1>2. AInv' /\ TypeOK'
    BY <1>1, OtherAInv DEF SInv, AInv
<1>3. /\ accepted' = accepted /\ asked' = asked /\ others' = others /\ Pending' = Pending
      /\ pc' = pc /\ ret' = ret /\ verdict' = verdict
    BY <1>1 DEF vars, Pending
<1>4. CASE Connected
    <2>1. STypeOK'
        BY <1>1, <1>2, <1>3, <1>4 DEF Connected, SInv, STypeOK
    <2>2. CommandInv' /\ ReadInv'
        BY <1>1, <1>3, <1>4 DEF Connected, SInv, CommandInv, ReadInv, Done
    <2>. QED  BY <1>2, <2>1, <2>2, DoneIsTaken DEF SInv, CommandInv, SuccessOnly, Done
<1>5. ASSUME NEW n, (Ask(n, TRUE) /\ n = Pending) \/ (Ask(n, FALSE) /\ n = 0)
      PROVE  SInv'
    <2>1. /\ step = "begin" /\ prog # "Own" /\ step' = "nonce" /\ meta' = n
          /\ before' = Len(accepted) /\ shown' = "NONE" /\ pc = "idle"
        BY <1>5 DEF Ask, SInv, CommandInv
    <2>2. /\ Len(accepted) \in Nat /\ others \in Nat /\ Pending \in Nat
          /\ Pending = Len(accepted) + others + 1 /\ n \in Nat /\ n <= Pending
        <3>1. n = Pending \/ n = 0
            BY <1>5
        <3>2. /\ Len(accepted) \in Nat /\ others \in Nat /\ Pending \in Nat
              /\ Pending = Len(accepted) + others + 1
            BY Lengths DEF SInv
        <3>. QED  BY <3>1, <3>2
    <2>3. answered' \in BOOLEAN /\ (~answered' => n = 0)
        <3>1. CASE Ask(n, TRUE)
            <4>1. answered'
                BY <3>1, Zenon DEF Ask
            <4>. QED  BY <3>1, <4>1 DEF Ask
        <3>2. CASE Ask(n, FALSE) /\ n = 0
            BY <3>2, Zenon DEF Ask
        <3>. QED  BY <1>5, <3>1, <3>2
    <2>4. STypeOK'
        BY <1>1, <1>2, <1>3, <2>1, <2>2, <2>3 DEF SInv, STypeOK
    <2>5. ~Done'
        BY <2>1 DEF Done
    <2>6. CommandInv' /\ SuccessOnly'
        BY <1>1, <1>3, <2>1, <2>2, <2>3, <2>5 DEF CommandInv, SuccessOnly
    <2>7. ReadInv'
        BY <1>1, <1>3, <2>1, <2>2, <2>5 DEF SInv, ReadInv
    <2>. QED  BY <1>2, <2>4, <2>6, <2>7 DEF SInv
<1>. QED  BY <1>4, <1>5 DEF AskAnswered, AskFails

(* A sketch sends with the nonce it has, an application with any. *)
LEMMA SendsSInv ==
    ASSUME SInv, NEW a \in Actions,
           \/ SendWith(a)
           \/ \E n \in Nonces, c \in ChainIds \cup {0} : OwnSends(a, n, c)
    PROVE  SInv'
<1>1. CASE SendWith(a)
    <2>1. meta \in Nat /\ Send(a, meta, 0)
        BY <1>1 DEF SendWith, SInv, STypeOK
    <2>2. /\ AInv' /\ Len(asked') = Len(asked) + 1 /\ asked'[Len(asked')] = Core(a, meta, 0)
          /\ Len(asked) \in Nat /\ Pending' = Pending
          /\ DOMAIN asked = 1..Len(asked) /\ DOMAIN asked' = 1..Len(asked) + 1
          /\ \A i \in DOMAIN asked : asked'[i] = asked[i]
        BY <2>1, SendAInv DEF SInv
    <2>3. /\ step = "nonce" /\ step' = "sending" /\ pc' = "sign" /\ ret' = "NONE"
          /\ core'.nonce = meta /\ accepted' = accepted /\ others' = others
          /\ UNCHANGED <<prog, meta, answered, before, shown>>
          /\ reads' = IF answered THEN reads \cup {Len(asked')} ELSE reads
        BY <1>1 DEF SendWith, Send, Core
    <2>4. reads' \subseteq DOMAIN asked'
        BY <2>2, <2>3 DEF SInv, STypeOK
    <2>5. STypeOK'
        BY <2>2, <2>3, <2>4 DEF SInv, AInv, STypeOK
    <2>6. ~Done'
        BY <2>3 DEF Done, SInv, CommandInv
    <2>7. CommandInv' /\ SuccessOnly'
        BY <2>3, <2>6 DEF SInv, CommandInv, SuccessOnly
    <2>8. ASSUME prog # "Own", NEW n \in DOMAIN asked'
          PROVE  asked'[n].nonce <= Pending /\ (n \in reads' \/ asked'[n].nonce = 0)
        <3>1. CASE n \in DOMAIN asked
            BY <2>2, <2>3, <2>8, <3>1 DEF SInv, ReadInv
        <3>2. CASE n \notin DOMAIN asked
            <4>1. n = Len(asked') /\ asked'[n].nonce = meta
                BY <2>2, <3>2 DEF Core
            <4>. QED  BY <2>3, <2>8, <4>1 DEF SInv, ReadInv, CommandInv
        <3>. QED  BY <3>1, <3>2
    <2>9. ReadInv'
        BY <2>2, <2>3, <2>6, <2>8 DEF SInv, ReadInv
    <2>. QED  BY <2>2, <2>5, <2>7, <2>9 DEF SInv
<1>2. ASSUME NEW n \in Nonces, NEW c \in ChainIds \cup {0}, OwnSends(a, n, c)
      PROVE  SInv'
    <2>1. /\ AInv' /\ DOMAIN asked \subseteq DOMAIN asked'
        BY <1>2, SendAInv, NoncesAssumption DEF OwnSends, SInv
    <2>2. /\ prog = "Own" /\ step = "begin" /\ accepted' = accepted /\ others' = others
          /\ UNCHANGED <<prog, step, meta, answered, before, reads, shown>>
        BY <1>2 DEF OwnSends, Send, sessionVars
    <2>3. STypeOK'
        BY <2>1, <2>2 DEF SInv, AInv, STypeOK
    <2>4. ~Done'
        BY <2>2 DEF Done, SInv, CommandInv
    <2>5. CommandInv' /\ ReadInv' /\ SuccessOnly'
        BY <2>2, <2>4 DEF SInv, CommandInv, ReadInv, SuccessOnly
    <2>. QED  BY <2>1, <2>3, <2>5 DEF SInv
<1>. QED  BY <1>1, <1>2

(* The chain takes the action of a command: the account was read for it, and *)
(* nothing was taken since the command began.                                *)
LEMMA AcceptsReads ==
    ASSUME SInv, ChainAccepts, prog # "Own"
    PROVE  /\ step = "sending" /\ answered /\ Len(accepted) = before
           /\ Len(asked) \in reads
<1>1. step = "sending" /\ core.nonce = meta
    BY DEF ChainAccepts, SInv, CommandInv
<1>2. meta = Pending /\ Pending > 0
    BY <1>1, AcceptsAInv DEF SInv
<1>3. answered
    BY <1>2 DEF SInv, CommandInv
<1>4. Len(accepted) <= before
    BY <1>2, <1>3, Lengths DEF SInv, CommandInv, STypeOK
<1>5. Len(asked) \in DOMAIN asked /\ asked[Len(asked)].nonce = Pending
    <2>1. asked # <<>> /\ core = asked[Len(asked)] /\ asked \in Seq(CoreSet)
        BY DEF ChainAccepts, SInv, AInv, SendInv, SeqInv
    <2>. QED  BY <1>1, <1>2, <2>1, LenProperties, EmptySeq
<1>6. Len(asked) \in reads
    BY <1>2, <1>5 DEF SInv, ReadInv
<1>. QED  BY <1>1, <1>3, <1>4, <1>6, Lengths DEF SInv, STypeOK

LEMMA SendStepSInv ==
    ASSUME SInv, SendStep
    PROVE  SInv'
<1>1. UNCHANGED <<prog, step, meta, answered, before, reads, shown>> /\ Step
    BY DEF SendStep, sessionVars
<1>2. AInv'
    BY <1>1, AcceptsAInv, OtherAInv DEF Step, SInv
<1>3. /\ Len(accepted) \in Nat /\ others \in Nat /\ Pending \in Nat
      /\ \A n \in DOMAIN asked : asked[n].nonce \in Nat
    BY Lengths DEF SInv
<1>4. CASE ChainAccepts
    <2>1. /\ pc' = "reply" /\ pc = "chain" /\ UNCHANGED <<core, ret, asked, others>>
          /\ Len(accepted') = Len(accepted) + 1 /\ Last(accepted') = Len(asked)
          /\ Pending' = Pending + 1
        BY <1>4, AcceptsAInv DEF ChainAccepts, SInv
    <2>2. prog # "Own" => step = "sending" /\ answered /\ Len(accepted) = before
        BY <1>4, AcceptsReads
    <2>3. STypeOK'
        BY <1>1, <1>2, <1>3, <2>1 DEF SInv, AInv, STypeOK
    <2>4. CommandInv'
        BY <1>1, <2>1, <2>2 DEF SInv, CommandInv, Done
    <2>5. ReadInv'
        BY <1>1, <1>3, <2>1 DEF SInv, STypeOK, ReadInv
    <2>6. shown = "NONE"
        BY <2>2 DEF SInv, CommandInv
    <2>7. SuccessOnly'
        BY <1>1, <2>6 DEF SuccessOnly
    <2>. QED  BY <1>2, <2>3, <2>4, <2>5, <2>7 DEF SInv
<1>5. CASE ~ChainAccepts
    <2>1. UNCHANGED <<core, accepted, asked, others>> /\ pc # "idle"
        BY <1>1, <1>5
           DEF Step, Sign, Post, ChainRefuses, RequestLost, Reply, ReplyLost
    <2>2. STypeOK'
        BY <1>1, <1>2, <2>1 DEF SInv, AInv, STypeOK
    <2>3. Done' => Done
        <3>1. ret = "NONE" /\ (pc \in {"sign", "post", "chain"} => verdict = "NONE")
            BY <2>1 DEF SInv, AInv, SendInv
        <3>2. pc = "reply" => verdict \in {"accepted", "refused"}
            BY DEF SInv, AInv, SendInv
        <3>. QED
            BY <1>1, <1>5, <3>1, <3>2
               DEF Step, Sign, Post, ChainRefuses, RequestLost, Reply, ReplyLost, Done
    <2>4. CommandInv'
        BY <1>1, <2>1, <2>3 DEF SInv, CommandInv
    <2>5. ReadInv'
        BY <1>1, <2>1, <2>3 DEF SInv, ReadInv, Pending
    <2>6. SuccessOnly'
        BY <1>1, <2>1 DEF SInv, SuccessOnly
    <2>. QED  BY <1>2, <2>2, <2>4, <2>5, <2>6 DEF SInv
<1>. QED  BY <1>4, <1>5

(* A request that an earlier command gave up is taken only as long as no     *)
(* later one was.                                                            *)
LEMMA LateReads ==
    ASSUME SInv, NEW r \in late, LateArrives(r), accepted' # accepted, prog # "Own"
    PROVE  ~Done /\ Last(accepted') \in reads
<1>1. /\ Last(accepted') = r.send /\ r.send \in DOMAIN asked /\ asked[r.send].nonce = Pending
      /\ Pending \in Nat /\ Pending > 0
    BY LateAInv DEF SInv
<1>. QED  BY <1>1 DEF SInv, ReadInv

LEMMA LateSInv ==
    ASSUME SInv, NEW r \in late, LateArrives(r), UNCHANGED sessionVars
    PROVE  SInv'
<1>1. /\ UNCHANGED <<prog, step, meta, answered, before, reads, shown>>
      /\ UNCHANGED <<pc, core, verdict, ret, asked, others>>
    BY DEF sessionVars, LateArrives
<1>2. AInv'
    BY LateAInv DEF SInv
<1>3. /\ Len(accepted) \in Nat /\ others \in Nat /\ Pending \in Nat
      /\ \A n \in DOMAIN asked : asked[n].nonce \in Nat
    BY Lengths DEF SInv
<1>4. Done' = Done
    BY <1>1 DEF Done
<1>5. prog = "Own" => ~Done
    BY DEF SInv, CommandInv, Done
<1>6. CASE accepted' = accepted
    <2>1. STypeOK'
        BY <1>1, <1>2, <1>6 DEF SInv, AInv, STypeOK
    <2>2. CommandInv' /\ ReadInv' /\ SuccessOnly'
        BY <1>1, <1>4, <1>6 DEF SInv, CommandInv, ReadInv, SuccessOnly, Pending
    <2>. QED  BY <1>2, <2>1, <2>2 DEF SInv
<1>7. CASE accepted' # accepted
    <2>1. ~Done
        BY <1>5, <1>7, LateReads
    <2>2. Len(accepted') = Len(accepted) + 1 /\ Pending' = Pending + 1
        BY <1>7, LateAInv DEF SInv
    <2>3. STypeOK'
        BY <1>1, <1>2, <1>3, <2>2 DEF SInv, AInv, STypeOK
    <2>4. CommandInv'
        BY <1>1, <1>4, <2>1 DEF SInv, CommandInv
    <2>5. ReadInv'
        BY <1>1, <1>3, <1>4, <2>1, <2>2 DEF SInv, STypeOK, ReadInv
    <2>6. SuccessOnly'
        BY <1>1, <2>1 DEF SuccessOnly, Done
    <2>. QED  BY <1>2, <2>3, <2>4, <2>5, <2>6 DEF SInv
<1>. QED  BY <1>6, <1>7

LEMMA ReportSInv ==
    ASSUME SInv, Report
    PROVE  SInv'
<1>1. /\ UNCHANGED vars /\ step = "sending" /\ pc = "idle"
      /\ step' \in {"begin", "halt"} /\ shown' = ret
      /\ UNCHANGED <<prog, meta, answered, before, reads>>
    BY DEF Report
<1>2. AInv'
    BY <1>1, OtherAInv DEF SInv
<1>3. STypeOK'
    BY <1>1, <1>2 DEF SInv, AInv, STypeOK, TypeOK, vars
<1>4. prog # "Own"
    BY <1>1 DEF SInv, CommandInv
<1>5. Done' => Done
    BY <1>1 DEF Done
<1>6. CommandInv'
    BY <1>1, <1>4, <1>5 DEF SInv, CommandInv, vars
<1>7. ReadInv'
    BY <1>1, <1>5 DEF SInv, ReadInv, vars, Pending
<1>8. SuccessOnly'
    BY <1>1, <1>6 DEF CommandInv, Done, SuccessOnly
<1>. QED  BY <1>2, <1>3, <1>6, <1>7, <1>8 DEF SInv

(* Another board sends, or nothing happens. *)
LEMMA OthersSInv ==
    ASSUME SInv, (OthersSend /\ UNCHANGED sessionVars) \/ UNCHANGED allVars
    PROVE  SInv'
<1>1. /\ UNCHANGED <<prog, step, meta, answered, before, reads, shown>>
      /\ UNCHANGED <<pc, core, verdict, ret, asked, accepted>>
    BY DEF OthersSend, allVars, vars, sessionVars
<1>2. AInv' /\ Pending' >= Pending /\ Pending \in Nat /\ Pending' \in Nat
    BY OtherAInv DEF SInv, allVars
<1>3. others' \in Nat /\ others' >= others /\ others \in Nat
    <2>1. others \in Nat
        BY DEF SInv, AInv, SeqInv
    <2>. QED  BY <2>1 DEF OthersSend, allVars, vars
<1>4. \A n \in DOMAIN asked : asked[n].nonce \in Nat
    BY Lengths DEF SInv
<1>5. STypeOK'
    BY <1>1, <1>2 DEF SInv, AInv, STypeOK
<1>6. meta \in Nat /\ before \in Nat
    <2>1. Len(accepted) \in Nat
        BY Lengths DEF SInv
    <2>. QED  BY <2>1 DEF SInv, STypeOK
<1>7. Done' = Done
    BY <1>1 DEF Done
<1>8. CommandInv' /\ SuccessOnly'
    <2>1. answered => meta <= before + others' + 1
        <3>. SUFFICES ASSUME answered PROVE meta <= before + others' + 1
            OBVIOUS
        <3>1. meta <= before + others + 1
            BY DEF SInv, CommandInv
        <3>2. ASSUME NEW m \in Nat, NEW b \in Nat, NEW o \in Nat, NEW p \in Nat,
                     m <= b + o + 1, p >= o
              PROVE  m <= b + p + 1
            BY <3>2
        <3>. QED  BY <1>3, <1>6, <3>1, <3>2, Zenon
    <2>2. Done => Len(accepted) = before + 1 /\ Last(accepted) = Len(asked) /\ answered
        BY DEF SInv, CommandInv
    <2>3. CommandInv'
        BY <1>1, <1>7, <2>1, <2>2 DEF SInv, CommandInv
    <2>. QED  BY <1>1, <2>3 DEF SInv, SuccessOnly
<1>9. ReadInv'
    BY <1>1, <1>2, <1>4, <1>6, <1>7 DEF SInv, ReadInv
<1>. QED  BY <1>2, <1>5, <1>8, <1>9 DEF SInv

LEMMA SNextInv == SInv /\ [SNext]_allVars => SInv'
<1>1. ASSUME SInv, NEW a \in Actions,
             TransferSends(a) \/ AddDataSends(a) \/ TokenSends(a) \/ CommandSends(a)
      PROVE  SInv'
    <2>1. SendWith(a)
        BY <1>1 DEF TransferSends, AddDataSends, TokenSends, CommandSends
    <2>. QED  BY <1>1, <2>1, SendsSInv
<1>. QED
    BY <1>1, AskSInv, SendsSInv, SendStepSInv, ReportSInv, LateSInv, OthersSInv DEF SNext

(* Every reachable state of a sketch satisfies the inductive invariant. *)
THEOREM SessionInvariant == SSpec => []SInv
<1>. QED  BY SInitInv, SNextInv, PTL DEF SSpec

-----------------------------------------------------------------------------
(* What follows from it. *)

(* Every variable of a sketch and of the send under it keeps its type.       *)
THEOREM SessionTypeCorrect == SSpec => []STypeOK
<1>1. SInv => STypeOK
    BY DEF SInv
<1>. QED  BY <1>1, SessionInvariant, PTL

(* The signature of a core that did not fit the buffer never gets anything   *)
(* accepted, whatever the size of the buffer.                                *)
THEOREM CutRefused == SSpec => []CutIsNeverAccepted
<1>1. SInv => CutIsNeverAccepted
    BY DEF SInv, AInv
<1>. QED  BY <1>1, SessionInvariant, PTL

(* The chain takes each action at most once for a send that asked for it,    *)
(* however late the request gets there, and SUCCESS means that it was taken. *)
THEOREM TakenWasAsked == SSpec => []AcceptedWasAsked
<1>1. SInv => AcceptedWasAsked
    BY DEF SInv, AInv
<1>. QED  BY <1>1, SessionInvariant, PTL

(* The user reads SUCCESS only of an action that the chain took.             *)
THEOREM SuccessIsTrue == SSpec => []SuccessOnly
<1>1. SInv => SuccessOnly
    BY DEF SInv
<1>. QED  BY <1>1, SessionInvariant, PTL

(* An action with the right nonce is refused only when its core did not fit  *)
(* or names a chain: the two encodings of it agree on all else.              *)
THEOREM RefusalsHaveReasons == SSpec => RefusedForAReason
<1>. DEFINE Reason == verdict = "NONE" /\ verdict' = "refused" =>
                \/ core.nonce # Pending
                \/ core.chainId # 0
                \/ ~Fits(core.action)
                \/ core.action.form = "odd"
<1>1. SInv /\ [SNext]_allVars => [Reason]_vars
    <2>. SUFFICES ASSUME SInv, [SNext]_allVars,
                         verdict = "NONE", verdict' = "refused"
                  PROVE  Reason
        OBVIOUS
    <2>1. ChainRefuses
        BY DEF SNext, Connected, AskAnswered, AskFails, Ask, TransferSends,
           AddDataSends, TokenSends, CommandSends, SendWith, OwnSends, Send,
           SendStep, Step, Sign, Post, ChainAccepts, RequestLost, Reply, ReplyLost,
           Report, LateArrives, OthersSend, allVars, vars
    <2>2. /\ core \in CoreSet /\ core = asked[Len(asked)] /\ signed \in Signatures(core)
          /\ ~Taken(Request)
        BY <2>1 DEF ChainRefuses, SInv, AInv, SeqInv, SendInv
    <2>3. Fits(core.action) /\ core.action.form # "odd" => signed = ChainEncoded(core)
        BY <2>2, SignatureAgrees DEF Signatures
    <2>. QED  BY <2>2, <2>3 DEF Taken, Request
<1>. QED  BY <1>1, SessionInvariant, PTL DEF SSpec, RefusedForAReason

(* Nothing is paid on a command whose getAccount failed, nor with a nonce    *)
(* read for an earlier one, also when the request gets there late.           *)
THEOREM PaidWasRead == SSpec => PaidOnlyIfRead
<1>. DEFINE Paid == accepted' # accepted /\ prog # "Own" => Last(accepted') \in reads
<1>1. SInv /\ [SNext]_allVars => [Paid]_allVars
    <2>. SUFFICES ASSUME SInv, [SNext]_allVars, accepted' # accepted, prog # "Own"
                  PROVE  Last(accepted') \in reads
        OBVIOUS
    <2>1. ChainAccepts \/ \E r \in late : LateArrives(r)
        BY DEF SNext, Connected, AskAnswered, AskFails, Ask, TransferSends,
           AddDataSends, TokenSends, CommandSends, SendWith, OwnSends, Send,
           SendStep, Step, Sign, Post, ChainRefuses, RequestLost, Reply, ReplyLost,
           Report, OthersSend, allVars, vars
    <2>2. CASE ChainAccepts
        <3>1. Last(accepted') = Len(asked)
            BY <2>2, AcceptsAInv DEF SInv
        <3>. QED  BY <2>2, <3>1, AcceptsReads
    <2>. QED  BY <2>1, <2>2, LateReads
<1>. QED  BY <1>1, SessionInvariant, PTL DEF SSpec, PaidOnlyIfRead
=============================================================================
