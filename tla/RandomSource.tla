---------------------------- MODULE RandomSource ----------------------------
(***************************************************************************)
(* Where the OS build takes its randomness from, and who needs it.         *)
(* Random::fillRandom (random/os/random.cpp) opens /dev/random, reads, and *)
(* closes nothing, so every call keeps a file descriptor.  When the        *)
(* process has none left open() fails, read() on -1 fails, no result is    *)
(* looked at, and the buffer stays as it was: zero in random32             *)
(* (random/platformRand32.cpp), uninitialised in the private key of a new  *)
(* Account.  The elliptic curve code (extern/crypto/ecdsa.c) draws a       *)
(* number of Words words and draws again until it is in range and not 0:   *)
(* once to derive the public key of a private key that is in range itself, *)
(* twice to sign.  The public key of 0 is the point at infinity, and takes *)
(* no number; a key that is too big fails an assertion.                    *)
(*                                                                         *)
(* /dev/random is external: a read of a few bytes from it is complete, and *)
(* a key read from it is in range (all but one in 2^127 are).              *)
(***************************************************************************)
EXTENDS Naturals

CONSTANTS
    FdLimit,    \* file descriptors the process can still open
    Words,      \* 32-bit words generate_k_random draws (9 in the code)
    MaxOps      \* bound: accounts made and signatures asked for

ASSUME FdLimitAssumption == FdLimit \in Nat
ASSUME WordsAssumption == Words \in Nat \ {0}
ASSUME MaxOpsAssumption == MaxOps \in Nat

VARIABLES
    pc,         \* "idle", "key" in fillRandom for a key, "derive" at a public
                \* key, "draw" in a number, "ended" by an assertion
    ops,        \* operations begun
    fds,        \* file descriptors left open on /dev/random
    left,       \* numbers the operation under way still needs
    words,      \* words drawn of the number under way
    drawn,      \* some word of it came from /dev/random
    key,        \* private key of the account being made
    accounts    \* the keys of the finished accounts

vars == <<pc, ops, fds, left, words, drawn, key, accounts>>

\* Where a key came from and which number it is.
Origins == {"given", "random", "unread"}
Numbers == {"zero", "inRange", "tooBig"}
Keys == [from : Origins, is : Numbers]

Exhausted == fds = FdLimit

Init ==
    /\ pc = "idle"
    /\ ops = 0
    /\ fds = 0
    /\ left = 0
    /\ words = 0
    /\ drawn = FALSE
    /\ key = [from |-> "given", is |-> "inRange"]
    /\ accounts = {}

\* An operation that needs n numbers, from program counter p.
Enter(p, n) ==
    /\ pc = "idle"
    /\ ops < MaxOps
    /\ ops' = ops + 1
    /\ pc' = p
    /\ left' = n
    /\ words' = 0
    /\ drawn' = FALSE

\* Account::Account(): a new key, then its public key.
NewAccount ==
    /\ Enter("key", 1)
    /\ UNCHANGED <<fds, key, accounts>>

\* Account::Account(privateKey): the public key of a key the caller has.
RestoreAccount ==
    /\ Enter("derive", 1)
    /\ \E n \in Numbers : key' = [from |-> "given", is |-> n]
    /\ UNCHANGED <<fds, accounts>>

\* ecdsa_sign_digest: k * G, then the blinding factor.
Sign ==
    /\ accounts # {}
    /\ Enter("draw", 2)
    /\ UNCHANGED <<fds, key, accounts>>

\* fillRandom of the 32 bytes of the private key; one that could not be read is
\* whatever was in the memory of the object.
FillKey ==
    /\ pc = "key"
    /\ pc' = "derive"
    /\ IF Exhausted
       THEN (\E n \in Numbers : key' = [from |-> "unread", is |-> n]) /\ UNCHANGED fds
       ELSE key' = [from |-> "random", is |-> "inRange"] /\ fds' = fds + 1
    /\ UNCHANGED <<ops, left, words, drawn, accounts>>

\* 0 * G: the account is made of the point at infinity at once.
DeriveZero ==
    /\ pc = "derive"
    /\ key.is = "zero"
    /\ pc' = "idle"
    /\ left' = 0
    /\ accounts' = accounts \cup {key}
    /\ UNCHANGED <<ops, fds, words, drawn, key>>

\* Any other key is multiplied with a number that has to be drawn first.
DeriveInRange ==
    /\ pc = "derive"
    /\ key.is = "inRange"
    /\ pc' = "draw"
    /\ UNCHANGED <<ops, fds, left, words, drawn, key, accounts>>

\* assert(bn_is_less(k, &curve->order)) ends the process, unless it was built
\* without assertions.
DeriveTooBig ==
    /\ pc = "derive"
    /\ key.is = "tooBig"
    /\ pc' \in {"ended", "draw"}
    /\ UNCHANGED <<ops, fds, left, words, drawn, key, accounts>>

\* Fault: what the word held before counts as random.
DrawWordStale ==
    /\ pc = "draw"
    /\ words < Words
    /\ words' = words + 1
    /\ drawn' = TRUE
    /\ fds' = IF Exhausted THEN fds ELSE fds + 1
    /\ UNCHANGED <<pc, ops, left, key, accounts>>

\* Fault: the file is closed before it is read.
DrawWordClosed ==
    /\ pc = "draw"
    /\ words < Words
    /\ words' = words + 1
    /\ UNCHANGED <<pc, ops, fds, left, drawn, key, accounts>>

\* One random32 of generate_k_random.
DrawWord ==
    /\ pc = "draw"
    /\ words < Words
    /\ words' = words + 1
    /\ IF Exhausted
       THEN UNCHANGED <<fds, drawn>>
       ELSE fds' = fds + 1 /\ drawn' = TRUE
    /\ UNCHANGED <<pc, ops, left, key, accounts>>

\* The number is zero or too big.  It cannot be anything but zero when no
\* word of it was read.
DrawAgain ==
    /\ pc = "draw"
    /\ words = Words
    /\ words' = 0
    /\ drawn' = FALSE
    /\ UNCHANGED <<pc, ops, fds, left, key, accounts>>

\* The number is in range, and another one is needed.
NextNumber ==
    /\ pc = "draw"
    /\ words = Words
    /\ drawn
    /\ left > 1
    /\ left' = left - 1
    /\ words' = 0
    /\ drawn' = FALSE
    /\ UNCHANGED <<pc, ops, fds, key, accounts>>

\* Fault: a number of zero will do.
ReturnZero ==
    /\ pc = "draw"
    /\ words = Words
    /\ left = 1
    /\ pc' = "idle"
    /\ left' = 0
    /\ accounts' = accounts \cup {key}
    /\ UNCHANGED <<ops, fds, words, drawn, key>>

\* The number is in range, and was the last one: a public key is derived and
\* the account is made, or a digest is signed.
Return ==
    /\ pc = "draw"
    /\ words = Words
    /\ drawn
    /\ left = 1
    /\ pc' = "idle"
    /\ left' = 0
    /\ accounts' = accounts \cup {key}
    /\ UNCHANGED <<ops, fds, words, drawn, key>>

Derive == DeriveZero \/ DeriveInRange \/ DeriveTooBig

Step == FillKey \/ Derive \/ DrawWord \/ DrawAgain \/ NextNumber \/ Return

Next == NewAccount \/ RestoreAccount \/ Sign \/ Step

Spec == Init /\ [][Next]_vars

\* An operation that has begun keeps running, and a number drawn over and over
\* from a source that works is in range in the end.
Fairness == WF_vars(Step) /\ SF_vars(NextNumber) /\ SF_vars(Return)

-----------------------------------------------------------------------------
(* Properties *)

TypeOK ==
    /\ pc \in {"idle", "key", "derive", "draw", "ended"}
    /\ ops \in 0..MaxOps
    /\ fds \in 0..FdLimit
    /\ left \in 0..2
    /\ words \in 0..Words
    /\ drawn \in BOOLEAN
    /\ key \in Keys
    /\ accounts \subseteq Keys

\* An account whose private key was never read gets out only when memory of
\* zeros was taken for one.  A fillRandom that failed leaves such a key behind
\* without a word; what stops any other is that its public key needs a number
\* that no more words can be read for.
UnreadIsZero == \A a \in accounts : a.from = "unread" => a.is = "zero"

\* A new account has a private key that was read from the random source.
NewAccountIsRandom == \A a \in accounts : a.from # "unread"

\* Out of descriptors with no word of the number read.
Hung == pc = "draw" /\ Exhausted /\ ~drawn

\* From there on nothing helps: the operation draws zeros for ever.
HungForEver == [][Hung => Hung']_vars

\* While descriptors last every operation comes back, or ends with a key that
\* is no key.
ReturnsOrExhausts == pc # "idle" ~> pc \in {"idle", "ended"} \/ Exhausted
=============================================================================
