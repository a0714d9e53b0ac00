----------------------------- MODULE TrueRandom -----------------------------
(***************************************************************************)
(* The random numbers of the ESP8266 (random/esp8266/ESP8266TrueRandom.cpp *)
(* and random/esp8266/random.cpp).  Raw bits are whitened twice by von     *)
(* Neumann's rule: of two bits that are equal nothing is kept.  Words are  *)
(* made of the bits that are left; a number below a bound is drawn bit by  *)
(* bit from the top, and from the start again when it got too big.         *)
(*                                                                         *)
(* A long has LongBits bits and wraps around, and a shift to the right     *)
(* keeps its sign, as the build for this board does both.  In which order  *)
(* the two draws of an expression are made is left to the compiler.        *)
(*                                                                         *)
(* The bits are external.  yield() lets the WiFi run in between; it calls  *)
(* nothing of this class.                                                  *)
(***************************************************************************)
EXTENDS Integers, Sequences

CONSTANTS
    LongBits,   \* bits of a long (32)
    ByteBits,   \* bits of a byte (8)
    WordSizes,  \* bits of randomByte, rand and random (8, 15, 31)
    Bounds,     \* the longs a caller passes
    Sizes       \* bytes asked of fillRandom and memfill

ASSUME BitsAssumption == LongBits \in Nat /\ ByteBits \in 2..LongBits - 2
ASSUME WordSizesAssumption == WordSizes \subseteq 1..LongBits - 1
ASSUME SizesAssumption == Sizes \subseteq Nat \ {0}

\* Powers of two.
Pow2[n \in Nat] == IF n = 0 THEN 1 ELSE 2 * Pow2[n - 1]

LongMax == Pow2[LongBits - 1] - 1
LongMin == -LongMax - 1
Longs == LongMin..LongMax

ASSUME BoundsAssumption == Bounds \subseteq Longs

\* A sum or a difference of two longs wraps around once at most.
Wrap(n) ==
    IF n > LongMax THEN n - Pow2[LongBits]
    ELSE IF n < LongMin THEN n + Pow2[LongBits] ELSE n

VARIABLES
    leftFirst,  \* the left operand of | is drawn first
    phase,      \* "idle", "draw", "use": a bit is there, or "done": a number is
    white,      \* the first bit of the pair that is whitened again, if any
    bit,        \* the bit that is there
    loop,       \* the loop that draws bits, as [kind, howBig, value, position]
    call,       \* the latest call: from lo up to hi, for size bytes or for one
                \* number (size 0)
    buf,        \* the bytes fillRandom or memfill has drawn
    ret,        \* the number drawn last
    used        \* history: the bits the loop used since it started (again)

trueVars == <<leftFirst, phase, white, bit, loop, call, buf, ret, used>>

WordLoop(n) == [kind |-> "word", howBig |-> 0, value |-> 0, position |-> n]

TrueInit ==
    /\ leftFirst \in BOOLEAN
    /\ phase = "idle"
    /\ white = <<>>
    /\ bit = 0
    /\ loop = WordLoop(0)
    /\ call = [lo |-> 0, hi |-> 0, size |-> 0]
    /\ buf = <<>>
    /\ ret = 0
    /\ used = <<>>

-----------------------------------------------------------------------------
(* The loops, as values *)

\* howBig & (howBig - 1) is 0 for these.
IsPower(h) == h \in {Pow2[k] : k \in 0..LongBits - 2} \cup {LongMin}

\* All bits below the highest one that is set; a sign is shifted everywhere.
Smear(n) ==
    IF n < 0 THEN -1
    ELSE CHOOSE m \in {Pow2[k] - 1 : k \in 0..LongBits - 1} :
            n <= m /\ (m = 0 \/ n > m \div 2)

TopBit(h) == Wrap(Smear(Wrap(h - 1)) + 1) \div 2

BelowLoop(h) ==
    IF IsPower(h)
    THEN [kind |-> "power", howBig |-> h, value |-> 0, position |-> h \div 2]
    ELSE [kind |-> "retry", howBig |-> h, value |-> 0, position |-> TopBit(h)]

\* v | p, where p is a bit that v does not have or, once it went negative, all
\* bits from one up.
Or(v, p) == IF p >= 0 \/ v = 0 THEN v + p ELSE IF v > p THEN v ELSE p

\* Fault: the bound itself is not too big.
NextTakesBound(l, b) ==
    LET v == IF b = 1 THEN Or(l.value, l.position) ELSE l.value
    IN CASE l.kind = "word" -> [l EXCEPT !.value = 2 * l.value + b, !.position = @ - 1]
         [] l.kind = "retry" /\ v > l.howBig -> BelowLoop(l.howBig)
         [] OTHER -> [l EXCEPT !.value = v, !.position = @ \div 2]

\* Fault: a number that is too big is not given up.
NextKeepsValue(l, b) ==
    LET v == IF b = 1 THEN Or(l.value, l.position) ELSE l.value
    IN CASE l.kind = "word" -> [l EXCEPT !.value = 2 * l.value + b, !.position = @ - 1]
         [] l.kind = "retry" /\ v >= l.howBig -> [BelowLoop(l.howBig) EXCEPT !.value = v]
         [] OTHER -> [l EXCEPT !.value = v, !.position = @ \div 2]

\* One turn of the loop with bit b.
NextTurn(l, b) ==
    LET v == IF b = 1 THEN Or(l.value, l.position) ELSE l.value
    IN CASE l.kind = "word" -> [l EXCEPT !.value = 2 * l.value + b, !.position = @ - 1]
         [] l.kind = "retry" /\ v >= l.howBig -> BelowLoop(l.howBig)
         [] OTHER -> [l EXCEPT !.value = v, !.position = @ \div 2]

-----------------------------------------------------------------------------
(* Steps *)

\* A loop with no turn to take is done at once; "retry" looks behind its turn.
Start(l, lo, hi, size) ==
    /\ phase = "idle"
    /\ phase' = IF l.position = 0 /\ l.kind # "retry" THEN "done" ELSE "draw"
    /\ loop' = l
    /\ call' = [lo |-> lo, hi |-> hi, size |-> size]
    /\ buf' = <<>>
    /\ used' = <<>>
    /\ UNCHANGED <<leftFirst, white, bit, ret>>

\* randomByte, rand and random: words of so many bits.
RandomWord(n) == Start(WordLoop(n), 0, Pow2[n], 0)

\* random(howBig).
RandomBelow(h) == Start(IF h = 0 THEN WordLoop(0) ELSE BelowLoop(h), 0, h, 0)

\* random(howSmall, howBig).
RandomBetween(lo, hi) ==
    Start(IF lo >= hi THEN WordLoop(0) ELSE BelowLoop(Wrap(hi - lo)), lo, hi, 0)

\* What fillRandom asks for again and again: random(1, 255).
ByteMax == Pow2[ByteBits] - 1
FillRandom(size) == Start(BelowLoop(ByteMax - 1), 1, ByteMax, size)

Memfill(size) == Start(WordLoop(ByteBits), 0, Pow2[ByteBits], size)

\* What a | (b << 1) makes of two bits, x drawn first: 1 and 0 give 0, 0 and 1
\* give 1, equal ones nothing.
Whitened(x, y) ==
    IF x = y THEN <<>> ELSE IF leftFirst THEN <<y>> ELSE <<x>>

\* Fault: the first white bit is gone when the second one is there.
RawPairForgets(x, y) ==
    LET w == Whitened(x, y)
        b == IF white = <<>> \/ w = <<>> THEN <<>> ELSE Whitened(white[1], w[1])
    IN  /\ phase = "draw"
        /\ white' = <<>>
        /\ bit' = IF b = <<>> THEN bit ELSE b[1]
        /\ phase' = IF b = <<>> THEN "draw" ELSE "use"
        /\ UNCHANGED <<leftFirst, loop, call, buf, ret, used>>

\* A turn of the loop of randomBitRaw2 draws two raw bits; two bits of it are
\* a turn of the loop of randomBit.
RawPair(x, y) ==
    LET w == Whitened(x, y)
        b == IF white = <<>> \/ w = <<>> THEN <<>> ELSE Whitened(white[1], w[1])
    IN  /\ phase = "draw"
        /\ white' = IF w = <<>> THEN white ELSE IF white = <<>> THEN w ELSE <<>>
        /\ bit' = IF b = <<>> THEN bit ELSE b[1]
        /\ phase' = IF b = <<>> THEN "draw" ELSE "use"
        /\ UNCHANGED <<leftFirst, loop, call, buf, ret, used>>

\* randomBit returns, and the loop around it takes its turn.
UseBit ==
    /\ phase = "use"
    /\ loop' = NextTurn(loop, bit)
    /\ used' = IF loop.kind = "retry" /\ loop' = BelowLoop(loop.howBig) THEN <<>>
                ELSE IF loop.position > 0 THEN Append(used, bit) ELSE used
    /\ phase' = IF loop'.position = 0 THEN "done" ELSE "draw"
    /\ UNCHANGED <<leftFirst, white, bit, call, buf, ret>>

Again(l) == IF l.kind = "word" THEN WordLoop(ByteBits) ELSE BelowLoop(l.howBig)

\* The number is returned, and the loop over a buffer draws the next.
ReturnNumber ==
    /\ phase = "done"
    /\ ret' = call.lo + loop.value
    /\ buf' = IF call.size > 0 THEN Append(buf, ret') ELSE buf
    /\ phase' = IF Len(buf') < call.size THEN "draw" ELSE "idle"
    /\ loop' = IF phase' = "draw" THEN Again(loop) ELSE loop
    /\ used' = IF phase' = "draw" THEN <<>> ELSE used
    /\ UNCHANGED <<leftFirst, white, bit, call>>

TrueNext ==
    \/ \E n \in WordSizes : RandomWord(n)
    \/ \E h \in Bounds : RandomBelow(h)
    \/ \E lo, hi \in Bounds : RandomBetween(lo, hi)
    \/ \E size \in Sizes : FillRandom(size)
    \/ \E size \in Sizes : Memfill(size)
    \/ \E x, y \in {0, 1} : RawPair(x, y)
    \/ UseBit
    \/ ReturnNumber

\* The input is not stuck: two raw bits in a row go on to differ, and so do two
\* white ones.
RawDiffers == white = <<>> /\ \E x, y \in {0, 1} : x # y /\ RawPair(x, y)
WhiteDiffers == white # <<>> /\ (\E x, y \in {0, 1} : RawPair(x, y)) /\ phase' = "use"

TrueFairness == SF_trueVars(RawDiffers) /\ SF_trueVars(WhiteDiffers)

TrueSpec == TrueInit /\ [][TrueNext]_trueVars

-----------------------------------------------------------------------------
(* Properties *)

\* The number the bits are, the first one on top.
NumberOf(bits) ==
    LET value[i \in 0..Len(bits)] ==
            IF i = 0 THEN 0 ELSE 2 * value[i - 1] + bits[i]
    IN value[Len(bits)]

\* A number that is returned lies where it was asked for, whichever way its
\* loop went, however often it started again, and however the difference of
\* the bounds wrapped around; it is the bits that were drawn for it, first bit
\* first, with none lost, used twice or left from an attempt that was given
\* up; and a buffer is filled to its end.
InRangeAndFair ==
    phase = "idle" =>
        /\ IF call.lo < call.hi THEN call.lo <= ret /\ ret < call.hi ELSE ret = call.lo
        /\ ret = call.lo + NumberOf(used)
        /\ Len(buf) = call.size
        /\ \A i \in DOMAIN buf : call.lo <= buf[i] /\ buf[i] < call.hi

\* The loop after n bits that are 0.
AfterZeros(l, n) ==
    LET after[i \in 0..n] == IF i = 0 THEN l ELSE NextTurn(after[i - 1], 0)
    IN after[n]

\* The bounds at which the code leaves the range of a long: the top bit is -2^30
\* for a bound above 2^30 that is no power of 2, and half of LONG_MIN is -2^30
\* as well; a negative bit is shifted to the right for ever.
LeavesRange(h) == h = LongMin \/ (h > Pow2[LongBits - 2] /\ ~IsPower(h))

\* Wherever a loop is, however many attempts it gave up, so many bits as a long
\* has can end it; so an input whose bits are independent ends it.  The loops
\* at the two ends of the range can never end.
CanReturn ==
    phase \in {"draw", "use"} =>
        ((\E n \in 1..LongBits : AfterZeros(loop, n).position = 0)
            <=> ~LeavesRange(loop.howBig))

\* The whitening gives a bit in the end, for any input that is not stuck.
BitComes == phase = "draw" ~> phase = "use"
=============================================================================
