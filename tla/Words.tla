------------------------------- MODULE Words -------------------------------
(***************************************************************************)
(* rust-stdlib/pocs 043, 044, 045, 046, 090, 091, 099, 105, 106, 182:      *)
(* arithmetic at the ends of machine words.  A word of Word values wraps   *)
(* or, in a build with overflow checks, panics.                            *)
(***************************************************************************)
EXTENDS Integers, Sequences

CONSTANTS
    Word,        \* the values of an unsigned word are 0 .. Word - 1
    Page         \* MIN_STACK_SIZE and GUARD_PAGE_SIZE, a divisor of Word

Top == Word - 1
Lesser(a, b) == IF a <= b THEN a ELSE b
Half == Word \div 2
Signed(x) == ((x + Half) % Word) - Half    \* the last word of x, as signed
RoundDown(x) == x - (x % Page)             \* x & !(Page - 1)

-----------------------------------------------------------------------------
\* 043: a stack of Page bytes at least is rounded up to pages; unless it is
\* aligned, which skips the addition.
StackSize(stack) == IF stack > Page THEN stack ELSE Page

BuggyRound(stack) ==
    LET size == StackSize(stack) IN
    IF size % Page = 0 THEN size ELSE RoundDown((size + Page - 1) % Word)
RoundPanics(stack) == StackSize(stack) % Page # 0 /\ StackSize(stack) + Page - 1 > Top
Triggered043(stack, checks) == BuggyRound(stack) = 0 /\ (checks => RoundPanics(stack))

\* 044: the stack between two guard pages, and the slice for it.
BuggyMappingLength(size) == (((Page + size) % Word) + Page) % Word
StackEnd(size) == (Page + size) % Word
Triggered044(size) ==
    size % Page = 0 /\ BuggyMappingLength(size) = Page /\ StackEnd(size) = 0

-----------------------------------------------------------------------------
\* 045: the digits of an exponent.  Multiplied with saturation, added without.
Times10(p) == Lesser(p * 10, Top)

\* Mutant: the multiplication wraps too.
AddDigitWrapped(p, digit) == (p * 10 + digit) % Word

AddDigit(p, digit) == (Times10(p) + digit) % Word
Accumulated(digits) ==
    LET p[k \in 0 .. Len(digits)] == IF k = 0 THEN 0 ELSE AddDigit(p[k - 1], digits[k])
    IN  p
Accumulate(digits) == Accumulated(digits)[Len(digits)]
AccumulatePanics(digits) ==
    \E k \in DOMAIN digits : Times10(Accumulated(digits)[k - 1]) + digits[k] > Top
Triggered045(digits, checks) ==
    Accumulate(digits) < Word - 6 /\ (checks => AccumulatePanics(digits))

\* 046: the exponent grows by 4 for every digit beyond the mantissa.
AdvanceExp(start, extra) ==
    LET e[k \in 0 .. extra] == IF k = 0 THEN start ELSE Signed(e[k - 1] + 4) IN e[extra]
AdvancePanics(start, extra) == \E k \in 0 .. extra - 1 : AdvanceExp(start, k) + 4 >= Half
Triggered046(start, extra, checks) ==
    AdvanceExp(start, extra) = -Half /\ (checks => AdvancePanics(start, extra))

-----------------------------------------------------------------------------
\* 090 and 091: the lane of an index; lanes is a power of 2, of which & keeps
\* the index's bit.
IdxInVecBuggy(idx, lanes) == ((idx \div lanes) % 2) * lanes
IdxInVecFixed(idx, lanes) == idx % lanes
Triggered090(idx, lanes) ==
    IdxInVecBuggy(idx, lanes) = lanes /\ IdxInVecFixed(idx, lanes) = 0

\* 099: the index for gamma in the table of powers, rounded towards 0; as a
\* usize a negative one is beyond any table.
FirstE == -1087
LastE == 1018
TableLen == 81
Towards0(a, b) == IF a >= 0 THEN a \div b ELSE -((-a) \div b)

CachedPower(gamma) == Towards0((gamma - (-64 + 1 - LastE)) * (TableLen - 1), LastE - FirstE)
Triggered099(gamma) == CachedPower(gamma) \notin 0 .. TableLen - 1

\* 105 and 106: cvt() of a word t, into Ok(t) or Err(n) for an i32 n, which is
\* in -int .. int - 1.  The negation may overflow, and in 105 be no i32.
NegationPanics(t, checks) == checks /\ t = -Half

CvtPanics(t, int, checks) ==
    t < 0 /\ (NegationPanics(t, checks) \/ Signed(-t) \notin -int .. int - 1)
Cvt(t) == IF t < 0 THEN [err |-> Signed(-t)] ELSE [ok |-> t]

\* 182: a * b + c + d in two words, low and high, as both programs have it: by
\* the wrapping arithmetic of unsigned double words, and by that of signed
\* ones.  `as u128` of a signed word extends its sign.
Wide(x) == x % (Word * Word)
Words2(low, high) == <<low, Signed(high)>>

UnsignedWidening(a, b, c, d) ==
    LET w == Wide(Wide(a) * Wide(b) + Wide(c) + Wide(d)) IN Words2(w % Word, w \div Word)
SignedWidening(a, b, c, d) ==
    LET w == a * b + c + d IN Words2(w % Word, w \div Word)
Triggered182(a, b, c, d) == UnsignedWidening(a, b, c, d) # SignedWidening(a, b, c, d)

-----------------------------------------------------------------------------
\* Rounded by 043 and mapped as in 044, a stack fits between its guard pages
\* unless it is within two pages of the largest word.  If not, it is nothing at
\* all with two guard pages (043, and an unchecked build goes on), or the
\* mapping is less than the guards; only the very last page gives the slice of
\* 044, whose end is before its start.
StackMapped(stack) ==
    LET size == BuggyRound(stack) mapped == BuggyMappingLength(size) IN
    /\ stack <= Word - 3 * Page =>
        size >= stack /\ size < StackSize(stack) + Page /\ mapped = size + 2 * Page
    /\ Triggered043(stack, TRUE) <=> stack > Word - Page
    /\ Triggered043(stack, FALSE) <=> Triggered043(stack, TRUE)
    /\ stack > Word - Page => mapped = 2 * Page
    /\ stack > Word - 3 * Page /\ stack <= Word - Page => mapped < 2 * Page
    /\ Triggered044(size) <=> stack > Word - 2 * Page /\ stack <= Word - Page

\* The number that the digits are.
NumberOf(digits) ==
    LET read[k \in 0 .. Len(digits)] == IF k = 0 THEN 0 ELSE read[k - 1] * 10 + digits[k]
    IN  read[Len(digits)]

\* A build with checks panics, and triggers 045, only on a number above the
\* largest word; where it does not panic the exponent is the number, or the
\* largest word.  One without checks triggers on the smallest numbers already.
\* Whether every number above panics, as 045 says, is ExponentPanics.
ExponentExact(digits) ==
    LET number == NumberOf(digits) IN
    /\ ~AccumulatePanics(digits) => Accumulate(digits) = Lesser(number, Top)
    /\ AccumulatePanics(digits) => number > Top
    /\ Triggered045(digits, TRUE) => number > Top
    /\ number < Word - 6 => Triggered045(digits, FALSE)

\* "an exponent string above u32::MAX panics in debug" (045, lines 2 and 3): of a
\* number above the largest word some addition overflows.
ExponentPanics(digits) == NumberOf(digits) > Top => AccumulatePanics(digits)

\* The exponent is where it should be, or it has overflowed once or more, and
\* then a build with checks has panicked: 046 triggers on the same inputs in both.
AdvanceExact(start, extra) ==
    LET exact == start + 4 * extra IN
    /\ AdvancePanics(start, extra) <=> exact >= Half
    /\ AdvanceExp(start, extra) = Signed(exact)
    /\ (extra > 0 \/ start # -Half) =>
        (Triggered046(start, extra, TRUE) <=> Triggered046(start, extra, FALSE))

\* The lane by & is one that exists only if it is 0, and the right one only if
\* the index is a multiple of twice the lanes; 090 and 091 trigger on the other
\* multiples of the lanes.
LanesExact(idx, lanes) ==
    /\ IdxInVecFixed(idx, lanes) < lanes
    /\ IdxInVecBuggy(idx, lanes) < lanes <=> IdxInVecBuggy(idx, lanes) = 0
    /\ IdxInVecBuggy(idx, lanes) = IdxInVecFixed(idx, lanes) <=> idx % (2 * lanes) = 0
    /\ Triggered090(idx, lanes) <=> idx % lanes = 0 /\ idx % (2 * lanes) # 0

\* 099 triggers on exactly the gammas outside -1107 .. 1050: the table is left
\* on both sides, and 26 values below its first are rounded into it.
CachedIndex(gamma) ==
    /\ Triggered099(gamma) <=> gamma \notin -1107 .. 1050
    /\ gamma \in -1107 .. -1081 => CachedPower(gamma) = 0

\* Where cvt() does not panic an error is positive, but for the smallest word of
\* a build without checks (if it is an i32).  It panics on more than the smallest word: on all
\* that are below the negative of the largest i32, with checks or without.
NegatesExact(t, int, checks) ==
    /\ ~CvtPanics(t, int, checks) =>
        IF t >= 0 THEN Cvt(t) = [ok |-> t]
        ELSE Cvt(t).err > 0 \/ (t = -Half /\ ~checks /\ Half <= int)
    /\ Half > int => (CvtPanics(t, int, checks) <=> t < 1 - int)
    /\ Half <= int => (CvtPanics(t, int, checks) <=> t = -Half /\ checks)

\* "fallback should differ from signed widening" (182, line 28): the two widenings
\* of 182 give main() two results for -1, -1, 0 and 0.
WideningDiffers(a, b) == a = -1 /\ b = -1 => Triggered182(a, b, 0, 0)

\* What they do instead: they agree on all operands, as wrapping a double word
\* loses nothing that the two words of the result keep.
WideningAgrees(a, b) ==
    \A c, d \in -Half .. Half - 1 : ~Triggered182(a, b, c, d)
=============================================================================
