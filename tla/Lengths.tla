------------------------------ MODULE Lengths ------------------------------
(***************************************************************************)
(* rust-stdlib/pocs 004, 006, 008, 009, 021, 022, 023, 040, 042, 062, 100, *)
(* 121 and 141: what somebody else says the length of something is, and    *)
(* what there is of it.  TriggeredNNN is what the main() of NNN concludes, *)
(* for any input where the code has one.                                   *)
(***************************************************************************)
EXTENDS Integers, Sequences

CONSTANTS
    Word,        \* machine words are 0 .. Word - 1 (2^64)
    Huge,        \* what main() of 006 calls a huge length (1_000_000_000)
    Header,      \* HEADER_SIZE of 006 (80)
    MaxReparse, ReparseHeader, PathOffset,   \* of 008 (16384, 8, 12)
    NameOffset,  \* of 009 (102)
    Buffer,      \* the message buffers of Xous (4096)
    NameMax,     \* NAME_MAX_LENGTH of 040 (64)
    HandleSize,  \* bytes of a Handle in 004 (8)
    Short        \* what a UNICODE_STRING's lengths are modulo (2^16)

Lesser(a, b) == IF a <= b THEN a ELSE b
Greater(a, b) == IF a >= b THEN a ELSE b
Minus(a, b) == IF a >= b THEN a - b ELSE a - b + Word   \* wrapping_sub

-----------------------------------------------------------------------------
\* 006: file_name_len, of a file::Info of size bytes.
BuggyLen(size) == Minus(size, Header) \div 2

PatchedLen(size) == (IF size <= Header THEN 0 ELSE size - Header) \div 2
Triggered006(size) == BuggyLen(size) > Huge /\ PatchedLen(size) = 0

\* 008: the end of the substitute name, in bytes of the path buffer, and the
\* check of what was returned, in its order.
BuggyEnd(r) == (r.off \div 2) * 2 + (r.len \div 2) * 2

ValidReparse(r) ==
    /\ r.returned >= ReparseHeader /\ r.returned <= MaxReparse
    /\ r.returned - ReparseHeader >= r.data
    /\ r.data >= PathOffset
    /\ r.off % 2 = 0 /\ r.len % 2 = 0 /\ r.off + r.len <= r.data - PathOffset
Triggered008(r) == BuggyEnd(r) > MaxReparse /\ ~ValidReparse(r)

\* 009: the characters of a name in an entry, and the check of the entry; the
\* last entry has 0 for the next and reaches to the end of the buffer.
RequestElems(e) == e.name \div 2
EntryLen(e) == IF e.next = 0 THEN e.buffer ELSE e.next

\* Mutant: the name is held against the buffer, not its own entry.
ValidEntryOfBuffer(e) ==
    /\ e.buffer >= NameOffset
    /\ EntryLen(e) <= e.buffer /\ EntryLen(e) >= NameOffset
    /\ e.name % 2 = 0 /\ e.name <= e.buffer - NameOffset

ValidEntry(e) ==
    /\ e.buffer >= NameOffset
    /\ EntryLen(e) <= e.buffer /\ EntryLen(e) >= NameOffset
    /\ e.name % 2 = 0 /\ e.name <= EntryLen(e) - NameOffset
Triggered009(e) == NameOffset + RequestElems(e) * 2 > e.buffer /\ ~ValidEntry(e)

-----------------------------------------------------------------------------
\* 021 and 022: read_or_peek into buf bytes, of a reply with an offset and a
\* length.  It panics on a length beyond the message, else it returns what is
\* reported, and zip() copied no more than fits.
Panic == -1

ReadOrPeek(buf, offset, length) ==
    IF offset = 0 THEN 0 ELSE IF length > Buffer THEN Panic ELSE length
Copied(buf, offset, length) == IF offset = 0 THEN 0 ELSE Lesser(buf, length)
Triggered021(buf, offset, length) == ReadOrPeek(buf, offset, length) = Panic
Triggered022(buf, offset, length) == ReadOrPeek(buf, offset, length) > buf

\* 023: write() gives back the count in the reply, whatever was sent; buf[n..]
\* panics for one beyond buf.
Write(buf, count) == count
Triggered023(buf, count) == Write(buf, count) > buf

\* 121 and 141: the length that is lent with a message of Buffer bytes.
VulnerableLendLen(n) == n
FixedLendLen(n) == Lesser(n, Buffer)
BuildQuery(n) == n
Triggered121(n) == VulnerableLendLen(n) > Buffer /\ FixedLendLen(n) <= Buffer
Triggered141(n) == BuildQuery(n) > Buffer

-----------------------------------------------------------------------------
\* 040: what is sent for a name, a sequence of bytes.
AdvertisedLen(name) == Lesser(Len(name), NameMax)

Sent(name) == SubSeq(name, 1, AdvertisedLen(name))
Triggered040(name) == AdvertisedLen(name) = NameMax /\ name # Sent(name)

\* 042: byte k of a reply that was cut to its first valid bytes; the others are
\* those of a zeroed buffer.  Families other than 4 are not parsed.
Byte(reply, k) == IF k < reply.valid THEN reply.raw[k] ELSE 0

ParseAccept(reply) == Byte(reply, 0) = 0 /\ Byte(reply, 3) = 4
PeerIp(reply) == [k \in 4 .. 7 |-> Byte(reply, k)]
PeerPort(reply) == Byte(reply, 20) + 256 * Byte(reply, 21)
Triggered042(reply) ==
    /\ ParseAccept(reply) /\ reply.valid < 22
    /\ PeerIp(reply) = [k \in 4 .. 7 |-> 0] /\ PeerPort(reply) = 0

\* 062: both lengths of a UNICODE_STRING of n code units.
UnicodeLen(n) == (n * 2) % Short
Triggered062(n) == UnicodeLen(n) # n * 2

\* 100: the scratch that is documented for v_len elements, and the abort.
DocumentedScratch(v_len, small) == Greater(v_len - v_len \div 2, small)
PartitionAborts(v_len, scratch, pivot) == scratch < v_len \/ pivot >= v_len
Triggered100(v_len, small, pivot) ==
    PartitionAborts(v_len, DocumentedScratch(v_len, small), pivot)

\* 004: a database of handles, told[1] of them at the first call and told[2] at
\* the second, which has written as many (the firmware).  The slots of the Vec,
\* those that were filled before the second call or written by it.
HandleBytes(told, call) == told[call] * HandleSize
Slots(told, n) == [slot \in 1 .. n |-> IF slot <= told[2] THEN "written" ELSE "stale"]
Buggy(told) == Slots(told, HandleBytes(told, 1) \div HandleSize)

Patched(told) == Slots(told, HandleBytes(told, 2) \div HandleSize)

-----------------------------------------------------------------------------
\* 006 triggers on exactly the sizes below a header; for all others the two
\* lengths agree, and the name ends with the Info or one byte before.
NameLengthExact(size) ==
    /\ Triggered006(size) <=> size < Header
    /\ size >= Header =>
        /\ BuggyLen(size) = PatchedLen(size)
        /\ Header + 2 * PatchedLen(size) \in {size - 1, size}

\* A reparse buffer that is valid has its name inside what was returned, so 008
\* triggers on the name alone; and one whose lengths agree is refused only if
\* it is too large, or its name is not inside.
ReparseInside(r) ==
    /\ ValidReparse(r) =>
        ReparseHeader + PathOffset + BuggyEnd(r) <= r.returned /\ r.returned <= MaxReparse
    /\ Triggered008(r) <=> BuggyEnd(r) > MaxReparse
    /\ (/\ r.data = r.returned - ReparseHeader /\ r.data >= PathOffset
        /\ r.off % 2 = 0 /\ r.len % 2 = 0 /\ r.returned <= MaxReparse)
       => (ValidReparse(r) <=> PathOffset + BuggyEnd(r) <= r.data)

\* A valid entry has its name before the next entry, inside the buffer; 009
\* triggers on exactly the names that are not inside the buffer, which are all
\* that the check refuses of a last entry with an even length.
EntryInside(e) ==
    /\ ValidEntry(e) =>
        NameOffset + 2 * RequestElems(e) <= EntryLen(e) /\ EntryLen(e) <= e.buffer
    /\ Triggered009(e) <=> NameOffset + 2 * RequestElems(e) > e.buffer
    /\ e.next = 0 /\ e.name % 2 = 0 => (ValidEntry(e) <=> ~Triggered009(e))

\* Of the replies to a read of buf bytes, those of 021 and those of 022 are the
\* only ones on which it does not return what it copied, and none is both: a
\* buffer as large as the message is safe from 022.  What 023, 121 and 141
\* announce is more than there is on just the lengths that these exceed.
TransfersExact(buf, offset, length) ==
    LET panics == Triggered021(buf, offset, length)
        over == Triggered022(buf, offset, length) IN
    /\ ~(panics /\ over) /\ (buf >= Buffer => ~over)
    /\ ~(panics \/ over) <=> ReadOrPeek(buf, offset, length) = Copied(buf, offset, length)
    /\ offset # 0 => /\ panics <=> Triggered121(length) /\ Triggered141(length)
                     /\ buf <= Buffer => (Triggered023(buf, length) <=> panics \/ over)

\* Two names reach the same service only if one is too long; one that is too
\* long reaches that of its first NameMax bytes.
NamesCollide(a, b) ==
    /\ Sent(a) = Sent(b) => a = b \/ Triggered040(a) \/ Triggered040(b)
    /\ Triggered040(a) <=> Len(a) > NameMax
    /\ Sent(Sent(a)) = Sent(a)

\* A reply that is cut is a peer all the same from its 4th byte on, with zeros
\* for the rest of the address, the one of 042 if nothing of it came; from 22
\* bytes on it is the peer that was meant.
PeerFabricated(reply) ==
    LET whole == [reply EXCEPT !.valid = 22] IN
    ParseAccept(whole) =>
        /\ ParseAccept(reply) <=> reply.valid >= 4
        /\ reply.valid >= 8 => PeerIp(reply) = PeerIp(whole)
        /\ reply.valid >= 22 => PeerPort(reply) = PeerPort(whole)
        /\ reply.valid = 21 => PeerPort(reply) = PeerPort(whole) % 256
        /\ reply.valid = 4 => Triggered042(reply)
        /\ Triggered042(reply) /\ reply.valid >= 8 => PeerIp(whole) = [k \in 4 .. 7 |-> 0]

\* A UNICODE_STRING has the length of the string that is longer by half of
\* Short as well, so 062 triggers from there on.
UnicodeWraps(n) ==
    /\ Triggered062(n) <=> n >= Short \div 2
    /\ UnicodeLen(n + Short \div 2) = UnicodeLen(n)

\* Whoever gives the documented scratch meets the abort on every slice longer
\* than the scratch of a small sort (and of 2 elements or more).
ScratchShort(v_len, small, pivot) ==
    pivot < v_len => (Triggered100(v_len, small, pivot) <=> v_len >= 2 /\ v_len > small)

\* The patched Vec has all the handles of the second call and nothing else; the
\* other one has these, then what the database lost in between.
HandlesWritten(told) ==
    /\ Len(Patched(told)) = told[2]
    /\ \A slot \in DOMAIN Patched(told) : Patched(told)[slot] = "written"
    /\ SubSeq(Buggy(told), 1, told[2]) = Patched(told)
    /\ \A slot \in told[2] + 1 .. Len(Buggy(told)) : Buggy(told)[slot] = "stale"
    /\ Len(Buggy(told)) = told[1]
=============================================================================
