---------------------------- MODULE AllocFamily ----------------------------
(***************************************************************************)
(* rust-stdlib/pocs 061 (unix) and 102 (SOLID): whether alloc takes a      *)
(* block from the aligned allocator, and whether realloc hands it to       *)
(* libc::realloc, which only knows those of malloc.                        *)
(***************************************************************************)
EXTENDS Integers, Sequences

CONSTANT MinAlign   \* 16 and 8

AllocUsesAligned(size, align) == ~(align <= MinAlign /\ align <= size)

\* The three predicates of realloc: before the patches, as 061 and as 102 fix it.
BuggyUsesLibc(size, align, new_size) == align <= MinAlign /\ align <= new_size

\* Mutant: any block that grows is handed over.
FixedUsesLibcIfLarger(size, align, new_size) ==
    align <= MinAlign /\ (align <= size \/ size < new_size)

Fixed061UsesLibc(size, align, new_size) == align <= MinAlign /\ align <= size
Fixed102UsesLibc(size, align, new_size) ==
    align <= MinAlign /\ align <= size /\ align <= new_size

\* main() of 061 and poc() of 102.
Triggered061(size, align, new_size) ==
    AllocUsesAligned(size, align) /\ BuggyUsesLibc(size, align, new_size)
    /\ ~Fixed061UsesLibc(size, align, new_size)
Triggered102(size, align, new_size) ==
    AllocUsesAligned(size, align) /\ BuggyUsesLibc(size, align, new_size)
    /\ ~Fixed102UsesLibc(size, align, new_size)

\* A block through reallocs to sizes: libc::realloc, which is right for a block
\* of malloc only, or alloc anew.
Block(size, align) ==
    [size |-> size, aligned |-> AllocUsesAligned(size, align), misused |-> FALSE]
Realloc(b, align, new_size, libc) ==
    [size |-> new_size,
     aligned |-> IF libc THEN b.aligned ELSE AllocUsesAligned(new_size, align),
     misused |-> b.misused \/ (libc /\ b.aligned)]

Reallocs(size, align, sizes, UsesLibc(_, _, _)) ==
    LET b[k \in 0 .. Len(sizes)] ==
            IF k = 0 THEN Block(size, align)
            ELSE Realloc(b[k - 1], align, sizes[k], UsesLibc(b[k - 1].size, align, sizes[k]))
    IN  b[Len(sizes)]

-----------------------------------------------------------------------------
\* One call: both fixes keep aligned blocks from libc::realloc, and both
\* programs trigger on exactly the sizes that the alignment separates.
FamiliesAgree(size, align, new_size) ==
    /\ Fixed061UsesLibc(size, align, new_size) <=> ~AllocUsesAligned(size, align)
    /\ Fixed102UsesLibc(size, align, new_size)
        <=> ~AllocUsesAligned(size, align) /\ ~AllocUsesAligned(new_size, align)
    /\ Triggered061(size, align, new_size) <=> Triggered102(size, align, new_size)
    /\ Triggered061(size, align, new_size)
        <=> size < align /\ align <= MinAlign /\ align <= new_size

\* Any calls: neither fix ever misuses a block.  That of 102 leaves it with the
\* allocator that alloc would take for its size; that of 061 with malloc too
\* after a block has been made smaller than its alignment.  Without them it is
\* misused if and only if it comes to trigger at some call.
BlocksKept(size, align, sizes) ==
    LET fixed061 == Reallocs(size, align, sizes, Fixed061UsesLibc)
        fixed102 == Reallocs(size, align, sizes, Fixed102UsesLibc)
        buggy == Reallocs(size, align, sizes, BuggyUsesLibc)
        all == <<size>> \o sizes
    IN
    /\ ~fixed061.misused /\ ~fixed102.misused
    /\ fixed102.aligned <=> AllocUsesAligned(fixed102.size, align)
    /\ AllocUsesAligned(fixed061.size, align) /\ ~fixed061.aligned
        => \E k \in 1 .. Len(all) - 1 : all[k] > all[k + 1]
    /\ buggy.misused <=>
        \E k \in 1 .. Len(all) - 1 : Triggered061(all[k], align, all[k + 1])
=============================================================================
