----------------------------- MODULE DevicePath -----------------------------
(***************************************************************************)
(* rust-stdlib/pocs/005: the iterator over the nodes of a device path, as  *)
(* it was and as patched.  A memory gives for each address the node that   *)
(* begins there: its length, or End.  From End on there are only ends.     *)
(***************************************************************************)
EXTENDS Integers, Sequences, FiniteSets

CONSTANTS HeaderSize, Cap, Size

End == -1
Stop == -2     \* the iterator's None
Memories == [0 .. Size -> {End} \cup 0 .. HeaderSize + 1]

Node(mem, p) == IF p \in DOMAIN mem THEN mem[p] ELSE End

NextNode(mem, p) == p + Node(mem, p)

\* The iterator stops at a node that is in ends.
Enter(mem, ends, p) == IF Node(mem, p) \in ends THEN Stop ELSE p

\* Where the loop is before each round, up to the cap.
At(mem, ends) ==
    LET place[i \in 0 .. Cap] ==
            IF i = 0 THEN Enter(mem, ends, 0)
            ELSE IF place[i - 1] = Stop THEN Stop ELSE Enter(mem, ends, NextNode(mem, place[i - 1]))
    IN  place

\* The addresses of its rounds.
Visited(mem, ends) ==
    LET rounds == Cardinality({i \in 0 .. Cap : At(mem, ends)[i] # Stop})
    IN  [i \in 1 .. rounds |-> At(mem, ends)[i - 1]]

BuggyIter(mem) == Visited(mem, {End})

\* A node that is shorter than its own header ends the path, the first as well.
PatchedIter(mem) == Visited(mem, {End} \cup 0 .. HeaderSize - 1)

\* The addresses of a path: what can be reached from 0 over nodes, by the buggy
\* iterator's rule.
WellFormed(mem) == \A i \in DOMAIN BuggyIter(mem) : Node(mem, BuggyIter(mem)[i]) >= HeaderSize

-----------------------------------------------------------------------------
\* The patched iterator never meets the cap: every round advances by a header.
\* It yields all nodes of a well-formed path, and of any other those before the
\* first that is too short.
PatchedYields(mem) ==
    LET seen == PatchedIter(mem) all == BuggyIter(mem) IN
    /\ Len(seen) <= (Size \div HeaderSize) + 1
    /\ \A i \in 2 .. Len(seen) : seen[i] >= seen[i - 1] + HeaderSize
    /\ seen = SubSeq(all, 1, Len(seen))
    /\ WellFormed(mem) => seen = all
    /\ ~WellFormed(mem) => Node(mem, all[Len(seen) + 1]) < HeaderSize

\* The buggy iterator reaches the cap on exactly the paths that lead to a node
\* of length 0, the one it is then at for ever.
BuggyStalls(mem) ==
    Len(BuggyIter(mem)) > Cap <=> \E i \in DOMAIN BuggyIter(mem) : Node(mem, BuggyIter(mem)[i]) = 0
=============================================================================
