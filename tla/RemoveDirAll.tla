---------------------------- MODULE RemoveDirAll ----------------------------
(***************************************************************************)
(* rust-stdlib/pocs/020: the traversal of remove_dir_all, as it was and    *)
(* fixed, over a readdir that answers the same entries for every path.     *)
(***************************************************************************)
EXTENDS Integers, Sequences

CONSTANTS
    MaxDepth,  \* 4 in the code
    FileNames      \* of the entries, and of the directory

Exhausted == <<"STACK-EXHAUSTED">>
Dots == {".", ".."}

Under(path, log) == <<path>> \o log

\* What the loop over the entries of a path logs, with the names that are passed
\* over, when below[child] is what the call for a child logs.
Children(entries, skipped, path, below) ==
    LET log[k \in 0 .. Len(entries)] ==
            IF k = 0 THEN <<>>
            ELSE IF entries[k].name \in skipped \/ ~entries[k].is_dir THEN log[k - 1]
            ELSE LET child == Append(path, entries[k].name)
                 IN  log[k - 1] \o Under(child, below[child])
    IN  log[Len(entries)]

\* The log below a path at each depth.
Log(entries, skipped) ==
    LET at[dir \in Seq(FileNames) \X Nat] ==
            IF dir[2] > MaxDepth THEN <<Exhausted>>
            ELSE Children(entries, skipped, dir[1], [path \in Seq(FileNames) |-> at[<<path, dir[2] + 1>>]])
    IN  at[<< <<"target">>, 0 >>]

BuggyRemoveDirAll(entries) == Log(entries, {})

\* Mutant: only the entry of the directory itself is passed over.
SkipsItself(entries) == Log(entries, {"."})

FixedRemoveDirAll(entries) == Log(entries, Dots)

-----------------------------------------------------------------------------
\* The entries that are no dot entries.
Named(entries) ==
    LET named[k \in 0 .. Len(entries)] ==
            IF k = 0 THEN <<>>
            ELSE IF entries[k].name \in Dots THEN named[k - 1] ELSE Append(named[k - 1], entries[k])
    IN  named[Len(entries)]

\* The fixed traversal does what the other does where there are no dot entries:
\* it leaves out nothing else, and never goes through one.
FixedLeavesTree(entries) ==
    LET others == Named(entries)
        fixed == FixedRemoveDirAll(entries)
    IN
    /\ fixed = BuggyRemoveDirAll(others)
    /\ \A k \in DOMAIN fixed : \A j \in DOMAIN fixed[k] : fixed[k][j] \notin Dots

\* The assertions of main(): dot entries alone exhaust the unfixed traversal, and
\* are nothing to the fixed one.
DotsExhaust(entries) ==
    entries # <<>> /\ (\A k \in DOMAIN entries : entries[k].name \in Dots /\ entries[k].is_dir) =>
        /\ \E k \in DOMAIN BuggyRemoveDirAll(entries) : BuggyRemoveDirAll(entries)[k] = Exhausted
        /\ FixedRemoveDirAll(entries) = <<>>
=============================================================================
