------------------------------ MODULE RssProbe ------------------------------
(***************************************************************************)
(* lol-html/pocs repro-001 and repro-002: loops that stream tags to the    *)
(* rewriter and print now and then.  A write may fail at any time, when    *)
(* the rewriter has met its limit; what it makes of the tags is external.  *)
(***************************************************************************)
EXTENDS Integers

CONSTANTS
    MaxTags,     \* bound on n, the argument of the programs
    Chunk,       \* tags of one write of repro-001 (1024 in the code)
    ChunksApart, \* its chunks from one line to the next (256)
    TagsApart    \* tags of repro-002 from one line to the next (50_000)

VARIABLES
    probe,       \* none, nested (repro-001) or siblings (repro-002)
    n,           \* the argument
    i,           \* the loop's counter
    last_print,  \* the counter at the last line
    tags,        \* tags that were written without an error
    lines,       \* lines printed so far
    line,        \* the number of tags the last line gave
    status       \* looping, printing, final or failed

vars == <<probe, n, i, last_print, tags, lines, line, status>>

Init ==
    /\ probe = "none" /\ n = 0 /\ i = 0 /\ last_print = 0
    /\ tags = 0 /\ lines = 0 /\ line = 0 /\ status = "looping"

\* The argument is parsed, the rewriter made with its limit on memory.  The write
\* in front of the loop of 002, which is unwrapped, is taken to succeed.
Start ==
    /\ probe = "none"
    /\ probe' \in {"nested", "siblings"}
    /\ n' \in 0 .. MaxTags
    /\ UNCHANGED <<i, last_print, tags, lines, line, status>>

\* Tags in one write, rounds of the loop, rounds from line to line.
Unit == IF probe = "nested" THEN Chunk ELSE 1
LoopRounds == IF probe = "nested" THEN n \div Chunk ELSE n
Apart == IF probe = "nested" THEN ChunksApart ELSE TagsApart

Write ==
    /\ probe # "none" /\ status = "looping"
    /\ i < LoopRounds
    /\ \/ status' = "printing" /\ tags' = tags + Unit /\ UNCHANGED line
       \/ status' = "failed" /\ line' = i * Unit /\ UNCHANGED tags
    /\ UNCHANGED <<probe, n, i, last_print, lines>>

\* The line, every so many rounds, gives i and not i + 1 writes.
PrintLine ==
    /\ status = "printing"
    /\ status' = "looping"
    /\ i' = i + 1
    /\ IF i - last_print >= Apart
       THEN last_print' = i /\ lines' = lines + 1 /\ line' = i * Unit
       ELSE UNCHANGED <<last_print, lines, line>>
    /\ UNCHANGED <<probe, n, tags>>

Finish ==
    /\ probe # "none" /\ status = "looping"
    /\ i = LoopRounds
    /\ status' = "final"
    /\ UNCHANGED <<probe, n, i, last_print, tags, lines, line>>

Next == Start \/ Write \/ PrintLine \/ Finish

-----------------------------------------------------------------------------
\* "write error after k tags" gives the tags that were taken; a line in between
\* gives one write less than that; the last one is never more than a period
\* behind, and "final" is printed after all whole chunks of n.
CountsHonest ==
    /\ status = "failed" => line = tags
    /\ status = "looping" /\ lines > 0 => tags - line \in Unit .. (Apart * Unit)
    /\ status = "looping" => lines = (IF i = 0 THEN 0 ELSE (i - 1) \div Apart)
    /\ status = "final" => tags = n - (n % Unit)
=============================================================================
