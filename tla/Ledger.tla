------------------------------- MODULE Ledger -------------------------------
(***************************************************************************)
(* rust-stdlib/pocs 030, 031, 032 and 010: what is opened, what an owner   *)
(* closes when it is dropped, and what nobody owns.  010 maps memory from  *)
(* the kernel, whose mmap may fail and whose mprotect may not.             *)
(***************************************************************************)
EXTENDS Integers, FiniteSets

CONSTANT Loops   \* of the two mkdir programs (10 in the code)

VARIABLES
    ledger,    \* which program runs: none, from_path, mkdir_exists, mkdir_create, get_stack
    phase,     \* its place, or how it ended
    opens,     \* handles and mappings made so far: 1 .. opens
    closes,    \* how often each of them was closed
    owned,     \* those that a live value will close when it is dropped
    calls      \* calls so far of mkdir, or of buggy_get_stack, that got a handle

vars == <<ledger, phase, opens, closes, owned, calls>>

Ever == 1 .. opens
Live == {h \in Ever : closes[h] = 0}
Lost == Live \ owned

Init ==
    /\ ledger = "none" /\ phase = "start"
    /\ opens = 0 /\ closes = <<>> /\ owned = {} /\ calls = 0

Begin ==
    /\ ledger = "none"
    /\ ledger' \in {"from_path", "mkdir_exists", "mkdir_create", "get_stack"}
    /\ UNCHANGED <<phase, opens, closes, owned, calls>>

\* n protocols or mappings are made.
Make(n) ==
    /\ opens' = opens + n
    /\ closes' = [h \in 1 .. opens + n |-> IF h \in Ever THEN closes[h] ELSE 0]

Drop(h) ==
    /\ closes' = [closes EXCEPT ![h] = @ + 1]
    /\ owned' = owned \ {h}

\* buggy_from_path: a volume, then a child; the UefiFile holds the child.
FromPath ==
    /\ ledger = "from_path" /\ phase = "start"
    /\ phase' = "open"
    /\ Make(2)
    /\ owned' = {opens + 2}
    /\ UNCHANGED <<ledger, calls>>

\* The end of the block drops _f.
DropFile ==
    /\ ledger = "from_path" /\ phase = "open"
    /\ phase' = "dropped"
    /\ \E h \in owned : Drop(h)
    /\ UNCHANGED <<ledger, opens, calls>>

\* opened without closed is compared with [1].
JudgeVolume ==
    /\ ledger = "from_path" /\ phase = "dropped"
    /\ phase' = IF Live = {1} THEN "triggered" ELSE "unexpected"
    /\ UNCHANGED <<ledger, opens, closes, owned, calls>>

\* buggy_mkdir_path_exists: the raw handle is discarded, Err is returned and ignored.
MkdirExists ==
    /\ ledger = "mkdir_exists" /\ phase = "start" /\ calls < Loops
    /\ Make(1)
    /\ calls' = calls + 1
    /\ UNCHANGED <<ledger, phase, owned>>

\* buggy_mkdir_create: the same with Ok.
MkdirCreate ==
    /\ ledger = "mkdir_create" /\ phase = "start" /\ calls < Loops
    /\ Make(1)
    /\ calls' = calls + 1
    /\ UNCHANGED <<ledger, phase, owned>>

\* opens = 10 and closes = 0 are expected.
JudgeMkdir ==
    /\ ledger \in {"mkdir_exists", "mkdir_create"}
    /\ phase = "start" /\ calls = Loops
    /\ phase' = IF opens = Loops /\ Live = Ever THEN "triggered" ELSE "unexpected"
    /\ UNCHANGED <<ledger, opens, closes, owned, calls>>

\* buggy_get_stack: no mapping; one whose mprotect fails, which is kept; or one
\* that the kernel protects all the same, at which main() panics.
BuggyGetStack ==
    /\ ledger = "get_stack" /\ phase = "start"
    /\ \/ phase' = "buggy" /\ UNCHANGED <<opens, closes>>
       \/ phase' \in {"buggy", "panicked"} /\ Make(1)
    /\ calls' = opens'
    /\ UNCHANGED <<ledger, owned>>

\* patched_get_stack: when mprotect fails the mapping is gone before it returns.
PatchedGetStack ==
    /\ ledger = "get_stack" /\ phase = "buggy"
    /\ \/ phase' = "patched" /\ UNCHANGED <<opens, closes>>
       \/ /\ phase' = "patched"
          /\ opens' = opens + 1
          /\ closes' = [h \in 1 .. opens + 1 |-> IF h \in Ever THEN closes[h] ELSE 1]
       \/ phase' = "panicked" /\ Make(1)
    /\ UNCHANGED <<ledger, owned, calls>>

Next ==
    \/ Begin
    \/ FromPath \/ DropFile \/ JudgeVolume
    \/ MkdirExists \/ MkdirCreate \/ JudgeMkdir
    \/ BuggyGetStack \/ PatchedGetStack

-----------------------------------------------------------------------------
\* What is lost is what the code before the patches discards, and no more: the
\* volume, every handle of a mkdir, and the mapping whose guard page failed.
\* Nothing is closed twice, and what an owner still holds is live.
LostExactly ==
    /\ owned \subseteq Live /\ \A h \in Ever : closes[h] <= 1
    /\ ledger = "from_path" /\ phase # "start" => Lost = {1}
    /\ ledger \in {"mkdir_exists", "mkdir_create"} \/ phase = "patched" => Lost = 1 .. calls
=============================================================================
