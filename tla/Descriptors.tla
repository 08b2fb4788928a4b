---------------------------- MODULE Descriptors ----------------------------
(***************************************************************************)
(* rust-stdlib/pocs 025, 026 and 122: three programs on a process's table  *)
(* of descriptors.  A call that makes a descriptor takes the lowest free   *)
(* one and fails when there is none; the process inherits some at exec.    *)
(***************************************************************************)
EXTENDS Integers, FiniteSets

CONSTANTS
    TableSize,   \* descriptors are 0 .. TableSize - 1
    ScanEnd,     \* 122 looks at 3 .. ScanEnd - 1 (256 in the code)
    Rounds       \* of 026 (16 in the code)

VARIABLES
    task,        \* which program runs: none, spawn (025), restore (026), read_file (122)
    step,        \* its place, or how it ended
    table,       \* what each open descriptor refers to
    inherited,   \* the descriptors open when main() began
    saved,       \* saved_stdin of 025
    orig,        \* _orig_stdin of faux_spawn_buggy
    observed_in, \* what 025's probe read from
    leaks,       \* leaks of 026
    rounds,      \* rounds of 026, or calls of 122, made so far
    counted      \* leaked_count of 122

vars == <<task, step, table, inherited, saved, orig, observed_in, leaks, rounds, counted>>

Fds == 0 .. TableSize - 1
Ended == {"triggered", "unexpected", "panicked"}
Free == Fds \ DOMAIN table
Lowest(S) == CHOOSE fd \in S : \A other \in S : fd <= other
Opened(file) == [fd \in DOMAIN table \cup {Lowest(Free)} |->
                    IF fd \in DOMAIN table THEN table[fd] ELSE file]
Closed(fds) == [fd \in DOMAIN table \ fds |-> table[fd]]

Init ==
    /\ task = "none" /\ step = "start"
    /\ table = [fd \in 0 .. 2 |-> "inherited"] /\ inherited = 0 .. 2
    /\ saved = -1 /\ orig = -1 /\ observed_in = "none"
    /\ leaks = {} /\ rounds = 0 /\ counted = -1

\* exec: the runtime sees to it that 0, 1 and 2 are open; others may be.
Exec ==
    /\ task = "none"
    /\ task' \in {"spawn", "restore", "read_file"}
    /\ \E more \in SUBSET (Fds \ 0 .. 2) :
        /\ inherited' = 0 .. 2 \cup more
        /\ table' = [fd \in inherited' |-> "inherited"]
    /\ UNCHANGED <<step, saved, orig, observed_in, leaks, rounds, counted>>

-----------------------------------------------------------------------------
\* 025.  The file is made, closed and opened again.
OpenRedirect ==
    /\ task = "spawn" /\ step = "start"
    /\ IF Free = {}
       THEN step' = "panicked" /\ UNCHANGED table
       ELSE step' = "opened" /\ table' = Opened("redirect")
    /\ UNCHANGED <<task, inherited, saved, orig, observed_in, leaks, rounds, counted>>

\* saved_stdin = dup(0), which is asserted.
SaveStdin ==
    /\ task = "spawn" /\ step = "opened"
    /\ IF Free = {}
       THEN step' = "panicked" /\ UNCHANGED <<table, saved>>
       ELSE step' = "saved" /\ table' = Opened(table[0]) /\ saved' = Lowest(Free)
    /\ UNCHANGED <<task, inherited, orig, observed_in, leaks, rounds, counted>>

\* faux_spawn_buggy: an error of dup leaves everything as it was, that of chdir
\* leaves stdin redirected and the copy open.
FauxSpawn ==
    /\ task = "spawn" /\ step = "saved"
    /\ step' = "spawned"
    /\ IF Free = {}
       THEN UNCHANGED <<table, orig>>
       ELSE /\ orig' = Lowest(Free)
            /\ table' = [Opened(table[0]) EXCEPT ![0] = "redirect"]
    /\ UNCHANGED <<task, inherited, saved, observed_in, leaks, rounds, counted>>

\* from_raw_fd refuses the -1 of a dup that failed; else the copy is read.
Probe ==
    /\ task = "spawn" /\ step = "spawned"
    /\ IF Free = {}
       THEN step' = "panicked" /\ UNCHANGED <<table, observed_in>>
       ELSE step' = "probed" /\ table' = Opened(table[0]) /\ observed_in' = table[0]
    /\ UNCHANGED <<task, inherited, saved, orig, leaks, rounds, counted>>

\* Mutant: the saved descriptor is closed and not put back.
CloseSaved ==
    /\ task = "spawn" /\ step = "probed"
    /\ table' = Closed({saved})
    /\ step' = IF observed_in = "redirect" THEN "triggered" ELSE "unexpected"
    /\ UNCHANGED <<task, inherited, saved, orig, observed_in, leaks, rounds, counted>>

\* dup2(saved_stdin, 0), close(saved_stdin), and the verdict.
Restore ==
    /\ task = "spawn" /\ step = "probed"
    /\ table' = [Closed({saved}) EXCEPT ![0] = table[saved]]
    /\ step' = IF observed_in = "redirect" THEN "triggered" ELSE "unexpected"
    /\ UNCHANGED <<task, inherited, saved, orig, observed_in, leaks, rounds, counted>>

-----------------------------------------------------------------------------
\* 026.  One round: dup(0), and the return before close because dup2 "fails".
RestoreRound ==
    /\ task = "restore" /\ step = "start"
    /\ rounds < Rounds
    /\ rounds' = rounds + 1
    /\ IF Free = {}
       THEN UNCHANGED <<table, leaks>>
       ELSE table' = Opened(table[0]) /\ leaks' = leaks \cup {Lowest(Free)}
    /\ UNCHANGED <<task, step, inherited, saved, orig, observed_in, counted>>

\* All of them leaked, beyond 2: they are closed.
CloseLeaks ==
    /\ task = "restore" /\ step = "start"
    /\ rounds = Rounds
    /\ IF Cardinality(leaks) = Rounds /\ \A fd \in leaks : fd > 2
       THEN step' = "triggered" /\ table' = Closed(leaks)
       ELSE step' = "unexpected" /\ UNCHANGED table
    /\ UNCHANGED <<task, inherited, saved, orig, observed_in, leaks, rounds, counted>>

-----------------------------------------------------------------------------
\* 122.  read_file panics with its file open; if open fails it returns Err.
\* main() asserts the panic of the first call only.
ReadFile ==
    /\ task = "read_file" /\ step = "start"
    /\ rounds < 3
    /\ rounds' = rounds + 1
    /\ IF Free = {}
       THEN /\ step' = IF rounds = 0 THEN "panicked" ELSE step
            /\ UNCHANGED table
       ELSE table' = Opened("file") /\ UNCHANGED step
    /\ (rounds = 0 \/ counted # -1)
    /\ UNCHANGED <<task, inherited, saved, orig, observed_in, leaks, counted>>

Scanned == Cardinality(DOMAIN table \cap 3 .. ScanEnd - 1)

\* The first scan, after the first call.
Count ==
    /\ task = "read_file" /\ step = "start"
    /\ rounds = 1 /\ counted = -1
    /\ counted' = Scanned
    /\ UNCHANGED <<task, step, table, inherited, saved, orig, observed_in, leaks, rounds>>

\* The second scan and assert!(after_count > leaked_count).
CountAgain ==
    /\ task = "read_file" /\ step = "start"
    /\ rounds = 3
    /\ step' = IF Scanned > counted THEN "triggered" ELSE "panicked"
    /\ UNCHANGED <<task, table, inherited, saved, orig, observed_in, leaks, rounds, counted>>

Next ==
    \/ Exec
    \/ OpenRedirect \/ SaveStdin \/ FauxSpawn \/ Probe \/ Restore
    \/ RestoreRound \/ CloseLeaks
    \/ ReadFile \/ Count \/ CountAgain

-----------------------------------------------------------------------------
Room(n) == Cardinality(Fds \ inherited) >= n

\* 025 gives its own stdin back whenever it ends with a verdict, and the saved
\* copy with it; only a panic of the probe leaves it redirected.
StdinRestored ==
    task = "spawn" /\ step \in {"triggered", "unexpected"} =>
        table[0] = "inherited" /\ saved \notin DOMAIN table

\* The verdict of 025 is "triggered" whenever there is one: too full a table
\* shows as a panic, never as "stdin not corrupted".
SpawnVerdict ==
    /\ task = "spawn" => step # "unexpected"
    /\ task = "spawn" /\ step = "triggered" => Room(4) /\ orig \in DOMAIN table

\* 026 ends with exactly the descriptors it began with, if the table had room
\* for all its rounds; else it says so.
LeaksClosed ==
    task = "restore" /\ step \in Ended =>
        IF Room(Rounds)
        THEN step = "triggered" /\ DOMAIN table = inherited
        ELSE step = "unexpected"

\* 122 finds the leak exactly if, after the first call, a descriptor is free
\* among those it scans.
LeakSeen ==
    task = "read_file" /\ step \in Ended =>
        (step = "triggered" <=> Cardinality(3 .. ScanEnd - 1 \ inherited) >= 2)
=============================================================================
