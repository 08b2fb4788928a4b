-------------------------- MODULE InterruptedRead --------------------------
(***************************************************************************)
(* rust-stdlib/pocs/123: a read of an empty pipe, which only a signal ends.*)
(* kill() addresses the process: the kernel picks the thread that runs the *)
(* handler, and only one that is in read() fails with EINTR.               *)
(***************************************************************************)
VARIABLES
    reader,       \* the main thread: setup, called, blocked, returned, ended
    killer,       \* the spawned thread: none, asleep, sent
    signal,       \* SIGUSR1: none, pending or handled
    write_end,    \* whether fds[1] is open
    interrupted,  \* whether the read was interrupted
    result        \* of vulnerable_read_file: none, EINTR or Ok

vars == <<reader, killer, signal, write_end, interrupted, result>>

Init ==
    /\ reader = "setup" /\ killer = "none" /\ signal = "none"
    /\ write_end = FALSE /\ interrupted = FALSE /\ result = "none"

\* The handler is installed without SA_RESTART, the pipe and the thread made.
Setup ==
    /\ reader = "setup"
    /\ reader' = "called"
    /\ killer' = "asleep"
    /\ write_end' = TRUE
    /\ UNCHANGED <<signal, interrupted, result>>

\* read() blocks: nothing is ever written.
Block ==
    /\ reader = "called"
    /\ reader' = "blocked"
    /\ UNCHANGED <<killer, signal, write_end, interrupted, result>>

\* kill(pid, SIGUSR1) after 100 ms, by which time main need not have called read.
Kill ==
    /\ killer = "asleep" /\ reader # "ended"
    /\ killer' = "sent"
    /\ signal' = "pending"
    /\ UNCHANGED <<reader, write_end, interrupted, result>>

\* The handler runs on the main thread or on the other one.
Handle ==
    /\ signal = "pending" /\ reader # "ended"
    /\ signal' = "handled"
    /\ interrupted' \in {FALSE, reader = "blocked"}
    /\ UNCHANGED <<reader, killer, write_end, result>>

\* read() returns -1, and any error is fatal, or 0 at the end of the file.
Return ==
    /\ reader = "blocked"
    /\ interrupted \/ ~write_end
    /\ reader' = "returned"
    /\ result' = IF interrupted THEN "EINTR" ELSE "Ok"
    /\ UNCHANGED <<killer, signal, write_end, interrupted>>

\* Both ends are closed and the result is printed.
Finish ==
    /\ reader = "returned"
    /\ reader' = "ended"
    /\ write_end' = FALSE
    /\ UNCHANGED <<killer, signal, interrupted, result>>

MainStep == Setup \/ Block \/ Return \/ Finish
OtherStep == Kill \/ Handle
Next == MainStep \/ OtherStep

-----------------------------------------------------------------------------
\* "read returned EOF before EINTR could be observed" is never printed: main()
\* holds the write end over the read, so that a read it loses blocks for ever.
EofNeverSeen == result # "Ok"

\* The signal was handled, and not by a read.
SignalMissed == signal = "handled" /\ ~interrupted

\* The program ends unless the signal found no thread in read().
EndsUnlessMissed == <>(reader = "ended" \/ SignalMissed)
=============================================================================
