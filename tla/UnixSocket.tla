---------------------------- MODULE UnixSocket ----------------------------
(***************************************************************************)
(* pushpin/poc/001-unix-socket: a listener whose mode is restricted only   *)
(* after it is bound, a client thread that connects as soon as it is told, *)
(* and the main thread that accepts, serves and judges.  The socket's mode *)
(* and backlog belong to the kernel; root is not held up by a mode.        *)
(***************************************************************************)
EXTENDS Sequences

VARIABLES
    main,         \* the main thread's place, or how the process ended
    client,       \* the client thread's place
    root,         \* whether the process ignores modes
    mode,         \* the mode of the socket file
    backlog,      \* connections the listener has not accepted
    channel,      \* connections sent on race_tx
    made,         \* the mode under which each connection was made
    server,       \* the connection accept() returned
    served,       \* whether the server wrote its line and closed
    attempt       \* the late connect: none, ok or rejected

vars == <<main, client, root, mode, backlog, channel, made, server, served, attempt>>
kernel == <<root, mode, backlog, made>>

Raced == "raced"    \* the connection of the client thread
Late == "late"      \* the connection of post_chmod_attempt
None == "none"
Ended == {"exit0", "exit1", "panicked"}

Init ==
    /\ main = "start" /\ client = "waiting"
    /\ root = FALSE /\ mode = None
    /\ backlog = <<>> /\ channel = <<>>
    /\ made = [c \in {Raced, Late} |-> None]
    /\ server = None /\ served = FALSE /\ attempt = None

\* connect(2) succeeds while the mode lets it, and queues the connection.
MayConnect == mode = "0777" \/ root

Queue(c) ==
    /\ backlog' = Append(backlog, c)
    /\ made' = [made EXCEPT ![c] = mode]

\* remove_file, umask(0), both channels, the thread, bind and stat.
Bind ==
    /\ main = "start"
    /\ main' = "bound"
    /\ root' \in BOOLEAN
    /\ mode' = "0777"
    /\ UNCHANGED <<client, backlog, channel, made, server, served, attempt>>

\* ready_tx.send(())
Tell ==
    /\ main = "bound"
    /\ main' = "told"
    /\ UNCHANGED <<client, kernel, channel, server, served, attempt>>

\* The pause, set_permissions(0) and stat.
Chmod ==
    /\ main = "told"
    /\ main' = "restricted"
    /\ mode' = "0000"
    /\ UNCHANGED <<client, root, backlog, made, channel, server, served, attempt>>

\* accept() waits for a connection, whenever it was made.
Accept ==
    /\ main = "restricted"
    /\ backlog # <<>>
    /\ main' = "accepted"
    /\ server' = Head(backlog)
    /\ backlog' = Tail(backlog)
    /\ UNCHANGED <<client, root, mode, made, channel, served, attempt>>

\* recv_timeout(2 s) returns the stream.
Receive ==
    /\ main = "accepted"
    /\ channel # <<>>
    /\ main' = "received"
    /\ UNCHANGED <<client, kernel, channel, server, served, attempt>>

\* Its unwrap panics if the client has not sent the stream by then.
ReceiveTimeout ==
    /\ main = "accepted"
    /\ channel = <<>>
    /\ main' = "panicked"
    /\ UNCHANGED <<client, kernel, channel, server, served, attempt>>

\* Mutant: the server's stream is not dropped, so that the reader sees no end.
ServeOpen ==
    /\ main = "received"
    /\ main' = "served"
    /\ UNCHANGED <<client, kernel, channel, server, served, attempt>>

\* write_all and drop(server)
Serve ==
    /\ main = "received"
    /\ main' = "served"
    /\ served' = TRUE
    /\ UNCHANGED <<client, kernel, channel, server, attempt>>

\* read_to_string returns once the peer of the client's stream has closed.
ReadBack ==
    /\ main = "served"
    /\ served /\ server = Head(channel)
    /\ main' = "read"
    /\ UNCHANGED <<client, kernel, channel, server, served, attempt>>

Attempt ==
    /\ main = "read"
    /\ main' = "tried"
    /\ IF MayConnect
       THEN attempt' = "ok" /\ Queue(Late)
       ELSE attempt' = "rejected" /\ UNCHANGED <<backlog, made>>
    /\ UNCHANGED <<client, root, mode, channel, server, served>>

\* Mutant: the verdict leaves out post_chmod_attempt.is_err().
JudgeServed ==
    /\ main = "tried"
    /\ client = "done"
    /\ main' = IF mode = "0000" /\ served THEN "exit0" ELSE "exit1"
    /\ UNCHANGED <<client, kernel, channel, server, served, attempt>>

\* The thread is joined; the two modes, the line read and the late connect decide.
Judge ==
    /\ main = "tried"
    /\ client = "done"
    /\ main' = IF mode = "0000" /\ served /\ attempt = "rejected" THEN "exit0" ELSE "exit1"
    /\ UNCHANGED <<client, kernel, channel, server, served, attempt>>

\* A connect that is refused changes nothing, and is tried again.
Connect ==
    /\ main \notin Ended \cup {"start", "bound"}
    /\ client = "waiting"
    /\ MayConnect
    /\ client' = "connected"
    /\ Queue(Raced)
    /\ UNCHANGED <<main, root, mode, channel, server, served, attempt>>

Send ==
    /\ main \notin Ended
    /\ client = "connected"
    /\ client' = "done"
    /\ channel' = Append(channel, Raced)
    /\ UNCHANGED <<main, kernel, server, served, attempt>>

MainStep ==
    \/ Bind \/ Tell \/ Chmod \/ Accept \/ Receive \/ ReceiveTimeout
    \/ Serve \/ ReadBack \/ Attempt \/ Judge
ClientStep == Connect \/ Send
Next == MainStep \/ ClientStep
Spec == Init /\ [][Next]_vars

-----------------------------------------------------------------------------
\* "RESULT: vulnerable" is said only of a connection that was made under the
\* first mode and served under the second: never of one that root could make.
VerdictSound ==
    main = "exit0" => server = Raced /\ made[Raced] = "0777" /\ mode = "0000" /\ ~root

\* "race did not reproduce on this run" is said to root only: for any other
\* user a race that is lost shows as an accept() that does not return.
NotReproducedIsRoot == main = "exit1" => root

\* What the program says of the connection and of the modes is so.
SocketVerdicts == VerdictSound /\ NotReproducedIsRoot

\* The client that first connects after the chmod.
Missed == ~root /\ mode = "0000" /\ made[Raced] = None

\* The program ends unless the client came too late.
EndsUnlessMissed == <>(main \in Ended \/ Missed)
=============================================================================
