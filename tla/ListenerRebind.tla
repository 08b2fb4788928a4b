-------------------------- MODULE ListenerRebind --------------------------
(***************************************************************************)
(* rust-stdlib/pocs/041: threads that accept on one shared listener.  An   *)
(* accept allocates a descriptor for the stream and one for the rebound    *)
(* listener, whose fd it then stores over the previous one.                *)
(***************************************************************************)
EXTENDS Integers

CONSTANTS
    Threads,   \* the accepting threads
    Accepts    \* how often each of them accepts

VARIABLES
    at,             \* each thread's place in buggy_accept and close_fd
    accepted,       \* the accepts each thread has completed
    fd_allocator,   \* FD_ALLOCATOR, from 0
    live_fds,       \* LIVE_FDS
    new_fd,         \* each thread's new_fd
    listener_fd,    \* BuggyListener.fd
    leaked          \* what main() loaded from LIVE_FDS at the end, or -1

vars == <<at, accepted, fd_allocator, live_fds, new_fd, listener_fd, leaked>>

\* main() has allocated the listener's own descriptor, 0, before it spawns.
Init ==
    /\ at = [t \in Threads |-> "count_stream"]
    /\ accepted = [t \in Threads |-> 0]
    /\ fd_allocator = 1
    /\ live_fds = 1
    /\ new_fd = [t \in Threads |-> 0]
    /\ listener_fd = 0
    /\ leaked = -1

Goto(t, from, to) ==
    /\ at[t] = from
    /\ at' = [at EXCEPT ![t] = to]

\* alloc_fd() for the stream: two atomic operations, the value is not used.
CountStream(t) ==
    /\ accepted[t] < Accepts
    /\ Goto(t, "count_stream", "alloc_stream")
    /\ live_fds' = live_fds + 1
    /\ UNCHANGED <<accepted, fd_allocator, new_fd, listener_fd, leaked>>

AllocStream(t) ==
    /\ Goto(t, "alloc_stream", "count_new")
    /\ fd_allocator' = fd_allocator + 1
    /\ UNCHANGED <<accepted, live_fds, new_fd, listener_fd, leaked>>

\* alloc_fd() for the rebound listener.
CountNew(t) ==
    /\ Goto(t, "count_new", "alloc_new")
    /\ live_fds' = live_fds + 1
    /\ UNCHANGED <<accepted, fd_allocator, new_fd, listener_fd, leaked>>

AllocNew(t) ==
    /\ Goto(t, "alloc_new", "store")
    /\ new_fd' = [new_fd EXCEPT ![t] = fd_allocator]
    /\ fd_allocator' = fd_allocator + 1
    /\ UNCHANGED <<accepted, live_fds, listener_fd, leaked>>

\* self.fd.store(new_fd), whatever fd is by now.
Store(t) ==
    /\ Goto(t, "store", "close")
    /\ listener_fd' = new_fd[t]
    /\ UNCHANGED <<accepted, fd_allocator, live_fds, new_fd, leaked>>

\* close_fd(0): the stream.  CLOSED_FDS is never read.
Close(t) ==
    /\ Goto(t, "close", "count_stream")
    /\ live_fds' = live_fds - 1
    /\ accepted' = [accepted EXCEPT ![t] = @ + 1]
    /\ UNCHANGED <<fd_allocator, new_fd, listener_fd, leaked>>

\* main() joins the threads, drops the listener and loads LIVE_FDS.
Finish ==
    /\ \A t \in Threads : accepted[t] = Accepts
    /\ leaked = -1
    /\ live_fds' = live_fds - 1
    /\ leaked' = live_fds'
    /\ UNCHANGED <<at, accepted, fd_allocator, new_fd, listener_fd>>

Next ==
    \/ \E t \in Threads :
        \/ CountStream(t) \/ AllocStream(t) \/ CountNew(t) \/ AllocNew(t)
        \/ Store(t) \/ Close(t)
    \/ Finish
Spec == Init /\ [][Next]_vars

-----------------------------------------------------------------------------
\* Every accept leaks one listener, in every interleaving, and so with a single
\* thread too: the number main() prints does not measure the lost store.
LeakIsExact(rebinds) == leaked # -1 => leaked = rebinds

\* No two threads hold one rebound listener, and none holds the published one
\* before it has stored it.
HandedOutOnce ==
    \A t \in Threads :
        at[t] = "store" =>
            /\ new_fd[t] # listener_fd
            /\ \A u \in Threads \ {t} : at[u] = "store" => new_fd[t] # new_fd[u]
=============================================================================
