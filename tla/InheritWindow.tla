--------------------------- MODULE InheritWindow ---------------------------
(***************************************************************************)
(* rust-stdlib/pocs/066: a thread clones a socket without the flag against *)
(* inheritance and clears inheritance later; main() looks in between.      *)
(***************************************************************************)
EXTENDS Naturals

VARIABLES
    cloner,         \* fallback_clone: create, published, cleared
    observer,       \* main(): poll, viewed, told, joined
    observed,       \* observed_inherit_flag: 0 or the socket
    inheritable,    \* whether the socket is inherited by a process created now
    view,           \* what main() calls inheritable
    child_spawned

vars == <<cloner, observer, observed, inheritable, view, child_spawned>>

Init ==
    /\ cloner = "create" /\ observer = "poll"
    /\ observed = 0 /\ inheritable = FALSE /\ view = FALSE
    /\ child_spawned = FALSE

WSA_FLAG_OVERLAPPED == 1
WSA_FLAG_NO_HANDLE_INHERIT == 128

\* 0x1000 | flags: the two flags are below.
wsasocketw_mock(flags) == 4096 + flags

\* The socket is made, and stored.
Publish ==
    /\ cloner = "create"
    /\ cloner' = "published"
    /\ observed' = wsasocketw_mock(WSA_FLAG_OVERLAPPED)
    /\ inheritable' = TRUE
    /\ UNCHANGED <<observer, view, child_spawned>>

\* Mutant: the flag is cleared without waiting for the observer.
ClearAtOnce ==
    /\ cloner = "published"
    /\ cloner' = "cleared"
    /\ inheritable' = FALSE
    /\ UNCHANGED <<observer, observed, view, child_spawned>>

\* The spin on child_spawned ends, and inheritance is cleared.
Clear ==
    /\ cloner = "published"
    /\ child_spawned
    /\ cloner' = "cleared"
    /\ inheritable' = FALSE
    /\ UNCHANGED <<observer, observed, view, child_spawned>>

\* The poll finds a socket; main() loads it again and looks at its flag.
View ==
    /\ observer = "poll"
    /\ observed # 0
    /\ observer' = "viewed"
    /\ view' = ((observed \div WSA_FLAG_NO_HANDLE_INHERIT) % 2 = 0)
    /\ UNCHANGED <<cloner, observed, inheritable, child_spawned>>

\* child_spawned.store(true)
StoreSpawned ==
    /\ observer = "viewed"
    /\ observer' = "told"
    /\ child_spawned' = TRUE
    /\ UNCHANGED <<cloner, observed, inheritable, view>>

Join ==
    /\ observer = "told"
    /\ cloner = "cleared"
    /\ observer' = "joined"
    /\ UNCHANGED <<cloner, observed, inheritable, view, child_spawned>>

MainStep == View \/ StoreSpawned \/ Join
OtherStep == Publish \/ Clear
Next == MainStep \/ OtherStep

-----------------------------------------------------------------------------
\* main() finds the socket inheritable whatever the schedule, and it is until main()
\* tells so, though the flag that main() reads would not show it; the window is
\* closed when main() ends.
ViewInsideWindow ==
    /\ observer # "poll" => view
    /\ observer = "viewed" => inheritable
    /\ observer = "joined" => ~inheritable

\* The two spins, each on what the other thread stores, both end.
BothEnd == <>(observer = "joined")
=============================================================================
