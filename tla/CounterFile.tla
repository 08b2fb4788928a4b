---------------------------- MODULE CounterFile ----------------------------
(***************************************************************************)
(* yubikey_login of openbsd-libexec/004: logins of one user, each with the *)
(* counter of its token, under an exclusive lock of the counter file.  A   *)
(* process may be killed, and a call may fail; what fprintf prints reaches *)
(* the file in fclose, whose result is not looked at.                      *)
(***************************************************************************)
EXTENDS Integers, Sequences

CONSTANTS
    Logins,      \* the processes
    MaxCtr       \* tokens show 1 .. MaxCtr

VARIABLES
    login,       \* each process's place
    ctr,         \* the counter of its token
    flock,       \* who holds the lock of the file
    stored,      \* the number in the file; an empty file is read as 0
    accepted,    \* the counters that got AUTH_OK, in order
    spoiled      \* whether the file was left empty

vars == <<login, ctr, flock, stored, accepted, spoiled>>

Nobody == "nobody"

Init ==
    /\ login = [p \in Logins |-> "start"]
    /\ ctr = [p \in Logins |-> 0]
    /\ flock = Nobody /\ stored = 0
    /\ accepted = <<>> /\ spoiled = FALSE

Goto(p, from, to) ==
    /\ login[p] = from
    /\ login' = [login EXCEPT ![p] = to]

\* The token is valid and the file opened.
Open(p) ==
    /\ Goto(p, "start", "opened")
    /\ \E c \in 1 .. MaxCtr : ctr' = [ctr EXCEPT ![p] = c]
    /\ UNCHANGED <<flock, stored, accepted, spoiled>>

OpenFails(p) ==
    /\ Goto(p, "start", "failed")
    /\ UNCHANGED <<ctr, flock, stored, accepted, spoiled>>

\* Mutant: the file is not locked.
LockNothing(p) ==
    /\ Goto(p, "opened", "locked")
    /\ UNCHANGED <<ctr, flock, stored, accepted, spoiled>>

\* flock(LOCK_EX) waits for the lock.
Lock(p) ==
    /\ Goto(p, "opened", "locked")
    /\ flock = Nobody
    /\ flock' = p
    /\ UNCHANGED <<ctr, stored, accepted, spoiled>>

LockFails(p) ==
    /\ Goto(p, "opened", "failed")
    /\ UNCHANGED <<ctr, flock, stored, accepted, spoiled>>

Unlocked(p) == IF flock = p THEN Nobody ELSE flock

\* fscanf and the comparison: a counter that is not above the last is refused.
Refuse(p) ==
    /\ Goto(p, "locked", "failed")
    /\ ctr[p] <= stored
    /\ flock' = Unlocked(p)
    /\ UNCHANGED <<ctr, stored, accepted, spoiled>>

Compare(p) ==
    /\ Goto(p, "locked", "compared")
    /\ ctr[p] > stored
    /\ UNCHANGED <<ctr, flock, stored, accepted, spoiled>>

TruncateFails(p) ==
    /\ Goto(p, "compared", "failed")
    /\ flock' = Unlocked(p)
    /\ UNCHANGED <<ctr, stored, accepted, spoiled>>

Truncate(p) ==
    /\ Goto(p, "compared", "truncated")
    /\ stored' = 0
    /\ UNCHANGED <<ctr, flock, accepted, spoiled>>

\* fprintf fails: the file is closed empty.
PrintFails(p) ==
    /\ Goto(p, "truncated", "failed")
    /\ flock' = Unlocked(p)
    /\ spoiled' = TRUE
    /\ UNCHANGED <<ctr, stored, accepted>>

\* fclose first writes the number, or fails to, which nobody asks about.
Flush(p) ==
    /\ Goto(p, "truncated", "flushed")
    /\ \/ stored' = ctr[p] /\ UNCHANGED spoiled
       \/ stored' = 0 /\ spoiled' = TRUE
    /\ UNCHANGED <<ctr, flock, accepted>>

\* It then closes, which unlocks, and AUTH_OK is returned.
Close(p) ==
    /\ Goto(p, "flushed", "ok")
    /\ accepted' = Append(accepted, ctr[p])
    /\ flock' = Unlocked(p)
    /\ UNCHANGED <<ctr, stored, spoiled>>

\* A process that is killed gives up its lock.
Kill(p) ==
    /\ login[p] \notin {"ok", "failed"}
    /\ login' = [login EXCEPT ![p] = "failed"]
    /\ flock' = Unlocked(p)
    /\ spoiled' = (spoiled \/ login[p] = "truncated")
    /\ UNCHANGED <<ctr, stored, accepted>>

Next ==
    \E p \in Logins :
        \/ Open(p) \/ OpenFails(p) \/ Lock(p) \/ LockFails(p) \/ Refuse(p) \/ Compare(p)
        \/ Truncate(p) \/ TruncateFails(p) \/ PrintFails(p) \/ Flush(p) \/ Close(p)
        \/ Kill(p)

-----------------------------------------------------------------------------
\* A counter is accepted once only, and above all that were accepted before it,
\* and the file keeps one as high; unless a process that had emptied the file
\* was killed, or could not write, with which the patch does not deal.
CounterKept ==
    ~spoiled =>
        /\ \A i, j \in DOMAIN accepted : i < j => accepted[i] < accepted[j]
        /\ (\A p \in Logins : login[p] # "truncated") =>
            \A i \in DOMAIN accepted : accepted[i] <= stored
=============================================================================
