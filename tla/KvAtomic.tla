------------------------------ MODULE KvAtomic ------------------------------
(***************************************************************************)
(* What a local KV store promises its callers: each insert takes effect at *)
(* one instant between its call and its return, with its preconditions     *)
(* judged, and the value it extends read, at that instant.  An entry whose *)
(* time is over is not there.                                              *)
(***************************************************************************)
EXTENDS Integers, Sequences

CONSTANTS
    Writers,     \* concurrent callers; a writer's name is also what it writes
    Keys,        \* the keys of the store
    Absent,      \* stands for no entry, no generation and no expiry
    MaxInserts,  \* bound on the inserts that are called
    MaxTime      \* bound on the clock

Modes == {"overwrite", "add", "append", "prepend"}
Generations == 1..MaxInserts
Expiries == 0..MaxTime + 1

Entries == [body : Seq(Writers), generation : Generations, expiration : Expiries \cup {Absent}]

Requests ==
    [key : Keys, mode : Modes, generation : Generations \cup {Absent},
     expiration : Expiries \cup {Absent}]

\* An answer carries an entry only when a lookup found one.
Answer(status, e) == [status |-> status, entry |-> e]

VARIABLES
    entries,  \* the entry under each key, or Absent
    now,      \* the clock
    calls,    \* inserts called so far
    made,     \* inserts that took effect so far: the generation of the last
    phase,    \* "idle", "called" or "done", for each writer
    request,  \* what each writer asked for
    result    \* what each writer was last answered, and the entry it was shown

vars == <<entries, now, calls, made, phase, request, result>>

Init ==
    /\ entries = [k \in Keys |-> Absent]
    /\ now = 0 /\ calls = 0 /\ made = 0
    /\ phase = [c \in Writers |-> "idle"]
    /\ request = [c \in Writers |-> Absent]
    /\ result = [c \in Writers |-> Answer("none", Absent)]

Expired(e, t) == e # Absent /\ e.expiration # Absent /\ e.expiration <= t

\* e as it is seen at time t.
Seen(e, t) == IF Expired(e, t) THEN Absent ELSE e

\* A generation that is given must be that of the entry, if there is one; add
\* requires that there is none.
Refused(r, e) ==
    /\ e # Absent
    /\ \/ r.generation # Absent /\ r.generation # e.generation
       \/ r.mode = "add"

\* The body that writer c makes of entry e.
NewBody(c, r, e) ==
    CASE e = Absent \/ r.mode \in {"overwrite", "add"} -> <<c>>
      [] e # Absent /\ r.mode = "append"  -> e.body \o <<c>>
      [] e # Absent /\ r.mode = "prepend" -> <<c>> \o e.body

NewEntry(c, r, e, g) ==
    [body |-> NewBody(c, r, e), generation |-> g, expiration |-> r.expiration]

Call(c, r) ==
    /\ phase[c] = "idle"
    /\ calls < MaxInserts
    /\ calls' = calls + 1
    /\ phase' = [phase EXCEPT ![c] = "called"]
    /\ request' = [request EXCEPT ![c] = r]
    /\ result' = [result EXCEPT ![c] = Answer("none", Absent)]
    /\ UNCHANGED <<entries, now, made>>

\* The instant at which the insert of c happens.
Effect(c) ==
    LET r == request[c]
        e == entries[r.key] IN
    /\ phase[c] = "called"
    /\ phase' = [phase EXCEPT ![c] = "done"]
    /\ IF Refused(r, e)
       THEN /\ result' = [result EXCEPT ![c] = Answer("precondition_failed", Absent)]
            /\ UNCHANGED <<entries, made>>
       ELSE /\ result' = [result EXCEPT ![c] = Answer("ok", Absent)]
            /\ made' = made + 1
            /\ entries' = [entries EXCEPT ![r.key] = Seen(NewEntry(c, r, e, made'), now)]
    /\ UNCHANGED <<now, calls, request>>

Return(c) ==
    /\ phase[c] = "done"
    /\ phase' = [phase EXCEPT ![c] = "idle"]
    /\ request' = [request EXCEPT ![c] = Absent]
    /\ UNCHANGED <<entries, now, calls, made, result>>

Lookup(c, k) ==
    /\ phase[c] = "idle"
    /\ result' = [result EXCEPT ![c] = Answer("ok", entries[k])]
    /\ UNCHANGED <<entries, now, calls, made, phase, request>>

Tick ==
    /\ now < MaxTime
    /\ now' = now + 1
    /\ entries' = [k \in Keys |-> Seen(entries[k], now')]
    /\ UNCHANGED <<calls, made, phase, request, result>>

Next ==
    \/ \E c \in Writers :
        \/ \E r \in Requests : Call(c, r)
        \/ Effect(c) \/ Return(c)
        \/ \E k \in Keys : Lookup(c, k)
    \/ Tick

Spec == Init /\ [][Next]_vars
=============================================================================
