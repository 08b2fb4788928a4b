------------------------------ MODULE KvStore ------------------------------
(***************************************************************************)
(* Viceroy's ObjectStores::insert as patched by viceroy/012 and 013: one   *)
(* write lock held from reading the existing object, over the checks, to   *)
(* the insertion.  The expiry is computed on entry, before the lock, and   *)
(* an object that is found expired is removed by whoever finds it.         *)
(***************************************************************************)
EXTENDS Integers, Sequences

CONSTANTS Writers, Keys, Absent, MaxInserts, MaxTime
CONSTANT Nobody  \* no holder of the lock

ASSUME KvAssumption ==
    /\ MaxInserts \in Nat /\ MaxTime \in Nat
    /\ Absent \notin Nat /\ Nobody \notin Writers

VARIABLES
    store,     \* the BTreeMap: the object under each key, or Absent
    now,       \* SystemTime::now()
    calls,     \* inserts called so far
    made,      \* inserts that passed the checks so far
    stores,    \* the holder of the write lock
    pc,        \* where each writer is in insert
    request,   \* the arguments of each writer's insert, with exp for its ttl
    existing,  \* the object each writer read under the lock
    obj_val,   \* the object each writer is about to insert
    result     \* what each writer was last answered

vars == <<store, now, calls, made, stores, pc, request, existing, obj_val, result>>

\* A writer's places.
Idle == "idle"            \* not in insert
Locking == "locking"      \* exp computed, about to take the lock
Examining == "examining"  \* the lock taken, nothing read
Inserting == "inserting"  \* checks passed, obj_val built
Unlocking == "unlocking"  \* about to release the lock
Returning == "returning"  \* the lock released

-----------------------------------------------------------------------------
\* The promise, as seen through the store: an insert that passed the checks
\* counts as made, since the lock hides the rest of it from everybody else, and
\* an expired object counts as absent.
Expired(e, t) == e # Absent /\ e.expiration # Absent /\ e.expiration <= t
Seen(e, t) == IF Expired(e, t) THEN Absent ELSE e

Inserters(k) == {c \in Writers : pc[c] = Inserting /\ request[c].key = k}

entriesBar ==
    [k \in Keys |->
        Seen(IF Inserters(k) # {} THEN obj_val[CHOOSE c \in Inserters(k) : TRUE] ELSE store[k],
             now)]

phaseBar ==
    [c \in Writers |-> IF pc[c] = Idle THEN "idle"
                       ELSE IF pc[c] \in {Locking, Examining} THEN "called" ELSE "done"]

Atomic == INSTANCE KvAtomic WITH entries <- entriesBar, phase <- phaseBar
-----------------------------------------------------------------------------

\* The types, and the writer inside insert's critical section is the holder of
\* the write lock.
TypeOK ==
    /\ store \in [Keys -> Atomic!Entries \cup {Absent}]
    /\ now \in 0..MaxTime /\ calls \in 0..MaxInserts /\ made \in 0..calls
    /\ stores \in Writers \cup {Nobody}
    /\ pc \in [Writers -> {Idle, Locking, Examining, Inserting, Unlocking, Returning}]
    /\ request \in [Writers -> Atomic!Requests \cup {Absent}]
    /\ existing \in [Writers -> Atomic!Entries \cup {Absent}]
    /\ obj_val \in [Writers -> Atomic!Entries \cup {Absent}]
    /\ \A c \in Writers : pc[c] \in {Examining, Inserting, Unlocking} <=> stores = c

Init ==
    /\ store = [k \in Keys |-> Absent]
    /\ now = 0 /\ calls = 0 /\ made = 0
    /\ stores = Nobody
    /\ pc = [c \in Writers |-> Idle]
    /\ request = [c \in Writers |-> Absent]
    /\ existing = [c \in Writers |-> Absent]
    /\ obj_val = [c \in Writers |-> Absent]
    /\ result = [c \in Writers |-> Atomic!Answer("none", Absent)]

\* insert(obj_key, obj, mode, generation, ttl): let exp = now + ttl.
Call(c, k, mode, g, ttl) ==
    /\ pc[c] = Idle
    /\ calls < MaxInserts
    /\ calls' = calls + 1
    /\ request' = [request EXCEPT ![c] =
                      [key |-> k, mode |-> mode, generation |-> g,
                       expiration |-> IF ttl = Absent THEN Absent ELSE now + ttl]]
    /\ pc' = [pc EXCEPT ![c] = Locking]
    /\ result' = [result EXCEPT ![c] = Atomic!Answer("none", Absent)]
    /\ UNCHANGED <<store, now, made, stores, existing, obj_val>>

\* Mutant: before the patches nothing kept other writers out between the read
\* of the existing object and the insertion.

LockNothing(c) ==
    /\ pc[c] = Locking
    /\ pc' = [pc EXCEPT ![c] = Examining]
    /\ UNCHANGED <<store, now, calls, made, stores, request, existing, obj_val, result>>

\* self.stores.write()
Lock(c) ==
    /\ pc[c] = Locking
    /\ stores = Nobody
    /\ stores' = c
    /\ pc' = [pc EXCEPT ![c] = Examining]
    /\ UNCHANGED <<store, now, calls, made, request, existing, obj_val, result>>

\* The existing object, or none and the removal of one that is expired.
Read(k) == Seen(store[k], now)

\* The mode's body, given the existing object.
OutObj(c, mode, e) ==
    IF e = Absent \/ mode \in {"overwrite", "add"} THEN <<c>>
    ELSE IF mode = "append" THEN e.body \o <<c>> ELSE <<c>> \o e.body

\* Mutant: only add is checked; the generation is not.
PreconditionFailsAddOnly(r, e) == e # Absent /\ r.mode = "add"

\* The checks of the generation and of the mode.
PreconditionFails(r, e) ==
    \/ r.generation # Absent /\ e # Absent /\ e.generation # r.generation
    \/ r.mode = "add" /\ e # Absent

\* Mutant: the object is read without regard to its expiry.
ExamineExpired(c) ==
    LET r == request[c]
        e == store[r.key] IN
    /\ pc[c] = Examining
    /\ existing' = [existing EXCEPT ![c] = e]
    /\ IF PreconditionFails(r, e)
       THEN /\ result' = [result EXCEPT ![c] = Atomic!Answer("precondition_failed", Absent)]
            /\ pc' = [pc EXCEPT ![c] = Unlocking]
            /\ UNCHANGED <<obj_val, made>>
       ELSE /\ made' = made + 1
            /\ obj_val' = [obj_val EXCEPT ![c] =
                              [body |-> OutObj(c, r.mode, e), generation |-> made',
                               expiration |-> r.expiration]]
            /\ result' = [result EXCEPT ![c] = Atomic!Answer("ok", Absent)]
            /\ pc' = [pc EXCEPT ![c] = Inserting]
    /\ UNCHANGED <<store, now, calls, stores, request>>

\* Under the lock: read, drop what is expired, check, and build the object.
Examine(c) ==
    LET r == request[c]
        e == Read(r.key) IN
    /\ pc[c] = Examining
    /\ existing' = [existing EXCEPT ![c] = e]
    /\ store' = [store EXCEPT ![r.key] = e]
    /\ IF PreconditionFails(r, e)
       THEN /\ result' = [result EXCEPT ![c] = Atomic!Answer("precondition_failed", Absent)]
            /\ pc' = [pc EXCEPT ![c] = Unlocking]
            /\ UNCHANGED <<obj_val, made>>
       ELSE /\ made' = made + 1
            /\ obj_val' = [obj_val EXCEPT ![c] =
                              [body |-> OutObj(c, r.mode, e), generation |-> made',
                               expiration |-> r.expiration]]
            /\ result' = [result EXCEPT ![c] = Atomic!Answer("ok", Absent)]
            /\ pc' = [pc EXCEPT ![c] = Inserting]
    /\ UNCHANGED <<now, calls, stores, request>>

\* store.insert(obj_key, obj_val)
Insert(c) ==
    /\ pc[c] = Inserting
    /\ store' = [store EXCEPT ![request[c].key] = obj_val[c]]
    /\ pc' = [pc EXCEPT ![c] = Unlocking]
    /\ UNCHANGED <<now, calls, made, stores, request, existing, obj_val, result>>

\* The guard is dropped, on the error returns as on the last one.
Unlock(c) ==
    /\ pc[c] = Unlocking
    /\ stores' = Nobody
    /\ pc' = [pc EXCEPT ![c] = Returning]
    /\ UNCHANGED <<store, now, calls, made, request, existing, obj_val, result>>

\* The arguments and the locals of insert are gone.
Return(c) ==
    /\ pc[c] = Returning
    /\ pc' = [pc EXCEPT ![c] = Idle]
    /\ request' = [request EXCEPT ![c] = Absent]
    /\ existing' = [existing EXCEPT ![c] = Absent]
    /\ obj_val' = [obj_val EXCEPT ![c] = Absent]
    /\ UNCHANGED <<store, now, calls, made, stores, result>>

\* lookup: the object under a key, read under the lock.
Lookup(c, k) ==
    /\ pc[c] = Idle
    /\ stores = Nobody
    /\ store' = [store EXCEPT ![k] = Read(k)]
    /\ result' = [result EXCEPT ![c] = Atomic!Answer("ok", Read(k))]
    /\ UNCHANGED <<now, calls, made, stores, pc, request, existing, obj_val>>

Tick ==
    /\ now < MaxTime
    /\ now' = now + 1
    /\ UNCHANGED <<store, calls, made, stores, pc, request, existing, obj_val, result>>

Next ==
    \/ \E c \in Writers :
        \/ \E k \in Keys, mode \in Atomic!Modes, g \in Atomic!Generations \cup {Absent},
              ttl \in {Absent, 1} : Call(c, k, mode, g, ttl)
        \/ Lock(c) \/ Examine(c) \/ Insert(c) \/ Unlock(c) \/ Return(c)
        \/ \E k \in Keys : Lookup(c, k)
    \/ Tick

Spec == Init /\ [][Next]_vars

-----------------------------------------------------------------------------
\* Inserts are atomic: every behaviour of the locked, stepwise insert, with
\* lookups and the passing of time in between, is one of KvAtomic.
ImplementsAtomic == Atomic!Spec

\* An insertion replaces the very object its checks and its body were based on:
\* nothing was written under that key since.
InsertNotStale ==
    [][\A c \in Writers :
          pc[c] = Inserting /\ pc'[c] # Inserting
          => store[request[c].key] = existing[c]]_vars
=============================================================================
