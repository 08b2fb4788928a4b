---------------------------- MODULE BinFactory ----------------------------
(***************************************************************************)
(* BinFactory::get_executable as patched by wasmer-wasix/011, for callers  *)
(* of one name.  The cache is looked at under its lock, the file is loaded *)
(* without it, and the cache looked at again.  An entry is a package or    *)
(* Missing, which is what the lines after the hunk store for a name that   *)
(* was not found.  A load is known by its caller.                          *)
(***************************************************************************)
CONSTANTS
    Callers

VARIABLES
    caller,      \* each caller's place
    cache,       \* the entry of the name in self.local
    loaded,      \* what each caller's load gave
    answer,      \* what get_executable returned to each
    set_binary   \* whether set_binary() put a package of its own

vars == <<caller, cache, loaded, answer, set_binary>>

Absent == <<"absent">>     \* no entry
Missing == <<"missing">>   \* None, as an entry and as an answer
Set == <<"set">>           \* the package of set_binary
Package(c) == <<"package", c>>
Wasm(c) == <<"wasm", c>>
Packages == {Set} \cup {Package(c) : c \in Callers}

Init ==
    /\ caller = [c \in Callers |-> "start"]
    /\ cache = Absent
    /\ loaded = [c \in Callers |-> Missing]
    /\ answer = [c \in Callers |-> Absent]
    /\ set_binary = FALSE

Return(c, result) ==
    /\ caller' = [caller EXCEPT ![c] = "returned"]
    /\ answer' = [answer EXCEPT ![c] = result]

\* The read of the fast path, and the first check under the write lock, are of
\* the same kind: an entry of either kind is the answer.
Hit(c) ==
    /\ caller[c] = "start"
    /\ cache # Absent
    /\ Return(c, cache)
    /\ UNCHANGED <<cache, loaded, set_binary>>

\* No entry: the lock is released and the load begins.
Miss(c) ==
    /\ caller[c] = "start"
    /\ cache = Absent
    /\ caller' = [caller EXCEPT ![c] = "loading"]
    /\ UNCHANGED <<cache, loaded, answer, set_binary>>

\* The load ends: a package, a wasm module, or an error (or a relative name).
Load(c) ==
    /\ caller[c] = "loading"
    /\ caller' = [caller EXCEPT ![c] = "loaded"]
    /\ loaded' = [loaded EXCEPT ![c] = Package(c)] \/ loaded' = [loaded EXCEPT ![c] = Wasm(c)]
       \/ UNCHANGED loaded
    /\ UNCHANGED <<cache, answer, set_binary>>

\* The second check: whoever was first decides, whatever this caller has loaded.
HitAfterLoad(c) ==
    /\ caller[c] = "loaded"
    /\ cache # Absent
    /\ Return(c, cache)
    /\ UNCHANGED <<cache, loaded, set_binary>>

\* Mutant: the cache is not looked at again.
PublishUnchecked(c) ==
    /\ caller[c] = "loaded"
    /\ cache' = IF loaded[c] = Wasm(c) THEN cache ELSE loaded[c]
    /\ Return(c, loaded[c])
    /\ UNCHANGED <<loaded, set_binary>>

\* A package is stored; a wasm module is not, and neither is an error yet.
Publish(c) ==
    /\ caller[c] = "loaded"
    /\ cache = Absent
    /\ cache' = IF loaded[c] = Wasm(c) THEN cache ELSE loaded[c]
    /\ Return(c, loaded[c])
    /\ UNCHANGED <<loaded, set_binary>>

SetBinary ==
    /\ ~set_binary
    /\ set_binary' = TRUE
    /\ cache' = Set
    /\ UNCHANGED <<caller, loaded, answer>>

Next ==
    \/ SetBinary
    \/ \E c \in Callers : Hit(c) \/ Miss(c) \/ Load(c) \/ HitAfterLoad(c) \/ Publish(c)

-----------------------------------------------------------------------------
\* One package is shared: every caller that is given one, or told that there is
\* none, agrees with the cache and so with the others, though each may have
\* loaded its own and the loads end in any order; only set_binary makes a second one.
\* A wasm module is given only to the caller that loaded it: lines 66 to 69 store
\* none, though 011 says that they do, which is WasmCached.
BinaryShared ==
    \A c \in Callers :
        answer[c] \notin {Absent, Wasm(c)} =>
            answer[c] \in Packages \cup {Missing} /\ (answer[c] = cache \/ cache = Set)

\* "It also caches successful filesystem-loaded WASM executables" (011, line 40):
\* once a caller was given the module it loaded, the name has an entry.
WasmCached == \A c \in Callers : answer[c] = Wasm(c) => cache # Absent
=============================================================================
