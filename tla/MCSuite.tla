------------------------------ MODULE MCSuite ------------------------------
(***************************************************************************)
(* The small programs side by side: the reproducers that are complete, and *)
(* four patched operations.  A behaviour is one of them, from its start.   *)
(* Those that compute one thing have an input, chosen in Init, and no      *)
(* step.                                                                   *)
(***************************************************************************)
EXTENDS Integers, FiniteSets, Sequences, SequencesExt

CONSTANTS
    Threads, Accepts,                      \* of ListenerRebind
    Dur, Delay, Hold, MinElapsed, Cap,     \* of TimedWait
    TableSize, ScanEnd, Rounds,            \* of Descriptors
    Loops,                                 \* of Ledger
    MaxTags, Chunk, ChunksApart, TagsApart,  \* of RssProbe
    Processes, Numbers, MaxCtr,            \* of SealNonce, CounterFile and BinFactory
    MaxFd, MaxOpens,                       \* of RenumberFd
    Word, Huge, Header, MaxReparse, ReparseHeader, PathOffset, NameOffset, Buffer, NameMax,
    HandleSize, Short,                     \* of Lengths
    Machine, Page, Narrow,                 \* of Words, for 182 a word with fewer values
    HeaderSize, Size, PathCap,             \* of DevicePath
    MaxDepth, FileNames, MinAlign,         \* of RemoveDirAll and AllocFamily
    Nesting, Levels,                       \* of MetaVars: its streams, by depth of their groups
    Inputs                                 \* what is given to those that compute one thing

VARIABLES
    program,     \* which one runs
    input,       \* what it was given, if it computes one thing
    main, client, root, mode, backlog, channel, made, server, served, attempt,
    at, accepted, fd_allocator, live_fds, new_fd, listener_fd, leaked,
    waiter, setter, owner, done, elapsed, inner, left, pause, timed_out, met,
    reader, killer, signal, write_end, interrupted, result,
    cloner, observer, observed, inheritable, view, child_spawned,
    task, step, table, inherited, saved, orig, observed_in, leaks, rounds, counted,
    ledger, phase, opens, closes, owned, calls,
    probe, n, i, last_print, tags, lines, line, status,
    patch, sealing, seqNumMu, seqNum, nonce, sealed, handed,
    login, ctr, flock, stored, accepted_ctrs, spoiled,
    guest, used, free, resources, opened, undropped,
    caller, cache, loaded, answer, set_binary

Socket == INSTANCE UnixSocket
Listener == INSTANCE ListenerRebind
TimedWait == INSTANCE TimedWait
Read == INSTANCE InterruptedRead
Inherit == INSTANCE InheritWindow
Fds == INSTANCE Descriptors
Owners == INSTANCE Ledger
Rss == INSTANCE RssProbe

Seal == INSTANCE SealNonce WITH Goroutines <- Processes
Yubikey == INSTANCE CounterFile WITH Logins <- Processes, accepted <- accepted_ctrs
Renumber == INSTANCE RenumberFd
Factory == INSTANCE BinFactory WITH Callers <- Processes

\* The tokens, and the streams of them: those of depth 0 have no groups.
Atoms == {[kind |-> "dollar"], [kind |-> "punct"],
          [kind |-> "ident", name |-> "a"], [kind |-> "ident", name |-> "b"]}
TokenStreams == UNION {Levels[d] : d \in 0 .. Nesting}

Path == INSTANCE DevicePath WITH Cap <- PathCap
Time == INSTANCE Calendar
Body == INSTANCE ContentLength
Tree == INSTANCE RemoveDirAll
Order == INSTANCE VariantOrder
Macro == INSTANCE MetaVars WITH Streams <- TokenStreams
Buffers == INSTANCE Lengths
Arith == INSTANCE Words WITH Word <- Machine
Arith8 == INSTANCE Words WITH Word <- Narrow
Alloc == INSTANCE AllocFamily
Simd == INSTANCE SimdFeatures

\* Threads are counted; no process is called as the one that is not there; the
\* stopwatches reach far enough; there is a nonce.
ASSUME SuiteAssumption ==
    /\ IsFiniteSet(Threads) /\ Accepts \in Nat
    /\ TimedWait!Durations
    /\ Seal!Free \notin Processes /\ Yubikey!Nobody \notin Processes
    /\ Numbers \in Nat \ {0}

\* Descriptors 0 to 2 exist, and those that 122 scans do.
ASSUME DescriptorsAssumption ==
    /\ TableSize \in Nat /\ TableSize >= 3
    /\ ScanEnd \in Nat /\ ScanEnd <= TableSize
    /\ Rounds \in Nat /\ Loops \in Nat

\* What is compared fits into a word, a Handle is not empty, and a string's length
\* is modulo an even number.
ASSUME LengthsAssumption ==
    /\ Word \in Nat /\ Header \in Nat /\ Huge \in Nat /\ Word >= Header + 2 * Huge + 2
    /\ MaxReparse \in Nat /\ ReparseHeader \in Nat /\ PathOffset \in Nat /\ NameOffset \in Nat
    /\ Buffer \in Nat /\ NameMax \in Nat /\ HandleSize \in Nat \ {0}
    /\ Short \in Nat \ {0} /\ Short % 2 = 0

\* Lines are printed every so many rounds; the cap of 005 is beyond its path; the
\* directory of 020 has a name.
ASSUME LoopsAssumption ==
    /\ MaxTags \in Nat /\ Chunk \in Nat \ {0}
    /\ ChunksApart \in Nat \ {0} /\ TagsApart \in Nat \ {0}
    /\ HeaderSize \in Nat \ {0} /\ Size \in Nat /\ PathCap \in Nat /\ PathCap > Size
    /\ MaxDepth \in Nat /\ "target" \in FileNames /\ MinAlign \in Nat

\* A word has a sign, and is of whole pages, four or more.
ASSUME WordsAssumption ==
    /\ Machine \in Nat \ {0} /\ Machine % 2 = 0
    /\ Page \in Nat \ {0} /\ Machine % Page = 0 /\ Machine >= 4 * Page
    /\ Narrow \in Nat \ {0} /\ Narrow % 2 = 0

\* A group of a stream is a stream of the depth before.
ASSUME StreamsAssumption ==
    /\ Nesting \in Nat /\ Levels[0] \subseteq Seq(Atoms)
    /\ \A d \in 1 .. Nesting :
        Levels[d] \subseteq Seq(Atoms \cup [kind : {"group"}, inner : Levels[d - 1]])

socketVars == <<main, client, root, mode, backlog, channel, made, server, served, attempt>>
listenerVars == <<at, accepted, fd_allocator, live_fds, new_fd, listener_fd, leaked>>
timedVars == <<waiter, setter, owner, done, elapsed, inner, left, pause, timed_out, met>>
readVars == <<reader, killer, signal, write_end, interrupted, result>>
inheritVars == <<cloner, observer, observed, inheritable, view, child_spawned>>
fdVars == <<task, step, table, inherited, saved, orig, observed_in, leaks, rounds, counted>>
ownerVars == <<ledger, phase, opens, closes, owned, calls>>
rssVars == <<probe, n, i, last_print, tags, lines, line, status>>
sealVars == <<patch, sealing, seqNumMu, seqNum, nonce, sealed, handed>>
yubikeyVars == <<login, ctr, flock, stored, accepted_ctrs, spoiled>>
renumberVars == <<guest, used, free, resources, opened, undropped>>
factoryVars == <<caller, cache, loaded, answer, set_binary>>

vars == <<program, input, socketVars, listenerVars, timedVars, readVars, inheritVars,
          fdVars, ownerVars, rssVars, sealVars, yubikeyVars, renumberVars, factoryVars>>

-----------------------------------------------------------------------------
\* The programs that run, and those that compute.
Running == {"unix_socket", "listener", "timed_wait", "read", "inherit", "fds", "owners", "rss",
            "seal", "yubikey", "renumber", "factory"}

Pure == {"path", "time", "body", "tree", "order", "macro", "name_length", "reparse", "entry",
         "transfer", "name", "reply", "unicode", "scratch", "handles", "stack", "digits",
         "advance", "lanes", "power", "negate", "widen", "layout", "blocks", "simd"}

\* What each may be given: words that are signed are negative in one half.
Given(p) ==
    CASE p = "path" -> [0 .. Size -> {Path!End} \cup Nat]
      [] p = "time" -> 1900 .. 9999
      [] p = "body" ->
            Seq([name : {"Content-Length", "Transfer-Encoding", "Host"}, value : {Body!Bad} \cup Nat]) \X Nat
      [] p = "tree" -> Seq([name : FileNames, is_dir : BOOLEAN])
      [] p = "order" -> Seq(STRING)
      [] p = "macro" -> TokenStreams
      [] p = "reparse" -> [off : Nat, len : Nat, returned : Nat, data : Nat]
      [] p = "entry" -> [buffer : Nat, next : Nat, name : Nat]
      [] p = "name" -> Seq(Nat) \X Seq(Nat)
      [] p = "reply" -> [valid : Nat, raw : [0 .. 21 -> 0 .. 255]]
      [] p \in {"name_length", "unicode"} -> Nat
      [] p \in {"transfer", "scratch", "layout"} -> Nat \X Nat \X Nat
      [] p = "handles" -> {told \in Nat \X Nat : told[2] <= told[1]}
      [] p = "stack" -> 0 .. Machine - 1
      [] p = "digits" -> Seq(0 .. 9)
      [] p = "advance" -> (-Arith!Half .. Arith!Half - 1) \X Nat
      [] p = "lanes" -> Nat \X (Nat \ {0})
      [] p = "power" -> Int
      [] p = "negate" -> (-Arith!Half .. Arith!Half - 1) \X (Nat \ {0}) \X BOOLEAN
      [] p = "widen" -> (-Arith8!Half .. Arith8!Half - 1) \X (-Arith8!Half .. Arith8!Half - 1)
      [] p = "blocks" -> Nat \X Nat \X Seq(Nat)
      [] p = "simd" ->
            [fp : 0 .. 15, asimd : 0 .. 15, aes : 0 .. 15, sha1 : 0 .. 15, sha2 : 0 .. 15,
             rdm : 0 .. 15, dotprod : 0 .. 15, sve : 0 .. 15]

ASSUME InputsAssumption == \A p \in Pure : Inputs[p] \subseteq Given(p)

Init ==
    /\ \/ program \in Running /\ input = 0
       \/ program \in Pure /\ input \in Inputs[program]
    /\ Socket!Init /\ Listener!Init /\ TimedWait!Init /\ Read!Init /\ Inherit!Init
    /\ Fds!Init /\ Owners!Init /\ Rss!Init
    /\ Seal!Init /\ Yubikey!Init /\ Renumber!Init /\ Factory!Init

Next ==
    /\ program \in Running
    /\ UNCHANGED <<program, input>>
    /\ IF program = "unix_socket" THEN Socket!Next ELSE UNCHANGED socketVars
    /\ IF program = "listener" THEN Listener!Next ELSE UNCHANGED listenerVars
    /\ IF program = "timed_wait" THEN TimedWait!Next ELSE UNCHANGED timedVars
    /\ IF program = "read" THEN Read!Next ELSE UNCHANGED readVars
    /\ IF program = "inherit" THEN Inherit!Next ELSE UNCHANGED inheritVars
    /\ IF program = "fds" THEN Fds!Next ELSE UNCHANGED fdVars
    /\ IF program = "owners" THEN Owners!Next ELSE UNCHANGED ownerVars
    /\ IF program = "rss" THEN Rss!Next ELSE UNCHANGED rssVars
    /\ IF program = "seal" THEN Seal!Next ELSE UNCHANGED sealVars
    /\ IF program = "yubikey" THEN Yubikey!Next ELSE UNCHANGED yubikeyVars
    /\ IF program = "renumber" THEN Renumber!Next ELSE UNCHANGED renumberVars
    /\ IF program = "factory" THEN Factory!Next ELSE UNCHANGED factoryVars

\* The scheduler runs every thread, and time passes.
MainThread ==
    /\ Next
    /\ \/ program = "unix_socket" /\ Socket!MainStep
       \/ program = "timed_wait" /\ TimedWait!SetterStep
       \/ program = "read" /\ Read!MainStep
       \/ program = "inherit" /\ Inherit!MainStep

OtherThread ==
    /\ Next
    /\ \/ program = "unix_socket" /\ Socket!ClientStep
       \/ program = "timed_wait" /\ TimedWait!WaiterStep
       \/ program = "read" /\ Read!OtherStep
       \/ program = "inherit" /\ Inherit!OtherStep

Clock == Next /\ program = "timed_wait" /\ TimedWait!Tick

Spec == Init /\ [][Next]_vars /\ WF_vars(MainThread) /\ WF_vars(OtherThread) /\ WF_vars(Clock)

-----------------------------------------------------------------------------
\* The inputs and streams of suite.cfg.
SmallInputs == [p \in Pure |->
    CASE p = "path" -> Path!Memories
      [] p = "time" -> 1900 .. 2104
      [] p = "body" ->
            SeqOf([name : {"Content-Length", "Transfer-Encoding", "Host"}, value : {Body!Bad, 0, 2}], 3)
            \X {0, 2, 3}
      [] p = "tree" -> SeqOf([name : {".", "..", "a"}, is_dir : BOOLEAN], 3)
      [] p = "order" -> SeqOf({Order!None, "x", "y"}, 4)
      [] p = "macro" -> TokenStreams
      [] p = "name_length" -> 0 .. 40
      [] p = "reparse" ->
            [off : 0 .. 18, len : 0 .. 3, returned : {3, 4, 8, 16, 17, 20}, data : {1, 2, 4, 8, 12, 16}]
      [] p = "entry" -> [buffer : {3, 4, 8, 10}, next : {0, 3, 4, 6, 8, 12}, name : 0 .. 9]
      [] p = "transfer" -> (0 .. 6) \X {0, 1} \X (0 .. 7)
      [] p = "name" -> SeqOf({0, 1}, 3) \X SeqOf({0, 1}, 3)
      [] p = "reply" ->
            [valid : 0 .. 23,
             raw : {[k \in 0 .. 21 |-> IF k \in S THEN 4 ELSE 0] : S \in SUBSET {0, 3, 4, 7, 20, 21}}]
      [] p = "unicode" -> 0 .. 24
      [] p = "scratch" -> (0 .. 12) \X {1, 3, 5} \X (0 .. 12)
      [] p = "handles" -> {told \in (0 .. 5) \X (0 .. 5) : told[2] <= told[1]}
      [] p = "stack" -> 0 .. Machine - 1
      [] p = "digits" -> SeqOf({0, 1, 3, 6, 7, 9}, 4)
      [] p = "advance" -> (-32 .. 31) \X (0 .. 20)
      [] p = "lanes" -> (0 .. 40) \X {2, 4, 8, 16}
      [] p = "power" -> (-1200 .. -1000) \cup (1000 .. 1100)
      [] p = "negate" -> (-32 .. 31) \X {8, 16, 32, 64} \X BOOLEAN
      [] p = "widen" -> (-4 .. 3) \X (-4 .. 3)
      [] p = "layout" -> (0 .. 6) \X {1, 2, 4, 8} \X (0 .. 9)
      [] p = "blocks" -> {1, 2, 4, 8} \X {1, 2, 4, 8} \X SeqOf({0, 1, 2, 4, 8}, 3)
      [] p = "simd" ->
            [fp : {0, 1, 15}, asimd : {0, 1, 15}, aes : {1, 2}, sha1 : {0, 1}, sha2 : {0, 1},
             rdm : {0, 1}, dotprod : {0, 1}, sve : {0, 1}]]

SmallLevels ==
    LET groups == {[kind |-> "group", inner |-> s] : s \in SeqOf(Atoms, 3)}
    IN  [d \in 0 .. 1 |-> IF d = 0 THEN SeqOf(Atoms, 4) ELSE SeqOf(Atoms \cup groups, 2)]

-----------------------------------------------------------------------------
\* What 001 of pushpin prints is so: "RESULT: vulnerable" of a connection made
\* under the first mode and served under the second, by a process that modes hold
\* up; "race did not reproduce" to root only, for any other user waits in accept().
SocketVerdicts == Socket!SocketVerdicts

\* wait_timeout_while of 067 answers what is so under the mutex, though it looks
\* at the deadline and the predicate at different times; and the assertions of its
\* main() hold whenever the waiter is in its loop when main() takes the mutex.
WaitVerdicts == TimedWait!WaitVerdicts

\* 041 leaks a listener for every accept in every interleaving, and never publishes
\* a descriptor twice; 123 never sees the end of its pipe; 066 finds its socket
\* inheritable, as it is then, and it is not any more when its thread is joined.
ThreadVerdicts ==
    /\ Listener!LeakIsExact(Accepts * Cardinality(Threads)) /\ Listener!HandedOutOnce
    /\ Read!EofNeverSeen
    /\ Inherit!ViewInsideWindow

\* The reproducers with threads end: 001 unless its client first connects after the
\* chmod, 067 however often it is woken for nothing, 123 unless its signal is
\* handled while no thread is in read(), and 066 through both of its spins.
ThreadsEnd ==
    /\ program = "unix_socket" => Socket!EndsUnlessMissed
    /\ program = "timed_wait" => TimedWait!WaiterReturns
    /\ program = "read" => Read!EndsUnlessMissed
    /\ program = "inherit" => Inherit!BothEnd

\* 025 has its stdin back at every verdict, which is "triggered"; 026 closes what it
\* leaked, if the table had room; 122 finds the leak exactly if two descriptors of
\* its scan were free; 010 and 030 to 032 lose what is discarded and no more.
DescriptorsKept ==
    /\ Fds!StdinRestored /\ Fds!SpawnVerdict /\ Fds!LeaksClosed /\ Fds!LeakSeen
    /\ Owners!LostExactly

\* The checks that 008, 009, 040 and 042 stand for accept nothing that is outside
\* what was given, and the reproducers of lengths trigger on exactly the inputs on
\* which what is said and what there is differ.
LengthsSound ==
    CASE program = "name_length" -> Buffers!NameLengthExact(input)
      [] program = "reparse" -> Buffers!ReparseInside(input)
      [] program = "entry" -> Buffers!EntryInside(input)
      [] program = "transfer" -> Buffers!TransfersExact(input[1], input[2], input[3])
      [] program = "name" -> Buffers!NamesCollide(input[1], input[2])
      [] program = "reply" -> Buffers!PeerFabricated(input)
      [] program = "unicode" -> Buffers!UnicodeWraps(input)
      [] program = "scratch" -> Buffers!ScratchShort(input[1], input[2], input[3])
      [] program = "handles" -> Buffers!HandlesWritten(input)
      [] OTHER -> TRUE

\* At the ends of machine words: the results of 043 to 046, 090, 091, 099, 105 and
\* 106 are exact on just the inputs stated, and the dates of 143 and 144 are the
\* Gregorian calendar's, with days that do not exist those of the next month.
\* What 045 and 182 say and do not do is ExponentPanics and WideningDiffers.
ArithmeticExact ==
    CASE program = "stack" -> Arith!StackMapped(input)
      [] program = "digits" -> Arith!ExponentExact(input)
      [] program = "advance" -> Arith!AdvanceExact(input[1], input[2])
      [] program = "lanes" -> Arith!LanesExact(input[1], input[2])
      [] program = "power" -> Arith!CachedIndex(input)
      [] program = "negate" -> Arith!NegatesExact(input[1], input[2], input[3])
      [] program = "time" -> Time!DaysFollow(input) /\ Time!ClockFollows(input)
      [] OTHER -> TRUE

\* Over any calls of realloc, neither fix of 061 and 102 hands a block to the wrong
\* allocator, that of 102 keeps it where alloc would put it, and the code before
\* them misuses a block exactly if a call comes on which both programs trigger.
AllocatorsMatch ==
    CASE program = "layout" -> Alloc!FamiliesAgree(input[1], input[2], input[3])
      [] program = "blocks" -> Alloc!BlocksKept(input[1], input[2], input[3])
      [] OTHER -> TRUE

\* The loops over what others give: a device path ends at the first node shorter
\* than its header (005); a fixed traversal does not leave its tree (020); the last
\* Content-Length counts (012); any run of "$" collects (065); a set has one Some
\* (162); extensions come without SIMD in two ways (063); progress lines are right
\* to one write (lol-html).
LoopsExact ==
    /\ Rss!CountsHonest
    /\ CASE program = "path" -> Path!PatchedYields(input) /\ Path!BuggyStalls(input)
         [] program = "tree" -> Tree!FixedLeavesTree(input) /\ Tree!DotsExhaust(input)
         [] program = "body" -> Body!LastWins(input[1], input[2])
         [] program = "macro" -> Macro!AnyRunCollects(input)
         [] program = "order" -> Order!FirstSomeKept(input)
         [] program = "simd" -> Simd!ExtensionsGated(input)
         [] OTHER -> TRUE

\* Seal of HPKE never uses a nonce twice: with 008 for any interleaving of as many
\* calls as there are numbers, with 009 for any calls of one goroutine.
NoncesDistinct == Seal!NoncesDistinct

\* login_yubikey accepts a counter once, and above all before it, in any
\* interleaving of logins; unless a process that had emptied the file could not write.
CounterKept == Yubikey!CounterKept

\* Opens, closes and renumberings in any order leave every resource with exactly
\* one descriptor, and every descriptor in use or free.
ResourcesOwned == Renumber!ResourcesOwned

\* Callers of get_executable share one package, though each may have loaded one
\* while the cache was unlocked.
BinaryShared == Factory!BinaryShared

-----------------------------------------------------------------------------
\* What 045 says: every exponent above the largest word panics under overflow checks.
ExponentPanics == program = "digits" => Arith!ExponentPanics(input)

\* What 182 asserts: its two widenings of -1, -1, 0 and 0 differ.
WideningDiffers == program = "widen" => Arith8!WideningDiffers(input[1], input[2])

\* What 011 says of get_executable: it caches a wasm module that it has loaded.
WasmCached == Factory!WasmCached
=============================================================================
