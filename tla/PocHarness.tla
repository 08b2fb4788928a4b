----------------------------- MODULE PocHarness -----------------------------
(***************************************************************************)
(* apache-httpd/pocs/run_pocs.py: main runs the cases one after another.   *)
(* A case starts a backend (tcp_server: an accept loop in a thread and one *)
(* handler thread per connection) around an httpd process (Httpd), talks   *)
(* to httpd, and tears the two down in the opposite order, whatever fails. *)
(*                                                                         *)
(* The time a timeout takes is left out: one may expire at any step.       *)
(***************************************************************************)
EXTENDS Naturals, FiniteSets

CONSTANTS
    Cases,    \* the selected cases, run in any order
    Conns,    \* connections httpd opens to the backend of a case
    Handlers  \* the kinds of backend: Plain, UntilEof, HeaderFirst

VARIABLES
    pc,        \* where main is
    todo,      \* cases not yet begun
    case,      \* the current case
    backend,   \* the kind of its backend
    failed,    \* whether an exception is on its way out of the case
    proc,      \* each case's httpd
    killed,    \* cases whose httpd was sent SIGKILL
    reaped,    \* cases whose httpd was waited for
    serving,   \* whether the backend's accept loop runs
    handler,   \* the backend's handler threads
    verdict,   \* what main printed for each case
    failures   \* main's count

caseVars == <<case, backend>>
procVars == <<proc, killed, reaped>>
serverVars == <<serving, handler>>
outcomeVars == <<verdict, failures>>
vars == <<pc, todo, caseVars, failed, procVars, serverVars, outcomeVars>>

\* Kinds of case.
Plain == "plain"              \* no backend
UntilEof == "until_eof"       \* handlers that leave at the end of their input
HeaderFirst == "header_first" \* 116: handlers that insist on the whole header

\* The kinds of case are among those.
HandlersAssumption == Handlers \subseteq {Plain, UntilEof, HeaderFirst}

\* Main's places.
Looping == "looping"    \* between cases
Binding == "binding"    \* about to create the server
Testing == "testing"    \* about to run httpd -t
Spawning == "spawning"  \* about to Popen httpd
Waiting == "waiting"    \* in wait_port
Talking == "talking"    \* in the body of the case
Leaving == "leaving"    \* in Httpd.__exit__
Comm1 == "comm1"        \* collect's first communicate
Comm2 == "comm2"        \* the one after terminate()
Comm3 == "comm3"        \* the one after kill()
Shutdown == "shutdown"  \* srv.shutdown()
Joining == "joining"    \* srv.server_close()
Judging == "judging"    \* back in main's loop
Over == "over"          \* main returned

Alive(c) == proc[c] \in {"starting", "listening"}

TypeOK ==
    /\ pc \in {Looping, Binding, Testing, Spawning, Waiting, Talking, Leaving, Comm1, Comm2,
               Comm3, Shutdown, Joining, Judging, Over}
    /\ todo \subseteq Cases /\ case \in Cases
    /\ backend \in {Plain, UntilEof, HeaderFirst} /\ failed \in BOOLEAN
    /\ proc \in [Cases -> {"none", "starting", "listening", "dead"}]
    /\ killed \subseteq Cases /\ reaped \subseteq Cases
    /\ serving \in BOOLEAN
    /\ handler \in [Conns -> {"none", "reading", "served", "done"}]
    /\ verdict \in [Cases -> {"none", "pass", "fail"}]
    /\ failures \in Nat

Init ==
    /\ pc = Looping
    /\ todo = Cases /\ case \in Cases /\ backend = Plain /\ failed = FALSE
    /\ proc = [c \in Cases |-> "none"]
    /\ killed = {} /\ reaped = {}
    /\ serving = FALSE
    /\ handler = [h \in Conns |-> "none"]
    /\ verdict = [c \in Cases |-> "none"]
    /\ failures = 0

-----------------------------------------------------------------------------
\* for case in selected: CASES[case]()
StartCase(c, k) ==
    /\ pc = Looping
    /\ c \in todo
    /\ todo' = todo \ {c}
    /\ case' = c
    /\ backend' = k
    /\ failed' = FALSE
    /\ handler' = [h \in Conns |-> "none"]
    /\ pc' = IF k = Plain THEN Testing ELSE Binding
    /\ UNCHANGED <<procVars, serving, outcomeVars>>

\* The server is bound to a port free_port found free: it may be taken by now,
\* which leaves the case at once, with nothing to undo.
TcpServer ==
    /\ pc = Binding
    /\ \/ /\ serving' = TRUE
          /\ pc' = Testing
          /\ UNCHANGED failed
       \/ /\ failed' = TRUE
          /\ pc' = Judging
          /\ UNCHANGED serving
    /\ UNCHANGED <<todo, caseVars, procVars, handler, outcomeVars>>

\* An exception from __enter__ unwinds past Httpd, whose __exit__ is not called.
Unwound == IF backend = Plain THEN Judging ELSE Shutdown

\* httpd -t accepts or rejects the configuration.
ConfigTest ==
    /\ pc = Testing
    /\ \/ pc' = Spawning /\ UNCHANGED failed
       \/ pc' = Unwound /\ failed' = TRUE
    /\ UNCHANGED <<todo, caseVars, procVars, serverVars, outcomeVars>>

Popen ==
    /\ pc = Spawning
    /\ proc' = [proc EXCEPT ![case] = "starting"]
    /\ pc' = Waiting
    /\ UNCHANGED <<todo, caseVars, failed, killed, reaped, serverVars, outcomeVars>>

\* wait_port succeeds once something listens, httpd or whoever took its port since
\* free_port found it; or its deadline passes and __enter__ collects.
WaitPort ==
    /\ pc = Waiting
    /\ \/ pc' = Talking /\ UNCHANGED failed
       \/ pc' = Comm1 /\ failed' = TRUE
    /\ UNCHANGED <<todo, caseVars, procVars, serverVars, outcomeVars>>

\* The case's own exchange and its checks, which pass or raise.
Body ==
    /\ pc = Talking
    /\ failed' \in BOOLEAN
    /\ pc' = Leaving
    /\ UNCHANGED <<todo, caseVars, procVars, serverVars, outcomeVars>>

\* Httpd.__exit__: terminate() if httpd still runs, then collect().  A SIGTERM
\* promises nothing, so it leaves no trace.
Exit ==
    /\ pc = Leaving
    /\ pc' = Comm1
    /\ UNCHANGED <<todo, caseVars, failed, procVars, serverVars, outcomeVars>>

\* communicate(): httpd is gone and is reaped.
Collected ==
    /\ pc \in {Comm1, Comm2, Comm3}
    /\ proc[case] = "dead"
    /\ reaped' = reaped \cup {case}
    /\ pc' = Unwound
    /\ UNCHANGED <<todo, caseVars, failed, proc, killed, serverVars, outcomeVars>>

\* TimeoutExpired, the first time: terminate().
Terminate ==
    /\ pc = Comm1
    /\ pc' = Comm2
    /\ UNCHANGED <<todo, caseVars, failed, procVars, serverVars, outcomeVars>>

\* Mutant: collect gives up after terminate().
GiveUp ==
    /\ pc = Comm2
    /\ pc' = Unwound
    /\ UNCHANGED <<todo, caseVars, failed, procVars, serverVars, outcomeVars>>

\* TimeoutExpired, the second time: kill().
Kill ==
    /\ pc = Comm2
    /\ killed' = killed \cup {case}
    /\ pc' = Comm3
    /\ UNCHANGED <<todo, caseVars, failed, proc, reaped, serverVars, outcomeVars>>

\* Mutant: collect ignores a TimeoutExpired of its last communicate.
IgnoreExpired ==
    /\ pc = Comm3
    /\ pc' = Unwound
    /\ UNCHANGED <<todo, caseVars, failed, procVars, serverVars, outcomeVars>>

\* TimeoutExpired, the third time: nothing catches it before main.
Expired ==
    /\ pc = Comm3
    /\ failed' = TRUE
    /\ pc' = Unwound
    /\ UNCHANGED <<todo, caseVars, procVars, serverVars, outcomeVars>>

\* srv.shutdown() returns when the accept loop has ended.
ServerShutdown ==
    /\ pc = Shutdown
    /\ serving' = FALSE
    /\ pc' = Joining
    /\ UNCHANGED <<todo, caseVars, failed, procVars, handler, outcomeVars>>

\* Mutant: server_close() as with daemon_threads, which joins no handler.
CloseOnly ==
    /\ pc = Joining
    /\ pc' = Judging
    /\ UNCHANGED <<todo, caseVars, failed, procVars, serverVars, outcomeVars>>

\* srv.server_close() joins the handler threads.
ServerClose ==
    /\ pc = Joining
    /\ \A h \in Conns : handler[h] \in {"none", "done"}
    /\ pc' = Judging
    /\ UNCHANGED <<todo, caseVars, failed, procVars, serverVars, outcomeVars>>

\* [PASS] or [FAIL].
Judge ==
    /\ pc = Judging
    /\ verdict' = [verdict EXCEPT ![case] = IF failed THEN "fail" ELSE "pass"]
    /\ failures' = IF failed THEN failures + 1 ELSE failures
    /\ pc' = Looping
    /\ UNCHANGED <<todo, caseVars, failed, procVars, serverVars>>

\* return 1 if failures else 0
Return ==
    /\ pc = Looping
    /\ todo = {}
    /\ pc' = Over
    /\ UNCHANGED <<todo, caseVars, failed, procVars, serverVars, outcomeVars>>

Main ==
    \/ \E c \in Cases, k \in Handlers : StartCase(c, k)
    \/ TcpServer \/ ConfigTest \/ Popen \/ WaitPort \/ Body \/ Exit
    \/ Collected \/ Terminate \/ Kill \/ Expired \/ ServerShutdown \/ ServerClose
    \/ Judge \/ Return

-----------------------------------------------------------------------------
\* httpd binds its port.
Listen(c) ==
    /\ proc[c] = "starting"
    /\ proc' = [proc EXCEPT ![c] = "listening"]
    /\ UNCHANGED <<pc, todo, caseVars, failed, killed, reaped, serverVars, outcomeVars>>

\* httpd ends: it lost its port, aborts under ASan, obeys SIGTERM or is killed.
Die(c) ==
    /\ Alive(c)
    /\ proc' = [proc EXCEPT ![c] = "dead"]
    /\ UNCHANGED <<pc, todo, caseVars, failed, killed, reaped, serverVars, outcomeVars>>

\* A worker of the current httpd connects to the backend, whose accept loop
\* starts a handler; it may still do so when the case has given up on it.
Connect(h) ==
    /\ serving
    /\ proc[case] = "listening"
    /\ handler[h] = "none"
    /\ handler' = [handler EXCEPT ![h] = "reading"]
    /\ UNCHANGED <<pc, todo, caseVars, failed, procVars, serving, outcomeVars>>

\* The handler has got a request's header.
Receive(h) ==
    /\ handler[h] = "reading"
    /\ handler' = [handler EXCEPT ![h] = "served"]
    /\ UNCHANGED <<pc, todo, caseVars, failed, procVars, serving, outcomeVars>>

\* recv returns nothing more: the handler leaves, except that one of 116 that
\* has no complete header yet calls recv again, for ever.
Eof(h) ==
    /\ handler[h] \in IF backend = HeaderFirst THEN {"served"} ELSE {"reading", "served"}
    /\ handler' = [handler EXCEPT ![h] = "done"]
    /\ UNCHANGED <<pc, todo, caseVars, failed, procVars, serving, outcomeVars>>

Next ==
    \/ Main
    \/ \E c \in Cases : Listen(c) \/ Die(c)
    \/ \E h \in Conns : Connect(h) \/ Receive(h) \/ Eof(h)

\* A killed process ends; a connection reaches its end when httpd has ended.
\* A live httpd need neither listen, nor obey SIGTERM, nor close its connections.
ChildrenEnd ==
    /\ \A c \in Cases : WF_vars(c \in killed /\ Die(c))
    /\ \A h \in Conns : WF_vars(~Alive(case) /\ Eof(h))

\* And main goes on whenever it can.
Fairness == WF_vars(Main) /\ ChildrenEnd

Spec == Init /\ [][Next]_vars
FairSpec == Spec /\ Fairness

-----------------------------------------------------------------------------
\* No httpd outlives its case, to answer on a port or write in a directory that
\* a later case may use, unless it has SIGKILL pending.
LeftoverIsKilled ==
    \A c \in Cases :
        Alive(c) => \/ c \in killed
                    \/ c = case /\ pc \notin {Looping, Over}

\* [PASS] is printed only for a case that cleaned up: its httpd was reaped, and
\* main exits with 0 only if that holds of all.
PassMeansReaped ==
    /\ \A c \in Cases : verdict[c] = "pass" => c \in reaped /\ ~Alive(c)
    /\ pc = Over /\ failures = 0 => \A c \in Cases : verdict[c] = "pass"

\* A handler that main no longer waits for does not go on into the next case.
NoHandlerLeft ==
    pc \in {Looping, Over} => \A h \in Conns : handler[h] \in {"none", "done"}

\* A handler of 116 still waits for its header, and main for the handler.
HeaderAwaited == pc = Joining /\ backend = HeaderFirst /\ \E h \in Conns : handler[h] = "reading"

\* Every run comes to an end, though httpd hangs with its connections to the
\* backend open: httpd is dealt with before the threads that wait for it.  Only
\* a handler of 116 that never sees its header can hold main up.
MainEnds == <>(pc = Over \/ HeaderAwaited)

\* "SCGI backend did not receive request" (line 963): a case whose body raised,
\* that for one, gets its [FAIL].
VerdictGiven ==
    \A c \in Cases : pc = Leaving /\ case = c /\ failed ~> verdict[c] = "fail"
=============================================================================
