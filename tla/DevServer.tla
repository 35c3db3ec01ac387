------------------------------- MODULE DevServer -------------------------------
(***************************************************************************)
(* run_dev.py: the development server.  It starts the backend in a session *)
(* of its own (projectctl, which waits for uvicorn), serves the page from  *)
(* a second thread, hands requests for /api on to the backend, and ends    *)
(* both at Ctrl+C or when the backend is gone.                             *)
(***************************************************************************)
EXTENDS Naturals, FiniteSets

CONSTANTS
    Browsers,        \* requests, each handled by a thread of its own
    MaxInterrupts    \* bound of the model: how often Ctrl+C is pressed

VARIABLES
    main,       \* what main is about to do
    interrupts, \* where main was at each Ctrl+C, the first included in the set
    page,       \* the HTTP server [bound, loop, asked]: its socket, its thread, and _shutdown_request
    group,      \* the process group [leader, server]
    missed,     \* the group leader ended by itself
    proxy       \* for each request [step, body, heads]: heads counts the status lines that were sent

devVars == <<main, interrupts, page, group, missed, proxy>>

Bodies == {"none", "sized", "chunked", "bad length"}
NoRequest == [step |-> "idle", body |-> "none", heads |-> 0]

DevInit ==
    /\ main = "spawn"
    /\ interrupts = {}
    /\ page = [bound |-> FALSE, loop |-> "none", asked |-> FALSE]
    /\ group = [leader |-> "none", server |-> "none"]
    /\ missed = FALSE
    /\ proxy = [b \in Browsers |-> NoRequest]

-----------------------------------------------------------------------------
(* The processes of the backend: external *)

\* uvicorn fails or is killed; told to stop it first ends the requests it is working on.
EndServer ==
    /\ \/ group.server = "running"
       \/ group.server = "stopping" /\ \A b \in Browsers : proxy[b].step \notin {"head", "body"}
    /\ group' = [group EXCEPT !.server = "ended"]
    /\ UNCHANGED <<main, interrupts, page, missed, proxy>>

\* projectctl ends with uvicorn, or at a signal, or is killed alone.
EndLeader ==
    /\ group.leader \in {"running", "stopping"}
    /\ group' = [group EXCEPT !.leader = "ended"]
    /\ missed' = (missed \/ (group.leader = "running" /\ group.server = "running"))
    /\ UNCHANGED <<main, interrupts, page, proxy>>

-----------------------------------------------------------------------------
(* main *)

Main(label) == main' = label

\* main returns or raises: the threads of the requests are daemons and end with it.
EndMain ==
    /\ Main("ended")
    /\ proxy' = [b \in Browsers |->
                    IF proxy[b].step \in {"idle", "done"} THEN proxy[b] ELSE [proxy[b] EXCEPT !.step = "cut"]]

\* _validate_layout, then Popen.
Spawn ==
    /\ main = "spawn"
    /\ \/ EndMain /\ UNCHANGED group
       \/ Main("bind") /\ group' = [leader |-> "running", server |-> "running"] /\ UNCHANGED proxy
    /\ UNCHANGED <<interrupts, page, missed>>

\* The port may be in use: then finally has no server to shut down.
Bind ==
    /\ main = "bind"
    /\ \/ Main("thread") /\ page' = [page EXCEPT !.bound = TRUE]
       \/ Main("stop") /\ UNCHANGED page
    /\ UNCHANGED <<interrupts, group, missed, proxy>>

StartThread ==
    /\ main = "thread"
    /\ page' = [page EXCEPT !.loop = "created"]
    /\ Main("poll")
    /\ UNCHANGED <<interrupts, group, missed, proxy>>

\* The loop ends when the leader has ended.
Poll ==
    /\ main = "poll" /\ group.leader = "ended"
    /\ Main("shutdown")
    /\ UNCHANGED <<interrupts, page, group, missed, proxy>>

\* shutdown asks and waits for the event that the end of serve_forever sets.
AskToEnd ==
    /\ main = "shutdown"
    /\ page' = [page EXCEPT !.asked = TRUE]
    /\ Main("wait for page")
    /\ UNCHANGED <<interrupts, group, missed, proxy>>

Close ==
    /\ main = "wait for page" /\ page.loop = "over"
    /\ page' = [page EXCEPT !.bound = FALSE]
    /\ Main("stop")
    /\ UNCHANGED <<interrupts, group, missed, proxy>>

\* Mutant of StopBackend: only the leader is told.
StopLeader ==
    /\ main = "stop"
    /\ IF group.leader = "ended"
       THEN EndMain /\ UNCHANGED group
       ELSE /\ group' = [group EXCEPT !.leader = "stopping"]
            /\ Main("wait for backend")
            /\ UNCHANGED proxy
    /\ UNCHANGED <<interrupts, page, missed>>

\* _stop_backend: nothing if the leader has ended, else SIGTERM to the group.
StopBackend ==
    /\ main = "stop"
    /\ IF group.leader = "ended"
       THEN EndMain /\ UNCHANGED group
       ELSE /\ group' = [leader |-> "stopping",
                         server |-> IF group.server = "running" THEN "stopping" ELSE group.server]
            /\ Main("wait for backend")
            /\ UNCHANGED proxy
    /\ UNCHANGED <<interrupts, page, missed>>

\* Within five seconds the leader has ended, whatever uvicorn does; or it has not.
WaitForBackend ==
    /\ main = "wait for backend"
    /\ \/ group.leader = "ended" /\ EndMain
       \/ group.leader # "ended" /\ Main("kill") /\ UNCHANGED proxy
    /\ UNCHANGED <<interrupts, page, group, missed>>

\* SIGKILL to the group, and two seconds for it.
Kill ==
    /\ main = "kill"
    /\ group' = [leader |-> "ended", server |-> "ended"]
    /\ EndMain
    /\ UNCHANGED <<interrupts, page, missed>>

\* Ctrl+C.  Before try and in finally it ends main at once; at "bind" the try may or may
\* not have begun.
Interrupt ==
    /\ main # "ended" /\ Cardinality(interrupts) < MaxInterrupts /\ main \notin interrupts
    /\ interrupts' = interrupts \cup {main}
    /\ CASE main = "bind" -> EndMain \/ (Main("stop") /\ UNCHANGED proxy)
         [] main \in {"thread", "poll"} -> Main("shutdown") /\ UNCHANGED proxy
         [] OTHER -> EndMain
    /\ UNCHANGED <<page, group, missed>>

-----------------------------------------------------------------------------
(* serve_forever in its thread *)

BeginLoop ==
    /\ page.loop = "created" /\ ~page.asked /\ main # "ended"
    /\ page' = [page EXCEPT !.loop = "serving"]
    /\ UNCHANGED <<main, interrupts, group, missed, proxy>>

EndLoop ==
    /\ page.loop \in {"created", "serving"} /\ page.asked /\ main # "ended"
    /\ page' = [page EXCEPT !.loop = "over"]
    /\ UNCHANGED <<main, interrupts, group, missed, proxy>>

-----------------------------------------------------------------------------
(* _proxy_api *)

Becomes(b, step, heads) ==
    /\ proxy' = [proxy EXCEPT ![b] = [@ EXCEPT !.step = step, !.heads = @ + heads]]
    /\ UNCHANGED <<main, interrupts, page, group, missed>>

AcceptCall(b) ==
    /\ page.loop = "serving" /\ proxy[b].step = "idle" /\ main # "ended"
    /\ \E body \in Bodies : proxy' = [proxy EXCEPT ![b] = [step |-> "read", body |-> body, heads |-> 0]]
    /\ UNCHANGED <<main, interrupts, page, group, missed>>

\* _request_body answers 501 or 400 itself and raises.
ReadBody(b) ==
    /\ proxy[b].step = "read"
    /\ IF proxy[b].body \in {"chunked", "bad length"} THEN Becomes(b, "done", 1) ELSE Becomes(b, "connect", 0)

\* Refused, lost or too slow before the headers: 502 or 504.
ConnectOrFail(b) ==
    /\ proxy[b].step = "connect"
    /\ IF group.server = "running" THEN Becomes(b, "head", 0) ELSE Becomes(b, "done", 1)
FailBeforeHead(b) ==
    /\ proxy[b].step = "head"
    /\ Becomes(b, "done", 1)

\* The status line and the headers of the backend; then response_started.
SendHead(b) ==
    /\ proxy[b].step = "head" /\ group.server # "ended"
    /\ Becomes(b, "body", 1)

SendBody(b) ==
    /\ proxy[b].step = "body" /\ group.server # "ended"
    /\ Becomes(b, "done", 0)

\* The backend or the browser is gone: the response is left truncated.
Truncate(b) ==
    /\ proxy[b].step = "body"
    /\ Becomes(b, "done", 0)

Handle(b) ==
    \/ ReadBody(b) \/ ConnectOrFail(b) \/ FailBeforeHead(b) \/ SendHead(b) \/ SendBody(b) \/ Truncate(b)

MainStep ==
    \/ Spawn \/ Bind \/ StartThread \/ Poll \/ AskToEnd \/ Close \/ StopBackend \/ WaitForBackend \/ Kill

\* The processes go on when they are told to stop, and projectctl does not outlive uvicorn.
DevThreads == {"main", "page", "leader", "server"} \cup Browsers
DevStep(t) ==
    \/ t = "main" /\ MainStep
    \/ t = "page" /\ (BeginLoop \/ EndLoop)
    \/ t = "leader" /\ (group.leader = "stopping" \/ group.server = "ended") /\ EndLeader
    \/ t = "server" /\ group.server = "stopping" /\ EndServer
    \/ t \in Browsers /\ Handle(t)

DevNext ==
    \/ Interrupt \/ EndServer \/ EndLeader
    \/ \E t \in DevThreads : DevStep(t)
    \/ \E b \in Browsers : AcceptCall(b)

-----------------------------------------------------------------------------
(* Properties *)

\* "Ctrl+C shuts down the frontend server and the backend process group": after one
\* Ctrl+C while main polls, after a port that is in use, and when the backend has ended,
\* main leaves no uvicorn running that has not been told to stop.  It does not notice
\* one whose parent alone was killed.
SupervisorCleansUp ==
    main = "ended" /\ interrupts \subseteq {"poll"} /\ ~missed => group.server # "running" /\ ~page.bound

DevAsks(t) ==
    \/ t = "main" /\ main = "shutdown" /\ page.loop # "none"
    \/ t = "main" /\ main = "poll" /\ group.leader = "ended"
    \/ t = "server" /\ group.server = "stopping"
    \/ t \in Browsers /\ proxy[t].step = "read"

\* Main ends, a server that was told to stop ends, and a request has one status line,
\* unless main ends before.
DevAnswered(t) ==
    /\ t = "main" => main = "ended"
    /\ t = "server" => group.server = "ended"
    /\ t \in Browsers => proxy[t].step = "cut" \/ (proxy[t].step = "done" /\ proxy[t].heads = 1)
=============================================================================
