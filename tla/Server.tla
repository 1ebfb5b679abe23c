------------------------------- MODULE Server -------------------------------
(***************************************************************************)
(* The server at work: worker threads that take connections from one       *)
(* listening socket (start_web_server_multi and on_request of              *)
(* webserver_libevent.cpp), the downloads their handlers wait for          *)
(* (curlGet), the main thread with its loop of cron ticks (main.cpp,       *)
(* cron.cpp), and SIGTERM.                                                 *)
(*                                                                         *)
(* A handler, or a script run by cron, is a few downloads in a row, each   *)
(* from elsewhere or from this server itself.  A download from the server  *)
(* is a request of its own, which carries the SubConverter-Request header; *)
(* it is named by the thread that waits for it.  The socket is a queue of  *)
(* connections; the kernel and libevent are modelled from how the code     *)
(* uses them.                                                              *)
(***************************************************************************)
EXTENDS Naturals, Sequences, FiniteSets, SequencesExt

CONSTANTS
  Workers,        \* max_concurrent_threads
  Clients,        \* each sends one request at a time
  Main,           \* the main thread
  MaxPending,     \* max_pending_connections, the backlog of the socket
  MaxFetches,     \* bound: downloads of one handler or script
  ScriptTimeout,  \* do the tasks have a time-out (Timeout > 0)?
  Signals         \* is the server ever told to stop?

ASSUME ServerAssumption ==
  /\ Main \notin Workers /\ Clients \cap (Workers \cup {Main}) = {}
  /\ MaxPending \in Nat /\ MaxFetches \in Nat
  /\ {ScriptTimeout, Signals} \subseteq BOOLEAN

Threads  == Workers \cup {Main}
Requests == Clients \cup Threads      \* a thread is its download from the server
Nobody == "nobody"

VARIABLES
  backlog,      \* connections not yet accepted, oldest first
  request,      \* what has become of each request
  serves,       \* the request a worker handles
  pc,           \* what a thread does
  left,         \* downloads its handler or script may still start
  exitFlag      \* SERVER_EXIT_FLAG

vars == <<backlog, request, serves, pc, left, exitFlag>>

\* Only downloads carry the header.
Flagged(r) == r \in Threads

Init ==
  /\ backlog = <<>>
  /\ request = [r \in Requests |-> "none"]
  /\ serves = [w \in Workers |-> Nobody]
  /\ pc = [t \in Threads |-> IF t = Main THEN "loop" ELSE "idle"]
  /\ left = [t \in Threads |-> 0]
  /\ exitFlag = FALSE

Running == pc[Main] # "exited"

\* A connection arrives; one too many for the backlog is refused.
Connect(r, refused) ==
  IF Len(backlog) < MaxPending
  THEN /\ backlog' = Append(backlog, r)
       /\ request' = [request EXCEPT ![r] = "pending"]
  ELSE /\ request' = [request EXCEPT ![r] = refused]
       /\ UNCHANGED backlog

Send(c) ==
  /\ Running /\ c \in Clients
  /\ request[c] \in {"none", "answered", "refused"}
  /\ Connect(c, "refused")
  /\ UNCHANGED <<serves, pc, left, exitFlag>>

-----------------------------------------------------------------------------
(* A worker: on_request(), one request after the other *)

Accept(w) ==
  /\ Running /\ pc[w] = "idle" /\ backlog # <<>>
  /\ backlog' = Tail(backlog)
  /\ request' = [request EXCEPT ![Head(backlog)] = "accepted"]
  /\ serves' = [serves EXCEPT ![w] = Head(backlog)]
  /\ pc' = [pc EXCEPT ![w] = "accepted"]
  /\ UNCHANGED <<left, exitFlag>>

Finish(w) ==
  /\ request' = [request EXCEPT ![serves[w]] = "answered"]
  /\ serves' = [serves EXCEPT ![w] = Nobody]
  /\ pc' = [pc EXCEPT ![w] = "idle"]

\* "Loop request detected!", or a wrong password
Reject(w) ==
  /\ Running /\ pc[w] = "accepted"
  /\ Finish(w)
  /\ UNCHANGED <<backlog, left, exitFlag>>

\* Mutant: a request of the server to itself is handled like any other.
HandleLoops(w) ==
  /\ Running /\ pc[w] = "accepted"
  /\ pc' = [pc EXCEPT ![w] = "handler"]
  /\ left' = [left EXCEPT ![w] = MaxFetches]
  /\ UNCHANGED <<backlog, request, serves, exitFlag>>

Handle(w) ==
  /\ Running /\ pc[w] = "accepted" /\ ~Flagged(serves[w])
  /\ pc' = [pc EXCEPT ![w] = "handler"]
  /\ left' = [left EXCEPT ![w] = MaxFetches]
  /\ UNCHANGED <<backlog, request, serves, exitFlag>>

\* What a handler throws is answered with 500, so every handler answers.
Answer(w) ==
  /\ Running /\ pc[w] = "handler"
  /\ Finish(w)
  /\ UNCHANGED <<backlog, left, exitFlag>>

-----------------------------------------------------------------------------
(* curlGet(): a thread waits for a download, for 15 seconds at most. *)

StartFetch(t) ==
  /\ Running /\ pc[t] \in {"handler", "script"} /\ left[t] > 0
  /\ pc' = [pc EXCEPT ![t] = "fetch"]
  /\ left' = [left EXCEPT ![t] = @ - 1]
  /\ UNCHANGED <<serves, exitFlag>>

FetchElsewhere(t) ==
  /\ StartFetch(t)
  /\ UNCHANGED <<backlog, request>>

\* A refused connection is an error curl reports at once.
FetchSelf(t) ==
  /\ StartFetch(t)
  /\ request[t] = "none"
  /\ Connect(t, "answered")

Resume(t) == pc' = [pc EXCEPT ![t] = IF t = Main THEN "script" ELSE "handler"]

\* Mutant: curl waits as long as it takes (no CURLOPT_TIMEOUT).
FetchEndsUntimed(t) ==
  /\ Running /\ pc[t] = "fetch"
  /\ request[t] \in {"none", "answered"}
  /\ Resume(t)
  /\ request' = [request EXCEPT ![t] = "none"]
  /\ UNCHANGED <<backlog, serves, left, exitFlag>>

\* The data have come, or the time is up.  A connection of curl that nobody has
\* accepted goes with it; one that has been accepted is answered at once.
FetchEnds(t) ==
  /\ Running /\ pc[t] = "fetch"
  /\ request[t] # "accepted"
  /\ Resume(t)
  /\ request' = [request EXCEPT ![t] = "none"]
  /\ backlog' = SelectSeq(backlog, LAMBDA r : r # t)
  /\ UNCHANGED <<serves, left, exitFlag>>

-----------------------------------------------------------------------------
(* The main thread: start_web_server_multi() and cron_tick_caller() *)

Signal ==
  /\ Signals /\ Running /\ ~exitFlag
  /\ exitFlag' = TRUE
  /\ UNCHANGED <<backlog, request, serves, pc, left>>

Goto(to) == pc' = [pc EXCEPT ![Main] = to]

\* A tick finds nothing due, or runs a script in this thread.
Tick ==
  /\ pc[Main] = "loop" /\ ~exitFlag
  /\ \/ Goto("sleep") /\ UNCHANGED left
     \/ Goto("script") /\ left' = [left EXCEPT ![Main] = MaxFetches]
  /\ UNCHANGED <<backlog, request, serves, exitFlag>>

Sleep ==
  /\ pc[Main] = "sleep"
  /\ Goto("loop")
  /\ UNCHANGED <<backlog, request, serves, left, exitFlag>>

\* The script returns or throws.
ScriptEnds ==
  /\ pc[Main] = "script"
  /\ Goto("sleep")
  /\ UNCHANGED <<backlog, request, serves, left, exitFlag>>

\* Mutant: every time-out is taken for none.
InterruptNever ==
  /\ ~ScriptTimeout
  /\ ScriptEnds

\* timeout_checker() interrupts a script that has had its time.
Interrupt ==
  /\ ScriptTimeout
  /\ ScriptEnds

\* The loop ends, main() returns, and the process with all its threads.
Exit ==
  /\ pc[Main] = "loop" /\ exitFlag
  /\ Goto("exited")
  /\ request' = [r \in Requests |-> CASE request[r] = "pending"  -> "refused"
                                      [] request[r] = "accepted" -> "lost"
                                      [] OTHER                   -> request[r]]
  /\ UNCHANGED <<backlog, serves, left, exitFlag>>

Next ==
  \/ \E c \in Clients : Send(c)
  \/ \E w \in Workers : Accept(w) \/ Reject(w) \/ Handle(w) \/ Answer(w)
  \/ \E t \in Threads : FetchElsewhere(t) \/ FetchSelf(t) \/ FetchEnds(t)
  \/ Signal \/ Tick \/ Sleep \/ ScriptEnds \/ Interrupt \/ Exit

\* Threads are scheduled; a handler that downloads nothing more answers; a
\* download ends by its time-out.  A script need not end, nor a client come.
Fairness ==
  /\ \A w \in Workers : /\ WF_vars(Accept(w))
                        /\ WF_vars(Reject(w) \/ Handle(w))
                        /\ WF_vars(Answer(w))
                        /\ WF_vars(FetchEnds(w))
  /\ WF_vars(FetchEnds(Main))
  /\ WF_vars(Tick) /\ WF_vars(Sleep) /\ WF_vars(Interrupt) /\ WF_vars(Exit)

Spec == Init /\ [][Next]_vars /\ Fairness

-----------------------------------------------------------------------------
\* A download from the server itself never makes another thread wait for a
\* download in turn: of the threads that wait, none waits for a waiting one.
NoChainOfWaits ==
  \A w \in Workers : pc[w] = "fetch" => ~Flagged(serves[w])

\* Every client that connects gets an answer, or the server is gone, even when
\* all workers wait for requests to the server itself.
EveryRequestIsAnswered ==
  \A c \in Clients : request[c] = "pending" ~> request[c] \in {"answered", "refused", "lost"}

\* Told to stop, the server does, whatever it serves and whatever cron runs.
StopCompletes == exitFlag ~> pc[Main] = "exited"
=============================================================================
