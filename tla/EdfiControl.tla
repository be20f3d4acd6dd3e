----------------------------- MODULE EdfiControl ----------------------------
(***************************************************************************)
(* Controlling fault injection on UNIX: the server thread of the           *)
(* instrumented program, its main thread that waits for the requests       *)
(* expected at start-up, and edfictl clients.  A request is a header, then  *)
(* a context and parameters if it has them, each sent on its own.          *)
(***************************************************************************)
EXTENDS Naturals, FiniteSets, Sequences

CONSTANTS
  Clients, Requests,       \* a client sends one request
  no_svr_thread, num_requests_on_start,
  Crashes,                 \* the program may crash (it is injected with faults)
  Quits                    \* clients may be killed

Request == [cmd : {"stop", "start", "test", "stat", "update"}, context : BOOLEAN,
            params : BOOLEAN]

VARIABLES
  main,                    \* the program's main thread
  srv,                     \* the server thread
  completed, svr_thread_done,
  backlog,                 \* clients that connected and were not accepted yet
  cur, data,               \* the client being served and what was received
  client, request,
  reply,                   \* of the server: "none", "sent", or sent and "closed"
  wire,                    \* parts sent to the server and not received yet
  executed                 \* history: what the server processed

vars == <<main, srv, completed, svr_thread_done, backlog, cur, data, client, request, reply, wire,
          executed>>
mainVars == <<main>>
srvVars == <<srv, completed, svr_thread_done, backlog, cur, data>>
clientVars == <<client, request, reply, wire>>
NoData == [cmd |-> "stop", context |-> FALSE, params |-> FALSE]     \* memset: 0 is STOP
NoClient == "none"

Init ==
  /\ main = IF no_svr_thread /\ num_requests_on_start = 0 THEN "main" ELSE "wait"
  /\ srv = IF main = "main" THEN "never" ELSE "start"
  /\ completed = 0 /\ svr_thread_done = FALSE
  /\ backlog = <<>> /\ cur = NoClient /\ data = NoData
  /\ client = [c \in Clients |-> "idle"] /\ request \in [Clients -> Requests]
  /\ wire = [c \in Clients |-> <<>>] /\ reply = [c \in Clients |-> "none"]
  /\ executed = {}

Alive == main # "dead"
Gone(c) == client[c] \in {"ok", "error", "killed"}

-----------------------------------------------------------------------------
(* The main thread: edfi_ctl_init.                                         *)

StartsAtOnce == main = "join" /\ main' = "main" /\ UNCHANGED <<srvVars, clientVars, executed>>

WaitForRequests ==
  /\ main = "wait" /\ completed >= num_requests_on_start
  /\ main' = IF no_svr_thread THEN "join" ELSE "main"
  /\ UNCHANGED <<srvVars, clientVars, executed>>

WaitForThread ==
  /\ main = "join" /\ svr_thread_done
  /\ main' = "main"
  /\ UNCHANGED <<srvVars, clientVars, executed>>

\* exit(1) in the thread, or a crash anywhere, ends both.
Dies == main' = "dead" /\ srv' = "dead"

Crash ==
  /\ Crashes /\ Alive /\ Dies
  /\ UNCHANGED <<completed, svr_thread_done, backlog, cur, data, clientVars, executed>>

-----------------------------------------------------------------------------
(* The server thread: __edfi_ctl_srv.                                      *)

Step(from, to) == srv = from /\ srv' = to

Listen ==
  /\ Step("start", "accept")
  /\ UNCHANGED <<mainVars, completed, svr_thread_done, backlog, cur, data, clientVars, executed>>

AcceptKeepsData ==
  /\ Step("accept", "header") /\ backlog # <<>>
  /\ cur' = Head(backlog) /\ backlog' = Tail(backlog) /\ data' = [data EXCEPT !.cmd = "none"]
  /\ UNCHANGED <<mainVars, completed, svr_thread_done, clientVars, executed>>

Accept ==
  /\ Step("accept", "header") /\ backlog # <<>>
  /\ cur' = Head(backlog) /\ backlog' = Tail(backlog) /\ data' = NoData
  /\ UNCHANGED <<mainVars, completed, svr_thread_done, clientVars, executed>>

\* recv returns 0, and leaves the zeroed header, when the client is gone.
ReplyAtOnce ==
  /\ srv = "header" /\ (wire[cur] # <<>> \/ Gone(cur))
  /\ data' = IF wire[cur] = <<>> THEN NoData ELSE request[cur]
  /\ wire' = IF wire[cur] = <<>> THEN wire ELSE [wire EXCEPT ![cur] = Tail(@)]
  /\ srv' = IF data'.context \/ data'.params THEN "data" ELSE "send"
  /\ UNCHANGED <<mainVars, completed, svr_thread_done, backlog, cur, client, request, reply, executed>>

RecvHeader ==
  /\ srv = "header" /\ (wire[cur] # <<>> \/ Gone(cur))
  /\ data' = IF wire[cur] = <<>> THEN NoData ELSE request[cur]
  /\ wire' = IF wire[cur] = <<>> THEN wire ELSE [wire EXCEPT ![cur] = Tail(@)]
  /\ srv' = IF data'.context \/ data'.params THEN "data" ELSE "process"
  /\ UNCHANGED <<mainVars, completed, svr_thread_done, backlog, cur, client, request, reply, executed>>

\* One recv for context and parameters: it returns what has arrived, and
\* what did not stays zero.
RecvData ==
  /\ Step("data", "process") /\ (wire[cur] # <<>> \/ Gone(cur))
  /\ \E n \in 0 .. Len(wire[cur]) :
       /\ n > 0 \/ wire[cur] = <<>>
       /\ data' = [data EXCEPT !.params = \E i \in 1 .. n : wire[cur][i] = "params"]
       /\ wire' = [wire EXCEPT ![cur] = SubSeq(@, n + 1, Len(@))]
  /\ UNCHANGED <<mainVars, completed, svr_thread_done, backlog, cur, client, request, reply, executed>>

Process ==
  /\ Step("process", "send")
  /\ executed' = executed \cup {<<cur, data>>}
  /\ UNCHANGED <<mainVars, completed, svr_thread_done, backlog, cur, data, clientVars>>

\* send to a client that is gone fails, and exit(1) ends the program.
SendReply ==
  /\ srv = "send"
  /\ \/ Gone(cur) /\ Dies /\ UNCHANGED reply
     \/ ~ Gone(cur) /\ srv' = "close" /\ reply' = [reply EXCEPT ![cur] = "sent"] /\ UNCHANGED main
  /\ UNCHANGED <<completed, svr_thread_done, backlog, cur, data, client, request, wire, executed>>

Completes ==
  /\ srv = "close" /\ completed' = completed + 1
  /\ IF no_svr_thread /\ completed + 1 >= num_requests_on_start
     THEN srv' = "end" ELSE srv' = "accept"
  /\ reply' = [reply EXCEPT ![cur] = "closed"]
  /\ UNCHANGED <<mainVars, svr_thread_done, backlog, cur, data, client, request, wire, executed>>

ThreadDone ==
  /\ Step("end", "done") /\ svr_thread_done' = TRUE
  /\ UNCHANGED <<mainVars, completed, backlog, cur, data, clientVars, executed>>

-----------------------------------------------------------------------------
(* A client: edfi_ctl_client_init and edfi_ctl_client_send.                *)

Listening == srv \notin {"never", "start", "done", "dead"}
ClientTo(c, from, to) == client[c] = from /\ client' = [client EXCEPT ![c] = to]
Sends(c, part) == wire' = [wire EXCEPT ![c] = Append(@, part)]

Connect(c) ==
  /\ \/ Listening /\ ClientTo(c, "idle", "header") /\ backlog' = Append(backlog, c)
     \/ ~ Listening /\ ClientTo(c, "idle", "error") /\ UNCHANGED backlog
  /\ UNCHANGED <<mainVars, srv, completed, svr_thread_done, cur, data, request, reply, wire,
                 executed>>

\* The parts in their order; parameters without a context are refused, and
\* sending to a server that closed or died fails.
Send(c) ==
  LET r == request[c]
      refused == r.params /\ ~ r.context
      open == Listening /\ reply[c] # "closed"
  IN /\ client[c] \in {"header", "context", "params"}
     /\ \/ /\ client[c] = "header" /\ refused
           /\ ClientTo(c, "header", "error") /\ UNCHANGED wire
        \/ /\ ~ open /\ ~ (client[c] = "header" /\ refused)
           /\ client' = [client EXCEPT ![c] = "error"] /\ UNCHANGED wire
        \/ /\ client[c] = "header" /\ ~ refused /\ open
           /\ ClientTo(c, "header", IF r.context THEN "context" ELSE "recv") /\ Sends(c, "header")
        \/ /\ client[c] = "context" /\ open
           /\ ClientTo(c, "context", IF r.params THEN "params" ELSE "recv") /\ Sends(c, "context")
        \/ /\ client[c] = "params" /\ open
           /\ ClientTo(c, "params", "recv") /\ Sends(c, "params")
  /\ UNCHANGED <<mainVars, srvVars, request, reply, executed>>

\* recv: the reply, which was processed; a reset when the server left unread
\* data or never accepted; otherwise 0, and data, with status 0, unchanged.
Recv(c) ==
  /\ \/ reply[c] # "none" /\ ClientTo(c, "recv", "ok")
     \/ /\ reply[c] = "none" /\ ~ Listening /\ (wire[c] # <<>> \/ cur # c)
        /\ ClientTo(c, "recv", "error")
     \/ /\ reply[c] = "none" /\ ~ Listening /\ wire[c] = <<>> /\ cur = c
        /\ ClientTo(c, "recv", "ok")
  /\ UNCHANGED <<mainVars, srvVars, request, reply, wire, executed>>

Quit(c) ==
  /\ Quits /\ client[c] \in {"header", "context", "params", "recv"}
  /\ client' = [client EXCEPT ![c] = "killed"]
  /\ UNCHANGED <<mainVars, srvVars, request, reply, wire, executed>>

Serve ==
  Listen \/ Accept \/ RecvHeader \/ RecvData \/ Process \/ SendReply \/ Completes \/ ThreadDone

Next ==
  \/ WaitForRequests \/ WaitForThread \/ Crash \/ Serve
  \/ \E c \in Clients : Connect(c) \/ Send(c) \/ Recv(c) \/ Quit(c)

Spec == Init /\ [][Next]_vars

-----------------------------------------------------------------------------
(* Properties.                                                             *)

\* Every variable keeps its type.
TypeOK ==
  /\ main \in {"wait", "join", "main", "dead"} /\ completed \in Nat
  /\ data \in Request /\ cur \in Clients \cup {NoClient}
  /\ wire \in [Clients -> Seq({"header", "context", "params"})]
  /\ client \in [Clients -> {"idle", "header", "context", "params", "recv", "ok",
                             "error", "killed"}]

\* The program starts only when as many requests as asked for are processed
\* and confirmed, and, without a server thread, no one is served any more.
StartsConfigured ==
  main = "main" =>
    /\ Cardinality({c \in Clients : reply[c] = "closed"}) >= num_requests_on_start
    /\ no_svr_thread => ~ Listening

\* A reply comes after its request was executed, with the client's own
\* command, whoever else is served, quits or was served before.
ReplyIsExecuted ==
  \A c \in Clients : reply[c] # "none" =>
    \E x \in executed : x[1] = c /\ x[2].cmd = request[c].cmd
=============================================================================
