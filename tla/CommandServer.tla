---------------------------- MODULE CommandServer ---------------------------
(***************************************************************************)
(* The command server of the utility library: a thread that accepts one    *)
(* request at a time, a main thread that waits for the start-up requests   *)
(* and may then cancel the thread and close what it left open.             *)
(* Cancellation is deferred: it takes effect in accept, recv, send, close. *)
(***************************************************************************)
EXTENDS Integers, FiniteSets

CONSTANTS
  Conns,                   \* connections clients make, each a descriptor
  StartupRequests          \* bound on CMD_STARTUP_REQS

VARIABLES
  main, thread,            \* where the two threads are
  cancelled,
  max_threads_reached,     \* limit_threads and num_threads >= max_threads_allowed
  asked,                   \* start-up requests asked for
  num_startup_requests,
  conn_fd, fd,             \* the shared descriptor, and the thread's own
  conn,                    \* a connection: "none", "queued", "open" (in the
                           \* server), "closed", "reused" (closed, and its
                           \* number given to another file), "broken" (that
                           \* file was closed)
  acked                    \* connections whose request was acknowledged

conf == <<max_threads_reached, asked>>
vars == <<conf, main, thread, cancelled, num_startup_requests, conn_fd, fd, conn, acked>>

Init ==
  /\ main = "init" /\ thread = "none" /\ cancelled = FALSE
  /\ max_threads_reached \in BOOLEAN /\ asked \in 0 .. StartupRequests
  /\ num_startup_requests = asked
  /\ conn_fd = 0 /\ fd = 0
  /\ conn = [c \in Conns |-> "none"] /\ acked = {}

Client(c) ==
  /\ conn[c] = "none" /\ conn' = [conn EXCEPT ![c] = "queued"]
  /\ UNCHANGED <<conf, main, thread, cancelled, num_startup_requests, conn_fd, fd, acked>>

\* Closing a descriptor: the program may use its number again.
Closed(c) == IF conn[c] = "open" THEN {"closed", "reused"} ELSE
             IF conn[c] = "reused" THEN {"broken"} ELSE {conn[c]}
Close(c) == \E s \in Closed(c) : conn' = [conn EXCEPT ![c] = s]

-----------------------------------------------------------------------------
(* The thread: util_cmdsvr_func.                                           *)

Thread(from, to) == thread = from /\ thread' = to
ThreadOnly == UNCHANGED <<conf, main, cancelled>>
NotCancelled == ~ cancelled      \* a pending cancellation takes effect here

Cancelled ==
  /\ cancelled /\ thread \in {"accept", "recv", "send", "close"}
  /\ thread' = "dead" /\ ThreadOnly
  /\ UNCHANGED <<num_startup_requests, conn_fd, fd, conn, acked>>

Accept ==
  /\ NotCancelled
  /\ \/ \E c \in Conns :
          /\ conn[c] = "queued" /\ conn' = [conn EXCEPT ![c] = "open"]
          /\ Thread("accept", "recv") /\ conn_fd' = c
     \/ Thread("accept", "accept") /\ conn_fd' = 0 /\ UNCHANGED conn   \* failed: continue
  /\ ThreadOnly /\ UNCHANGED <<num_startup_requests, fd, acked>>

\* recv fails, the size or the command is wrong: to loop_end; otherwise the
\* callback runs and may ask for an acknowledgement.
Receive ==
  /\ NotCancelled /\ thread = "recv" /\ thread' \in {"loop_end", "send"}
  /\ ThreadOnly /\ UNCHANGED <<num_startup_requests, conn_fd, fd, conn, acked>>

SendAck ==
  /\ NotCancelled /\ Thread("send", "loop_end") /\ acked' = acked \cup {conn_fd}
  /\ ThreadOnly /\ UNCHANGED <<num_startup_requests, conn_fd, fd, conn>>

KeepConn ==
  /\ Thread("loop_end", "close") /\ fd' = conn_fd /\ UNCHANGED conn_fd
  /\ ThreadOnly /\ UNCHANGED <<num_startup_requests, conn, acked>>

TakeConn ==
  /\ Thread("loop_end", "close") /\ fd' = conn_fd /\ conn_fd' = 0
  /\ ThreadOnly /\ UNCHANGED <<num_startup_requests, conn, acked>>

CloseConn ==
  /\ NotCancelled /\ Thread("close", "count") /\ Close(fd)
  /\ ThreadOnly /\ UNCHANGED <<num_startup_requests, conn_fd, fd, acked>>

CountsBelowZero ==
  /\ Thread("count", "accept")
  /\ num_startup_requests' = num_startup_requests - 1
  /\ ThreadOnly /\ UNCHANGED <<conn_fd, fd, conn, acked>>


CountStartup ==
  /\ Thread("count", "accept")
  /\ num_startup_requests' = IF num_startup_requests > 0 THEN num_startup_requests - 1 ELSE 0
  /\ ThreadOnly /\ UNCHANGED <<conn_fd, fd, conn, acked>>

-----------------------------------------------------------------------------
(* The main thread: util_cmdsvr_init and util_cmdsvr_close.                *)

Main(from, to) == main = from /\ main' = to
MainOnly == UNCHANGED <<conf, num_startup_requests, fd, acked>>

util_cmdsvr_init ==
  /\ \/ /\ max_threads_reached /\ num_startup_requests = 0
        /\ Main("init", "up") /\ UNCHANGED thread
     \/ /\ ~ max_threads_reached \/ num_startup_requests > 0
        /\ Main("init", "wait") /\ thread' = "accept"
  /\ MainOnly /\ UNCHANGED <<cancelled, conn_fd, conn>>

WaitStartup ==
  /\ num_startup_requests = 0
  /\ Main("wait", IF max_threads_reached THEN "cancel" ELSE "up")
  /\ MainOnly /\ UNCHANGED <<thread, cancelled, conn_fd, conn>>

\* The program closes a server it has, at any time.
CloseServer ==
  /\ thread \notin {"none", "dead"} /\ Main("up", "cancel")
  /\ MainOnly /\ UNCHANGED <<thread, cancelled, conn_fd, conn>>

Cancel ==
  /\ Main("cancel", "join") /\ cancelled' = TRUE
  /\ MainOnly /\ UNCHANGED <<thread, conn_fd, conn>>

util_cmdsvr_close_child ==
  /\ thread = "dead" /\ Main("join", "done")
  /\ IF conn_fd # 0 THEN Close(conn_fd) ELSE UNCHANGED conn
  /\ MainOnly /\ UNCHANGED <<thread, cancelled, conn_fd>>

Serve == Cancelled \/ Accept \/ Receive \/ SendAck \/ TakeConn \/ CloseConn \/ CountStartup
Control == util_cmdsvr_init \/ WaitStartup \/ CloseServer \/ Cancel \/ util_cmdsvr_close_child
Next == Serve \/ Control \/ \E c \in Conns : Client(c)
Spec == Init /\ [][Next]_vars

-----------------------------------------------------------------------------
(* Properties.                                                             *)

\* Every variable keeps its type.
TypeOK ==
  /\ main \in {"init", "wait", "up", "cancel", "join", "done"}
  /\ num_startup_requests \in 0 .. StartupRequests
  /\ {conn_fd, fd} \subseteq Conns \cup {0} /\ acked \subseteq Conns
  /\ conn \in [Conns -> {"none", "queued", "open", "closed", "reused", "broken"}]

NotClosedTwice == \A c \in Conns : conn[c] # "broken"
LeftOpen == main = "done" => Cardinality({c \in Conns : conn[c] = "open"}) <= 1

\* No descriptor is closed twice: whenever the thread is cancelled, main
\* closes the connection or the thread has, never both; and at most one
\* connection survives the server, the one whose close was cancelled.
ClosedOnce == NotClosedTwice /\ LeftOpen
=============================================================================
