----------------------------- MODULE EdfiProofs -----------------------------
(***************************************************************************)
(* What holds of the fault injector for any number of clients, any         *)
(* configurations and any command line: the control server confirms only   *)
(* what was executed and starts the program only when as many requests as  *)
(* asked for are confirmed; the run-time injects faults only where its     *)
(* configuration asks for one; edfictl sends what it was given.            *)
(***************************************************************************)
EXTENDS EdfiControl, EdfiRuntime, EdfictlArgs, SequenceTheorems, FiniteSetTheorems, TLAPS

\* What the build and the command line give.
Configured ==
  /\ IsFiniteSet(Clients) /\ NoClient \notin Clients /\ Requests \subseteq Request
  /\ num_requests_on_start \in Nat

Parts == {"header", "context", "params"}
Serving == {"header", "data", "process", "send", "close"}
Closed == {c \in Clients : reply[c] = "closed"}

ControlType ==
  /\ TypeOK
  /\ srv \in Serving \cup {"never", "start", "accept", "end", "done", "dead"}
  /\ svr_thread_done \in BOOLEAN /\ backlog \in Seq(Clients)
  /\ request \in [Clients -> Request] /\ reply \in [Clients -> {"none", "sent", "closed"}]

\* A client is in the queue, then served, then gone; never twice.
QueueInv ==
  /\ \A i \in 1 .. Len(backlog) :
       /\ reply[backlog[i]] = "none" /\ client[backlog[i]] # "idle"
       /\ srv \in Serving => backlog[i] # cur
  /\ \A i, j \in 1 .. Len(backlog) : backlog[i] = backlog[j] => i = j
  /\ srv \in Serving => /\ cur \in Clients /\ client[cur] # "idle"
                        /\ reply[cur] = IF srv = "close" THEN "sent" ELSE "none"
  /\ \A c \in Clients : client[c] = "idle" => reply[c] = "none"

\* What is received and executed is the request of a client that is still
\* there (the header of one that quit reads as zeros).
DataInv ==
  /\ srv \in {"data", "process", "send"} /\ ~ Gone(cur) => data.cmd = request[cur].cmd
  /\ srv = "send" => <<cur, data>> \in executed

\* The count is of clients that were served.
CountInv == completed = Cardinality(Closed)

MainInv ==
  /\ main \in {"join", "main"} => completed >= num_requests_on_start
  /\ svr_thread_done => srv \in {"done", "dead"}
  /\ no_svr_thread /\ main = "main" => srv \in {"never", "done", "dead"}

ControlInv ==
  ControlType /\ QueueInv /\ DataInv /\ CountInv /\ MainInv /\ ReplyIsExecuted

-----------------------------------------------------------------------------
(* Initial states.                                                         *)

\* The library starts with an empty queue and nothing served.
LEMMA InitControl == ASSUME Configured, Init PROVE ControlInv
<1>1. ControlType
  <2>1. /\ wire \in [Clients -> Seq({"header", "context", "params"})]
        /\ backlog \in Seq(Clients)
    BY DEF Init
  <2>2. data \in Request /\ completed \in Nat /\ cur \in Clients \cup {NoClient}
    BY Zenon DEF Init, NoData, Request
  <2>3. request \in [Clients -> Request]
    BY Zenon DEF Init, Configured
  <2> QED BY Zenon, <2>1, <2>2, <2>3 DEF Init, ControlType, TypeOK, Serving
<1>2. QueueInv /\ DataInv /\ ReplyIsExecuted
  <2>1. Len(backlog) = 0 /\ srv \in {"never", "start"}
    BY Zenon DEF Init
  <2> QED BY <2>1 DEF Init, QueueInv, DataInv, ReplyIsExecuted, Serving
<1>3. CountInv
  <2>1. Closed = {}
    BY Zenon DEF Init, Closed
  <2> QED BY Zenon, <2>1, FS_EmptySet DEF Init, CountInv
<1>4. MainInv
  BY DEF Init, MainInv, Configured
<1> QED BY Zenon, <1>1, <1>2, <1>3, <1>4 DEF ControlInv

-----------------------------------------------------------------------------
(* The main thread and the server thread.                                  *)

\* Waiting for requests, for the thread, and crashing keep the invariant.
LEMMA MainControl ==
  ASSUME Configured, ControlInv, WaitForRequests \/ WaitForThread \/ Crash
  PROVE  ControlInv'
<1>0. ControlType /\ QueueInv /\ DataInv /\ CountInv /\ MainInv /\ ReplyIsExecuted
  BY Zenon DEF ControlInv
<1>1. /\ UNCHANGED <<completed, svr_thread_done, backlog, cur, data, client, request, reply,
                     wire, executed>>
      /\ srv' = srv \/ srv' = "dead"
      /\ main' \in {"join", "main", "dead"}
  BY Zenon DEF WaitForRequests, WaitForThread, Crash, Dies, srvVars, clientVars
<1>2. ControlType'
  BY Zenon, <1>0, <1>1 DEF ControlType, TypeOK
<1>3. QueueInv'
  BY Zenon, <1>0, <1>1 DEF QueueInv, Serving
<1>4. DataInv'
  BY Zenon, <1>0, <1>1 DEF DataInv, Gone
<1>5. CountInv' /\ ReplyIsExecuted'
  BY Zenon, <1>0, <1>1 DEF CountInv, Closed, ReplyIsExecuted
<1>6. MainInv'
  <2>1. CASE WaitForRequests
    BY Zenon, <1>0, <2>1 DEF WaitForRequests, MainInv, srvVars
  <2>2. CASE WaitForThread
    BY Zenon, <1>0, <2>2 DEF WaitForThread, MainInv, srvVars
  <2>3. CASE Crash
    BY Zenon, <1>0, <2>3 DEF Crash, Dies, MainInv
  <2> QED BY Zenon, <2>1, <2>2, <2>3
<1> QED BY Zenon, <1>2, <1>3, <1>4, <1>5, <1>6 DEF ControlInv

\* Accepting the first of the queue: it was not served before.
LEMMA AcceptControl ==
  ASSUME Configured, ControlInv, Accept
  PROVE  ControlInv'
<1>0. ControlType /\ QueueInv /\ DataInv /\ CountInv /\ MainInv /\ ReplyIsExecuted
  BY Zenon DEF ControlInv
<1>1. /\ srv = "accept" /\ srv' = "header" /\ backlog # <<>> /\ cur' = Head(backlog)
      /\ backlog' = Tail(backlog) /\ data' = NoData
      /\ UNCHANGED <<main, completed, svr_thread_done, client, request, reply, wire, executed>>
  BY Zenon DEF Accept, Step, mainVars, clientVars
<1>2. /\ backlog \in Seq(Clients) /\ Len(backlog) \in Nat /\ Len(backlog) > 0
      /\ Head(backlog) = backlog[1] /\ Head(backlog) \in Clients
      /\ Tail(backlog) \in Seq(Clients) /\ Len(Tail(backlog)) = Len(backlog) - 1
      /\ \A i \in 1 .. Len(Tail(backlog)) : Tail(backlog)[i] = backlog[i + 1]
  BY <1>0, <1>1, HeadTailProperties DEF ControlType
<1>3. ControlType'
  BY Zenon, <1>0, <1>1, <1>2 DEF ControlType, TypeOK, NoData, Request, Serving
<1>4. QueueInv'
  <2>1. \A i \in 1 .. Len(backlog') : /\ backlog'[i] = backlog[i + 1]
                                      /\ i + 1 \in 1 .. Len(backlog) /\ i + 1 # 1
    BY <1>1, <1>2
  <2>2. 1 \in 1 .. Len(backlog)
    BY <1>2
  <2>3. /\ \A i \in 1 .. Len(backlog) :
             reply[backlog[i]] = "none" /\ client[backlog[i]] # "idle"
        /\ \A i, j \in 1 .. Len(backlog) : backlog[i] = backlog[j] => i = j
        /\ \A c \in Clients : client[c] = "idle" => reply[c] = "none"
    BY Zenon, <1>0 DEF QueueInv
  <2>4. \A i \in 1 .. Len(backlog') :
          /\ reply'[backlog'[i]] = "none" /\ client'[backlog'[i]] # "idle"
          /\ backlog'[i] # cur'
    BY <1>1, <1>2, <2>1, <2>2, <2>3
  <2>5. ASSUME NEW i \in 1 .. Len(backlog'), NEW j \in 1 .. Len(backlog'),
               backlog'[i] = backlog'[j]
        PROVE  i = j
    <3>1. /\ i + 1 \in 1 .. Len(backlog) /\ j + 1 \in 1 .. Len(backlog)
          /\ backlog[i + 1] = backlog[j + 1]
      BY Zenon, <2>1, <2>5
    <3>2. i + 1 = j + 1
      BY Zenon, <2>3, <3>1
    <3>3. i \in Int /\ j \in Int
      OBVIOUS
    <3> QED BY <3>2, <3>3
  <2>6. cur' \in Clients /\ client'[cur'] # "idle" /\ reply'[cur'] = "none"
    BY Zenon, <1>1, <1>2, <2>2, <2>3
  <2> QED BY Zenon, <1>1, <2>3, <2>4, <2>5, <2>6 DEF QueueInv
<1>5. DataInv' /\ CountInv' /\ MainInv' /\ ReplyIsExecuted'
  BY Zenon, <1>0, <1>1 DEF DataInv, CountInv, Closed, MainInv, ReplyIsExecuted
<1> QED BY Zenon, <1>3, <1>4, <1>5 DEF ControlInv

\* Receiving: the header is the request of a client that is still there.
LEMMA RecvControl ==
  ASSUME Configured, ControlInv, RecvHeader \/ RecvData
  PROVE  ControlInv'
<1>0. ControlType /\ QueueInv /\ DataInv /\ CountInv /\ MainInv /\ ReplyIsExecuted
  BY Zenon DEF ControlInv
<1>1. /\ srv \in {"header", "data"} /\ srv' \in {"data", "process"}
      /\ UNCHANGED <<main, completed, svr_thread_done, backlog, cur, client, request, reply,
                     executed>>
  BY Zenon DEF RecvHeader, RecvData, Step, mainVars
<1>2. /\ cur \in Clients /\ request[cur] \in Request
      /\ wire[cur] \in Seq(Parts) /\ data \in Request
  BY Zenon, <1>0, <1>1 DEF QueueInv, Serving, ControlType, TypeOK, Parts
<1>3. /\ data' \in Request /\ wire' \in [Clients -> Seq(Parts)]
      /\ ~ Gone(cur) => data'.cmd = request[cur].cmd
  <2>1. CASE RecvHeader
    <3>1. wire[cur] # <<>> => Tail(wire[cur]) \in Seq(Parts)
      BY Zenon, <1>2, HeadTailProperties
    <3>2. wire' \in [Clients -> Seq(Parts)]
      BY Zenon, <1>0, <1>2, <2>1, <3>1 DEF RecvHeader, ControlType, TypeOK, Parts
    <3>3. NoData \in Request
      BY Zenon DEF NoData, Request
    <3> QED BY Zenon, <1>2, <2>1, <3>2, <3>3 DEF RecvHeader
  <2>2. CASE RecvData
    <3>1. PICK n \in 0 .. Len(wire[cur]) :
            /\ data' = [data EXCEPT !.params = \E i \in 1 .. n : wire[cur][i] = "params"]
            /\ wire' = [wire EXCEPT ![cur] = SubSeq(@, n + 1, Len(@))]
      BY Zenon, <2>2 DEF RecvData
    <3>2. (\E i \in 1 .. n : wire[cur][i] = "params") \in BOOLEAN
      OBVIOUS
    <3>3. data' \in Request /\ data'.cmd = data.cmd
      BY Zenon, <1>2, <3>1, <3>2 DEF Request
    <3>4. SubSeq(wire[cur], n + 1, Len(wire[cur])) \in Seq(Parts)
      <4>1. /\ n + 1 \in Int /\ Len(wire[cur]) \in Int
            /\ \A i \in n + 1 .. Len(wire[cur]) : wire[cur][i] \in Parts
        BY <1>2
      <4> QED BY Zenon, <4>1, SubSeqProperties
    <3>5. wire' \in [Clients -> Seq(Parts)]
      BY Zenon, <1>0, <1>2, <3>1, <3>4 DEF ControlType, TypeOK, Parts
    <3>6. srv = "data"
      BY Zenon, <2>2 DEF RecvData, Step
    <3> QED BY Zenon, <1>0, <3>3, <3>5, <3>6 DEF DataInv
  <2> QED BY Zenon, <2>1, <2>2
<1>4. ControlType'
  BY Zenon, <1>0, <1>1, <1>3 DEF ControlType, TypeOK, Parts, Serving
<1>5. QueueInv'
  BY Zenon, <1>0, <1>1 DEF QueueInv, Serving
<1>6. DataInv'
  BY Zenon, <1>1, <1>3 DEF DataInv, Gone
<1>7. CountInv' /\ MainInv' /\ ReplyIsExecuted'
  BY Zenon, <1>0, <1>1 DEF CountInv, Closed, MainInv, ReplyIsExecuted
<1> QED BY Zenon, <1>4, <1>5, <1>6, <1>7 DEF ControlInv

\* Executing and confirming: what is confirmed was executed.
LEMMA ReplyControl ==
  ASSUME Configured, ControlInv, Process \/ SendReply
  PROVE  ControlInv'
<1>0. ControlType /\ QueueInv /\ DataInv /\ CountInv /\ MainInv /\ ReplyIsExecuted
  BY Zenon DEF ControlInv
<1>1. CASE Process
  <2>1. /\ srv = "process" /\ srv' = "send" /\ executed' = executed \cup {<<cur, data>>}
        /\ UNCHANGED <<main, completed, svr_thread_done, backlog, cur, data, client, request,
                       reply, wire>>
    BY Zenon, <1>1 DEF Process, Step, mainVars, clientVars
  <2>2. ControlType'
    BY Zenon, <1>0, <2>1 DEF ControlType, TypeOK, Serving
  <2>3. QueueInv'
    BY Zenon, <1>0, <2>1 DEF QueueInv, Serving
  <2>4. DataInv'
    BY Zenon, <1>0, <2>1 DEF DataInv, Gone
  <2>5. CountInv' /\ MainInv' /\ ReplyIsExecuted'
    BY Zenon, <1>0, <2>1 DEF CountInv, Closed, MainInv, ReplyIsExecuted
  <2> QED BY Zenon, <2>2, <2>3, <2>4, <2>5 DEF ControlInv
<1>2. CASE SendReply
  <2>1. /\ srv = "send"
        /\ UNCHANGED <<completed, svr_thread_done, backlog, cur, data, client, request, wire,
                       executed>>
    BY Zenon, <1>2 DEF SendReply
  <2>2. cur \in Clients /\ reply[cur] = "none" /\ client[cur] # "idle"
    BY Zenon, <1>0, <2>1 DEF QueueInv, Serving
  <2>3. CASE Gone(cur) /\ Dies /\ UNCHANGED reply
    <3>1. ControlType'
      BY Zenon, <1>0, <2>1, <2>3 DEF Dies, ControlType, TypeOK
    <3>2. QueueInv' /\ DataInv'
      BY Zenon, <1>0, <2>1, <2>3 DEF Dies, QueueInv, DataInv, Serving
    <3>3. CountInv' /\ MainInv' /\ ReplyIsExecuted'
      BY Zenon, <1>0, <2>1, <2>3 DEF Dies, CountInv, Closed, MainInv, ReplyIsExecuted
    <3> QED BY Zenon, <3>1, <3>2, <3>3 DEF ControlInv
  <2>4. CASE /\ ~ Gone(cur) /\ srv' = "close" /\ reply' = [reply EXCEPT ![cur] = "sent"]
             /\ UNCHANGED main
    <3>0. /\ reply \in [Clients -> {"none", "sent", "closed"}]
          /\ reply'[cur] = "sent" /\ \A c \in Clients : c # cur => reply'[c] = reply[c]
      BY Zenon, <1>0, <2>2, <2>4 DEF ControlType
    <3>1. ControlType'
      BY Zenon, <1>0, <2>1, <2>2, <2>4, <3>0 DEF ControlType, TypeOK, Serving
    <3>2. QueueInv'
      <4>1. \A i \in 1 .. Len(backlog) : backlog[i] # cur /\ backlog[i] \in Clients
        BY <1>0, <2>1 DEF QueueInv, Serving, ControlType
      <4>2. /\ \A i \in 1 .. Len(backlog) :
             reply[backlog[i]] = "none" /\ client[backlog[i]] # "idle"
            /\ \A i, j \in 1 .. Len(backlog) : backlog[i] = backlog[j] => i = j
            /\ \A c \in Clients : client[c] = "idle" => reply[c] = "none"
        BY Zenon, <1>0 DEF QueueInv
      <4> QED BY <2>1, <2>2, <2>4, <3>0, <4>1, <4>2 DEF QueueInv, Serving
    <3>3. DataInv'
      BY Zenon, <2>4 DEF DataInv
    <3>4. Closed' = Closed
      BY Zenon, <2>2, <3>0 DEF Closed
    <3>5. CountInv' /\ MainInv'
      BY Zenon, <1>0, <2>1, <2>4, <3>4 DEF CountInv, MainInv
    <3>6. ReplyIsExecuted'
      <4>1. <<cur, data>> \in executed /\ data.cmd = request[cur].cmd
        BY Zenon, <1>0, <2>1, <2>4 DEF DataInv
      <4> SUFFICES ASSUME NEW c \in Clients, reply'[c] # "none"
                   PROVE  \E x \in executed : x[1] = c /\ x[2].cmd = request[c].cmd
        BY Zenon, <2>1 DEF ReplyIsExecuted
      <4>2. CASE c = cur
        BY Zenon, <4>1, <4>2
      <4>3. CASE c # cur
        BY Zenon, <1>0, <3>0, <4>3 DEF ReplyIsExecuted
      <4> QED BY Zenon, <4>2, <4>3
    <3> QED BY Zenon, <3>1, <3>2, <3>3, <3>5, <3>6 DEF ControlInv
  <2> QED BY Zenon, <1>2, <2>3, <2>4 DEF SendReply
<1> QED BY Zenon, <1>1, <1>2

\* Closing the connection: one client more is served, and counted.
LEMMA CompleteControl ==
  ASSUME Configured, ControlInv, Completes
  PROVE  ControlInv'
<1>0. ControlType /\ QueueInv /\ DataInv /\ CountInv /\ MainInv /\ ReplyIsExecuted
  BY Zenon DEF ControlInv
<1>1. /\ srv = "close" /\ completed' = completed + 1 /\ srv' \in {"end", "accept"}
      /\ reply' = [reply EXCEPT ![cur] = "closed"]
      /\ UNCHANGED <<main, svr_thread_done, backlog, cur, data, client, request, wire,
                     executed>>
  BY Zenon DEF Completes, mainVars
<1>2. cur \in Clients /\ reply[cur] = "sent" /\ client[cur] # "idle"
  BY Zenon, <1>0, <1>1 DEF QueueInv, Serving
<1>3. /\ reply \in [Clients -> {"none", "sent", "closed"}] /\ completed \in Nat
      /\ reply'[cur] = "closed" /\ \A c \in Clients : c # cur => reply'[c] = reply[c]
  BY Zenon, <1>0, <1>1, <1>2 DEF ControlType, TypeOK
<1>4. ControlType'
  BY <1>0, <1>1, <1>2, <1>3 DEF ControlType, TypeOK, Serving
<1>5. QueueInv'
  <2>1. \A i \in 1 .. Len(backlog) : backlog[i] # cur /\ backlog[i] \in Clients
    BY <1>0, <1>1 DEF QueueInv, Serving, ControlType
  <2>2. /\ \A i \in 1 .. Len(backlog) :
             reply[backlog[i]] = "none" /\ client[backlog[i]] # "idle"
        /\ \A i, j \in 1 .. Len(backlog) : backlog[i] = backlog[j] => i = j
        /\ \A c \in Clients : client[c] = "idle" => reply[c] = "none"
    BY Zenon, <1>0 DEF QueueInv
  <2> QED BY <1>1, <1>2, <1>3, <2>1, <2>2 DEF QueueInv, Serving
<1>6. CountInv'
  <2>1. IsFiniteSet(Closed)
    BY Zenon, FS_Subset DEF Closed, Configured
  <2>2. Closed' = Closed \cup {cur} /\ cur \notin Closed
    BY Zenon, <1>2, <1>3 DEF Closed
  <2>3. Cardinality(Closed \cup {cur}) = Cardinality(Closed) + 1
    BY Zenon, <2>1, <2>2, FS_AddElement
  <2> QED BY Zenon, <1>0, <1>1, <2>2, <2>3 DEF CountInv
<1>7. DataInv'
  BY Zenon, <1>1 DEF DataInv
<1>8. MainInv'
  <2>1. main \in {"join", "main"} => completed + 1 >= num_requests_on_start
    BY <1>0, <1>3 DEF MainInv, Configured
  <2> QED BY Zenon, <1>0, <1>1, <2>1 DEF MainInv
<1>9. ReplyIsExecuted'
  BY Zenon, <1>0, <1>1, <1>2, <1>3 DEF ReplyIsExecuted
<1> QED BY Zenon, <1>4, <1>5, <1>6, <1>7, <1>8, <1>9 DEF ControlInv

\* The steps of the thread that change nothing but where it is.
LEMMA ThreadControl ==
  ASSUME Configured, ControlInv, Listen \/ ThreadDone
  PROVE  ControlInv'
<1>0. ControlType /\ QueueInv /\ DataInv /\ CountInv /\ MainInv /\ ReplyIsExecuted
  BY Zenon DEF ControlInv
<1>1. /\ UNCHANGED <<main, completed, backlog, cur, data, client, request, reply, wire,
                     executed>>
      /\ \/ srv = "start" /\ srv' = "accept" /\ UNCHANGED svr_thread_done
         \/ srv = "end" /\ srv' = "done" /\ svr_thread_done' = TRUE
  BY Zenon DEF Listen, ThreadDone, Step, mainVars, clientVars
<1>2. ControlType'
  BY Zenon, <1>0, <1>1 DEF ControlType, TypeOK, Serving
<1>3. QueueInv' /\ DataInv'
  BY Zenon, <1>0, <1>1 DEF QueueInv, DataInv, Serving
<1>4. CountInv' /\ MainInv' /\ ReplyIsExecuted'
  BY <1>0, <1>1 DEF CountInv, Closed, MainInv, ReplyIsExecuted
<1> QED BY Zenon, <1>2, <1>3, <1>4 DEF ControlInv

-----------------------------------------------------------------------------
(* The clients.                                                            *)

\* A client connects once, and is queued behind the others.
LEMMA ConnectControl ==
  ASSUME Configured, ControlInv, NEW c \in Clients, Connect(c)
  PROVE  ControlInv'
<1>0. ControlType /\ QueueInv /\ DataInv /\ CountInv /\ MainInv /\ ReplyIsExecuted
  BY Zenon DEF ControlInv
<1>1. /\ client[c] = "idle"
      /\ \E to \in {"header", "error"} : client' = [client EXCEPT ![c] = to]
      /\ backlog' = backlog \/ backlog' = Append(backlog, c)
      /\ UNCHANGED <<main, srv, completed, svr_thread_done, cur, data, request, reply, wire,
                     executed>>
  BY Zenon DEF Connect, ClientTo, mainVars
<1>2. /\ client'[c] # "idle" /\ \A d \in Clients : d # c => client'[d] = client[d]
      /\ client' \in [Clients -> {"idle", "header", "context", "params", "recv", "ok",
                                  "error", "killed"}]
  BY Zenon, <1>0, <1>1 DEF ControlType, TypeOK
<1>3. backlog \in Seq(Clients) /\ reply[c] = "none" /\ (srv \in Serving => cur # c)
  BY Zenon, <1>0, <1>1 DEF ControlType, QueueInv
<1>4. backlog' \in Seq(Clients)
  BY <1>1, <1>3
<1>5. ControlType'
  BY Zenon, <1>0, <1>1, <1>2, <1>4 DEF ControlType, TypeOK
<1>6. QueueInv'
  <2>1. /\ \A i \in 1 .. Len(backlog) :
             /\ reply[backlog[i]] = "none" /\ client[backlog[i]] # "idle"
             /\ backlog[i] \in Clients /\ (srv \in Serving => backlog[i] # cur)
        /\ \A i, j \in 1 .. Len(backlog) : backlog[i] = backlog[j] => i = j
    BY <1>0, <1>3 DEF QueueInv
  <2>2. \A i \in 1 .. Len(backlog) : backlog[i] # c
    BY Zenon, <1>1, <2>1
  <2>3. /\ srv \in Serving => /\ cur \in Clients /\ client'[cur] # "idle"
                              /\ reply[cur] = IF srv = "close" THEN "sent" ELSE "none"
        /\ \A d \in Clients : client'[d] = "idle" => reply[d] = "none"
    BY Zenon, <1>0, <1>2 DEF QueueInv
  <2>4. CASE backlog' = backlog
    BY <1>1, <1>2, <2>1, <2>2, <2>3, <2>4 DEF QueueInv
  <2>5. CASE backlog' = Append(backlog, c)
    <3>1. /\ Len(backlog') = Len(backlog) + 1 /\ backlog'[Len(backlog) + 1] = c
          /\ \A i \in 1 .. Len(backlog) : backlog'[i] = backlog[i]
          /\ Len(backlog) \in Nat
      BY <1>3, <2>5
    <3>2. \A i \in 1 .. Len(backlog') : i \in 1 .. Len(backlog) \/ i = Len(backlog) + 1
      BY <3>1
    <3>3. \A i \in 1 .. Len(backlog') :
             /\ reply[backlog'[i]] = "none" /\ client'[backlog'[i]] # "idle"
             /\ srv \in Serving => backlog'[i] # cur
      BY <1>2, <1>3, <2>1, <2>2, <3>1, <3>2
    <3>4. \A i, j \in 1 .. Len(backlog') : backlog'[i] = backlog'[j] => i = j
      BY <2>1, <2>2, <3>1, <3>2
    <3> QED BY Zenon, <1>1, <2>3, <3>3, <3>4 DEF QueueInv
  <2> QED BY Zenon, <1>1, <2>4, <2>5
<1>7. DataInv'
  <2>1. srv \in {"data", "process", "send"} => (Gone(cur)' <=> Gone(cur))
    BY Zenon, <1>1, <1>2, <1>3, <1>0 DEF Gone, Serving, QueueInv
  <2> QED BY Zenon, <1>0, <1>1, <2>1 DEF DataInv
<1>8. CountInv' /\ MainInv' /\ ReplyIsExecuted'
  BY Zenon, <1>0, <1>1 DEF CountInv, Closed, MainInv, ReplyIsExecuted
<1> QED BY Zenon, <1>5, <1>6, <1>7, <1>8 DEF ControlInv

\* Sending a part, receiving the reply and quitting: a client that is gone
\* does not come back.
LEMMA ClientControl ==
  ASSUME Configured, ControlInv, NEW c \in Clients, Send(c) \/ Recv(c) \/ Quit(c)
  PROVE  ControlInv'
<1>0. ControlType /\ QueueInv /\ DataInv /\ CountInv /\ MainInv /\ ReplyIsExecuted
  BY Zenon DEF ControlInv
<1>1. /\ client[c] \in {"header", "context", "params", "recv"}
      /\ \E to \in {"context", "params", "recv", "ok", "error", "killed"} :
           client' = [client EXCEPT ![c] = to]
      /\ \/ wire' = wire
         \/ \E part \in Parts : wire' = [wire EXCEPT ![c] = Append(@, part)]
      /\ UNCHANGED <<main, srv, completed, svr_thread_done, backlog, cur, data, request, reply,
                     executed>>
  <2>1. CASE Send(c)
    BY Zenon, <2>1 DEF Send, ClientTo, Sends, Parts, mainVars, srvVars
  <2>2. CASE Recv(c)
    BY Zenon, <2>2 DEF Recv, ClientTo, mainVars, srvVars
  <2>3. CASE Quit(c)
    BY Zenon, <2>3 DEF Quit, mainVars, srvVars
  <2> QED BY Zenon, <2>1, <2>2, <2>3
<1>2. /\ client'[c] # "idle" /\ \A d \in Clients : d # c => client'[d] = client[d]
      /\ client' \in [Clients -> {"idle", "header", "context", "params", "recv", "ok",
                                  "error", "killed"}]
  BY Zenon, <1>0, <1>1 DEF ControlType, TypeOK
<1>3. wire' \in [Clients -> Seq(Parts)]
  <2>1. wire \in [Clients -> Seq(Parts)]
    BY Zenon, <1>0 DEF ControlType, TypeOK, Parts
  <2>2. \A part \in Parts : Append(wire[c], part) \in Seq(Parts)
    BY <2>1
  <2> QED BY Zenon, <1>1, <2>1, <2>2
<1>4. ControlType'
  BY Zenon, <1>0, <1>1, <1>2, <1>3 DEF ControlType, TypeOK, Parts
<1>5. QueueInv'
  <2>1. \A i \in 1 .. Len(backlog) : backlog[i] \in Clients
    BY <1>0 DEF ControlType
  <2>2. \A d \in Clients : client'[d] = "idle" <=> client[d] = "idle"
    BY Zenon, <1>1, <1>2
  <2> QED BY <1>0, <1>1, <2>1, <2>2 DEF QueueInv
<1>6. DataInv'
  <2>1. srv \in {"data", "process", "send"} => cur \in Clients
    BY Zenon, <1>0 DEF QueueInv, Serving
  <2>2. \A d \in Clients : Gone(d) => Gone(d)'
    BY Zenon, <1>1, <1>2 DEF Gone
  <2> QED BY Zenon, <1>0, <1>1, <2>1, <2>2 DEF DataInv, Gone
<1>7. CountInv' /\ MainInv' /\ ReplyIsExecuted'
  BY Zenon, <1>0, <1>1 DEF CountInv, Closed, MainInv, ReplyIsExecuted
<1> QED BY Zenon, <1>4, <1>5, <1>6, <1>7 DEF ControlInv

-----------------------------------------------------------------------------

\* For any clients, requests and number of requests to wait for, with clients
\* that quit and a program that may crash at any moment: a client is confirmed
\* only when its own command was executed, and the program's main starts only
\* after as many confirmations as it waits for, with no server thread left
\* when it asked for none.
THEOREM ControlIsConfirmed ==
  ASSUME Configured
  PROVE  Spec => []TypeOK /\ []StartsConfigured /\ []ReplyIsExecuted
<1>1. Init => ControlInv
  BY Zenon, InitControl
<1>2. ControlInv /\ [Next]_vars => ControlInv'
  <2> SUFFICES ASSUME ControlInv, [Next]_vars PROVE ControlInv'
    OBVIOUS
  <2>1. CASE WaitForRequests \/ WaitForThread \/ Crash
    BY Zenon, <2>1, MainControl
  <2>2. CASE Serve
    BY Zenon, <2>2, AcceptControl, RecvControl, ReplyControl, CompleteControl,
        ThreadControl
      DEF Serve
  <2>3. ASSUME NEW c \in Clients, Connect(c) \/ Send(c) \/ Recv(c) \/ Quit(c)
        PROVE  ControlInv'
    BY Zenon, <2>3, ConnectControl, ClientControl
  <2>4. CASE UNCHANGED vars
    <3>1. /\ UNCHANGED <<main, srv, completed, svr_thread_done, backlog, cur, data, client,
                         request, reply, wire, executed>>
      BY Zenon, <2>4 DEF vars
    <3>2. ControlType' /\ QueueInv'
      BY <3>1 DEF ControlInv, ControlType, TypeOK, QueueInv
    <3>3. DataInv' /\ CountInv' /\ MainInv' /\ ReplyIsExecuted'
      BY Zenon, <3>1
        DEF ControlInv, DataInv, Gone, CountInv, Closed, MainInv, ReplyIsExecuted
    <3> QED BY Zenon, <3>2, <3>3 DEF ControlInv
  <2> QED BY <2>1, <2>2, <2>3, <2>4, Zenon DEF Next
<1>3. ControlInv => TypeOK /\ StartsConfigured /\ ReplyIsExecuted
  BY Zenon
    DEF ControlInv, ControlType, StartsConfigured, MainInv, CountInv, Closed, Listening
<1> QED BY <1>1, <1>2, <1>3, PTL DEF Spec

\* edfi_ctl_server_start returns to the program only when the requests it
\* waits for are processed and confirmed, and leaves no one listening when no
\* server thread was asked for.
THEOREM StartIsConfirmed ==
  ASSUME Configured
  PROVE  Spec => []StartsConfigured
BY ControlIsConfirmed, PTL

\* edfi_ctl_server_process never confirms another client's command, or one
\* that has not been executed.
THEOREM RepliesAreExecuted ==
  ASSUME Configured
  PROVE  Spec => []ReplyIsExecuted
BY ControlIsConfirmed, PTL

\* Every variable of the control server and its clients keeps its type, for
\* any clients and requests (edfi_ctl_server_process, edfi_ctl_client.c).
THEOREM ControlTypesHold ==
  ASSUME Configured
  PROVE  Spec => []TypeOK
BY ControlIsConfirmed, PTL

-----------------------------------------------------------------------------
(* The decisions at fault decision points.                                 *)

\* Commands come between two requests of the server (MINIX), and bring
\* configurations of natural numbers.
ConfSet == [randmax : Nat, min_fdp_interval : Nat, faulty_bb_index : Nat,
            min_fault_time_interval : Nat, max_time : Nat, max_faults : Nat]
RuntimeConfigured ==
  /\ Confs \subseteq ConfSet
  /\ bb_num_faults \in [BasicBlocks -> Nat]
Between == ~ Threaded

Faults == [fdp : Nat, time : Nat, block : BasicBlocks, conf : ConfSet]

\* The commands, step by step; nothing was injected yet when edfi_onstart
\* sets the counter.
CmdInv ==
  /\ cmd \in {<<>>, <<"update", "enable", "onstart">>, <<"enable", "onstart">>,
              <<"onstart">>, <<"disable">>, <<"update">>}
  /\ cmd = <<"onstart">> => faults = <<>>

RuntimeType ==
  /\ enabled \in BOOLEAN /\ {conf, pending} \subseteq Confs \cup {NoConf}
  /\ fault_fdp_count \in Nat /\ fault_time \in Nat /\ start_time \in Nat
  /\ total_faults \in Nat /\ bb_num_executions \in [BasicBlocks -> Nat]
  /\ clock \in Nat /\ fdps \in Nat /\ faults \in Seq(Faults)

\* The counter never runs ahead of the decision points since the last fault.
FdpCountInv ==
  faults # <<>> => fault_fdp_count <= fdps - faults[Len(faults)].fdp

RuntimeInv ==
  RuntimeType /\ CmdInv /\ FdpCountInv /\ FdpsApart /\ FaultsAreConfigured

-----------------------------------------------------------------------------

\* A configuration is one of natural numbers.
LEMMA ConfType ==
  ASSUME RuntimeConfigured, RuntimeType
  PROVE  conf \in ConfSet /\ pending \in ConfSet
BY DEF RuntimeConfigured, RuntimeType, NoConf, ConfSet

\* A fault at a decision point is as far from the last one as configured.
LEMMA FaultKeepsApart ==
  ASSUME RuntimeConfigured, RuntimeInv, NEW b \in BasicBlocks, NEW f \in Faults,
         f = [fdp |-> fdps, time |-> clock, block |-> b, conf |-> conf],
         edfi_onfdp_min_fdp_interval, edfi_onfdp_bb_index(b), SomeLimit,
         faults' = Append(faults, f)
  PROVE  FdpsApart' /\ FaultsAreConfigured'
<1>1. /\ faults \in Seq(Faults) /\ fdps \in Nat /\ fault_fdp_count \in Nat
      /\ conf \in ConfSet /\ conf.min_fdp_interval \in Nat
  BY Zenon, ConfType DEF RuntimeInv, RuntimeType, ConfSet
<1>2. /\ Len(faults') = Len(faults) + 1 /\ faults'[Len(faults) + 1] = f
      /\ \A i \in 1 .. Len(faults) : faults'[i] = faults[i] /\ faults[i] \in Faults
      /\ Len(faults) \in Nat
  BY <1>1
<1>3. FdpsApart'
  <2> SUFFICES ASSUME NEW i \in 1 .. Len(faults') - 1
               PROVE  faults'[i].conf = faults'[i + 1].conf =>
                        faults'[i + 1].fdp - faults'[i].fdp
                          >= faults'[i + 1].conf.min_fdp_interval
    BY Zenon DEF FdpsApart, Apart
  <2>1. CASE i < Len(faults)
    <3>1. i \in 1 .. Len(faults) - 1 /\ i \in 1 .. Len(faults) /\ i + 1 \in 1 .. Len(faults)
      BY <1>2, <2>1
    <3>2. faults[i].conf = faults[i + 1].conf =>
            faults[i + 1].fdp - faults[i].fdp >= faults[i + 1].conf.min_fdp_interval
      BY Zenon, <3>1 DEF RuntimeInv, FdpsApart, Apart
    <3> QED BY Zenon, <1>2, <3>1, <3>2
  <2>2. CASE ~ (i < Len(faults))
    <3>1. i = Len(faults) /\ i \in 1 .. Len(faults)
      BY <1>2, <2>2
    <3>2. faults # <<>> /\ faults[i].fdp \in Nat
      BY <1>1, <1>2, <3>1 DEF Faults
    <3>3. fault_fdp_count <= fdps - faults[i].fdp
      BY Zenon, <3>1, <3>2 DEF RuntimeInv, FdpCountInv
    <3>4. fault_fdp_count >= conf.min_fdp_interval
      BY <1>1 DEF edfi_onfdp_min_fdp_interval
    <3>5. fdps - faults[i].fdp >= conf.min_fdp_interval
      BY <1>1, <3>2, <3>3, <3>4
    <3>6. faults'[i + 1] = f /\ faults'[i] = faults[i]
      BY Zenon, <1>2, <3>1
    <3>7. f.fdp = fdps /\ f.conf = conf
      OBVIOUS
    <3> QED BY Zenon, <3>5, <3>6, <3>7
  <2> QED BY Zenon, <2>1, <2>2
<1>4. FaultsAreConfigured'
  <2>1. conf # NoConf
    BY DEF SomeLimit, NoConf
  <2>2. conf.faulty_bb_index \in {0, b}
    BY Zenon DEF edfi_onfdp_bb_index
  <2>3. DOMAIN faults = 1 .. Len(faults) /\ DOMAIN faults' = 1 .. Len(faults) + 1
    <3>1. DOMAIN faults = 1 .. Len(faults)
      BY <1>1
    <3>2. faults' \in Seq(Faults)
      BY <1>1
    <3>3. DOMAIN faults' = 1 .. Len(faults')
      BY <3>2
    <3> QED BY Zenon, <1>2, <3>1, <3>3
  <2> QED BY <1>2, <2>1, <2>2, <2>3 DEF RuntimeInv, FaultsAreConfigured
<1> QED BY Zenon, <1>3, <1>4

\* The library starts without a configuration and without faults.
LEMMA InitRuntime == ASSUME RuntimeConfigured, RuntimeInit PROVE RuntimeInv
<1>a. faults \in Seq(Faults) /\ bb_num_executions \in [BasicBlocks -> Nat]
  BY DEF RuntimeInit
<1>b. RuntimeType
  BY Zenon, <1>a DEF RuntimeInit, RuntimeType
<1>1. RuntimeType /\ CmdInv /\ FdpCountInv
  BY Zenon, <1>b DEF RuntimeInit, CmdInv, FdpCountInv
<1>2. FdpsApart /\ FaultsAreConfigured
  BY DEF RuntimeInit, FdpsApart, Apart, FaultsAreConfigured
<1> QED BY Zenon, <1>1, <1>2 DEF RuntimeInv

\* Every decision point, command and tick keeps the invariant.
LEMMA NextRuntime ==
  ASSUME RuntimeConfigured, Between, RuntimeInv, [RuntimeNext]_runtimeVars
  PROVE  RuntimeInv'
<1>0. RuntimeType /\ CmdInv /\ FdpCountInv /\ FdpsApart /\ FaultsAreConfigured
  BY Zenon DEF RuntimeInv
<1>a. conf \in ConfSet /\ conf.min_fdp_interval \in Nat
  BY Zenon, <1>0, ConfType DEF ConfSet
<1> USE DEF runtimeVars, ctxVars
<1>1. CASE Tick
  <2>1. RuntimeType' /\ CmdInv' /\ FdpCountInv'
    BY <1>0, <1>1 DEF Tick, RuntimeType, CmdInv, FdpCountInv
  <2>2. FdpsApart' /\ FaultsAreConfigured'
    BY Zenon, <1>0, <1>1 DEF Tick, FdpsApart, Apart,
       FaultsAreConfigured
  <2> QED BY Zenon, <2>1, <2>2 DEF RuntimeInv
<1>2. CASE edfi_process_cmd
  <2>1. /\ cmd' \in {<<"update", "enable", "onstart">>, <<"disable">>, <<"update">>}
        /\ pending' \in Confs \cup {NoConf}
        /\ UNCHANGED <<enabled, conf, ctxVars, clock, fdps, faults>>
    BY Zenon, <1>0, <1>2 DEF edfi_process_cmd, Steps, RuntimeType
  <2>2. RuntimeType' /\ CmdInv' /\ FdpCountInv'
    BY <1>0, <2>1 DEF RuntimeType, CmdInv, FdpCountInv
  <2>3. FdpsApart' /\ FaultsAreConfigured'
    BY Zenon, <1>0, <2>1 DEF FdpsApart, Apart, FaultsAreConfigured
  <2> QED BY Zenon, <2>2, <2>3 DEF RuntimeInv
<1>3. CASE edfi_update_context
  <2>1. /\ cmd \in {<<"update", "enable", "onstart">>, <<"update">>}
        /\ cmd' = Tail(cmd) \/ cmd' = <<>>
        /\ conf' \in Confs \cup {NoConf}
        /\ UNCHANGED <<enabled, ctxVars, pending, clock, fdps, faults>>
    BY <1>0, <1>3 DEF edfi_update_context, RuntimeType, CmdInv
  <2>2. cmd' = <<"enable", "onstart">> \/ cmd' = <<>>
    <3>1. CASE cmd = <<"update">>
      BY <2>1, <3>1
    <3>2. CASE cmd = <<"update", "enable", "onstart">>
      BY <2>1, <3>2
    <3> QED BY Zenon, <2>1, <3>1, <3>2
  <2>a. CmdInv'
    BY <2>2 DEF CmdInv
  <2>3. RuntimeType' /\ CmdInv' /\ FdpCountInv'
    BY Zenon, <1>0, <2>1, <2>a DEF RuntimeType, FdpCountInv
  <2>4. FdpsApart' /\ FaultsAreConfigured'
    BY Zenon, <1>0, <2>1 DEF FdpsApart, Apart, FaultsAreConfigured
  <2> QED BY Zenon, <2>3, <2>4 DEF RuntimeInv
<1>4. CASE EnabledSet
  <2>1. /\ cmd = <<"enable", "onstart">> /\ cmd' = Tail(cmd)
        /\ enabled' = TRUE /\ faults' = <<>>
        /\ UNCHANGED <<conf, ctxVars, pending, clock, fdps>>
    BY <1>0, <1>4 DEF EnabledSet, CmdInv
  <2>2. cmd' = <<"onstart">>
    BY <2>1
  <2>a. CmdInv' /\ faults' \in Seq(Faults)
    BY <2>1, <2>2 DEF CmdInv
  <2>3. RuntimeType' /\ CmdInv' /\ FdpCountInv'
    BY Zenon, <1>0, <2>1, <2>a DEF RuntimeType, FdpCountInv
  <2>4. FdpsApart' /\ FaultsAreConfigured'
    BY <2>1 DEF FdpsApart, Apart, FaultsAreConfigured
  <2> QED BY Zenon, <2>3, <2>4 DEF RuntimeInv
<1>5. CASE edfi_onstart_default
  <2>1. /\ cmd = <<"onstart">> /\ cmd' = Tail(cmd) /\ faults = <<>>
        /\ fault_fdp_count' = conf.min_fdp_interval /\ start_time' = clock
        /\ UNCHANGED <<enabled, conf, fault_time, total_faults, bb_num_executions, pending,
                       clock, fdps, faults>>
    BY <1>0, <1>5 DEF edfi_onstart_default, CmdInv
  <2>2. cmd' = <<>>
    BY <2>1
  <2>3. RuntimeType' /\ CmdInv' /\ FdpCountInv'
    BY Zenon, <1>0, <1>a, <2>1, <2>2 DEF RuntimeType, CmdInv, FdpCountInv
  <2>4. FdpsApart' /\ FaultsAreConfigured'
    BY <2>1 DEF FdpsApart, Apart, FaultsAreConfigured
  <2> QED BY Zenon, <2>3, <2>4 DEF RuntimeInv
<1>6. CASE edfi_stop
  <2>1. /\ cmd = <<"disable">> /\ cmd' = Tail(cmd) /\ enabled' = FALSE
        /\ UNCHANGED <<conf, ctxVars, pending, clock, fdps, faults>>
    BY <1>0, <1>6 DEF edfi_stop, CmdInv
  <2>2. cmd' = <<>>
    BY <2>1
  <2>a. CmdInv'
    BY Zenon, <2>2 DEF CmdInv
  <2>3. RuntimeType' /\ CmdInv' /\ FdpCountInv'
    BY Zenon, <1>0, <2>1, <2>a DEF RuntimeType, FdpCountInv
  <2>4. FdpsApart' /\ FaultsAreConfigured'
    BY Zenon, <1>0, <2>1 DEF FdpsApart, Apart, FaultsAreConfigured
  <2> QED BY Zenon, <2>3, <2>4 DEF RuntimeInv
<1>7. CASE Fdp
  <2>1. /\ fdps' = fdps + 1 /\ cmd = <<>> /\ UNCHANGED <<conf, cmd, pending, clock>>
    BY Zenon, <1>7 DEF Fdp, Between
  <2>2. PICK b \in BasicBlocks, rand \in 0 .. 1 :
     \/ /\ ~ enabled
        /\ UNCHANGED <<enabled, ctxVars, faults>>
     \/ /\ enabled /\ ~ edfi_onfdp_default(b, rand)
        /\ fault_fdp_count' = IF edfi_onfdp_min_fdp_interval THEN fault_fdp_count
                              ELSE fault_fdp_count + 1
        /\ enabled' = (enabled /\ (UntilTime(b, rand) => edfi_onfdp_max_time))
        /\ UNCHANGED <<fault_time, start_time, total_faults, bb_num_executions, faults>>
     \/ /\ enabled /\ edfi_onfdp_default(b, rand)
        /\ edfi_onfdp_min_fdp_interval_update
        /\ fault_time' = IF conf.min_fault_time_interval > 0 THEN clock ELSE fault_time
        /\ bb_num_executions' = [bb_num_executions EXCEPT ![b] = @ + 1]
        /\ total_faults' = total_faults + bb_num_faults[b]
        /\ faults' = Append(faults, [fdp |-> fdps, time |-> clock, block |-> b, conf |-> conf])
        /\ UNCHANGED <<enabled, start_time>>
    BY <1>7, Zenon DEF Fdp
  <2>3. CmdInv'
    BY Zenon, <1>0, <2>1 DEF CmdInv
  <2>4. /\ faults \in Seq(Faults) /\ fdps \in Nat /\ fault_fdp_count \in Nat
        /\ total_faults \in Nat /\ bb_num_executions \in [BasicBlocks -> Nat]
        /\ clock \in Nat /\ fault_time \in Nat /\ bb_num_faults[b] \in Nat
    BY Zenon, <1>0 DEF RuntimeType, RuntimeConfigured
  <2>5. ASSUME fault_fdp_count' \in {fault_fdp_count, fault_fdp_count + 1},
               enabled' \in BOOLEAN,
               UNCHANGED <<fault_time, start_time, total_faults, bb_num_executions, faults>>
        PROVE  RuntimeInv'
    <3>1. RuntimeType'
      BY <1>0, <2>1, <2>4, <2>5 DEF RuntimeType
    <3>2. FdpCountInv'
      <4> SUFFICES ASSUME faults # <<>>
                   PROVE  fault_fdp_count' <= fdps' - faults[Len(faults)].fdp
        BY Zenon, <2>5 DEF FdpCountInv
      <4>1. faults[Len(faults)].fdp \in Nat
        <5>1. Len(faults) \in 1 .. Len(faults)
          BY <2>4
        <5>2. faults[Len(faults)] \in Faults
          BY <2>4, <5>1
        <5> QED BY Zenon, <5>2 DEF Faults
      <4>2. fault_fdp_count <= fdps - faults[Len(faults)].fdp
        BY Zenon, <1>0 DEF FdpCountInv
      <4> QED BY <2>1, <2>4, <2>5, <4>1, <4>2
    <3>3. FdpsApart' /\ FaultsAreConfigured'
      BY Zenon, <1>0, <2>5 DEF FdpsApart, Apart, FaultsAreConfigured
    <3> QED BY Zenon, <2>3, <3>1, <3>2, <3>3 DEF RuntimeInv
  <2>6. CASE ~ enabled /\ UNCHANGED <<enabled, ctxVars, faults>>
    BY Zenon, <1>0, <2>5, <2>6 DEF RuntimeType
  <2>7. CASE /\ enabled /\ ~ edfi_onfdp_default(b, rand)
             /\ fault_fdp_count' = IF edfi_onfdp_min_fdp_interval THEN fault_fdp_count
                                   ELSE fault_fdp_count + 1
             /\ enabled' = (/\ enabled
                            /\ UntilTime(b, rand) => edfi_onfdp_max_time)
             /\ UNCHANGED <<fault_time, start_time, total_faults, bb_num_executions, faults>>
    <3>1. enabled' \in BOOLEAN
      BY <2>7, Zenon
    <3>2. fault_fdp_count' \in {fault_fdp_count, fault_fdp_count + 1}
      BY Zenon, <2>7
    <3> QED BY Zenon, <2>5, <2>7, <3>1, <3>2
  <2>8. CASE /\ enabled /\ edfi_onfdp_default(b, rand)
             /\ edfi_onfdp_min_fdp_interval_update
             /\ fault_time' = IF conf.min_fault_time_interval > 0 THEN clock ELSE fault_time
             /\ bb_num_executions' = [bb_num_executions EXCEPT ![b] = @ + 1]
             /\ total_faults' = total_faults + bb_num_faults[b]
             /\ faults' = Append(faults, [fdp |-> fdps, time |-> clock, block |-> b,
                                          conf |-> conf])
             /\ UNCHANGED <<enabled, start_time>>
    <3> DEFINE f == [fdp |-> fdps, time |-> clock, block |-> b, conf |-> conf]
    <3>1. f \in Faults /\ f.fdp = fdps
      BY Zenon, <1>a, <2>4 DEF Faults
    <3>2. /\ edfi_onfdp_min_fdp_interval /\ edfi_onfdp_bb_index(b)
          /\ SomeLimit
      BY Zenon, <2>8 DEF edfi_onfdp_default, UntilTime
    <3>3. faults' = Append(faults, f) /\ fault_fdp_count' = 1
      BY Zenon, <2>8 DEF edfi_onfdp_min_fdp_interval_update
    <3>4. FdpsApart' /\ FaultsAreConfigured'
      BY Zenon, <3>1, <3>2, <3>3, FaultKeepsApart
    <3> HIDE DEF f
    <3>5. faults' \in Seq(Faults) /\ faults'[Len(faults')] = f
      BY <2>4, <3>1, <3>3
    <3>6. FdpCountInv'
      BY <2>1, <2>4, <3>1, <3>3, <3>5 DEF FdpCountInv
    <3>7. bb_num_executions' \in [BasicBlocks -> Nat]
      BY <2>4, <2>8
    <3>8. RuntimeType'
      BY SMTT(30), <1>0, <2>1, <2>4, <2>8, <3>3, <3>5, <3>7 DEF RuntimeType
    <3> QED BY Zenon, <2>3, <3>4, <3>6, <3>8 DEF RuntimeInv
  <2> QED BY <2>2, <2>6, <2>7, <2>8, Zenon
<1>8. CASE UNCHANGED runtimeVars
  <2>1. RuntimeType' /\ CmdInv' /\ FdpCountInv'
    BY Zenon, <1>0, <1>8 DEF RuntimeType, CmdInv, FdpCountInv
  <2>2. FdpsApart' /\ FaultsAreConfigured'
    BY Zenon, <1>0, <1>8 DEF FdpsApart, Apart, FaultsAreConfigured
  <2> QED BY Zenon, <2>1, <2>2 DEF RuntimeInv
<1> QED
  BY <1>1, <1>2, <1>3, <1>4, <1>5, <1>6, <1>7, <1>8, Zenon
    DEF RuntimeNext

\* For any limits, blocks and sequence of commands of a server that handles
\* them between requests: two faulty blocks under one configuration are at
\* least min_fdp_interval decision points apart, and a fault is injected only
\* under some limit and into the block the configuration names.
THEOREM FaultsAreApart ==
  ASSUME RuntimeConfigured, Between
  PROVE  RuntimeSpec => []FaultsAreDue /\ []RuntimeTypeOK
<1>1. RuntimeInit => RuntimeInv
  BY Zenon, InitRuntime
<1>2. RuntimeInv /\ [RuntimeNext]_runtimeVars => RuntimeInv'
  BY Zenon, NextRuntime
<1>3. RuntimeInv => FaultsAreDue /\ RuntimeTypeOK
  <2> SUFFICES ASSUME RuntimeInv PROVE FaultsAreDue /\ RuntimeTypeOK
    OBVIOUS
  <2>1. cmd \in Seq({"update", "enable", "onstart", "disable"})
    <3>1. PICK S : S = {"update", "enable", "onstart", "disable"}
      BY Zenon
    <3>2. <<"update", "enable", "onstart">> \in Seq(S) /\ <<"enable", "onstart">> \in Seq(S)
      BY <3>1
    <3>3. /\ <<>> \in Seq(S) /\ <<"onstart">> \in Seq(S) /\ <<"disable">> \in Seq(S)
          /\ <<"update">> \in Seq(S)
      BY <3>1
    <3> QED BY <3>1, <3>2, <3>3, Zenon DEF RuntimeInv, CmdInv
  <2> QED BY Zenon, <2>1 DEF RuntimeInv, RuntimeType, FaultsAreDue, RuntimeTypeOK
<1> QED BY <1>1, <1>2, <1>3, PTL DEF RuntimeSpec

-----------------------------------------------------------------------------
(* The request of a command line.                                          *)

\* While nothing failed, the options so far were parsed and, unless a value
\* was negative, the request has all of them; no one connects after a failure.
ArgsInv ==
  /\ ArgsTypeOK
  /\ ret = "ok" => Parsed(given)
  /\ pc \notin {"options", "usage"} => ret = "ok"
  /\ ret = "ok" /\ NoneNegative(given) => \A i \in DOMAIN given : Carries(given[i][1])

LEMMA InitArgs ==
  ASSUME ArgsInit
  PROVE  ArgsInv
<1>1. todo \in Seq(Options \X Values)
  <2>1. PICK n \in 0 .. MaxOptions : todo \in [1 .. n -> Options \X Values]
    BY Zenon DEF ArgsInit
  <2> QED BY <2>1
<1>2. given \in Seq(Options \X Values)
  <2>1. <<>> \in Seq(Options \X Values)
    OBVIOUS
  <2> QED BY Zenon, <2>1 DEF ArgsInit
<1>3. ArgsTypeOK
  BY <1>1, <1>2, Zenon DEF ArgsInit, ArgsTypeOK
<1> QED BY <1>3 DEF ArgsInit, ArgsInv, Parsed

\* The next option is parsed.
LEMMA OptionStep ==
  ASSUME ArgsInv, Option
  PROVE  ArgsInv'
<1>0. todo \in Seq(Options \X Values) /\ todo # <<>>
  BY Zenon DEF ArgsInv, ArgsTypeOK, Option
<1>1. PICK o \in Options, v \in Values : Head(todo) = <<o, v>>
  <2>1. Head(todo) \in Options \X Values
    BY Zenon, <1>0, HeadTailProperties
  <2> QED BY <2>1
<1>2. /\ todo \in Seq(Options \X Values) /\ todo # <<>> /\ given \in Seq(Options \X Values)
      /\ ret = "ok" /\ pc = "options" /\ pc' = "options"
      /\ todo' = Tail(todo) /\ given' = Append(given, <<o, v>>)
  BY Zenon, <1>1 DEF ArgsInv, ArgsTypeOK, Option
<1>3. \/ o \in DOMAIN Fields /\ (parse_context_int(o, v) \/ parse_context_uint(o, v))
      \/ parse_params(o, v)
      \/ UnknownOption(o)
  <2>1. Head(todo)[1] = o /\ Head(todo)[2] = v
    BY <1>1
  <2> QED BY Zenon, <2>1 DEF Option
<1>4. todo' \in Seq(Options \X Values) /\ given' \in Seq(Options \X Values)
  BY <1>2
<1>5. ArgsTypeOK'
  BY Zenon, <1>2, <1>3, <1>4
    DEF ArgsInv, ArgsTypeOK, parse_context_int, parse_context_uint, parse_params,
        UnknownOption, SetsField
<1>6. /\ DOMAIN given' = DOMAIN given \cup {Len(given) + 1} /\ given'[Len(given) + 1] = <<o, v>>
      /\ \A i \in DOMAIN given : given'[i] = given[i]
  BY <1>2
<1>7. ret' = "ok" => v # "bad" /\ o # "unknown"
  BY Zenon, <1>3
    DEF Fields, parse_context_int, parse_context_uint, parse_params, UnknownOption
<1>8. ret' = "ok" => Parsed(given')
  BY <1>2, <1>6, <1>7 DEF ArgsInv, Parsed
<1>9. ASSUME ret' = "ok", NoneNegative(given')
      PROVE  (\A i \in DOMAIN given : Carries(given[i][1]))'
  <2>1. NoneNegative(given) /\ v # "negative"
    BY <1>6, <1>9 DEF NoneNegative
  <2>2. \A x : Carries(x) => Carries(x)'
    BY <1>3, <1>9, <2>1
      DEF Carries, parse_context_int, parse_context_uint, parse_params, UnknownOption,
          SetsField
  <2>3. Carries(o)'
    <3>1. CASE o \in DOMAIN Fields /\ parse_context_int(o, v)
      BY Zenon, <1>9, <2>1, <3>1 DEF Carries, Fields, parse_context_int, SetsField
    <3>2. CASE o \in DOMAIN Fields /\ parse_context_uint(o, v)
      BY Zenon, <1>9, <2>1, <3>2 DEF Carries, Fields, parse_context_uint, SetsField
    <3>3. CASE parse_params(o, v)
      BY Zenon, <1>9, <3>3 DEF Carries, Fields, parse_params
    <3>4. ~ UnknownOption(o)
      BY Zenon, <1>9 DEF UnknownOption
    <3> QED BY Zenon, <1>3, <3>1, <3>2, <3>3, <3>4
  <2>4. \A i \in DOMAIN given : Carries(given[i][1])'
    BY Zenon, <1>2, <1>6, <2>1, <2>2 DEF ArgsInv
  <2> QED BY <1>6, <2>3, <2>4
<1> QED BY Zenon, <1>2, <1>5, <1>8, <1>9 DEF ArgsInv

LEMMA NextArgs ==
  ASSUME ArgsInv, [ArgsNext]_argsVars
  PROVE  ArgsInv'
<1>1. CASE Option
  BY Zenon, <1>1, OptionStep
<1>2. CASE Arguments \/ ClientSend
  BY Zenon, <1>2
    DEF Arguments, ClientSend, ArgsInv, ArgsTypeOK, Parsed, NoneNegative, Carries
<1>3. CASE Done \/ UNCHANGED argsVars
  BY Zenon, <1>3 DEF Done, argsVars, ArgsInv, ArgsTypeOK, Parsed, NoneNegative, Carries
<1> QED BY Zenon, <1>1, <1>2, <1>3 DEF ArgsNext

\* For any number of options and any values: nothing is sent of a command line
\* that could not be parsed, and what is sent carries every option given, in
\* whatever order and however often, when no value is negative (parse_args).
THEOREM RequestsAreGiven == ArgsSpec => []SentIsGiven
<1>1. ArgsInit => ArgsInv
  BY Zenon, InitArgs
<1>2. ArgsInv /\ [ArgsNext]_argsVars => ArgsInv'
  BY Zenon, NextArgs
<1>3. ArgsInv => SentIsGiven
  BY Zenon DEF ArgsInv, SentIsGiven
<1> QED BY <1>1, <1>2, <1>3, PTL DEF ArgsSpec
=============================================================================
