----------------------------- MODULE MCSupport -----------------------------
(***************************************************************************)
(* Support code of the run-time libraries: the window profiler, and of the *)
(* utility library the command server, the condition variable, the parser  *)
(* of process maps and their comparison.  The variable part says which of  *)
(* them a behaviour is about; the others rest, the command server in one   *)
(* initial state and the variables of the rest at 0.                       *)
(***************************************************************************)
EXTENDS CommandServer, WindowProfile, Naturals, Sequences

SomeSends == [f \in Funcs |-> CASE f = "main" -> "no" [] f = "_ipc_send" -> "s" [] OTHER -> "k"]

VARIABLES
  part,
  var, mutex, asleep, pc, wants, timed, ret, file, i, answers, entries, num_entries,
  capacity, first, last, info, count, maps, maps2, differs, flags, lo, hi

Broadcast == INSTANCE CondVar WITH
  Waiters <- {"w1", "w2"}, Setters <- {"s1", "s2"}, Values <- 0 .. 2,
  Broadcasts <- TRUE
Signal == INSTANCE CondVar WITH
  Waiters <- {"w1"}, Setters <- {"s1", "s2"}, Values <- 0 .. 2, Broadcasts <- FALSE

Parser == INSTANCE ProcMaps WITH
  Kinds <- {"text", "anon", "lib"}, MaxLines <- 3, Pages <- 2, Names <- {"a", "b"},
  Flags <- {{}, {"no_entry", "name", "range", "mismatch"}}

Diff == INSTANCE ProcMaps WITH
  Kinds <- {"text", "anon", "lib"}, MaxLines <- 3, Pages <- 2, Names <- {"a", "b"},
  Flags <- {{}, {"no_entry", "name", "range", "mismatch"}}

condVars == <<var, mutex, asleep, wants, timed>>
parserVars == <<file, answers, entries, num_entries, capacity, first, last, info,
  count>>
diffVars == <<maps, maps2, differs, flags, lo, hi>>

partVars == <<part, vars, profileVars, pc, ret, i, condVars, parserVars, diffVars>>

CondIdle == var = 0 /\ mutex = 0 /\ asleep = 0 /\ wants = 0 /\ timed = 0
ParserIdle == file = 0 /\ answers = 0 /\ entries = 0 /\ num_entries = 0 /\ capacity = 0 /\
    first = 0 /\ last = 0 /\ info = 0 /\ count = 0
DiffIdle == maps = 0 /\ maps2 = 0 /\ differs = 0 /\ flags = 0 /\ lo = 0 /\ hi = 0
MainIdle == Init /\ max_threads_reached = FALSE /\ asked = 0
ProfileIdle == ProfileInit /\ suicide_on_window_close = FALSE

PartInit ==
  \/ /\ part = "Server" /\ Init
     /\ ProfileIdle /\ pc = 0 /\ ret = 0 /\ i = 0 /\ CondIdle /\ ParserIdle /\
        DiffIdle
  \/ /\ part = "Profile" /\ ProfileInit
     /\ MainIdle /\ pc = 0 /\ ret = 0 /\ i = 0 /\ CondIdle /\ ParserIdle /\ DiffIdle
  \/ /\ \/ part = "Broadcast" /\ Broadcast!Init
        \/ part = "Signal" /\ Signal!Init
     /\ MainIdle /\ ProfileIdle /\ i = 0 /\ ParserIdle /\ DiffIdle
  \/ /\ part = "Parser" /\ Parser!Init
     /\ MainIdle /\ ProfileIdle /\ CondIdle /\ DiffIdle
  \/ /\ part = "Diff" /\ Diff!DInit
     /\ MainIdle /\ ProfileIdle /\ CondIdle /\ ParserIdle

PartNext ==
  \/ /\ part = "Server" /\ Next
     /\ UNCHANGED <<part, profileVars, pc, ret, i, condVars, parserVars, diffVars>>
  \/ /\ part = "Profile" /\ ProfileNext
     /\ UNCHANGED <<part, vars, pc, ret, i, condVars, parserVars, diffVars>>
  \/ /\ \/ part = "Broadcast" /\ Broadcast!Next
        \/ part = "Signal" /\ Signal!Next
     /\ UNCHANGED <<part, vars, profileVars, i, parserVars, diffVars>>
  \/ /\ part = "Parser" /\ Parser!Next
     /\ UNCHANGED <<part, vars, profileVars, condVars, diffVars>>
  \/ /\ part = "Diff" /\ Diff!DNext
     /\ UNCHANGED <<part, vars, profileVars, condVars, parserVars>>

\* Both threads of the command server are scheduled; a pending connection is
\* accepted at last, and a cancelled thread dies where it can.  Threads of the
\* condition variable run and get the mutex; that a wait ends by itself is not
\* promised.
Serving == part = "Server"
GetsMutex(t) ==
  \/ part = "Broadcast" /\ Broadcast!Lock(t)
  \/ part = "Signal" /\ t # "w2" /\ Signal!Lock(t)
Runs(t) ==
  \/ part = "Broadcast" /\ Broadcast!Step(t)
  \/ part = "Signal" /\ t # "w2" /\ Signal!Step(t)
Fairness ==
  /\ WF_vars(Serving /\ util_cmdsvr_init)
  /\ WF_vars(Serving /\ WaitStartup)
  /\ WF_vars(Serving /\ Cancel)
  /\ WF_vars(Serving /\ util_cmdsvr_close_child)
  /\ SF_vars(Serving /\ Accept /\ thread' = "recv")
  /\ WF_vars(Serving /\ Cancelled)
  /\ WF_vars(Serving /\ (\/ Receive \/ SendAck \/ TakeConn
                                  \/ CloseConn \/ CountStartup))
  /\ \A t \in {"w1", "w2", "s1", "s2"} : SF_(Broadcast!vars)(GetsMutex(t)) /\ WF_(Broadcast!vars)(Runs(t))

PartSpec == PartInit /\ [][PartNext]_partVars /\ Fairness

-----------------------------------------------------------------------------
(* Properties.                                                             *)


Waiting == part \in {"Broadcast", "Signal"}

\* A waiter for the value that stays at last returns, one of several when the
\* setters broadcast and the only one when they signal: no wake-up is lost
\* (util_cond_var_wait).  The waiters are alike; w1 stands for all.
WaitersReturn ==
  /\ [](part = "Broadcast" => Broadcast!TypeOK) /\ [](part = "Signal" => Signal!TypeOK)
  /\ <>[](Waiting /\ var = wants["w1"]) => <>(Waiting /\ pc["w1"] = "done")


=============================================================================
