--------------------------- MODULE SupportProofs ---------------------------
(***************************************************************************)
(* TLAPS proofs about two parts that run inside every instrumented         *)
(* program: CommandServer, which closes no descriptor twice whenever its   *)
(* thread is cancelled, and WindowProfile, whose counts per function add   *)
(* up to its totals. The lemmas on sums are those of CountProofs.          *)
(***************************************************************************)
EXTENDS CommandServer, WindowProfile, CountProofs

-----------------------------------------------------------------------------
(* The command server.                                                     *)

\* Descriptors of connections are not 0, which conn_fd holds for none.
Descriptors == 0 \notin Conns /\ StartupRequests \in Nat

Places == {"none", "accept", "recv", "send", "close", "loop_end", "count", "dead"}
Open(c) == conn[c] = "open"

\* Who cancels whom: only a main thread that joins has a dead thread.
ThreadsInv ==
  /\ thread \in Places /\ cancelled \in BOOLEAN /\ max_threads_reached \in BOOLEAN
  /\ cancelled => main \in {"join", "done"}
  /\ thread = "dead" => main \in {"join", "done"}
  /\ main = "done" => thread = "dead"
  /\ main = "init" => thread = "none"

\* The shared descriptor is an open connection until the thread takes it,
\* and the one the thread takes is open until it closes it.
HoldInv ==
  /\ thread \in {"none", "accept", "count", "close"} => conn_fd = 0
  /\ thread \in {"recv", "send", "loop_end"} => conn_fd # 0
  /\ conn_fd # 0 /\ main # "done" => Open(conn_fd)
  /\ thread = "close" => fd # 0 /\ Open(fd)

\* One connection is served at a time.
OneOpen ==
  /\ \A c, d \in Conns : Open(c) /\ Open(d) => c = d
  /\ thread \in {"none", "accept", "count"} => \A c \in Conns : ~ Open(c)

CommandInv == TypeOK /\ ThreadsInv /\ HoldInv /\ OneOpen /\ NotClosedTwice

-----------------------------------------------------------------------------

\* Closing an open connection breaks nobody's file.
LEMMA CloseOpen ==
  ASSUME TypeOK, NotClosedTwice, NEW c \in Conns, Open(c), Close(c)
  PROVE  /\ conn' \in [Conns -> {"none", "queued", "open", "closed", "reused", "broken"}]
         /\ conn'[c] \in {"closed", "reused"}
         /\ \A d \in Conns : d # c => conn'[d] = conn[d]
BY Zenon DEF Open, Close, Closed, TypeOK

\* The server starts without a thread and without connections.
LEMMA InitCommand == ASSUME Descriptors, Init PROVE CommandInv
<1>1. TypeOK
  BY Zenon DEF Descriptors, Init, TypeOK
<1> QED
  BY Zenon, <1>1
    DEF Init, CommandInv, ThreadsInv, Places, HoldInv, OneOpen, Open, NotClosedTwice

\* Every step of the thread keeps the invariant.
LEMMA ServeCommand ==
  ASSUME Descriptors, CommandInv, Serve
  PROVE  CommandInv'
<1>0. TypeOK /\ ThreadsInv /\ HoldInv /\ OneOpen /\ NotClosedTwice
  BY Zenon DEF CommandInv
<1> USE DEF ThreadOnly, Thread, conf
<1>1. CASE Cancelled
  BY Zenon, <1>0, <1>1 DEF Cancelled, CommandInv, TypeOK, ThreadsInv, Places, HoldInv, OneOpen, Open,
     NotClosedTwice
<1>2. CASE Accept
  <2>1. CASE /\ Thread("accept", "accept") /\ conn_fd' = 0 /\ UNCHANGED conn
    BY Zenon, <1>0, <1>2, <2>1 DEF Accept, CommandInv, TypeOK, ThreadsInv, Places, HoldInv, OneOpen,
       Open, NotClosedTwice
  <2>2. ASSUME NEW c \in Conns, conn[c] = "queued", conn' = [conn EXCEPT ![c] = "open"],
               Thread("accept", "recv"), conn_fd' = c
        PROVE  CommandInv'
    <3>1. UNCHANGED <<main, cancelled, max_threads_reached, num_startup_requests, fd, acked>>
      BY Zenon, <1>2 DEF Accept
    <3>2. conn'[c] = "open" /\ \A d \in Conns : d # c => conn'[d] = conn[d]
      BY Zenon, <1>0, <2>2 DEF TypeOK
    <3>3. \A d \in Conns : ~ Open(d)
      BY Zenon, <1>0, <2>2 DEF OneOpen
    <3>4. TypeOK'
      BY Zenon, <1>0, <2>2, <3>1 DEF TypeOK
    <3>5. ThreadsInv'
      BY Zenon, <1>0, <2>2, <3>1 DEF ThreadsInv, Places
    <3>6. HoldInv'
      BY Zenon, <2>2, <3>2 DEF Descriptors, HoldInv, Open
    <3>7. OneOpen' /\ NotClosedTwice'
      BY Zenon, <1>0, <2>2, <3>2, <3>3 DEF OneOpen, Open, NotClosedTwice
    <3> QED BY Zenon, <3>4, <3>5, <3>6, <3>7 DEF CommandInv
  <2> QED BY <1>2, <2>1, <2>2, Zenon DEF Accept
<1>3. CASE Receive
  BY Zenon, <1>0, <1>3 DEF Receive, CommandInv, TypeOK, ThreadsInv, Places, HoldInv, OneOpen, Open,
     NotClosedTwice
<1>4. CASE SendAck
  <2>1. conn_fd \in Conns
    BY Zenon, <1>0, <1>4 DEF SendAck, HoldInv, TypeOK
  <2>2. TypeOK'
    BY Zenon, <1>0, <1>4, <2>1 DEF SendAck, TypeOK
  <2> QED BY Zenon, <1>0, <1>4, <2>2 DEF SendAck, CommandInv, ThreadsInv, Places, HoldInv, OneOpen,
          Open, NotClosedTwice
<1>5. CASE TakeConn
  <2>1. conn_fd # 0 /\ Open(conn_fd)
    BY Zenon, <1>0, <1>5 DEF TakeConn, HoldInv, ThreadsInv
  <2> QED BY Zenon, <1>0, <1>5, <2>1 DEF TakeConn, CommandInv, TypeOK, ThreadsInv, Places, HoldInv,
          OneOpen, Open, NotClosedTwice
<1>6. CASE CloseConn
  <2>1. fd \in Conns /\ Open(fd) /\ conn_fd = 0
    BY Zenon, <1>0, <1>6 DEF CloseConn, HoldInv, TypeOK
  <2>2. UNCHANGED <<max_threads_reached, main, cancelled, num_startup_requests, conn_fd, fd,
                    acked>>
    BY Zenon, <1>6 DEF CloseConn
  <2>3. Close(fd) /\ thread = "close" /\ thread' = "count"
    BY Zenon, <1>6 DEF CloseConn
  <2>4. /\ conn' \in [Conns -> {"none", "queued", "open", "closed", "reused", "broken"}]
        /\ conn'[fd] \in {"closed", "reused"}
        /\ \A d \in Conns : d # fd => conn'[d] = conn[d]
    BY Zenon, <1>0, <2>1, <2>3, CloseOpen
  <2>5. \A d \in Conns : conn'[d] # "open" /\ conn'[d] # "broken"
    BY Zenon, <1>0, <2>1, <2>4 DEF OneOpen, Open, NotClosedTwice
  <2>6. TypeOK'
    BY Zenon, <1>0, <2>2, <2>4 DEF TypeOK
  <2>7. ThreadsInv' /\ HoldInv'
    BY Zenon, <1>0, <2>1, <2>2, <2>3 DEF ThreadsInv, Places, HoldInv
  <2>8. OneOpen' /\ NotClosedTwice'
    BY Zenon, <2>5 DEF OneOpen, Open, NotClosedTwice
  <2> QED BY Zenon, <2>6, <2>7, <2>8 DEF CommandInv
<1>7. CASE CountStartup
  <2>1. TypeOK'
    BY <1>0, <1>7 DEF Descriptors, CountStartup, TypeOK
  <2> QED BY Zenon, <1>0, <1>7, <2>1 DEF CountStartup, CommandInv, ThreadsInv, Places, HoldInv,
          OneOpen, Open, NotClosedTwice
<1> QED BY Zenon, <1>1, <1>2, <1>3, <1>4, <1>5, <1>6, <1>7 DEF Serve

\* Every step of the main thread keeps it.
LEMMA ControlCommand ==
  ASSUME Descriptors, CommandInv, Control
  PROVE  CommandInv'
<1>0. TypeOK /\ ThreadsInv /\ HoldInv /\ OneOpen /\ NotClosedTwice
  BY Zenon DEF CommandInv
<1> USE DEF MainOnly, Main, conf
<1>1. CASE util_cmdsvr_init
  BY Zenon, <1>0, <1>1 DEF util_cmdsvr_init, CommandInv, TypeOK, ThreadsInv, Places, HoldInv, OneOpen,
     Open, NotClosedTwice
<1>2. CASE WaitStartup
  BY Zenon, <1>0, <1>2 DEF WaitStartup, CommandInv, TypeOK, ThreadsInv, Places, HoldInv, OneOpen, Open,
     NotClosedTwice
<1>3. CASE CloseServer
  BY Zenon, <1>0, <1>3 DEF CloseServer, CommandInv, TypeOK, ThreadsInv, Places, HoldInv, OneOpen, Open,
     NotClosedTwice
<1>4. CASE Cancel
  BY Zenon, <1>0, <1>4 DEF Cancel, CommandInv, TypeOK, ThreadsInv, Places, HoldInv, OneOpen, Open,
     NotClosedTwice
<1>5. CASE util_cmdsvr_close_child
  <2>1. CASE conn_fd = 0
    BY Zenon, <1>0, <1>5, <2>1 DEF util_cmdsvr_close_child, CommandInv, TypeOK, ThreadsInv, Places,
       HoldInv, OneOpen, Open, NotClosedTwice
  <2>2. CASE conn_fd # 0
    <3>1. conn_fd \in Conns /\ Open(conn_fd) /\ Close(conn_fd)
      BY Zenon, <1>0, <1>5, <2>2 DEF util_cmdsvr_close_child, HoldInv, TypeOK
    <3>2. /\ conn' \in [Conns -> {"none", "queued", "open", "closed", "reused", "broken"}]
          /\ conn'[conn_fd] \in {"closed", "reused"}
          /\ \A d \in Conns : d # conn_fd => conn'[d] = conn[d]
      BY Zenon, <1>0, <3>1, CloseOpen
    <3>3. \A d \in Conns : conn'[d] # "open" /\ conn'[d] # "broken"
      BY Zenon, <1>0, <3>1, <3>2 DEF OneOpen, Open, NotClosedTwice
    <3>4. TypeOK'
      BY Zenon, <1>0, <1>5, <3>2 DEF util_cmdsvr_close_child, TypeOK
    <3>5. ThreadsInv' /\ HoldInv'
      BY Zenon, <1>0, <1>5 DEF util_cmdsvr_close_child, ThreadsInv, Places, HoldInv
    <3>6. OneOpen' /\ NotClosedTwice'
      BY Zenon, <3>3 DEF OneOpen, Open, NotClosedTwice
    <3> QED BY Zenon, <3>4, <3>5, <3>6 DEF CommandInv
  <2> QED BY Zenon, <2>1, <2>2
<1> QED BY Zenon, <1>1, <1>2, <1>3, <1>4, <1>5 DEF Control

\* A client that connects keeps it.
LEMMA ClientCommand ==
  ASSUME Descriptors, CommandInv, NEW c \in Conns, Client(c)
  PROVE  CommandInv'
<1>0. TypeOK /\ ThreadsInv /\ HoldInv /\ OneOpen /\ NotClosedTwice
  BY Zenon DEF CommandInv
<1>1. /\ conn[c] = "none" /\ conn'[c] = "queued"
      /\ \A d \in Conns : d # c => conn'[d] = conn[d]
      /\ UNCHANGED <<max_threads_reached, main, thread, cancelled, num_startup_requests,
                     conn_fd, fd, acked>>
  BY Zenon, <1>0 DEF Client, conf, TypeOK
<1>2. TypeOK'
  BY Zenon, <1>0 DEF Client, conf, TypeOK
<1>3. ThreadsInv'
  BY Zenon, <1>0, <1>1 DEF ThreadsInv
<1>4. HoldInv'
  BY Zenon, <1>0, <1>1 DEF HoldInv, Open, TypeOK
<1>5. OneOpen' /\ NotClosedTwice'
  BY Zenon, <1>0, <1>1 DEF OneOpen, Open, NotClosedTwice
<1> QED BY Zenon, <1>2, <1>3, <1>4, <1>5 DEF CommandInv

\* A set in which no two members differ has at most one.
LEMMA AtMostOne ==
  ASSUME NEW S, \A c, d \in S : c = d
  PROVE  Cardinality(S) <= 1
<1>1. CASE S = {}
  BY <1>1, FS_EmptySet
<1>2. CASE S # {}
  <2>1. PICK c \in S : S = {c}
    BY Zenon, <1>2
  <2>2. Cardinality({c}) = 1
    BY Zenon, FS_Singleton
  <2>3. Cardinality(S) = 1
    BY <2>1, <2>2, Zenon
  <2> QED BY <2>3
<1> QED BY Zenon, <1>1, <1>2

\* For any number of clients and start-up requests, and wherever the thread
\* is when util_cmdsvr_close cancels it: no descriptor is closed twice, and
\* at most one connection is left open by the server.
THEOREM ConnectionsCloseOnce ==
  ASSUME Descriptors
  PROVE  Spec => []TypeOK /\ []ClosedOnce
<1>1. Init => CommandInv
  BY Zenon, InitCommand
<1>2. CommandInv /\ [Next]_vars => CommandInv'
  <2> SUFFICES ASSUME CommandInv, [Next]_vars PROVE CommandInv'
    OBVIOUS
  <2>1. CASE Serve
    BY Zenon, <2>1, ServeCommand
  <2>2. CASE Control
    BY Zenon, <2>2, ControlCommand
  <2>3. ASSUME NEW c \in Conns, Client(c) PROVE CommandInv'
    BY Zenon, <2>3, ClientCommand
  <2>4. CASE UNCHANGED vars
    BY Zenon, <2>4
      DEF vars, conf, CommandInv, TypeOK, ThreadsInv, HoldInv, OneOpen, Open,
        NotClosedTwice
  <2> QED BY Zenon, <2>1, <2>2, <2>3, <2>4 DEF Next
<1>3. CommandInv => TypeOK /\ ClosedOnce
  <2> SUFFICES ASSUME CommandInv PROVE LeftOpen
    BY Zenon DEF CommandInv, ClosedOnce
  <2>1. \A c, d \in {x \in Conns : conn[x] = "open"} : c = d
    BY Zenon DEF CommandInv, OneOpen, Open
  <2> QED BY Zenon, <2>1, AtMostOne DEF LeftOpen
<1> QED BY <1>1, <1>2, <1>3, PTL DEF Spec

\* Every variable of the command server keeps its type; the count of start-up
\* requests stays within 0 and the number asked for.
THEOREM CommandTypesHold ==
  ASSUME Descriptors
  PROVE  Spec => []TypeOK
BY ConnectionsCloseOnce, PTL

-----------------------------------------------------------------------------
(* The profile of recovery windows.                                        *)

Slots == [1 .. MAXFUNCS -> [name : Funcs \cup {Free}, stats : Sets]]

\* One counter of all slots.
Column(slots, pol, field) == [i \in 1 .. MAXFUNCS |-> slots[i].stats[pol][field]]

LEMMA ColumnIsNat ==
  ASSUME NEW slots \in Slots, NEW pol \in Policies, NEW field \in Counters, NEW i \in 1 .. MAXFUNCS
  PROVE  slots[i].stats[pol][field] \in Nat /\ Column(slots, pol, field)[i] = slots[i].stats[pol][field]
<1>1. slots[i].stats \in Sets
  BY Zenon DEF Slots
<1> QED BY Zenon, <1>1 DEF Sets, Column

\* The sum of the property is the sum of the column.
LEMMA SumOfColumn ==
  ASSUME NEW pol, NEW field, NEW slots
  PROVE  Cardinality(UNION {{i} \X (1 .. slots[i].stats[pol][field]) : i \in 1 .. MAXFUNCS})
           = Sum(Column(slots, pol, field), 1 .. MAXFUNCS)
<1>1. \A i \in 1 .. MAXFUNCS : slots[i].stats[pol][field] = Column(slots, pol, field)[i]
  BY Zenon DEF Column
<1>2. {{i} \X (1 .. slots[i].stats[pol][field]) : i \in 1 .. MAXFUNCS}
        = {{i} \X (1 .. Column(slots, pol, field)[i]) : i \in 1 .. MAXFUNCS}
  BY Zenon, <1>1
<1> QED BY Zenon, <1>2 DEF Sum, Units

\* One slot counts d more, or none (k = 0).
GrowsAt(old, new, pol, field, k, d) ==
  \A i \in 1 .. MAXFUNCS : new[i].stats[pol][field]
                             = old[i].stats[pol][field] + (IF i = k THEN d ELSE 0)
TotalGrows(old, new, pol, field, k, d) ==
  /\ Sum(Column(old, pol, field), 1 .. MAXFUNCS) \in Nat
  /\ Sum(Column(new, pol, field), 1 .. MAXFUNCS)
       = Sum(Column(old, pol, field), 1 .. MAXFUNCS) + (IF k = 0 THEN 0 ELSE d)

LEMMA ColumnGrows ==
  ASSUME NEW old \in Slots, NEW new \in Slots, NEW pol \in Policies, NEW field \in Counters,
         NEW k \in 0 .. MAXFUNCS, NEW d \in Nat, GrowsAt(old, new, pol, field, k, d)
  PROVE  TotalGrows(old, new, pol, field, k, d)
<1>1. MAXFUNCS \in Nat
  BY Zenon, ProfileConstants
<1>2. PICK S : S = 1 .. MAXFUNCS
  BY Zenon
<1>3. IsFiniteSet(S)
  BY <1>1, <1>2, FS_Interval
<1>4. PICK f : f = Column(old, pol, field)
  BY Zenon
<1>5. PICK g : g = Column(new, pol, field)
  BY Zenon
<1>6. \A i \in S : f[i] \in Nat /\ g[i] \in Nat /\ g[i] = f[i] + (IF i = k THEN d ELSE 0)
  BY <1>2, <1>4, <1>5, ColumnIsNat DEF GrowsAt
<1>7. Sum(f, S) \in Nat
  BY Zenon, <1>3, <1>6, SumIsNat
<1>8. CASE k = 0
  <2>1. \A i \in S : f[i] = g[i]
    BY <1>1, <1>2, <1>6, <1>8
  <2>2. Sum(f, S) = Sum(g, S)
    BY Zenon, <2>1, SumOfSame
  <2> QED BY <1>2, <1>4, <1>5, <1>7, <1>8, <2>2 DEF TotalGrows
<1>9. CASE k # 0
  <2>1. k \in S
    BY <1>1, <1>2, <1>9
  <2>2. (\A i \in S : f[i] \in Nat) /\ (\A i \in S : g[i] \in Nat)
    BY Zenon, <1>6
  <2>3. \A i \in S : i # k => f[i] = g[i]
    BY <1>6
  <2>4. Sum(g, S) = Sum(f, S) - f[k] + g[k]
    <3>1. Sum(f, S) = Sum(f, S \ {k}) + f[k] /\ Sum(f, S \ {k}) \in Nat
      BY Zenon, <1>3, <2>1, <2>2, SumOfLess
    <3>2. Sum(g, S) = Sum(g, S \ {k}) + g[k]
      BY Zenon, <1>3, <2>1, <2>2, SumOfLess
    <3>3. \A i \in S \ {k} : f[i] = g[i]
      BY Zenon, <2>3
    <3>4. Sum(f, S \ {k}) = Sum(g, S \ {k})
      BY Zenon, <3>3, SumOfSame
    <3> QED BY <2>1, <2>2, <3>1, <3>2, <3>4
  <2>5. g[k] = f[k] + d /\ f[k] \in Nat
    BY Zenon, <1>6, <2>1
  <2>6. Sum(g, S) = Sum(f, S) + d
    BY <1>7, <2>4, <2>5
  <2> QED BY Zenon, <1>2, <1>4, <1>5, <1>7, <1>9, <2>6 DEF TotalGrows
<1> QED BY Zenon, <1>8, <1>9

-----------------------------------------------------------------------------
\* What one addition changes.
Adds(new, set, pol, field, n) ==
  \A p \in Policies, q \in Counters :
    new[p][q] = set[p][q] + (IF p = pol /\ q = field THEN n ELSE 0)

\* Add is such an addition, and leaves a set of counters.
LEMMA AddIs ==
  ASSUME NEW set \in Sets, NEW pol \in Policies, NEW field \in Counters, NEW n \in Nat
  PROVE  \E new \in Sets : new = Add(set, pol, field, n) /\ Adds(new, set, pol, field, n)
<1>1. PICK row \in [Counters -> Nat] : row = [set[pol] EXCEPT ![field] = set[pol][field] + n]
  <2>1. set[pol] \in [Counters -> Nat] /\ set[pol][field] + n \in Nat
    BY DEF Sets
  <2> QED BY Zenon, <2>1
<1>2. Add(set, pol, field, n) = [set EXCEPT ![pol] = row]
  BY Zenon, <1>1 DEF Add
<1>3. \A q \in Counters : row[q] = set[pol][q] + (IF q = field THEN n ELSE 0)
  BY <1>1 DEF Sets
<1>4. \A p \in Policies, q \in Counters : set[p][q] \in Nat
  BY Zenon DEF Sets
<1>5. PICK new \in Sets : new = [set EXCEPT ![pol] = row]
  BY Zenon DEF Sets
<1>6. \A p \in Policies : new[p] = IF p = pol THEN row ELSE set[p]
  BY Zenon, <1>5 DEF Sets
<1>7. Adds(new, set, pol, field, n)
  BY <1>3, <1>4, <1>6 DEF Adds
<1> QED BY Zenon, <1>2, <1>5, <1>7

\* What the accounting of a block adds to a counter.
Counted(f, first, n, p, q) ==
  IF \/ p = "opt" /\ q = InOut(have_handled_message)
     \/ p = "pes" /\ q = InOut(PesNow(f, first))
     \/ p = "dfa" /\ q = InOut(DfaNow)
  THEN n ELSE 0

LEMMA CountBlockIs ==
  ASSUME NEW set \in Sets, NEW f, NEW first, NEW n \in Nat
  PROVE  /\ CountBlock(set, f, first, n) \in Sets
         /\ \A p \in Policies, q \in Counters :
              CountBlock(set, f, first, n)[p][q] = set[p][q] + Counted(f, first, n, p, q)
<1>1. PICK o \in Counters : o = InOut(have_handled_message)
  BY Zenon DEF InOut, Counters
<1>2. PICK e \in Counters : e = InOut(PesNow(f, first))
  BY Zenon DEF InOut, Counters
<1>3. PICK d \in Counters : d = InOut(DfaNow)
  BY Zenon DEF InOut, Counters
<1>4. "opt" \in Policies /\ "pes" \in Policies /\ "dfa" \in Policies
  BY Zenon DEF Policies
<1>5. PICK s1 \in Sets : s1 = Add(set, "opt", o, n) /\ Adds(s1, set, "opt", o, n)
  BY Zenon, <1>4, AddIs
<1>6. PICK s2 \in Sets : s2 = Add(s1, "pes", e, n) /\ Adds(s2, s1, "pes", e, n)
  BY Zenon, <1>4, AddIs
<1>7. PICK s3 \in Sets : s3 = Add(s2, "dfa", d, n) /\ Adds(s3, s2, "dfa", d, n)
  BY Zenon, <1>4, AddIs
<1>8. CountBlock(set, f, first, n) = s3
  BY Zenon, <1>1, <1>2, <1>3, <1>5, <1>6, <1>7 DEF CountBlock
<1>9. \A p \in Policies, q \in Counters : set[p][q] \in Nat
  BY Zenon DEF Sets
<1> QED BY <1>1, <1>2, <1>3, <1>5, <1>6, <1>7, <1>8, <1>9 DEF Counted, Adds

\* What blaming a slot, or none, adds.
Blames(new, slots, k, pol, n) ==
  \A i \in 1 .. MAXFUNCS :
    /\ new[i].name = slots[i].name
    /\ \A p \in Policies, q \in Counters : new[i].stats[p][q] = slots[i].stats[p][q]
         + (IF i = k /\ p = pol /\ q = "ended_cumulative" THEN n ELSE 0)

\* Blame adds that, and leaves slots.
LEMMA BlameIs ==
  ASSUME NEW slots \in Slots, NEW k \in 0 .. MAXFUNCS, NEW pol \in Policies, NEW n \in Nat
  PROVE  \E new \in Slots : new = Blame(slots, k, pol, n) /\ Blames(new, slots, k, pol, n)
<1>1. MAXFUNCS \in Nat /\ "ended_cumulative" \in Counters
  BY Zenon, ProfileConstants DEF Counters
<1>2. \A i \in 1 .. MAXFUNCS, p \in Policies, q \in Counters : slots[i].stats[p][q] \in Nat
  BY Zenon, ColumnIsNat
<1>3. CASE k = 0
  <2>1. Blame(slots, k, pol, n) = slots
    BY Zenon, <1>3 DEF Blame
  <2>2. Blames(slots, slots, k, pol, n)
    BY <1>1, <1>2, <1>3 DEF Blames
  <2> QED BY Zenon, <2>1, <2>2
<1>4. CASE k # 0
  <2>1. k \in 1 .. MAXFUNCS /\ slots[k] \in [name : Funcs \cup {Free}, stats : Sets]
    BY <1>1, <1>4 DEF Slots
  <2>a. PICK old \in Sets : old = slots[k].stats
    BY Zenon, <2>1
  <2>2. PICK set \in Sets : /\ set = Add(old, pol, "ended_cumulative", n)
                            /\ Adds(set, old, pol, "ended_cumulative", n)
    BY Zenon, <1>1, AddIs
  <2>3. Blame(slots, k, pol, n) = [slots EXCEPT ![k].stats = set]
    BY Zenon, <1>4, <2>a, <2>2 DEF Blame
  <2>4. PICK rec \in [name : Funcs \cup {Free}, stats : Sets] :
          /\ rec.name = slots[k].name /\ rec.stats = set
          /\ [slots EXCEPT ![k].stats = set] = [slots EXCEPT ![k] = rec]
    BY Zenon, <2>1, <2>2 DEF Slots
  <2>5. PICK new \in Slots : new = [slots EXCEPT ![k] = rec]
    BY Zenon DEF Slots
  <2>6. \A i \in 1 .. MAXFUNCS : new[i] = IF i = k THEN rec ELSE slots[i]
    BY Zenon, <2>5 DEF Slots
  <2>7. Blames(new, slots, k, pol, n)
    BY <1>2, <2>a, <2>2, <2>4, <2>6 DEF Blames, Adds
  <2> QED BY Zenon, <2>3, <2>4, <2>5, <2>7
<1> QED BY Zenon, <1>3, <1>4

\* A block blames two slots, one for each policy that keeps a closer.
BlamesBoth(a, c, i, o, h, n) ==
  /\ a[i].name = c[i].name
  /\ \A p \in Policies, q \in {"bb_in", "bb_out"} : a[i].stats[p][q] = c[i].stats[p][q]
  /\ a[i].stats["pes"]["ended_cumulative"]
       = c[i].stats["pes"]["ended_cumulative"] + (IF i = h THEN n ELSE 0)
  /\ a[i].stats["opt"]["ended_cumulative"]
       = c[i].stats["opt"]["ended_cumulative"] + (IF i = o THEN n ELSE 0)

LEMMA BlamedTwice ==
  ASSUME NEW c \in Slots, NEW b \in Slots, NEW a \in Slots, NEW o, NEW h, NEW n \in Nat,
         Blames(b, c, o, "opt", n), Blames(a, b, h, "pes", n), NEW i \in 1 .. MAXFUNCS
  PROVE  BlamesBoth(a, c, i, o, h, n)
<1>1. \A p \in Policies, q \in Counters : c[i].stats[p][q] \in Nat
  BY Zenon, ColumnIsNat
<1>2. /\ "pes" \in Policies /\ "opt" \in Policies /\ "ended_cumulative" \in Counters
      /\ {"bb_in", "bb_out"} \subseteq Counters
  BY Zenon DEF Policies, Counters
<1>3. a[i].name = c[i].name
  BY Zenon DEF Blames
<1>4. ASSUME NEW p \in Policies, NEW q \in Counters
      PROVE  /\ b[i].stats[p][q] = c[i].stats[p][q]
                  + (IF i = o /\ p = "opt" /\ q = "ended_cumulative" THEN n ELSE 0)
             /\ a[i].stats[p][q] = b[i].stats[p][q]
                  + (IF i = h /\ p = "pes" /\ q = "ended_cumulative" THEN n ELSE 0)
  BY Zenon DEF Blames
<1>5. ASSUME NEW p \in Policies, NEW q \in {"bb_in", "bb_out"}
      PROVE  a[i].stats[p][q] = c[i].stats[p][q]
  <2>1. q \in Counters /\ q # "ended_cumulative"
    BY Zenon, <1>2
  <2> QED BY <1>1, <1>4, <2>1
<1>6. a[i].stats["pes"]["ended_cumulative"]
        = c[i].stats["pes"]["ended_cumulative"] + (IF i = h THEN n ELSE 0)
  BY <1>1, <1>2, <1>4
<1>7. a[i].stats["opt"]["ended_cumulative"]
        = c[i].stats["opt"]["ended_cumulative"] + (IF i = o THEN n ELSE 0)
  BY <1>1, <1>2, <1>4
<1> QED BY Zenon, <1>3, <1>5, <1>6, <1>7 DEF BlamesBoth

-----------------------------------------------------------------------------
\* The slot of a function is its own or the next free one.
LEMMA SlotIs ==
  ASSUME ProfileTypeOK, NEW f \in Funcs
  PROVE  \/ /\ SlotOf(f) \in 1 .. wprof_next_free /\ funcs[SlotOf(f)].name = f
         \/ SlotOf(f) = wprof_next_free + 1 /\ \A i \in 1 .. MAXFUNCS : funcs[i].name # f
<1>1. DOMAIN funcs = 1 .. MAXFUNCS /\ f # Free
  BY Zenon, ProfileConstants DEF ProfileTypeOK, Free
<1>2. CASE \E i \in DOMAIN funcs : funcs[i].name = f
  <2>0. SlotOf(f) \in DOMAIN funcs /\ funcs[SlotOf(f)].name = f
    BY <1>2, Zenon DEF SlotOf
  <2>1. PICK k : k = SlotOf(f) /\ k \in 1 .. MAXFUNCS /\ funcs[k].name = f
    BY <1>1, <2>0, Zenon
  <2>2. ~ (k > wprof_next_free)
    BY Zenon, <1>1, <2>1 DEF ProfileTypeOK
  <2> QED BY <2>1, <2>2, ProfileConstants DEF ProfileTypeOK
<1>3. CASE ~ \E i \in DOMAIN funcs : funcs[i].name = f
  BY Zenon, <1>1, <1>3 DEF SlotOf
<1> QED BY Zenon, <1>2, <1>3

\* The totals after a block.
LEMMA GloNowIs ==
  ASSUME ProfileTypeOK, EndsAddUp, NEW f \in Funcs, NEW first \in BOOLEAN, NEW n \in Nat
  PROVE  /\ GloNow(f, first, n) \in Sets
         /\ \A p \in {"pes", "dfa", "opt"}, q \in {"bb_in", "bb_out"} :
              GloNow(f, first, n)[p][q] = glo[p][q] + Counted(f, first, n, p, q)
         /\ \A p \in {"pes", "opt"} : GloNow(f, first, n)[p]["end"]
              = GloNow(f, first, n)[p]["end_k"] + GloNow(f, first, n)[p]["end_s"]
                + GloNow(f, first, n)[p]["end_n"]
<1>0. glo \in Sets /\ \A p \in Policies, q \in Counters : glo[p][q] \in Nat
  BY DEF ProfileTypeOK, Sets
<1>1. PICK e : e = EndField(f)
  BY Zenon
<1>2. /\ e \in {"end_s", "end_n", "end_k"} /\ Policies = {"pes", "dfa", "opt", "rwindow"}
      /\ Counters = {"bb_in", "bb_out", "end", "end_k", "end_s", "end_n", "ended_cumulative"}
  BY Zenon, <1>1 DEF EndField, Policies, Counters
<1>3. PICK ends \in Sets :
        /\ ends = IF LeavesPes(f, first) THEN CountPesEnd(f, glo) ELSE glo
        /\ \A p \in Policies, q \in Counters : ends[p][q] = glo[p][q]
             + (IF LeavesPes(f, first) /\ p = "pes" /\ q \in {"end", e} THEN 1 ELSE 0)
  <2>1. CASE ~ LeavesPes(f, first)
    BY <1>0, <2>1
  <2>2. CASE LeavesPes(f, first)
    <3>1. PICK s1 \in Sets : s1 = Add(glo, "pes", "end", 1) /\ Adds(s1, glo, "pes", "end", 1)
      <4>1. "pes" \in Policies /\ "end" \in Counters /\ 1 \in Nat
        BY Zenon, <1>2
      <4> QED BY Zenon, <1>0, <4>1, AddIs
    <3>2. PICK s2 \in Sets : s2 = Add(s1, "pes", e, 1) /\ Adds(s2, s1, "pes", e, 1)
      <4>1. "pes" \in Policies /\ e \in Counters /\ 1 \in Nat
        BY Zenon, <1>2
      <4> QED BY Zenon, <4>1, AddIs
    <3>3. s2 = CountPesEnd(f, glo)
      BY Zenon, <1>1, <3>1, <3>2 DEF CountPesEnd
    <3>4. \A p \in Policies, q \in Counters : s2[p][q] = glo[p][q]
             + (IF p = "pes" /\ q \in {"end", e} THEN 1 ELSE 0)
      BY <1>0, <1>2, <3>1, <3>2 DEF Adds
    <3> QED BY Zenon, <2>2, <3>3, <3>4
  <2> QED BY Zenon, <2>1, <2>2
<1>4. PICK t \in Nat : t = Times(LeavesOpt, 1)
  BY Zenon DEF Times
<1>5. PICK s1 \in Sets : s1 = Add(ends, "opt", "end", t) /\ Adds(s1, ends, "opt", "end", t)
  <2>1. "opt" \in Policies /\ "end" \in Counters
    BY Zenon, <1>2
  <2> QED BY Zenon, <2>1, AddIs
<1>6. PICK s2 \in Sets : s2 = Add(s1, "opt", "end_k", t) /\ Adds(s2, s1, "opt", "end_k", t)
  <2>1. "opt" \in Policies /\ "end_k" \in Counters
    BY Zenon, <1>2
  <2> QED BY Zenon, <2>1, AddIs
<1>7. PICK s3 \in Sets : /\ s3 = CountBlock(s2, f, first, n)
                         /\ \A p \in Policies, q \in Counters : s3[p][q]
                              = s2[p][q] + Counted(f, first, n, p, q)
  BY CountBlockIs
<1>8. PICK s4 \in Sets : /\ s4 = Add(s3, "rwindow", InOut(SaNow), n)
                         /\ Adds(s4, s3, "rwindow", InOut(SaNow), n)
  <2>1. InOut(SaNow) \in Counters /\ "rwindow" \in Policies
    BY Zenon, <1>2 DEF InOut
  <2> QED BY Zenon, <2>1, AddIs
<1>9. GloNow(f, first, n) = s4
  BY Zenon, <1>3, <1>4, <1>5, <1>6, <1>7, <1>8 DEF GloNow
<1>10. \A p \in Policies, q \in Counters : Counted(f, first, n, p, q) \in Nat
  BY Zenon DEF Counted
<1>11. \A p \in {"pes", "dfa", "opt"}, q \in {"bb_in", "bb_out"} :
         s4[p][q] = glo[p][q] + Counted(f, first, n, p, q)
  <2> SUFFICES ASSUME NEW p \in {"pes", "dfa", "opt"}, NEW q \in {"bb_in", "bb_out"}
               PROVE  s4[p][q] = glo[p][q] + Counted(f, first, n, p, q)
    OBVIOUS
  <2>1. p \in Policies /\ q \in Counters /\ p # "rwindow" /\ q \notin {"end", "end_k", e}
    BY Zenon, <1>2
  <2>2. ends[p][q] = glo[p][q]
    BY <1>0, <1>3, <2>1
  <2>3. s1[p][q] = glo[p][q] /\ s2[p][q] = s1[p][q]
    BY <1>0, <1>5, <1>6, <2>1, <2>2 DEF Adds
  <2>4. s4[p][q] = s3[p][q]
    BY <1>8, <2>1 DEF Sets, Adds
  <2> QED BY Zenon, <1>7, <2>1, <2>3, <2>4
<1>12. \A p \in {"pes", "opt"}, q \in {"end", "end_k", "end_s", "end_n"} :
         Counted(f, first, n, p, q) = 0
  BY Zenon DEF Counted, InOut
<1>13. s4["pes"]["end"] = s4["pes"]["end_k"] + s4["pes"]["end_s"] + s4["pes"]["end_n"]
  <2>1. glo["pes"]["end"] = glo["pes"]["end_k"] + glo["pes"]["end_s"] + glo["pes"]["end_n"]
    BY Zenon DEF EndsAddUp
  <2>2. \A q \in {"end", "end_k", "end_s", "end_n"} : s4["pes"][q] = glo["pes"][q]
          + (IF LeavesPes(f, first) /\ q \in {"end", e} THEN 1 ELSE 0)
    <3> SUFFICES ASSUME NEW q \in {"end", "end_k", "end_s", "end_n"}
                 PROVE  s4["pes"][q] = glo["pes"][q]
                          + (IF LeavesPes(f, first) /\ q \in {"end", e} THEN 1 ELSE 0)
      OBVIOUS
    <3>1. "pes" \in Policies /\ q \in Counters
      BY Zenon, <1>2
    <3>2. s4["pes"][q] = s2["pes"][q]
      BY <1>7, <1>8, <1>12, <3>1 DEF Sets, Adds
    <3>3. s1["pes"][q] = ends["pes"][q] /\ s2["pes"][q] = s1["pes"][q]
      BY <1>5, <1>6, <3>1 DEF Sets, Adds
    <3>4. ends["pes"][q] = glo["pes"][q] + (IF LeavesPes(f, first) /\ q \in {"end", e} THEN 1 ELSE 0)
      BY Zenon, <1>3, <3>1
    <3> QED BY Zenon, <3>2, <3>3, <3>4
  <2> QED BY <1>0, <1>2, <2>1, <2>2
<1>14. s4["opt"]["end"] = s4["opt"]["end_k"] + s4["opt"]["end_s"] + s4["opt"]["end_n"]
  <2>1. glo["opt"]["end"] = glo["opt"]["end_k"] + glo["opt"]["end_s"] + glo["opt"]["end_n"]
    BY Zenon DEF EndsAddUp
  <2>2. \A q \in {"end", "end_k", "end_s", "end_n"} : s4["opt"][q] = glo["opt"][q]
          + (IF q \in {"end", "end_k"} THEN t ELSE 0)
    <3> SUFFICES ASSUME NEW q \in {"end", "end_k", "end_s", "end_n"}
                 PROVE  s4["opt"][q] = glo["opt"][q] + (IF q \in {"end", "end_k"} THEN t ELSE 0)
      OBVIOUS
    <3>1. "opt" \in Policies /\ q \in Counters
      BY Zenon, <1>2
    <3>2. s4["opt"][q] = s2["opt"][q]
      BY <1>7, <1>8, <1>12, <3>1 DEF Sets, Adds
    <3>3. ends["opt"][q] = glo["opt"][q]
      BY <1>0, <1>3, <3>1
    <3>4. s1["opt"][q] = glo["opt"][q] + (IF q = "end" THEN t ELSE 0)
      BY Zenon, <1>5, <3>1, <3>3 DEF Adds
    <3>5. s2["opt"][q] = s1["opt"][q] + (IF q = "end_k" THEN t ELSE 0)
      BY Zenon, <1>6, <3>1 DEF Adds
    <3>6. glo["opt"][q] \in Nat
      BY Zenon, <1>0, <3>1
    <3> QED BY <3>2, <3>4, <3>5, <3>6
  <2> QED BY <1>0, <1>2, <2>1, <2>2
<1> QED BY Zenon, <1>9, <1>11, <1>13, <1>14

\* The slots after a block.
CountsIn(new, f, first, n) ==
  /\ new \in Slots
  /\ \A i \in 1 .. MAXFUNCS :
       /\ new[i].name = IF i = SlotOf(f) THEN f ELSE funcs[i].name
       /\ \A p \in Policies, q \in {"bb_in", "bb_out"} : new[i].stats[p][q]
            = funcs[i].stats[p][q] + (IF i = SlotOf(f) THEN Counted(f, first, n, p, q) ELSE 0)
       /\ new[i].stats["pes"]["ended_cumulative"]
            = funcs[i].stats["pes"]["ended_cumulative"] + (IF i = PesCloser(f, first) THEN n ELSE 0)
       /\ new[i].stats["opt"]["ended_cumulative"]
            = funcs[i].stats["opt"]["ended_cumulative"] + (IF i = OptCloser(f) THEN n ELSE 0)

LEMMA FuncsNowIs ==
  ASSUME ProfileTypeOK, NEW f \in Funcs, NEW first \in BOOLEAN, NEW n \in Nat,
         SlotOf(f) \in 1 .. MAXFUNCS,
         PesCloser(f, first) \in 0 .. MAXFUNCS, OptCloser(f) \in 0 .. MAXFUNCS
  PROVE  CountsIn(FuncsNow(f, first, n), f, first, n)
<1>0. /\ funcs \in Slots /\ Policies = {"pes", "dfa", "opt", "rwindow"}
      /\ Counters = {"bb_in", "bb_out", "end", "end_k", "end_s", "end_n", "ended_cumulative"}
  BY Zenon DEF ProfileTypeOK, Slots, Policies, Counters
<1>1. PICK s \in 1 .. MAXFUNCS : s = SlotOf(f)
  BY Zenon
<1>2. PICK old \in Sets : old = funcs[s].stats
  BY Zenon, <1>0 DEF Slots
<1>3. PICK e \in Nat : e = Times(LeavesPes(f, first), 1) + Times(LeavesOpt, 1)
  BY DEF Times
<1>4. PICK s1 \in Sets : s1 = Add(old, "opt", "end", e) /\ Adds(s1, old, "opt", "end", e)
  <2>1. "opt" \in Policies /\ "end" \in Counters
    BY Zenon, <1>0
  <2> QED BY Zenon, <2>1, AddIs
<1>5. PICK s2 \in Sets : /\ s2 = CountBlock(s1, f, first, n)
                         /\ \A p \in Policies, q \in Counters : s2[p][q]
                              = s1[p][q] + Counted(f, first, n, p, q)
  BY CountBlockIs
<1>6. \A p \in Policies, q \in {"bb_in", "bb_out"} : s2[p][q] = old[p][q] + Counted(f, first, n, p, q)
  <2> SUFFICES ASSUME NEW p \in Policies, NEW q \in {"bb_in", "bb_out"}
               PROVE  s2[p][q] = old[p][q] + Counted(f, first, n, p, q)
    OBVIOUS
  <2>1. q \in Counters /\ q # "end"
    BY Zenon, <1>0
  <2>2. s1[p][q] = old[p][q]
    BY <1>4, <2>1 DEF Sets, Adds
  <2> QED BY Zenon, <1>5, <2>1, <2>2
<1>7. \A p \in {"pes", "opt"} : s2[p]["ended_cumulative"] = old[p]["ended_cumulative"]
  <2> SUFFICES ASSUME NEW p \in {"pes", "opt"}
               PROVE  s2[p]["ended_cumulative"] = old[p]["ended_cumulative"]
    OBVIOUS
  <2>1. p \in Policies /\ "ended_cumulative" \in Counters
    BY Zenon, <1>0
  <2>2. s1[p]["ended_cumulative"] = old[p]["ended_cumulative"]
    BY <1>4, <2>1 DEF Sets, Adds
  <2>3. Counted(f, first, n, p, "ended_cumulative") = 0
    BY Zenon DEF Counted, InOut
  <2> QED BY <1>5, <2>1, <2>2, <2>3 DEF Sets
<1>8. PICK rec \in [name : Funcs \cup {Free}, stats : Sets] : rec = [name |-> f, stats |-> s2]
  BY Zenon
<1>9. PICK c \in Slots : c = [funcs EXCEPT ![s] = rec]
  BY Zenon, <1>0 DEF Slots
<1>10. \A i \in 1 .. MAXFUNCS : c[i] = IF i = s THEN rec ELSE funcs[i]
  BY Zenon, <1>0, <1>9 DEF Slots
<1>11. PICK o : o = OptCloser(f)
  BY Zenon
<1>12. PICK b \in Slots : b = Blame(c, o, "opt", n) /\ Blames(b, c, o, "opt", n)
  <2>1. "opt" \in Policies /\ o \in 0 .. MAXFUNCS
    BY Zenon, <1>0, <1>11
  <2> QED BY Zenon, <2>1, BlameIs
<1>13. PICK h : h = PesCloser(f, first)
  BY Zenon
<1>14. PICK a \in Slots : a = Blame(b, h, "pes", n) /\ Blames(a, b, h, "pes", n)
  <2>1. "pes" \in Policies /\ h \in 0 .. MAXFUNCS
    BY Zenon, <1>0, <1>13
  <2> QED BY Zenon, <2>1, BlameIs
<1>15. FuncsNow(f, first, n) = a
  BY Zenon, <1>1, <1>2, <1>3, <1>4, <1>5, <1>8, <1>9, <1>11, <1>12, <1>13, <1>14
    DEF FuncsNow
<1>16. ASSUME NEW i \in 1 .. MAXFUNCS
       PROVE  /\ a[i].name = IF i = s THEN f ELSE funcs[i].name
              /\ \A p \in Policies, q \in {"bb_in", "bb_out"} : a[i].stats[p][q]
                   = funcs[i].stats[p][q] + (IF i = s THEN Counted(f, first, n, p, q) ELSE 0)
              /\ a[i].stats["pes"]["ended_cumulative"]
                   = funcs[i].stats["pes"]["ended_cumulative"] + (IF i = h THEN n ELSE 0)
              /\ a[i].stats["opt"]["ended_cumulative"]
                   = funcs[i].stats["opt"]["ended_cumulative"] + (IF i = o THEN n ELSE 0)
  <2>1. \A p \in Policies, q \in Counters : funcs[i].stats[p][q] \in Nat
    <3>1. funcs \in Slots
      BY Zenon, <1>0
    <3> QED BY Zenon, <3>1, ColumnIsNat
  <2>2. c[i].name = (IF i = s THEN f ELSE funcs[i].name)
    BY <1>8, <1>10
  <2>3. ASSUME NEW p \in Policies, NEW q \in {"bb_in", "bb_out"}
        PROVE  c[i].stats[p][q]
                 = funcs[i].stats[p][q] + (IF i = s THEN Counted(f, first, n, p, q) ELSE 0)
    <3>1. q \in Counters
      BY Zenon, <1>0
    <3>2. CASE i = s
      BY <1>2, <1>6, <1>8, <1>10, <3>2
    <3>3. CASE i # s
      BY <1>10, <2>1, <3>1, <3>3
    <3> QED BY Zenon, <3>2, <3>3
  <2>4. \A p \in {"pes", "opt"} :
          c[i].stats[p]["ended_cumulative"] = funcs[i].stats[p]["ended_cumulative"]
    BY <1>2, <1>7, <1>8, <1>10
  <2>5. BlamesBoth(a, c, i, o, h, n)
    BY Zenon, <1>12, <1>14, BlamedTwice
  <2> QED BY Zenon, <2>2, <2>3, <2>4, <2>5 DEF BlamesBoth
<1> QED BY <1>1, <1>11, <1>13, <1>15, <1>16 DEF CountsIn

-----------------------------------------------------------------------------
\* Slots without counts add up to nothing.
LEMMA SumOfNoFuncs ==
  ASSUME funcs = NoFuncs, NEW pol \in Policies, NEW field \in Counters
  PROVE  SumOf(pol, field) = 0
<1>1. \A i \in 1 .. MAXFUNCS : Column(funcs, pol, field)[i] = 0
  BY Zenon DEF NoFuncs, NoSet, Column
<1>2. Sum(Column(funcs, pol, field), 1 .. MAXFUNCS) = 0
  BY Zenon, <1>1, SumOfZeros
<1> QED BY <1>2, SumOfColumn DEF SumOf

LEMMA NoFuncsType == NoSet \in Sets /\ NoFuncs \in Slots
<1>1. NoSet \in Sets
  BY Zenon DEF NoSet, Sets
<1> QED BY Zenon, <1>1 DEF NoFuncs, Slots

LEMMA NoCountsAgree ==
  ASSUME glo = NoSet, funcs = NoFuncs
  PROVE  /\ FunctionsAddUp /\ EndsAddUp
         /\ glo.pes.bb_in <= glo.opt.bb_in
         /\ glo.pes.bb_in + glo.pes.bb_out = glo.opt.bb_in + glo.opt.bb_out
         /\ \A pol \in {"pes", "opt"} : SumOf(pol, "ended_cumulative") <= glo[pol].bb_out
<1>1. \A pol \in Policies, field \in Counters : glo[pol][field] = 0
  BY Zenon DEF NoSet
<1>2. \A pol \in Policies, field \in Counters : SumOf(pol, field) = 0
  BY Zenon, SumOfNoFuncs
<1> QED BY <1>1, <1>2 DEF FunctionsAddUp, EndsAddUp, Policies, Counters

\* The same of a step that clears the counts.
LEMMA ClearedAgree ==
  ASSUME glo' = NoSet, funcs' = NoFuncs
  PROVE  /\ FunctionsAddUp' /\ EndsAddUp'
         /\ glo'.pes.bb_in <= glo'.opt.bb_in
         /\ glo'.pes.bb_in + glo'.pes.bb_out = glo'.opt.bb_in + glo'.opt.bb_out
         /\ \A pol \in {"pes", "opt"} : SumOf(pol, "ended_cumulative")' <= glo'[pol].bb_out
<1>1. \A pol \in Policies, field \in Counters : glo'[pol][field] = 0
  BY Zenon DEF NoSet
<1>2. ASSUME NEW pol \in Policies, NEW field \in Counters PROVE SumOf(pol, field)' = 0
  <2>1. PICK new : new = funcs'
    BY Zenon
  <2>2. \A i \in 1 .. MAXFUNCS : Column(new, pol, field)[i] = 0
    BY Zenon, <2>1 DEF NoFuncs, NoSet, Column
  <2>3. Sum(Column(new, pol, field), 1 .. MAXFUNCS) = 0
    BY Zenon, <2>2, SumOfZeros
  <2>4. SumOf(pol, field)'
          = Cardinality(UNION {{i} \X (1 .. new[i].stats[pol][field]) : i \in 1 .. MAXFUNCS})
    BY Zenon, <2>1 DEF SumOf
  <2> QED BY Zenon, <2>3, <2>4, SumOfColumn
<1> QED BY <1>1, <1>2 DEF FunctionsAddUp, EndsAddUp, Policies, Counters

LEMMA InitProfile ==
  ASSUME ProfileInit
  PROVE  ProfilesAgree
<1>1. ProfileTypeOK
  <2>1. funcs \in [1 .. MAXFUNCS -> [name : Funcs \cup {Free}, stats : Sets]] /\ glo \in Sets
    BY Zenon, NoFuncsType DEF ProfileInit, Slots
  <2>2. \A i \in 1 .. MAXFUNCS : funcs[i].name = Free /\ i > wprof_next_free
    BY ProfileConstants DEF ProfileInit, NoFuncs
  <2>3. wprof_next_free = 0 /\ pes_closer = 0 /\ opt_closer = 0 /\ blocks = 0
    BY Zenon DEF ProfileInit
  <2>4. 0 \in 0 .. MAXFUNCS /\ 0 \in 0 .. MaxBlocks
    BY ProfileConstants
  <2> QED BY Zenon, <2>1, <2>2, <2>3, <2>4 DEF ProfileInit, ProfileTypeOK
<1>2. /\ FunctionsAddUp /\ EndsAddUp
      /\ glo.pes.bb_in <= glo.opt.bb_in
      /\ glo.pes.bb_in + glo.pes.bb_out = glo.opt.bb_in + glo.opt.bb_out
      /\ \A pol \in {"pes", "opt"} : SumOf(pol, "ended_cumulative") <= glo[pol].bb_out
  BY Zenon, NoCountsAgree DEF ProfileInit
<1>3. PessimisticIsShorter /\ BlameIsOutside
  BY Zenon, <1>2 DEF ProfileInit, PessimisticIsShorter, BlameIsOutside
<1> QED BY Zenon, <1>1, <1>2, <1>3 DEF ProfilesAgree

\* A step that counts nothing.
LEMMA CountsStay ==
  ASSUME ProfilesAgree, glo' = glo, funcs' = funcs
  PROVE  /\ FunctionsAddUp' /\ EndsAddUp'
         /\ glo'.pes.bb_in <= glo'.opt.bb_in
         /\ glo'.pes.bb_in + glo'.pes.bb_out = glo'.opt.bb_in + glo'.opt.bb_out
         /\ \A pol \in {"pes", "opt"} : SumOf(pol, "ended_cumulative")' <= glo'[pol].bb_out
<1>1. \A pol, field : SumOf(pol, field)' = SumOf(pol, field)
  BY Zenon DEF SumOf
<1> QED BY Zenon, <1>1
  DEF ProfilesAgree, FunctionsAddUp, EndsAddUp, PessimisticIsShorter, BlameIsOutside

\* The windows and the closers after a block of f.
Follows(f, first) ==
  /\ last_have_handled_message' = have_handled_message
  /\ pes_have_handled_message' = PesNow(f, first)
  /\ dfa_have_handled_message' = DfaNow
  /\ sa_window__is_open' = SaNow
  /\ pes_closer' = PesCloser(f, first) /\ opt_closer' = OptCloser(f)

LEMMA WindowsFollow ==
  ASSUME ProfilesAgree, NEW f, NEW first \in BOOLEAN, Follows(f, first)
  PROVE  /\ pes_have_handled_message' => last_have_handled_message'
         /\ pes_closer' # 0 => ~ pes_have_handled_message'
         /\ opt_closer' # 0 => ~ last_have_handled_message'
         /\ {last_have_handled_message', pes_have_handled_message', dfa_have_handled_message',
             sa_window__is_open'} \subseteq BOOLEAN
<1>1. /\ {have_handled_message, last_have_handled_message, pes_have_handled_message,
          dfa_have_handled_message, sa_window__is_open} \subseteq BOOLEAN
      /\ pes_have_handled_message => last_have_handled_message
      /\ pes_closer # 0 => ~ pes_have_handled_message
      /\ opt_closer # 0 => ~ last_have_handled_message
  BY Zenon DEF ProfilesAgree, ProfileTypeOK, PessimisticIsShorter, BlameIsOutside
<1>2. LeavesPes(f, first) \in BOOLEAN
  BY Zenon DEF LeavesPes
<1>3. pes_have_handled_message' => last_have_handled_message'
  BY Zenon, <1>1, <1>2 DEF Follows, PesNow, Enters, LeavesOpt
<1>4. pes_closer' # 0 => ~ pes_have_handled_message'
  BY Zenon, <1>1, <1>2 DEF Follows, PesNow, PesCloser, Enters
<1>5. opt_closer' # 0 => ~ last_have_handled_message'
  BY Zenon, <1>1 DEF Follows, OptCloser, Enters, LeavesOpt
<1>6. {last_have_handled_message', pes_have_handled_message', dfa_have_handled_message',
       sa_window__is_open'} \subseteq BOOLEAN
  BY Zenon, <1>1, <1>2 DEF Follows, PesNow, DfaNow, SaNow, Enters, LeavesOpt
<1> QED BY Zenon, <1>3, <1>4, <1>5, <1>6

\* The sum of a counter when one slot counts d more.
LEMMA SumGrows ==
  ASSUME funcs \in Slots, funcs' \in Slots, NEW pol \in Policies, NEW field \in Counters,
         NEW k \in 0 .. MAXFUNCS, NEW d \in Nat, GrowsAt(funcs, funcs', pol, field, k, d)
  PROVE  /\ SumOf(pol, field) \in Nat
         /\ SumOf(pol, field)' = SumOf(pol, field) + (IF k = 0 THEN 0 ELSE d)
<1>1. PICK old \in Slots : old = funcs
  BY Zenon
<1>2. PICK new \in Slots : new = funcs'
  BY Zenon
<1>3. SumOf(pol, field) = Sum(Column(old, pol, field), 1 .. MAXFUNCS)
  BY Zenon, <1>1, SumOfColumn DEF SumOf
<1>4. SumOf(pol, field)' = Sum(Column(new, pol, field), 1 .. MAXFUNCS)
  <2>1. SumOf(pol, field)'
          = Cardinality(UNION {{i} \X (1 .. new[i].stats[pol][field]) : i \in 1 .. MAXFUNCS})
    BY Zenon, <1>2 DEF SumOf
  <2> QED BY Zenon, <2>1, SumOfColumn
<1>5. GrowsAt(old, new, pol, field, k, d)
  BY Zenon, <1>1, <1>2
<1>6. TotalGrows(old, new, pol, field, k, d)
  BY Zenon, <1>5, ColumnGrows
<1> QED BY Zenon, <1>3, <1>4, <1>6 DEF TotalGrows

\* A block is counted.
LEMMA BlockCounts ==
  ASSUME ProfilesAgree, NEW f \in Funcs, NEW first \in BOOLEAN, NEW n \in Nat,
         wprof_enable_stats, ~ OutOfSlots(f), Follows(f, first),
         glo' = GloNow(f, first, n), funcs' = FuncsNow(f, first, n),
         wprof_next_free' = wprof_next_free + Times(SlotOf(f) > wprof_next_free, 1),
         UNCHANGED <<have_handled_message, wprof_enable_stats>>,
         suicide_on_window_close' \in BOOLEAN, status' = "run", blocks' \in 0 .. MaxBlocks
  PROVE  ProfilesAgree'
<1>0. ProfileTypeOK /\ funcs \in Slots /\ MAXFUNCS \in Nat /\ wprof_next_free \in 0 .. MAXFUNCS
  BY Zenon, ProfileConstants DEF ProfilesAgree, ProfileTypeOK, Slots
<1>1. PICK s : s = SlotOf(f)
  BY Zenon
<1>2. /\ s \in 1 .. MAXFUNCS
      /\ \/ s \in 1 .. wprof_next_free /\ funcs[s].name = f
         \/ s = wprof_next_free + 1 /\ \A i \in 1 .. MAXFUNCS : funcs[i].name # f
  BY <1>0, <1>1, SlotIs DEF OutOfSlots
<1>3. /\ PesCloser(f, first) \in 0 .. MAXFUNCS /\ OptCloser(f) \in 0 .. MAXFUNCS
      /\ pes_closer' = PesCloser(f, first) /\ opt_closer' = OptCloser(f)
  BY <1>0, <1>1, <1>2 DEF PesCloser, OptCloser, ProfileTypeOK, Follows
<1>4. PICK h \in 0 .. MAXFUNCS, o \in 0 .. MAXFUNCS :
        /\ h = PesCloser(f, first) /\ h = pes_closer' /\ o = OptCloser(f) /\ o = opt_closer'
  BY Zenon, <1>3
<1>5. CountsIn(funcs', f, first, n)
  BY Zenon, <1>0, <1>1, <1>2, <1>3, FuncsNowIs
<1>a. funcs \in Slots /\ funcs' \in Slots
  BY Zenon, <1>0, <1>5 DEF CountsIn
<1>b. \A i \in 1 .. MAXFUNCS : funcs'[i].name = IF i = s THEN f ELSE funcs[i].name
  BY Zenon, <1>1, <1>5 DEF CountsIn
<1>c. ASSUME NEW p \in Policies, NEW q \in {"bb_in", "bb_out"}
      PROVE  GrowsAt(funcs, funcs', p, q, s, Counted(f, first, n, p, q))
  BY Zenon, <1>1, <1>5 DEF CountsIn, GrowsAt
<1>d. /\ GrowsAt(funcs, funcs', "pes", "ended_cumulative", h, n)
      /\ GrowsAt(funcs, funcs', "opt", "ended_cumulative", o, n)
  BY Zenon, <1>4, <1>5 DEF CountsIn, GrowsAt
<1>e. "pes" \in Policies /\ "opt" \in Policies /\ "ended_cumulative" \in Counters
  BY Zenon DEF Policies, Counters
<1>6. /\ glo' \in Sets
      /\ \A p \in {"pes", "dfa", "opt"}, q \in {"bb_in", "bb_out"} :
           glo'[p][q] = glo[p][q] + Counted(f, first, n, p, q)
      /\ \A p \in {"pes", "opt"} : glo'[p]["end"]
           = glo'[p]["end_k"] + glo'[p]["end_s"] + glo'[p]["end_n"]
  BY <1>0, GloNowIs DEF ProfilesAgree
<1>7. /\ pes_have_handled_message' => last_have_handled_message'
      /\ h # 0 => ~ pes_have_handled_message'
      /\ o # 0 => ~ last_have_handled_message'
      /\ {last_have_handled_message', pes_have_handled_message', dfa_have_handled_message',
          sa_window__is_open'} \subseteq BOOLEAN
  BY Zenon, <1>4, WindowsFollow
<1>8. ProfileTypeOK'
  <2>1. /\ wprof_next_free' \in 0 .. MAXFUNCS
        /\ wprof_next_free' = IF s = wprof_next_free + 1 THEN s ELSE wprof_next_free
    BY <1>0, <1>1, <1>2 DEF Times
  <2>2. f # Free
    BY Zenon, ProfileConstants DEF Free
  <2>3. \A i \in 1 .. MAXFUNCS : funcs[i].name = Free <=> i > wprof_next_free
    BY Zenon, <1>0 DEF ProfileTypeOK
  <2>4. ASSUME NEW i \in 1 .. MAXFUNCS PROVE funcs'[i].name = Free <=> i > wprof_next_free'
    BY <1>0, <1>2, <1>b, <2>1, <2>2, <2>3
  <2>5. \A i, j \in 1 .. MAXFUNCS : funcs[i].name = funcs[j].name => i = j \/ funcs[i].name = Free
    BY Zenon, <1>0 DEF ProfileTypeOK
  <2>6. ASSUME NEW i \in 1 .. MAXFUNCS, NEW j \in 1 .. MAXFUNCS, funcs'[i].name = funcs'[j].name
        PROVE  i = j \/ funcs'[i].name = Free
    BY <1>2, <1>b, <2>2, <2>5, <2>6
  <2>7. funcs' \in [1 .. MAXFUNCS -> [name : Funcs \cup {Free}, stats : Sets]]
    BY Zenon, <1>a DEF Slots
  <2> QED BY Zenon, <1>0, <1>4, <1>6, <1>7, <2>1, <2>4, <2>6, <2>7 DEF ProfileTypeOK
<1>9. \A p \in Policies, q \in Counters : glo[p][q] \in Nat
  BY <1>0 DEF ProfileTypeOK, Sets
<1>10. FunctionsAddUp'
  <2> SUFFICES ASSUME NEW pol \in {"pes", "dfa", "opt"}, NEW field \in {"bb_in", "bb_out"}
               PROVE  SumOf(pol, field)' = glo'[pol][field]
    BY Zenon DEF FunctionsAddUp
  <2>1. pol \in Policies /\ field \in Counters
    BY Zenon DEF Policies, Counters
  <2>2. PICK d \in Nat : d = Counted(f, first, n, pol, field)
    BY Zenon DEF Counted
  <2>3. GrowsAt(funcs, funcs', pol, field, s, d)
    BY Zenon, <1>c, <2>1, <2>2
  <2>4. s \in 0 .. MAXFUNCS /\ s # 0
    BY <1>2, <1>0
  <2>5. SumOf(pol, field)' = SumOf(pol, field) + d
    BY Zenon, <1>a, <2>1, <2>3, <2>4, SumGrows
  <2>6. SumOf(pol, field) = glo[pol][field]
    BY Zenon DEF ProfilesAgree, FunctionsAddUp
  <2> QED BY Zenon, <1>6, <2>2, <2>5, <2>6
<1>11. /\ Counted(f, first, n, "pes", "bb_in") = (IF pes_have_handled_message' THEN n ELSE 0)
       /\ Counted(f, first, n, "pes", "bb_out") = (IF pes_have_handled_message' THEN 0 ELSE n)
       /\ Counted(f, first, n, "opt", "bb_in") = (IF last_have_handled_message' THEN n ELSE 0)
       /\ Counted(f, first, n, "opt", "bb_out") = (IF last_have_handled_message' THEN 0 ELSE n)
  BY Zenon DEF Counted, InOut, Follows
<1>12. /\ \A p \in {"pes", "opt"}, q \in {"bb_in", "bb_out"} : glo[p][q] \in Nat
       /\ glo'["pes"]["bb_in"] = glo["pes"]["bb_in"] + (IF pes_have_handled_message' THEN n ELSE 0)
       /\ glo'["pes"]["bb_out"] = glo["pes"]["bb_out"] + (IF pes_have_handled_message' THEN 0 ELSE n)
       /\ glo'["opt"]["bb_in"] = glo["opt"]["bb_in"] + (IF last_have_handled_message' THEN n ELSE 0)
       /\ glo'["opt"]["bb_out"] = glo["opt"]["bb_out"] + (IF last_have_handled_message' THEN 0 ELSE n)
  BY Zenon, <1>6, <1>9, <1>11 DEF Policies, Counters
<1>13. PessimisticIsShorter'
  BY <1>7, <1>12 DEF ProfilesAgree, PessimisticIsShorter
<1>14. EndsAddUp'
  BY Zenon, <1>6 DEF EndsAddUp
<1>15. SumOf("pes", "ended_cumulative")' <= glo'["pes"]["bb_out"]
  <2>1. /\ SumOf("pes", "ended_cumulative") \in Nat
        /\ SumOf("pes", "ended_cumulative")'
             = SumOf("pes", "ended_cumulative") + (IF h = 0 THEN 0 ELSE n)
    BY Zenon, <1>a, <1>d, <1>e, SumGrows
  <2>2. SumOf("pes", "ended_cumulative") <= glo["pes"]["bb_out"]
    BY Zenon DEF ProfilesAgree, BlameIsOutside
  <2> QED BY <1>7, <1>12, <2>1, <2>2
<1>16. SumOf("opt", "ended_cumulative")' <= glo'["opt"]["bb_out"]
  <2>1. /\ SumOf("opt", "ended_cumulative") \in Nat
        /\ SumOf("opt", "ended_cumulative")'
             = SumOf("opt", "ended_cumulative") + (IF o = 0 THEN 0 ELSE n)
    BY Zenon, <1>a, <1>d, <1>e, SumGrows
  <2>2. SumOf("opt", "ended_cumulative") <= glo["opt"]["bb_out"]
    BY Zenon DEF ProfilesAgree, BlameIsOutside
  <2> QED BY <1>7, <1>12, <2>1, <2>2
<1>17. BlameIsOutside'
  BY Zenon, <1>4, <1>7, <1>15, <1>16 DEF BlameIsOutside
<1> QED BY Zenon, <1>8, <1>10, <1>13, <1>14, <1>17 DEF ProfilesAgree

LEMMA BlockStep ==
  ASSUME ProfilesAgree, Block
  PROVE  ProfilesAgree'
<1>1. PICK f \in Funcs, first \in BOOLEAN, n \in BlockSizes : ltckpt_aop_hook_wprof(f, first, n)
  BY Zenon DEF Block
<1>2. /\ n \in Nat /\ blocks' \in 0 .. MaxBlocks /\ ProfileTypeOK
      /\ UNCHANGED <<have_handled_message, wprof_enable_stats>>
  BY ProfileConstants DEF Block, ProfilesAgree, ProfileTypeOK
<1>3. CASE OutOfSlots(f) \/ (suicide_on_window_close /\ (LeavesPes(f, first) \/ LeavesOpt))
  <2>1. /\ UNCHANGED <<windowVars, profVars>> /\ status' \in {"crash", "abort"}
        /\ suicide_on_window_close' \in BOOLEAN
    BY Zenon, <1>1, <1>2, <1>3 DEF ltckpt_aop_hook_wprof, ProfileTypeOK
  <2>2. ProfileTypeOK'
    BY Zenon, <1>2, <2>1 DEF windowVars, profVars, ProfileTypeOK
  <2>3. glo' = glo /\ funcs' = funcs
    BY Zenon, <2>1 DEF profVars
  <2> QED BY Zenon, <2>1, <2>2, <2>3, CountsStay
        DEF windowVars, profVars, ProfilesAgree, PessimisticIsShorter, BlameIsOutside
<1>4. CASE ~ OutOfSlots(f) /\ ~ (suicide_on_window_close /\ (LeavesPes(f, first) \/ LeavesOpt))
  <2>1. /\ Follows(f, first) /\ status' = "run" /\ suicide_on_window_close' \in BOOLEAN
        /\ IF wprof_enable_stats
           THEN /\ glo' = GloNow(f, first, n) /\ funcs' = FuncsNow(f, first, n)
                /\ wprof_next_free' = wprof_next_free + Times(SlotOf(f) > wprof_next_free, 1)
           ELSE UNCHANGED <<glo, funcs, wprof_next_free>>
    BY Zenon, <1>1, <1>2, <1>4 DEF ltckpt_aop_hook_wprof, Follows, ProfileTypeOK
  <2>2. CASE wprof_enable_stats
    BY Zenon, <1>2, <1>4, <2>1, <2>2, BlockCounts
  <2>3. CASE ~ wprof_enable_stats
    <3>1. pes_closer' \in 0 .. MAXFUNCS /\ opt_closer' \in 0 .. MAXFUNCS
      <4>1. 0 \in 0 .. MAXFUNCS
        BY ProfileConstants
      <4> QED BY Zenon, <1>2, <2>1, <2>3, <4>1
        DEF Follows, PesCloser, OptCloser, ProfileTypeOK
    <3>2. /\ pes_have_handled_message' => last_have_handled_message'
          /\ pes_closer' # 0 => ~ pes_have_handled_message'
          /\ opt_closer' # 0 => ~ last_have_handled_message'
          /\ {last_have_handled_message', pes_have_handled_message', dfa_have_handled_message',
              sa_window__is_open'} \subseteq BOOLEAN
      BY Zenon, <2>1, WindowsFollow
    <3>3. UNCHANGED <<glo, funcs, wprof_next_free>>
      BY Zenon, <2>1, <2>3
    <3>4. ProfileTypeOK'
      BY Zenon, <1>2, <2>1, <3>1, <3>2, <3>3 DEF ProfileTypeOK
    <3> QED BY Zenon, <3>2, <3>3, <3>4, CountsStay
      DEF ProfilesAgree, PessimisticIsShorter, BlameIsOutside
  <2> QED BY Zenon, <2>2, <2>3
<1> QED BY Zenon, <1>3, <1>4

LEMMA NextProfile ==
  ASSUME ProfilesAgree, [ProfileNext]_profileVars
  PROVE  ProfilesAgree'
<1>1. CASE Message
  <2>1. UNCHANGED <<last_have_handled_message, pes_have_handled_message, dfa_have_handled_message,
                    wprof_enable_stats, suicide_on_window_close, status, blocks,
                    glo, funcs, wprof_next_free, pes_closer, opt_closer>>
    BY Zenon, <1>1 DEF Message, profVars
  <2>2. have_handled_message' \in BOOLEAN /\ sa_window__is_open' \in BOOLEAN
    BY Zenon, <1>1 DEF Message, ProfilesAgree, ProfileTypeOK
  <2>3. ProfileTypeOK'
    BY Zenon, <2>1, <2>2 DEF ProfilesAgree, ProfileTypeOK
  <2> QED BY Zenon, <2>1, <2>3, CountsStay
    DEF ProfilesAgree, PessimisticIsShorter, BlameIsOutside
<1>2. CASE Sigusr2
  <2>1. /\ glo' = NoSet /\ funcs' = NoFuncs /\ wprof_next_free' = 0
        /\ UNCHANGED <<have_handled_message, last_have_handled_message, pes_have_handled_message,
                       dfa_have_handled_message, sa_window__is_open, wprof_enable_stats,
                       suicide_on_window_close, pes_closer, opt_closer, status, blocks>>
    BY Zenon, <1>2 DEF Sigusr2, windowVars
  <2>2. /\ funcs' \in [1 .. MAXFUNCS -> [name : Funcs \cup {Free}, stats : Sets]] /\ glo' \in Sets
        /\ wprof_next_free' \in 0 .. MAXFUNCS
    BY <2>1, NoFuncsType, ProfileConstants DEF Slots
  <2>3. \A i \in 1 .. MAXFUNCS : funcs'[i].name = Free /\ i > wprof_next_free'
    BY <2>1 DEF NoFuncs
  <2>4. ProfileTypeOK'
    BY Zenon, <2>1, <2>2, <2>3 DEF ProfilesAgree, ProfileTypeOK
  <2>5. /\ FunctionsAddUp' /\ EndsAddUp'
        /\ glo'.pes.bb_in <= glo'.opt.bb_in
        /\ glo'.pes.bb_in + glo'.pes.bb_out = glo'.opt.bb_in + glo'.opt.bb_out
        /\ \A pol \in {"pes", "opt"} : SumOf(pol, "ended_cumulative")' <= glo'[pol].bb_out
    BY Zenon, <2>1, ClearedAgree
  <2> QED BY Zenon, <2>1, <2>4, <2>5
    DEF ProfilesAgree, PessimisticIsShorter, BlameIsOutside
<1>3. CASE Sigusr1 \/ UNCHANGED profileVars
  <2>1. /\ UNCHANGED <<have_handled_message, last_have_handled_message, pes_have_handled_message,
                       dfa_have_handled_message, sa_window__is_open, suicide_on_window_close,
                       glo, funcs, wprof_next_free, pes_closer, opt_closer, status, blocks>>
        /\ wprof_enable_stats' \in BOOLEAN
    BY Zenon, <1>3
      DEF Sigusr1, profileVars, windowVars, profVars, ProfilesAgree, ProfileTypeOK
  <2>2. ProfileTypeOK'
    BY Zenon, <2>1 DEF ProfilesAgree, ProfileTypeOK
  <2> QED BY Zenon, <2>1, <2>2, CountsStay
    DEF ProfilesAgree, PessimisticIsShorter, BlameIsOutside
<1> QED BY Zenon, <1>1, <1>2, <1>3, BlockStep DEF ProfileNext, Stopped

\* For any functions and callers, any sizes of blocks and any number of slots,
\* with signals that switch or clear the statistics at any time: the counts of
\* the profile agree (ltckpt_aop_hook_wprof).
THEOREM ProfileCountsAgree == ProfileSpec => []ProfilesAgree
<1>1. ProfileInit => ProfilesAgree
  BY Zenon, InitProfile
<1>2. ProfilesAgree /\ [ProfileNext]_profileVars => ProfilesAgree'
  BY Zenon, NextProfile
<1> QED BY <1>1, <1>2, PTL DEF ProfileSpec
=============================================================================
