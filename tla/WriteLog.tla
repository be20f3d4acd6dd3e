------------------------------ MODULE WriteLog ------------------------------
(***************************************************************************)
(* The undo log of the ltckpt library (checkpoint method "undolog").       *)
(*                                                                         *)
(* Memory is a function on byte addresses.  The log holds, for a region    *)
(* of WRITELOG_GRANULARITY bytes, its address and its bytes before a       *)
(* store.  wl_position counts entries (the code counts bytes, always a     *)
(* multiple of the entry size); what wl_data holds above it is dead and is *)
(* dropped.  The hooks read the window, which is part of Recovery.         *)
(***************************************************************************)
EXTENDS Recovery

CONSTANTS
  NumRegions,           \* regions 1..NumRegions exist; region 0 holds NULL
  Vals,                 \* values a byte can take
  WRITELOG_MAXLEN,      \* capacity of the log, in entries
  MetaBytes,            \* bytes of wl_data, wl_position, the enabled flag
  datamax,              \* addresses above it belong to the stack
  checkpoint_interval   \* CP_INTERVAL

WRITELOG_GRANULARITY == 8

Bytes == WRITELOG_GRANULARITY .. (WRITELOG_GRANULARITY * (NumRegions + 1) - 1)

ASSUME LogAssumption ==
  /\ NumRegions \in Nat
  /\ WRITELOG_MAXLEN \in Nat \ {0}
  /\ MetaBytes \subseteq Bytes
  /\ datamax \in Nat
  /\ checkpoint_interval \in Nat

VARIABLES
  mem,                      \* the memory of the server
  wl_data, wl_position,     \* the log
  ltckpt_writelog_enabled,
  num_tols                  \* top-of-loop calls, modulo checkpoint_interval

logVars == <<wl_data, wl_position>>
writelogVars == <<mem, wl_data, wl_position, ltckpt_writelog_enabled, num_tols>>

Region(addr) == addr .. (addr + WRITELOG_GRANULARITY - 1)

RegionBaseWord(a) == a - (a % 4)
RegionBase(a) == a - (a % WRITELOG_GRANULARITY)

Entry(addr) == [addr |-> addr, data |-> [b \in Region(addr) |-> mem[b]]]

\* The log is full when its last slot has been used.
LogFullLate(n) == n > WRITELOG_MAXLEN
LogFull(n) == n >= WRITELOG_MAXLEN

\* ltckpt_write_wl: save the region of `a`; the last free slot closes the
\* window and makes the request unrecoverable.
write_wl(a) ==
  IF sa_window__is_open = 0
  THEN UNCHANGED <<logVars, sa_window__is_open, g_recovery_bitmask>>
  ELSE /\ wl_data' = [i \in {j \in DOMAIN wl_data : j <= wl_position}
                              \cup {wl_position + 1} |->
                        IF i = wl_position + 1 THEN Entry(RegionBase(a))
                                               ELSE wl_data[i]]
       /\ wl_position' = wl_position + 1
       /\ IF LogFull(wl_position + 1)
          THEN /\ sa_window__is_open' = 0
               /\ g_recovery_bitmask' = g_recovery_bitmask \cup {"FAIL_STOP"}
          ELSE UNCHANGED <<sa_window__is_open, g_recovery_bitmask>>

\* The hook in front of every instrumented store.
store_hook(a) ==
  IF ltckpt_writelog_enabled = 1
  THEN write_wl(a)
  ELSE UNCHANGED <<logVars, sa_window__is_open, g_recovery_bitmask>>

\* The hook in front of memcpy and memset is a loop over `reg`.
MemcpyFirst(a) == a - (a % 4)
MemcpyNext(reg) == reg + WRITELOG_GRANULARITY

\* The next value of num_tols.
NextTol == IF num_tols + 1 >= checkpoint_interval THEN 0 ELSE num_tols + 1

TolKeepsLog ==
  /\ num_tols' = NextTol
  /\ ltckpt_writelog_enabled' = 1
  /\ UNCHANGED logVars

\* Top of the loop: every checkpoint_interval-th call empties the log.
top_of_the_loop ==
  /\ num_tols' = NextTol
  /\ IF checkpoint_interval = 0 \/ num_tols > 0
     THEN UNCHANGED <<logVars, ltckpt_writelog_enabled>>
     ELSE /\ wl_data' = << >>
          /\ wl_position' = 0
          /\ ltckpt_writelog_enabled' = 1

overlaps(p1, s1, p2, s2) ==
  \/ p1 <= p2 /\ p1 + s1 > p2
  \/ p2 <= p1 /\ p2 + s2 > p1

ltckpt_can_restore(addr) ==
  \A b \in MetaBytes : ~ overlaps(addr, WRITELOG_GRANULARITY, b, 1)

\* The regions that the rollback loop writes back.
Restored(addr) == ltckpt_can_restore(addr) /\ addr <= datamax /\ addr # 0

\* The server's state: what a rollback is meant to bring back.
StateBytes == {b \in Bytes : Restored(RegionBase(b))}

Overwrite(m, data) ==
  [b \in Bytes |-> IF b \in DOMAIN data THEN data[b] ELSE m[b]]

WriteLogInit ==
  /\ wl_data = << >>
  /\ wl_position = 0
  /\ ltckpt_writelog_enabled = 0
  /\ num_tols = 0
=============================================================================
