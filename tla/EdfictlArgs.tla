----------------------------- MODULE EdfictlArgs ----------------------------
(***************************************************************************)
(* How edfictl turns its command line into a request: options are parsed   *)
(* one by one into a context and parameters, which are attached to the     *)
(* request when the first option of their kind is met; then the command    *)
(* and the server follow.                                                  *)
(***************************************************************************)
EXTENDS Naturals, Sequences

CONSTANTS
  MaxOptions,              \* bound on the options of a command line
  Values,                  \* kinds of arguments: good, bad (not parsed), negative
  Commands, Servers        \* kinds of the two arguments that follow

\* The options that set a field of the context, by the type of the field.
Fields == [p |-> "float", f |-> "int", t |-> "uint", T |-> "uint", F |-> "ulonglong",
           r |-> "uint", l |-> "str"]
Options == DOMAIN Fields \cup {"L", "unknown"}

VARIABLES
  todo,                    \* options not parsed yet
  given,                   \* history: options parsed
  ret,
  fields,                  \* fields of the context that were set
  context_size, params,    \* whether the request has a context, parameters
  command, server_id, pc

argsVars == <<todo, given, ret, fields, context_size, params, command, server_id, pc>>

ArgsInit ==
  /\ todo \in UNION {[1 .. n -> Options \X Values] : n \in 0 .. MaxOptions}
  /\ given = <<>> /\ ret = "ok" /\ fields = {}
  /\ context_size = FALSE /\ params = FALSE
  /\ command \in Commands /\ server_id \in Servers
  /\ pc = "options"

-----------------------------------------------------------------------------
(* One option.  A field is assigned before its value is judged.            *)

SetsField(o) == fields' = fields \cup {o}

parse_context_int(o, v) ==
  /\ Fields[o] \in {"int", "float", "ulonglong", "str"}
  /\ \/ v = "bad" /\ ret' = "error" /\ UNCHANGED context_size
     \/ v # "bad" /\ ret' = "ok" /\ context_size' = TRUE
  /\ SetsField(o) /\ UNCHANGED params

KeepsFirst(o, v) ==
  /\ Fields[o] = "uint"
  /\ \/ v = "bad" /\ ret' = "error" /\ context_size' = FALSE /\ UNCHANGED fields
     \/ v = "negative" /\ ret' = "ok" /\ context_size' = FALSE /\ UNCHANGED fields
     \/ v = "good" /\ ret' = "ok" /\ UNCHANGED context_size /\ SetsField(o)
  /\ UNCHANGED params

parse_context_uint(o, v) ==
  /\ Fields[o] = "uint"
  /\ \/ v = "bad" /\ ret' = "error" /\ context_size' = FALSE /\ UNCHANGED fields
     \/ v = "negative" /\ ret' = "ok" /\ context_size' = FALSE /\ UNCHANGED fields
     \/ v = "good" /\ ret' = "ok" /\ context_size' = TRUE /\ SetsField(o)
  /\ UNCHANGED params

parse_params(o, v) ==
  /\ o = "L"
  /\ \/ v = "bad" /\ ret' = "error" /\ UNCHANGED params
     \/ v # "bad" /\ ret' = "ok" /\ params' = TRUE
  /\ UNCHANGED <<fields, context_size>>

UnknownOption(o) == o = "unknown" /\ ret' = "error" /\ UNCHANGED <<fields, context_size, params>>

Option ==
  /\ pc = "options" /\ todo # <<>> /\ ret = "ok"
  /\ todo' = Tail(todo) /\ given' = Append(given, Head(todo))
  /\ LET o == Head(todo)[1]  v == Head(todo)[2]
     IN \/ o \in DOMAIN Fields /\ (parse_context_int(o, v) \/ parse_context_uint(o, v))
        \/ parse_params(o, v) \/ UnknownOption(o)
  /\ UNCHANGED <<command, server_id, pc>>

\* The rest of parse_args: both arguments, the command, the server.
Arguments ==
  /\ pc = "options" /\ (todo = <<>> \/ ret = "error")
  /\ LET good == ret = "ok" /\ command = "known" /\ server_id = "good"
     IN pc' = IF good THEN "connect" ELSE "usage"
  /\ UNCHANGED <<todo, given, ret, fields, context_size, params, command, server_id>>

\* edfi_ctl_client_send refuses parameters without a context.
ClientSend ==
  /\ pc = "connect"
  /\ pc' = IF params /\ ~ context_size THEN "refused" ELSE "sent"
  /\ UNCHANGED <<todo, given, ret, fields, context_size, params, command, server_id>>

Done == pc \in {"usage", "sent", "refused"} /\ UNCHANGED argsVars
ArgsNext == Option \/ Arguments \/ ClientSend \/ Done
ArgsSpec == ArgsInit /\ [][ArgsNext]_argsVars

-----------------------------------------------------------------------------
(* Properties.                                                             *)

\* Every variable keeps its type.
ArgsTypeOK ==
  /\ todo \in Seq(Options \X Values) /\ given \in Seq(Options \X Values)
  /\ ret \in {"ok", "error"} /\ fields \subseteq DOMAIN Fields
  /\ context_size \in BOOLEAN /\ params \in BOOLEAN
  /\ pc \in {"options", "connect", "usage", "sent", "refused"}

Parsed(g) == \A i \in DOMAIN g : g[i][2] # "bad" /\ g[i][1] # "unknown"
NoneNegative(g) == \A i \in DOMAIN g : g[i][2] # "negative"
Carries(o) == IF o = "L" THEN params ELSE context_size /\ o \in fields

\* Nothing is sent of a command line in which something could not be parsed,
\* and a request that is sent carries every option given ("The random seed to
\* use during the experiment", "The maximum number of executed faults", ...),
\* in whatever order and however often they come, when no value is negative
\* (the option loop of parse_args).
SentIsGiven ==
  pc = "sent" =>
    Parsed(given) /\ (NoneNegative(given) => \A i \in DOMAIN given : Carries(given[i][1]))
=============================================================================
