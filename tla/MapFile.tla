------------------------------ MODULE MapFile ------------------------------
(***************************************************************************)
(* The map file of a module: the records that the EDFI pass writes about   *)
(* the basic blocks it instruments (MapFile.cpp), the parser of the tools  *)
(* (mapparse.c), the module that is built from it in three passes over the *)
(* file (module.c), and the tables that mapprint prints (mapprint.c).      *)
(*                                                                         *)
(* A string is a sequence of tokens: a name is one token, a path has the   *)
(* token "/" between its elements.  The bytes of a string are one byte of  *)
(* the file here.  A NULL string, and an array of no elements (calloc of 0 *)
(* elements is NULL in helper.c), is <<>>.                                 *)
(***************************************************************************)
EXTENDS Integers, FiniteSetsExt, SequencesExt

\* A left fold.  The equation makes TLC evaluate every intermediate result
\* before it goes on, the concatenation the elements of the sequence.
Fold(op(_, _), base, seq) ==
  LET elements == seq \o <<>>
      RECURSIVE From(_, _)
      From(acc, i) ==
        IF i > Len(elements) THEN acc
        ELSE LET next == op(acc, elements[i]) IN CASE next = next -> From(next, i + 1)
  IN  From(base, 1)

MAPFILE_STRING == 1
MAPFILE_FUNCTION == 2
MAPFILE_BASIC_BLOCK == 3
MAPFILE_INSTRUCTION == 4
MAPFILE_DINSTRUCTION == 5
MAPFILE_FAULT_CANDIDATE == 6
MAPFILE_FAULT_INJECTED == 7
MAPFILE_MODULE_NAME == 8

-----------------------------------------------------------------------------
(* The writer.  An instrumented function is its name, its path and its     *)
(* blocks; a block is a sequence of instructions, each with a place in a   *)
(* source file (or none), the faults it is a candidate for and those       *)
(* injected in it.                                                         *)

Put(f, bytes) == [f EXCEPT !.bytes = @ \o bytes]

RECURSIVE writeInt(_)
writeInt(value) ==
  IF value \div 128 = 0 THEN <<value % 128>>
  ELSE <<128 + (value % 128)>> \o writeInt(value \div 128)

getStringRef(f, s) ==
  IF Contains(f.strings, s) THEN f
  ELSE [Put(f, <<MAPFILE_STRING, s>>) EXCEPT !.strings = Append(@, s)]

stringRef(f, s) == SelectInSeq(f.strings, LAMBDA t : t = s) - 1

\* A record of a type that is followed by the references of some strings.
WriteRefs(f, type, strings) ==
  LET known == Fold(getStringRef, f, strings)
  IN  Put(known, <<type>> \o FlattenSeq([i \in DOMAIN strings |-> writeInt(stringRef(known, strings[i]))]))

writeDInstruction(f, path, line) == Put(WriteRefs(f, MAPFILE_DINSTRUCTION, <<path>>), writeInt(line))

WriteInstruction(f, ins) ==
  LET written == IF ins.at # <<>> THEN writeDInstruction(f, ins.at[1], ins.at[2])
                 ELSE Put(f, <<MAPFILE_INSTRUCTION>>)
      candidates == Fold(LAMBDA g, t : WriteRefs(g, MAPFILE_FAULT_CANDIDATE, <<t>>),
                             written, ins.candidates)
  IN  Fold(LAMBDA g, t : WriteRefs(g, MAPFILE_FAULT_INJECTED, <<t>>), candidates, ins.injected)

WriteFunction(f, function) ==
  Fold(LAMBDA g, block : Fold(WriteInstruction, Put(g, <<MAPFILE_BASIC_BLOCK>>), block),
           WriteRefs(f, MAPFILE_FUNCTION, <<function.name, function.path>>),
           function.blocks)

\* The bytes of the map file of a module.
WriteMap(name, functions) ==
  Fold(WriteFunction,
           WriteRefs([bytes |-> <<>>, strings |-> <<>>], MAPFILE_MODULE_NAME, <<name>>),
           functions).bytes

-----------------------------------------------------------------------------
(* The parser: the callbacks that the records of a file make.              *)

\* The integer at a position, and the position after it.
RECURSIVE int_read(_, _)
int_read(bytes, pos) ==
  IF bytes[pos] < 128 THEN [value |-> bytes[pos], next |-> pos + 1]
  ELSE LET rest == int_read(bytes, pos + 1)
       IN  [rest EXCEPT !.value = 128 * @ + bytes[pos] - 128]

stringref_get(ref, strings) == strings[ref + 1]

mapparse_record(bytes, p) ==
  LET type == bytes[p.pos]
      first == int_read(bytes, p.pos + 1)
      second == int_read(bytes, first.next)
      String == stringref_get(first.value, p.strings)
      Callback(call, next) == [p EXCEPT !.pos = next, !.calls = Append(@, call)]
  IN  CASE type = MAPFILE_STRING ->
             [p EXCEPT !.pos = @ + 2, !.strings = Append(@, bytes[p.pos + 1])]
        [] type = MAPFILE_FUNCTION ->
             Callback(<<"function", String, stringref_get(second.value, p.strings)>>, second.next)
        [] type = MAPFILE_BASIC_BLOCK -> Callback(<<"basic_block">>, p.pos + 1)
        [] type = MAPFILE_INSTRUCTION -> Callback(<<"instruction">>, p.pos + 1)
        [] type = MAPFILE_DINSTRUCTION -> Callback(<<"dinstruction", String, second.value>>, second.next)
        [] type = MAPFILE_FAULT_CANDIDATE -> Callback(<<"fault_candidate", String>>, first.next)
        [] type = MAPFILE_FAULT_INJECTED -> Callback(<<"fault_injected", String>>, first.next)
        [] type = MAPFILE_MODULE_NAME -> Callback(<<"module_name", String>>, first.next)

RECURSIVE ParseFrom(_, _)
ParseFrom(bytes, p) ==
  IF p.pos > Len(bytes) THEN p.calls ELSE ParseFrom(bytes, mapparse_record(bytes, p))

mapparse_file(bytes) == ParseFrom(bytes, [pos |-> 1, strings |-> <<>>, calls |-> <<>>])

-----------------------------------------------------------------------------
(* Paths.                                                                  *)

\* An absolute path that was appended to a directory starts at the second
\* of two slashes.
WithoutDirectory(path) ==
  LET doubled == {i \in 1 .. Len(path) - 1 : path[i] = "/" /\ path[i + 1] = "/"}
  IN  IF path # <<>> /\ path[1] = "/" /\ doubled # {}
      THEN SubSeq(path, Min(doubled) + 1, Len(path)) ELSE path

\* What is left of p when its last element and the slash after it are dropped.
DropElement(p) ==
  LET slashes == {i \in 1 .. Len(p) - 1 : p[i] = "/"}
  IN  IF slashes = {} THEN <<>> ELSE SubSeq(p, 1, Max(slashes))

\* The elements of the path are moved one by one, several slashes as one; a
\* "." or ".." that is dropped takes the slash after it along.
RECURSIVE MoveElements(_, _)
MoveElements(p, path) ==
  LET slashes == {i \in DOMAIN path : \A j \in 1 .. i : path[j] = "/"}
      q == IF slashes = {} THEN p ELSE Append(p, "/")
      elements == SubSeq(path, Cardinality(slashes) + 1, Len(path))
  IN  IF elements = <<>> THEN q
      ELSE CASE elements[1] = "." -> MoveElements(q, SubSeq(elements, 3, Len(elements)))
             [] elements[1] = ".." /\ Len(q) > 1 ->
                  MoveElements(DropElement(q), SubSeq(elements, 3, Len(elements)))
             [] OTHER -> MoveElements(Append(q, elements[1]), Tail(elements))

fixPath(path) == MoveElements(<<>>, WithoutDirectory(path))

-----------------------------------------------------------------------------
(* The module of a map file.  func, bb and bb_line_p of the state are the  *)
(* positions that the pointers of the code point to, 0 for NULL; lines are *)
(* appended to the block <<function, block>> of bb_line_p.                 *)

NoBlock ==
  [faultcand_count |-> 0, faultinj_count |-> 0, instr_count |-> 0, lines |-> <<>>,
   fault_path |-> <<>>, fault_line |-> 0, fault_type |-> <<>>]
NoFunction ==
  [name |-> <<>>, path |-> <<>>, pathFixed |-> <<>>, bb_index_first |-> 0, bb_count |-> 0, bbs |-> <<>>]

LoadState(module) ==
  [module |-> module, func |-> 0, func_index |-> 0, bb |-> 0, bb_line_p |-> <<>>,
   abs_bb_index |-> 0, func_bb_index |-> 0, ins_path |-> <<>>, ins_line |-> 0]

process_basic_block(s) ==
  LET none == [s EXCEPT !.bb = 0, !.bb_line_p = <<>>]
      next == s.func_bb_index + 1
  IN  CASE s.func = 0 -> none
        [] s.func # 0 /\ s.module.funcs[s.func].bbs = <<>> ->
             [none EXCEPT !.module.funcs[s.func].bb_count = @ + 1]
        [] OTHER -> [s EXCEPT !.bb = next, !.func_bb_index = next,
                              !.bb_line_p = <<s.func, next>>, !.abs_bb_index = @ + 1]

CountInstruction(s) ==
  IF s.bb = 0 THEN s ELSE [s EXCEPT !.module.funcs[s.func].bbs[s.bb].instr_count = @ + 1]

process_instruction(s) == CountInstruction([s EXCEPT !.ins_path = <<>>, !.ins_line = 0])

process_dinstruction(s, path, line) ==
  LET counted == CountInstruction([s EXCEPT !.ins_path = path, !.ins_line = line])
  IN  IF s.bb_line_p = <<>> THEN counted
      ELSE [counted EXCEPT !.module.funcs[s.bb_line_p[1]].bbs[s.bb_line_p[2]].lines =
              Append(@, [path |-> path, pathFixed |-> fixPath(path), line |-> line])]

process_fault_candidate(s) ==
  IF s.bb = 0 THEN s ELSE [s EXCEPT !.module.funcs[s.func].bbs[s.bb].faultcand_count = @ + 1]

process_fault_injected(s, name) ==
  IF s.bb = 0 THEN s
  ELSE [s EXCEPT !.module.funcs[s.func].bbs[s.bb] =
          [@ EXCEPT !.faultinj_count = @ + 1, !.fault_path = s.ins_path,
                    !.fault_line = s.ins_line, !.fault_type = name]]

process_function(s, name, relPath) ==
  IF s.module.funcs = <<>> THEN [s EXCEPT !.module.func_count = @ + 1]
  ELSE LET next == s.func_index + 1
       IN  [s EXCEPT !.func = next, !.func_index = next, !.bb = 0, !.func_bb_index = 0,
                     !.module.funcs[next] =
                       [@ EXCEPT !.name = name, !.path = relPath, !.pathFixed = fixPath(relPath),
                                 !.bb_index_first = s.abs_bb_index]]

process_module_name(s, name) ==
  IF s.module.name # <<>> THEN s ELSE [s EXCEPT !.module.name = name]

Process(s, call) ==
  CASE call[1] = "basic_block" -> process_basic_block(s)
    [] call[1] = "instruction" -> process_instruction(s)
    [] call[1] = "dinstruction" -> process_dinstruction(s, call[2], call[3])
    [] call[1] = "fault_candidate" -> process_fault_candidate(s)
    [] call[1] = "fault_injected" -> process_fault_injected(s, call[2])
    [] call[1] = "function" -> process_function(s, call[2], call[3])
    [] call[1] = "module_name" -> process_module_name(s, call[2])

\* Three passes: count the functions, count the blocks of each, fill them.
module_load_from_map(bytes) ==
  LET Pass(module) == Fold(Process, LoadState(module), mapparse_file(bytes)).module
      counted == Pass([name |-> <<>>, func_count |-> 0, funcs |-> <<>>])
      functions == Pass([counted EXCEPT !.funcs = [i \in 1 .. counted.func_count |-> NoFunction]])
      Blocks(f) == [f EXCEPT !.bbs = [i \in 1 .. f.bb_count |-> NoBlock]]
  IN  Pass([functions EXCEPT !.funcs = [i \in DOMAIN @ |-> Blocks(@[i])]])

\* The block of a module with an index that counts from 1 over its functions.
RECURSIVE BlockFrom(_, _, _)
BlockFrom(module, i, bb_index) ==
  CASE i > Len(module.funcs) -> <<>>
    [] i <= Len(module.funcs) /\ bb_index <= module.funcs[i].bb_count -> <<i, bb_index>>
    [] OTHER -> BlockFrom(module, i + 1, bb_index - module.funcs[i].bb_count)

module_get_bb_by_index(module, bb_index) == BlockFrom(module, 1, bb_index)

-----------------------------------------------------------------------------
(* The rows of mapprint perbb: the index of the block, its function, and   *)
(* what it counted.                                                        *)

NoContext ==
  [bb_index |-> 1, bb_faultcount |-> 0, bb_faultinjcount |-> 0, bb_instcount |-> 0, bb_lines |-> <<>>,
   bb_show |-> FALSE, current_function |-> <<>>, current_file |-> <<>>, current_line |-> 0,
   fault_index |-> 0, rows |-> <<>>, listed |-> <<>>]

show_last_bb(c) ==
  IF ~c.bb_show THEN c
  ELSE [c EXCEPT !.rows = Append(@, <<c.bb_index, c.current_function, c.bb_faultcount,
                                      c.bb_faultinjcount, c.bb_instcount, c.bb_lines>>),
                 !.bb_index = @ + 1, !.bb_faultcount = 0, !.bb_faultinjcount = 0,
                 !.bb_instcount = 0, !.bb_lines = <<>>, !.bb_show = FALSE]

countline(c, path, line) ==
  IF Contains(c.bb_lines, <<path, line>>) THEN c ELSE [c EXCEPT !.bb_lines = Append(@, <<path, line>>)]

PrintRecord(c, call) ==
  CASE call[1] = "function" -> [show_last_bb(c) EXCEPT !.current_function = call[2]]
    [] call[1] = "basic_block" -> [show_last_bb(c) EXCEPT !.bb_show = TRUE]
    [] call[1] = "instruction" ->
         [c EXCEPT !.current_file = <<>>, !.current_line = 0, !.bb_instcount = @ + 1]
    [] call[1] = "dinstruction" ->
         countline([c EXCEPT !.current_file = call[2], !.current_line = call[3], !.bb_instcount = @ + 1],
                   call[2], call[3])
    [] call[1] = "fault_candidate" ->
         [c EXCEPT !.listed = Append(@, <<c.fault_index, call[2], c.current_function,
                                          c.current_file, c.current_line>>),
                   !.bb_faultcount = @ + 1, !.fault_index = @ + 1]
    [] call[1] = "fault_injected" -> [c EXCEPT !.bb_faultinjcount = @ + 1]
    [] call[1] = "module_name" -> c

Printed(bytes) == show_last_bb(Fold(PrintRecord, NoContext, mapparse_file(bytes)))
=============================================================================
