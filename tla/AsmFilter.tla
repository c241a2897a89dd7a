----------------------------- MODULE AsmFilter ------------------------------
(***************************************************************************)
(* compiler/base/asm-cleanup/src/lib.rs: filter_asm, which leaves of an    *)
(* assembly listing the code and the labels and data that the code uses.   *)
(*                                                                         *)
(* A line is what the regular expressions see of it:                       *)
(*   [kind, name, refs]  kind as LineType, the name a label or function    *)
(*                       line declares, the names its operands contain.    *)
(* Names in Path are demangled paths (core::fmt): LABEL_DECL_REGEX takes   *)
(* one as a whole, LABEL_REF_REGEX only sees its segments.                 *)
(***************************************************************************)
EXTENDS Naturals, Sequences

CONSTANTS Line,      \* the lines a listing is made of
          Prefix,    \* what a listing may start with, <<>> for anything
          Path,      \* names that are demangled paths
          MaxLines   \* bound on the lines after the prefix

VARIABLES
    block,      \* the listing read so far
    info,       \* line_info: <<kind, label>> per line
    current,    \* current_label, "" at first
    labels,     \* labels declared
    operands,   \* opcode_operands
    graph,      \* label_graph: edges between names
    used,       \* used_labels with the data_labels found so far
    todo,       \* labels the depth-first search has still to visit
    asmPhase    \* "scan", "search", "done"

asmVars == <<block, info, current, labels, operands, graph, used, todo, asmPhase>>

\* LABEL_REF_REGEX on the operands of a line.
Captured(line) == line.refs \ Path

\* The scan of one line, as a function from the scan's state to the next.
Scan(s, line) ==
    CASE line.kind = "Opcode" ->
           [s EXCEPT !.info = Append(@, <<"Opcode", "">>), !.operands = @ \cup Captured(line)]
      [] line.kind = "LabelDecl" ->
           [s EXCEPT !.info = Append(@, <<"LabelDecl", line.name>>),
                     !.labels = @ \cup {line.name}, !.current = line.name]
      [] line.kind = "Data" /\ s.current # "" ->
           [s EXCEPT !.info = Append(@, <<"Data", s.current>>),
                     !.graph = @ \cup {<<s.current, ref>> : ref \in Captured(line)}]
      [] line.kind = "Data" /\ s.current = "" ->    \* DIRECTIVE_REGEX matches it too
           [s EXCEPT !.info = Append(@, <<"Directive", "">>)]
      [] line.kind = "FunctionDecl" ->
           [s EXCEPT !.info = Append(@, <<"FunctionDecl", "">>),
                     !.operands = @ \cup {line.name}]
      [] OTHER ->                                   \* Directive, Blank, Misc
           [s EXCEPT !.info = Append(@, <<line.kind, "">>)]

State == [info |-> info, current |-> current, labels |-> labels, operands |-> operands,
          graph |-> graph]

Becomes(s) == /\ info' = s.info /\ current' = s.current /\ labels' = s.labels
              /\ operands' = s.operands /\ graph' = s.graph

AsmInit ==
    /\ block = <<>> /\ used = {} /\ todo = {} /\ asmPhase = "scan"
    /\ info = <<>> /\ current = "" /\ labels = {} /\ operands = {} /\ graph = {}

\* The listings that are read: a prefix, or its beginning, and up to MaxLines more.
Listing(b) == \E p \in Prefix : /\ Len(b) <= Len(p) + MaxLines
                                /\ \A n \in DOMAIN b \cap DOMAIN p : b[n] = p[n]

\* `for line in block.lines()`
ReadLine ==
    /\ asmPhase = "scan"
    /\ \E line \in Line : /\ block' = Append(block, line) /\ Listing(block')
                          /\ Becomes(Scan(State, line))
    /\ UNCHANGED <<used, todo, asmPhase>>

\* Variant: labels that only data refers to are not searched for.
NarrowStartSearch ==
    /\ asmPhase = "scan" /\ asmPhase' = "search"
    /\ used' = labels \cap operands /\ todo' = {}
    /\ UNCHANGED <<block, info, current, labels, operands, graph>>

\* The labels that opcodes and functions name are used, and searches start there.
StartSearch ==
    /\ asmPhase = "scan" /\ asmPhase' = "search"
    /\ used' = labels \cap operands /\ todo' = labels \cap operands
    /\ UNCHANGED <<block, info, current, labels, operands, graph>>

\* One step of Dfs::next; the order does not matter.
SearchStep ==
    /\ asmPhase = "search" /\ todo # {}
    /\ LET l == CHOOSE l \in todo : TRUE
           found == {e[2] : e \in {e \in graph : e[1] = l}} \ used
       IN used' = used \cup found /\ todo' = (todo \ {l}) \cup found
    /\ UNCHANGED <<block, info, current, labels, operands, graph, asmPhase>>

SearchDone ==
    /\ asmPhase = "search" /\ todo = {} /\ asmPhase' = "done"
    /\ UNCHANGED <<block, info, current, labels, operands, graph, used, todo>>

AsmNext == ReadLine \/ StartSearch \/ SearchStep \/ SearchDone

\* The lines of the result.
KeptLines ==
    {n \in DOMAIN block : \/ info[n][1] \in {"Opcode", "Misc"}
                          \/ info[n][1] \in {"Data", "LabelDecl"} /\ info[n][2] \in used}

-----------------------------------------------------------------------------
\* The result is closed and no larger than needed.  A label that a kept opcode
\* or data line refers to is kept, unless it is a demangled path, which
\* filter_asm does not recognise in an operand; and a label that is kept is
\* named by a kept line or declared as a function.  Both only follow from the
\* scan, the label graph and the search together (filter_asm).
FilteredAsmClosed ==
    asmPhase = "done" =>
      /\ \A n \in KeptLines, m \in DOMAIN block :
           info[n][1] \in {"Opcode", "Data"} /\ block[m].kind = "LabelDecl"
             /\ block[m].name \in block[n].refs \ Path => m \in KeptLines
      /\ \A m \in KeptLines : block[m].kind = "LabelDecl" =>
           \/ \E n \in KeptLines : block[m].name \in block[n].refs
           \/ \E n \in DOMAIN block : block[n].kind = "FunctionDecl"
                                      /\ block[n].name = block[m].name
=============================================================================
