------------------------------ MODULE SopParser ------------------------------
(***************************************************************************)
(* The structural SOP parser: parse_sop_text of authority/sop_parser.py.   *)
(*                                                                         *)
(* The parser is one loop over the lines of a text.  An iteration measures *)
(* the line's indentation, classifies what is left of the line, pops the   *)
(* scopes that the indentation closes, records the line as an event whose  *)
(* parent is the scope left on top, and opens a scope for the line unless  *)
(* it is blank or a comment.  ParseNextLine is one iteration.              *)
(*                                                                         *)
(* A raw line is abstracted to what the loop tells apart: the number of    *)
(* leading spaces and tabs, the shape of the text that follows them, and   *)
(* the shape of what remains of that text when 3 characters per tab are    *)
(* cut from it (see StrippedShape).                                        *)
(***************************************************************************)
EXTENDS Naturals, Sequences

CONSTANTS RawLines,   \* the lines a text may contain
          MaxLines    \* bound on the length of a text (for model checking)

\* What _parse_line distinguishes.  "open" is a bracket label with no "]".
Shapes == {"empty", "subject", "keyed", "marked", "marked_open",
           "comment", "comment_open", "other"}

RawLine == [spaces: Nat, tabs: Nat, written: Shapes, afterCut: Shapes]

ASSUME RawLinesAssumption == RawLines \subseteq RawLine
ASSUME MaxLinesAssumption == MaxLines \in Nat

VARIABLES events,        \* the events list: one record per line read so far
          faults,        \* the faults list, in the order faults are found
          parent_stack   \* the open scopes, outermost first

parserVars == <<events, faults, parent_stack>>

-----------------------------------------------------------------------------
(* Classification of one line.                                             *)

\* parent_line_ref of an event outside every scope (None in the code).
NoParent == 0

\* A space counts for one column and a tab for four.
IndentationColumn(raw) == raw.spaces + 4 * raw.tabs

\* The code drops raw_text[:indentation_column], as many CHARACTERS as the
\* line has COLUMNS: with a tab, 3 more characters than the indentation has.
StrippedShape(raw) == IF raw.tabs = 0 THEN raw.written ELSE raw.afterCut

\* The ten marker kinds whose lines are treated alike are one kind, "marked".
MarkerKind(shape) ==
    CASE shape = "empty"                       -> "blank"
      [] shape = "subject"                     -> "subject_declaration"
      [] shape = "keyed"                       -> "directive"
      [] shape \in {"marked", "marked_open"}   -> "marked"
      [] shape \in {"comment", "comment_open"} -> "comment"
      [] shape = "other"                       -> "unknown"

Kinds == {"blank", "subject_declaration", "directive", "marked", "comment",
          "unknown"}

FaultKinds == {"unknown_marker", "bracket_label_parse_failure"}

\* The faults _parse_line returns for a line: none or one.
LineFaults(shape) ==
    CASE shape = "other"                           -> {"unknown_marker"}
      [] shape \in {"marked_open", "comment_open"} -> {"bracket_label_parse_failure"}
      [] OTHER                                     -> {}

\* Lines of these kinds never open a scope.
InertKinds == {"blank", "comment"}

-----------------------------------------------------------------------------
(* The parent stack.                                                       *)

\* Mutant of LeavesOpen: scopes in the line's own column stay open.
LeavesSiblingsOpen(kept, column) ==
    /\ \A i \in kept + 1 .. Len(parent_stack) : parent_stack[i].column > column
    /\ kept > 0 => parent_stack[kept].column <= column

\* The while loop of _parent_for stops with the first `kept` scopes: those
\* above had a column >= the line's, and the one now on top has not.
LeavesOpen(kept, column) ==
    /\ \A i \in kept + 1 .. Len(parent_stack) : parent_stack[i].column >= column
    /\ kept > 0 => parent_stack[kept].column < column

\* Mutant: the parent is looked up one scope too far out.
OuterParentFor(kept) == IF kept <= 1 THEN NoParent ELSE parent_stack[kept - 1].line
ParentFor(kept) == IF kept = 0 THEN NoParent ELSE parent_stack[kept].line

\* Mutant: lines numbered from 0.
PushParentFromZero(stack, line, column) ==
    Append(stack, [line |-> line - 1, column |-> column])
PushParent(stack, line, column) == Append(stack, [line |-> line, column |-> column])

-----------------------------------------------------------------------------
(* The loop.                                                               *)

FaultRecord(line, shape) ==
    [line_number |-> line, fault_kind |-> CHOOSE k \in LineFaults(shape) : TRUE]

\* Mutant: faults = line_faults instead of faults.extend(line_faults).
OverwriteFaults(line, shape) ==
    IF LineFaults(shape) = {} THEN faults ELSE <<FaultRecord(line, shape)>>
ExtendFaults(line, shape) ==
    IF LineFaults(shape) = {} THEN faults ELSE Append(faults, FaultRecord(line, shape))

ParserInit == /\ events = <<>>
              /\ faults = <<>>
              /\ parent_stack = <<>>

\* One iteration of the loop of parse_sop_text.
ParseNextLine(raw) ==
    LET line   == Len(events) + 1
        column == IndentationColumn(raw)
        shape  == StrippedShape(raw)
        kind   == MarkerKind(shape)
    IN  \E kept \in 0 .. Len(parent_stack) :
          /\ LeavesOpen(kept, column)
          /\ events' = Append(events,
                         [raw                 |-> raw,
                          indentation_column  |-> column,
                          marker_kind         |-> kind,
                          parent_line_ref     |-> ParentFor(kept),
                          parse_fault_ref_set |-> LineFaults(shape)])
          /\ faults' = ExtendFaults(line, shape)
          /\ LET open == SubSeq(parent_stack, 1, kept)
             IN  parent_stack' = IF kind \in InertKinds THEN open
                                 ELSE PushParent(open, line, column)

ParserNext == /\ Len(events) < MaxLines
              /\ \E raw \in RawLines : ParseNextLine(raw)

ParserSpec == ParserInit /\ [][ParserNext]_parserVars

-----------------------------------------------------------------------------
(* What the parser promises.                                               *)

Lines == 1 .. Len(events)
Column(i) == events[i].indentation_column
OpensScope(i) == events[i].marker_kind \notin InertKinds

Event == [raw: RawLines, indentation_column: Nat, marker_kind: Kinds,
          parent_line_ref: Nat, parse_fault_ref_set: SUBSET FaultKinds]

Fault == [line_number: Nat \ {0}, fault_kind: FaultKinds]
Scope == [line: Nat \ {0}, column: Nat]

\* Types of the loop's variables (ParseEvent, ParseFault and the stack).
ParserTypeOK == /\ events \in Seq(Event)
                /\ faults \in Seq(Fault)
                /\ parent_stack \in Seq(Scope)

\* What the loop computes: the scope of line j is on the stack when line i is
\* read if every line after j, inert ones and i included, is deeper than j.
OpenAt(j, i) == /\ OpensScope(j)
                /\ \A k \in j + 1 .. i : Column(k) > Column(j)

\* The stack holds the scopes that are open after the last line, all of
\* them and no other, from the outermost to the innermost.
StackHoldsOpenScopes ==
    /\ \A a \in 1 .. Len(parent_stack) :
         /\ parent_stack[a].line \in Lines
         /\ parent_stack[a].column = Column(parent_stack[a].line)
    /\ \A a, b \in 1 .. Len(parent_stack) : a < b =>
         /\ parent_stack[a].line < parent_stack[b].line
         /\ parent_stack[a].column < parent_stack[b].column
    /\ \A j \in Lines : OpenAt(j, Len(events)) <=>
         \E a \in 1 .. Len(parent_stack) : parent_stack[a].line = j

\* p is the innermost scope open at line i, or no scope is open there.
IsInnermostOpenAt(p, i) ==
    /\ p # NoParent => p \in 1 .. i - 1 /\ OpenAt(p, i)
    /\ \A j \in p + 1 .. i - 1 : ~ OpenAt(j, i)

\* The parent of every line is the innermost scope still open at that line,
\* and a line has no parent only when no scope is open: what the pops and
\* pushes of the whole prefix amount to (_parent_for, _push_parent).
ParentIsInnermostOpenScope ==
    \A i \in Lines : IsInnermostOpenAt(events[i].parent_line_ref, i)

\* Scopes nest: when line p is the parent of line i, no line between them
\* has its parent before p, so no two scopes cross.
ScopesNest ==
    \A i \in Lines :
      \A k \in events[i].parent_line_ref + 1 .. i - 1 :
        events[k].parent_line_ref >= events[i].parent_line_ref

\* j is the nearest line before i with a lower indentation.
IsNearestLower(j, i) == /\ j \in 1 .. i - 1
                        /\ Column(j) < Column(i)
                        /\ \A k \in j + 1 .. i - 1 : Column(k) >= Column(i)

\* Where no blank line and no comment comes before line i, its parent is the
\* nearest previous line with lower indentation: the profile's scope rule.
ScopeRuleWithoutInertLines ==
    \A i \in Lines :
      (\A k \in 1 .. i - 1 : OpensScope(k)) =>
         /\ \A j \in Lines : IsNearestLower(j, i) => events[i].parent_line_ref = j
         /\ (\A j \in 1 .. i - 1 : Column(j) >= Column(i))
               => events[i].parent_line_ref = NoParent

\* The fault list and the events tell the same story: faults are listed in
\* line order, one for each event that refers to a fault and none else.
FaultsMatchEvents ==
    /\ \A f, g \in 1 .. Len(faults) :
         f < g => faults[f].line_number < faults[g].line_number
    /\ \A f \in 1 .. Len(faults) :
         /\ faults[f].line_number \in Lines
         /\ faults[f].fault_kind \in events[faults[f].line_number].parse_fault_ref_set
    /\ \A i \in Lines : events[i].parse_fault_ref_set # {} =>
         \E f \in 1 .. Len(faults) : faults[f].line_number = i

\* The scope of line j is open at line i by the parser profile, where inert
\* lines alter no scope: the lines after j that open scopes, and i, are deeper.
DeclaredOpen(j, i) == /\ OpensScope(j)
                      /\ Column(i) > Column(j)
                      /\ \A k \in j + 1 .. i - 1 : OpensScope(k) => Column(k) > Column(j)

\* p is the innermost scope that the profile has open at line i.
IsInnermostDeclared(p, i) == /\ p \in 1 .. i - 1
                             /\ DeclaredOpen(p, i)
                             /\ \A j \in p + 1 .. i - 1 : ~ DeclaredOpen(j, i)

\* No line is attached to a scope that the profile has closed before it.
ParentIsDeclaredOpen ==
    \A i \in Lines :
      events[i].parent_line_ref # NoParent =>
         /\ events[i].parent_line_ref \in 1 .. i - 1
         /\ DeclaredOpen(events[i].parent_line_ref, i)

\* A line is attached to the innermost scope that the profile has open, if
\* every inert line since that scope is indented deeper than the scope.  An
\* inert line that is not pops the scope, and the profile says otherwise.
ParentIsInnermostDeclared ==
    \A i \in Lines : \A p \in 1 .. i - 1 :
      /\ IsInnermostDeclared(p, i)
      /\ \A k \in p + 1 .. i - 1 : ~ OpensScope(k) => Column(k) > Column(p)
      => events[i].parent_line_ref = p

\* Parents are the ones that indentation declares: in every text a line has
\* for parent a scope that the profile has open, and the innermost one unless
\* an inert line was indented less than it; in particular, in a text without
\* inert lines, the nearest previous line with lower indentation
\* (parse_sop_text, _parent_for, _push_parent).
ScopesFollowIndentation ==
    ParentIsDeclaredOpen /\ ParentIsInnermostDeclared /\ ScopeRuleWithoutInertLines

=============================================================================
