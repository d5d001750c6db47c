--------------------------- MODULE AuthorityProofs ---------------------------
(***************************************************************************)
(* Theorems about authority (IR2), one component after the other.          *)
(*                                                                         *)
(* SopParser, for every set of raw lines and texts of every length: the    *)
(* stack holds the scopes that indentation leaves open, and the rest       *)
(* follows.                                                                *)
(*                                                                         *)
(* AuthorityValidation: the two steps keep the candidate and the result    *)
(* functions of the document, and the rest is a case analysis of the       *)
(* cascade.                                                                *)
(*                                                                         *)
(* AuthorityProjection, for every set of paths and texts and any number of *)
(* edits, builds and failures: what is committed is whole, evidenced and   *)
(* labelled, and a commit shows the files as they are.                     *)
(***************************************************************************)
EXTENDS SopParser, AuthorityValidation, AuthorityProjection, TLAPS, SequenceTheorems

-----------------------------------------------------------------------------
(* Parser: facts about one line.                                           *)

\* The classification of a raw line has the types the event record needs.
LEMMA LineTypes ==
    ASSUME NEW raw \in RawLines
    PROVE  /\ IndentationColumn(raw) \in Nat
           /\ StrippedShape(raw) \in Shapes
           /\ MarkerKind(StrippedShape(raw)) \in Kinds
           /\ LineFaults(StrippedShape(raw)) \subseteq FaultKinds
  <1>1. raw \in RawLine
    BY RawLinesAssumption
  <1>2. IndentationColumn(raw) \in Nat
    BY <1>1 DEF RawLine, IndentationColumn
  <1>3. StrippedShape(raw) \in Shapes
    BY <1>1 DEF RawLine, StrippedShape
  <1>4. MarkerKind(StrippedShape(raw)) \in Kinds
    BY <1>3 DEF MarkerKind, Kinds, Shapes
  <1>5. LineFaults(StrippedShape(raw)) \subseteq FaultKinds
    BY <1>3 DEF LineFaults, FaultKinds, Shapes
  <1>. QED BY <1>2, <1>3, <1>4, <1>5

\* The fault list grows by at most one fault, of the line that was read.
LEMMA ExtendFaultsType ==
    ASSUME NEW raw \in RawLines, NEW line \in Nat \ {0},
           faults \in Seq(Fault)
    PROVE  ExtendFaults(line, StrippedShape(raw))
             \in Seq(Fault)
  <1>. DEFINE shape == StrippedShape(raw)
  <1>1. LineFaults(shape) \subseteq FaultKinds
    BY LineTypes
  <1>2. LineFaults(shape) # {} => (CHOOSE k \in LineFaults(shape) : TRUE) \in FaultKinds
    BY <1>1
  <1>3. LineFaults(shape) # {} =>
          FaultRecord(line, shape) \in Fault
    BY <1>2 DEF FaultRecord, Fault
  <1>. QED BY <1>3, AppendProperties DEF ExtendFaults

-----------------------------------------------------------------------------
(* Parser: type correctness.                                               *)

\* The types hold initially.
LEMMA TypeInit == ParserInit => ParserTypeOK
  BY DEF ParserInit, ParserTypeOK

\* Parsing a line keeps the types.
LEMMA TypeStep == ParserTypeOK /\ [ParserNext]_parserVars => ParserTypeOK'
  <1>. SUFFICES ASSUME ParserTypeOK, [ParserNext]_parserVars PROVE ParserTypeOK'
    OBVIOUS
  <1>1. CASE UNCHANGED parserVars
    BY <1>1 DEF ParserTypeOK, parserVars
  <1>2. CASE ParserNext
    <2>1. PICK raw \in RawLines : ParseNextLine(raw)
      BY <1>2 DEF ParserNext
    <2>. DEFINE line   == Len(events) + 1
                column == IndentationColumn(raw)
                shape  == StrippedShape(raw)
                kind   == MarkerKind(shape)
    <2>2. PICK kept \in 0 .. Len(parent_stack) :
            /\ LeavesOpen(kept, column)
            /\ events' = Append(events,
                 [raw                 |-> raw,
                  indentation_column  |-> column,
                  marker_kind         |-> kind,
                  parent_line_ref     |-> ParentFor(kept),
                  parse_fault_ref_set |-> LineFaults(shape)])
            /\ faults' = ExtendFaults(line, shape)
            /\ LET open == SubSeq(parent_stack, 1, kept)
               IN  parent_stack' = IF kind \in InertKinds THEN open
                                   ELSE PushParent(open, line, column)
      BY <2>1 DEF ParseNextLine
    <2>3. line \in Nat \ {0}
      BY DEF ParserTypeOK
    <2>4. /\ column \in Nat /\ kind \in Kinds
          /\ LineFaults(shape) \in SUBSET FaultKinds
      BY LineTypes
    <2>5. ParentFor(kept) \in Nat
      <3>1. kept # 0 => parent_stack[kept] \in Scope
        BY ElementOfSeq DEF ParserTypeOK
      <3>. QED BY <3>1 DEF ParentFor, NoParent, Scope
    <2>6. events' \in Seq(Event)
      BY <2>2, <2>4, <2>5, AppendProperties DEF ParserTypeOK, Event
    <2>7. faults' \in Seq(Fault)
      BY <2>2, <2>3, ExtendFaultsType DEF ParserTypeOK
    <2>8. SubSeq(parent_stack, 1, kept) \in Seq(Scope)
      <3>1. \A a \in 1 .. kept : parent_stack[a] \in Scope
        BY ElementOfSeq DEF ParserTypeOK
      <3>. QED BY <3>1, SubSeqProperties
    <2>9. parent_stack' \in Seq(Scope)
      BY <2>2, <2>3, <2>4, <2>8, AppendProperties DEF PushParent, Scope
    <2>. QED BY <2>6, <2>7, <2>9 DEF ParserTypeOK
  <1>. QED BY <1>1, <1>2

\* The variables of the loop keep their types (ParseEvent, ParseFault).
THEOREM TypeCorrect == ParserSpec => []ParserTypeOK
  BY TypeInit, TypeStep, PTL DEF ParserSpec

-----------------------------------------------------------------------------
(* Parser: scopes.                                                         *)

\* What one iteration does to the events and the stack, element by element.
LEMMA NextEffects ==
    ASSUME ParserTypeOK, ParserNext
    PROVE  \E kept \in 0 .. Len(parent_stack), column \in Nat, kind \in Kinds :
             LET new == Len(events) + 1
             IN  /\ LeavesOpen(kept, column)
                 /\ Len(events') = new
                 /\ \A i \in 1 .. Len(events) : events'[i] = events[i]
                 /\ events'[new].indentation_column = column
                 /\ events'[new].marker_kind = kind
                 /\ events'[new].parent_line_ref = ParentFor(kept)
                 /\ Len(parent_stack') = IF kind \in InertKinds THEN kept ELSE kept + 1
                 /\ \A a \in 1 .. kept : parent_stack'[a] = parent_stack[a]
                 /\ kind \notin InertKinds =>
                      parent_stack'[kept + 1] = [line |-> new, column |-> column]
  <1>1. PICK raw \in RawLines : ParseNextLine(raw)
    BY DEF ParserNext
  <1>. DEFINE new    == Len(events) + 1
              column == IndentationColumn(raw)
              shape  == StrippedShape(raw)
              kind   == MarkerKind(shape)
  <1>2. PICK kept \in 0 .. Len(parent_stack) :
          /\ LeavesOpen(kept, column)
          /\ events' = Append(events,
               [raw                 |-> raw,
                indentation_column  |-> column,
                marker_kind         |-> kind,
                parent_line_ref     |-> ParentFor(kept),
                parse_fault_ref_set |-> LineFaults(shape)])
          /\ LET open == SubSeq(parent_stack, 1, kept)
             IN  parent_stack' = IF kind \in InertKinds THEN open
                                 ELSE PushParent(open, new, column)
    BY <1>1 DEF ParseNextLine
  <1>3. column \in Nat /\ kind \in Kinds
    BY LineTypes
  <1>4. /\ Len(events') = new
        /\ \A i \in 1 .. Len(events) : events'[i] = events[i]
        /\ events'[new].indentation_column = column
        /\ events'[new].marker_kind = kind
        /\ events'[new].parent_line_ref = ParentFor(kept)
    BY <1>2, AppendProperties DEF ParserTypeOK
  <1>. DEFINE open == SubSeq(parent_stack, 1, kept)
  <1>5. /\ open \in Seq(Scope)
        /\ Len(open) = kept
        /\ \A a \in 1 .. kept : open[a] = parent_stack[a]
    <2>1. \A a \in 1 .. kept : parent_stack[a] \in Scope
      BY ElementOfSeq DEF ParserTypeOK
    <2>. QED BY <2>1, SubSeqProperties
  <1>6. CASE kind \in InertKinds
    <2>1. parent_stack' = open
      BY <1>2, <1>6
    <2>. HIDE DEF open, column, kind, new
    <2>. QED BY <1>2, <1>3, <1>4, <1>5, <1>6, <2>1 DEF new
  <1>7. CASE kind \notin InertKinds
    <2>1. parent_stack' = Append(open, [line |-> new, column |-> column])
      BY <1>2, <1>7 DEF PushParent
    <2>2. /\ Len(parent_stack') = kept + 1
          /\ \A a \in 1 .. kept : parent_stack'[a] = parent_stack[a]
          /\ parent_stack'[kept + 1] = [line |-> new, column |-> column]
      <3>. HIDE DEF open, column, kind, new
      <3>. QED BY <1>5, <2>1, AppendProperties
    <2>. HIDE DEF open, column, kind, new
    <2>. QED BY <1>2, <1>3, <1>4, <1>7, <2>2 DEF new
  <1>. QED BY <1>6, <1>7

\* The inductive invariant: the stack is what is needed to know, of all the
\* lines read so far, to give the next line its parent.
ScopeInvariant == ParserTypeOK /\ StackHoldsOpenScopes /\ ParentIsInnermostOpenScope

\* The scope invariant holds before the first line.
LEMMA ScopeInit == ParserInit => ScopeInvariant
  BY TypeInit DEF ParserInit, ScopeInvariant, StackHoldsOpenScopes,
                  ParentIsInnermostOpenScope, Lines

\* Parsing a line keeps the scope invariant.
LEMMA ScopeStep == ScopeInvariant /\ [ParserNext]_parserVars => ScopeInvariant'
  <1>. SUFFICES ASSUME ScopeInvariant, [ParserNext]_parserVars PROVE ScopeInvariant'
    OBVIOUS
  <1>. USE DEF ScopeInvariant
  <1>1. ParserTypeOK'
    BY TypeStep
  <1>2. CASE UNCHANGED parserVars
    BY <1>1, <1>2 DEF parserVars, StackHoldsOpenScopes, ParentIsInnermostOpenScope,
                      IsInnermostOpenAt, Lines, OpenAt, OpensScope, Column
  <1>3. CASE ParserNext
    <2>. PICK n \in Nat, m \in Nat : n = Len(events) /\ m = Len(parent_stack)
      BY DEF ParserTypeOK
    <2>1. PICK kept \in 0 .. m, column \in Nat, kind \in Kinds :
            /\ LeavesOpen(kept, column)
            /\ Len(events') = n + 1
            /\ \A i \in 1 .. n : events'[i] = events[i]
            /\ events'[n + 1].indentation_column = column
            /\ events'[n + 1].marker_kind = kind
            /\ events'[n + 1].parent_line_ref = ParentFor(kept)
            /\ Len(parent_stack') = IF kind \in InertKinds THEN kept ELSE kept + 1
            /\ \A a \in 1 .. kept : parent_stack'[a] = parent_stack[a]
            /\ kind \notin InertKinds =>
                 parent_stack'[kept + 1] = [line |-> n + 1, column |-> column]
      BY <1>3, NextEffects
    <2>2. /\ \A i \in 1 .. n : /\ Column(i) \in Nat
                               /\ events[i].parent_line_ref \in Nat
          /\ \A a \in 1 .. m : /\ parent_stack[a].line \in Nat
                               /\ parent_stack[a].column \in Nat
      <3>1. \A i \in 1 .. n : events[i] \in Event
        BY ElementOfSeq DEF ParserTypeOK
      <3>2. \A a \in 1 .. m : parent_stack[a] \in Scope
        BY ElementOfSeq DEF ParserTypeOK
      <3>. QED BY <3>1, <3>2 DEF Event, Scope, Column
    \* Lines read before keep their column, and what they have open.
    <2>3. /\ \A i \in 1 .. n : Column(i)' = Column(i) /\ (OpensScope(i)' <=> OpensScope(i))
          /\ Column(n + 1)' = column
          /\ OpensScope(n + 1)' <=> kind \notin InertKinds
      BY <2>1 DEF Column, OpensScope
    <2>4. \A i \in 1 .. n : \A j \in 1 .. i : OpenAt(j, i)' <=> OpenAt(j, i)
      BY <2>3 DEF OpenAt
    <2>5. \A j \in 1 .. n : OpenAt(j, n + 1)' <=> OpenAt(j, n) /\ column > Column(j)
      BY <2>3 DEF OpenAt
    <2>6. OpenAt(n + 1, n + 1)' <=> kind \notin InertKinds
      BY <2>3 DEF OpenAt
    <2>7. /\ \A a \in 1 .. m : /\ parent_stack[a].line \in 1 .. n
                               /\ parent_stack[a].column = Column(parent_stack[a].line)
          /\ \A a, b \in 1 .. m : a < b =>
               /\ parent_stack[a].line < parent_stack[b].line
               /\ parent_stack[a].column < parent_stack[b].column
          /\ \A j \in 1 .. n : OpenAt(j, n) <=> \E a \in 1 .. m : parent_stack[a].line = j
      BY DEF StackHoldsOpenScopes, Lines
    \* The scopes that stay on the stack are those open at the new line.
    <2>8. /\ \A a \in 1 .. kept : parent_stack[a].column < column
          /\ \A a \in kept + 1 .. m : parent_stack[a].column >= column
      <3>1. \A a \in kept + 1 .. m : parent_stack[a].column >= column
        BY <2>1 DEF LeavesOpen
      <3>2. kept > 0 => parent_stack[kept].column < column
        BY <2>1 DEF LeavesOpen
      <3>3. ASSUME NEW a \in 1 .. kept PROVE parent_stack[a].column < column
        <4>1. a < kept => parent_stack[a].column < parent_stack[kept].column
          <5>. a \in 1 .. m /\ kept \in 1 .. m
            OBVIOUS
          <5>. QED BY <2>7
        <4>. QED BY <2>2, <3>2, <4>1
      <3>. QED BY <3>1, <3>3
    <2>9. \A j \in 1 .. n : OpenAt(j, n + 1)' <=>
            \E a \in 1 .. kept : parent_stack[a].line = j
      <3>1. ASSUME NEW j \in 1 .. n, NEW a \in 1 .. kept, parent_stack[a].line = j
            PROVE  OpenAt(j, n + 1)'
        <4>1. a \in 1 .. m /\ column > Column(j)
          <5>1. a \in 1 .. m
            OBVIOUS
          <5>2. parent_stack[a].column = Column(j) /\ parent_stack[a].column < column
            BY <2>7, <2>8, <3>1, <5>1
          <5>. QED BY <2>2, <5>1, <5>2
        <4>2. OpenAt(j, n)
          BY <2>7, <3>1, <4>1
        <4>. QED BY <2>5, <4>1, <4>2
      <3>2. ASSUME NEW j \in 1 .. n, OpenAt(j, n + 1)'
            PROVE  \E a \in 1 .. kept : parent_stack[a].line = j
        <4>1. PICK a \in 1 .. m : parent_stack[a].line = j
          BY <2>5, <2>7, <3>2
        <4>2. parent_stack[a].column < column
          BY <2>5, <2>7, <3>2, <4>1
        <4>3. ~ (parent_stack[a].column >= column)
          BY <2>2, <4>2
        <4>. QED BY <2>8, <4>1, <4>3
      <3>. QED BY <3>1, <3>2
    <2>10. StackHoldsOpenScopes'
      <3>1. \A a \in 1 .. Len(parent_stack') :
              /\ parent_stack'[a].line \in 1 .. n + 1
              /\ parent_stack'[a].column = events'[parent_stack'[a].line].indentation_column
        BY <2>1, <2>3, <2>7 DEF Column
      <3>2. ASSUME NEW a \in 1 .. Len(parent_stack'), NEW b \in 1 .. Len(parent_stack'), a < b
            PROVE  /\ parent_stack'[a].line < parent_stack'[b].line
                   /\ parent_stack'[a].column < parent_stack'[b].column
        <4>1. a \in 1 .. kept /\ parent_stack'[a] = parent_stack[a]
          BY <2>1, <3>2
        <4>2. CASE b \in 1 .. kept
          BY <2>1, <2>7, <3>2, <4>1, <4>2
        <4>3. CASE b = kept + 1
          <5>1. kind \notin InertKinds
            BY <2>1, <4>3
          <5>2. parent_stack'[b] = [line |-> n + 1, column |-> column]
            BY <2>1, <4>3, <5>1
          <5>3. parent_stack[a].line \in 1 .. n
            BY <2>7, <4>1
          <5>. QED BY <2>8, <4>1, <5>2, <5>3
        <4>. QED BY <2>1, <4>2, <4>3
      <3>3. ASSUME NEW j \in 1 .. n + 1
            PROVE  OpenAt(j, n + 1)' <=>
                     \E a \in 1 .. Len(parent_stack') : parent_stack'[a].line = j
        <4>1. \A a \in 1 .. kept : parent_stack'[a].line \in 1 .. n
          BY <2>1, <2>7
        <4>2. CASE j \in 1 .. n
          <5>1. ASSUME OpenAt(j, n + 1)'
                PROVE  \E a \in 1 .. Len(parent_stack') : parent_stack'[a].line = j
            <6>1. PICK a \in 1 .. kept : parent_stack[a].line = j
              BY <2>9, <4>2, <5>1
            <6>. QED BY <2>1, <6>1
          <5>2. ASSUME NEW a \in 1 .. Len(parent_stack'), parent_stack'[a].line = j
                PROVE  OpenAt(j, n + 1)'
            <6>1. a \in 1 .. kept
              BY <2>1, <4>2, <5>2
            <6>2. parent_stack[a].line = j
              BY <2>1, <5>2, <6>1
            <6>. QED BY <2>9, <4>2, <6>1, <6>2
          <5>. QED BY <5>1, <5>2
        <4>3. CASE j = n + 1
          BY <2>1, <2>6, <4>1, <4>3
        <4>. QED BY <4>2, <4>3
      <3>. QED BY <2>1, <3>1, <3>2, <3>3 DEF StackHoldsOpenScopes, Lines, Column
    <2>11. ParentIsInnermostOpenScope'
      <3>. PICK p \in Nat : p = ParentFor(kept)
        BY <2>2 DEF ParentFor, NoParent
      <3>1. ASSUME NEW i \in 1 .. n PROVE IsInnermostOpenAt(events[i].parent_line_ref, i)'
        <4>. PICK q \in Nat : q = events[i].parent_line_ref
          BY <2>2
        <4>1. IsInnermostOpenAt(q, i)
          BY DEF ParentIsInnermostOpenScope, Lines
        <4>2. q = (events[i].parent_line_ref)'
          BY <2>1
        <4>3. IsInnermostOpenAt(q, i)'
          BY <2>4, <4>1 DEF IsInnermostOpenAt, NoParent
        <4>. QED BY <4>2, <4>3
      <3>2. p # NoParent => p \in 1 .. n /\ OpenAt(p, n + 1)'
        <4>1. CASE kept = 0
          BY <4>1 DEF ParentFor
        <4>2. CASE kept # 0
          <5>1. kept \in 1 .. kept /\ kept \in 1 .. m /\ p = parent_stack[kept].line
            BY <4>2 DEF ParentFor
          <5>2. p \in 1 .. n
            BY <2>7, <5>1
          <5>. QED BY <2>9, <5>1, <5>2
        <4>. QED BY <4>1, <4>2
      <3>3. \A j \in p + 1 .. n : ~ OpenAt(j, n + 1)'
        <4>1. kept = 0 => \A j \in 1 .. n : ~ OpenAt(j, n + 1)'
          BY <2>9
        <4>2. kept # 0 => \A a \in 1 .. kept : parent_stack[a].line <= parent_stack[kept].line
          <5>1. ASSUME NEW a \in 1 .. kept, kept # 0
                PROVE  parent_stack[a].line <= parent_stack[kept].line
            <6>1. a \in 1 .. m /\ kept \in 1 .. m
              BY <5>1
            <6>2. a < kept => parent_stack[a].line < parent_stack[kept].line
              BY <2>7, <6>1
            <6>. QED BY <2>2, <5>1, <6>1, <6>2
          <5>. QED BY <5>1
        <4>3. ASSUME NEW j \in p + 1 .. n, OpenAt(j, n + 1)' PROVE FALSE
          <5>1. PICK a \in 1 .. kept : parent_stack[a].line = j
            BY <2>9, <4>3
          <5>2. kept # 0 /\ p = parent_stack[kept].line
            BY <5>1 DEF ParentFor
          <5>. QED BY <2>2, <4>2, <5>1, <5>2
        <4>. QED BY <4>3
      <3>4. IsInnermostOpenAt(p, n + 1)'
        BY <3>2, <3>3 DEF IsInnermostOpenAt
      <3>. QED BY <2>1, <3>1, <3>4 DEF ParentIsInnermostOpenScope, Lines
    <2>. QED BY <1>1, <2>10, <2>11
  <1>. QED BY <1>2, <1>3

\* The scope invariant holds always.
LEMMA ScopeInvariantHolds == ParserSpec => []ScopeInvariant
  BY ScopeInit, ScopeStep, PTL DEF ParserSpec

\* The stack holds the scopes that no later line, inert ones included, has
\* popped, and no other (_parent_for, _push_parent).
THEOREM StackCorrect == ParserSpec => []StackHoldsOpenScopes
  BY ScopeInvariantHolds, PTL DEF ScopeInvariant

\* Every event's parent is the innermost scope that no line, inert ones
\* included, has popped (_parent_for).
THEOREM ParentCorrect == ParserSpec => []ParentIsInnermostOpenScope
  BY ScopeInvariantHolds, PTL DEF ScopeInvariant

-----------------------------------------------------------------------------
(* Parser: consequences of the parents being the innermost open scopes.    *)

\* The columns and parents of events are numbers.
LEMMA EventTypes ==
    ASSUME ParserTypeOK
    PROVE  /\ Len(events) \in Nat
           /\ \A i \in Lines : Column(i) \in Nat /\ events[i].parent_line_ref \in Nat
  <1>1. \A i \in Lines : events[i] \in Event
    BY ElementOfSeq DEF ParserTypeOK, Lines
  <1>. QED BY <1>1 DEF ParserTypeOK, Event, Column

\* No two scopes cross.
THEOREM ScopesNestCorrect == ParserSpec => []ScopesNest
  <1>1. ScopeInvariant => ScopesNest
    <2>. SUFFICES ASSUME ScopeInvariant,
                         NEW i \in Lines,
                         NEW k \in events[i].parent_line_ref + 1 .. i - 1
                  PROVE  events[k].parent_line_ref >= events[i].parent_line_ref
      BY DEF ScopesNest
    <2>1. k \in Lines /\ i \in 1 .. Len(events)
      BY EventTypes DEF ScopeInvariant, Lines
    <2>. PICK p \in Nat, q \in Nat : p = events[i].parent_line_ref /\ q = events[k].parent_line_ref
      BY <2>1, EventTypes DEF ScopeInvariant
    <2>2. IsInnermostOpenAt(p, i) /\ IsInnermostOpenAt(q, k)
      BY <2>1 DEF ScopeInvariant, ParentIsInnermostOpenScope
    <2>3. CASE p = 0
      BY <2>3
    <2>4. CASE p # 0
      <3>1. p \in 1 .. k - 1 /\ OpenAt(p, k)
        BY <2>1, <2>2, <2>4 DEF IsInnermostOpenAt, OpenAt, NoParent, Lines
      <3>2. p \notin q + 1 .. k - 1
        BY <2>2, <3>1 DEF IsInnermostOpenAt
      <3>. QED BY <2>1, <3>1, <3>2 DEF Lines
    <2>. QED BY <2>3, <2>4
  <1>. QED BY <1>1, ScopeInvariantHolds, PTL

\* The scope rule of the parser profile, in texts with no blank line and no
\* comment before the line.
THEOREM ScopeRuleCorrect == ParserSpec => []ScopeRuleWithoutInertLines
  <1>1. ScopeInvariant => ScopeRuleWithoutInertLines
    <2>. SUFFICES ASSUME ScopeInvariant,
                         NEW i \in Lines,
                         \A k \in 1 .. i - 1 : OpensScope(k)
                  PROVE  /\ \A j \in Lines : IsNearestLower(j, i) =>
                                             events[i].parent_line_ref = j
                         /\ (\A j \in 1 .. i - 1 : Column(j) >= Column(i))
                               => events[i].parent_line_ref = NoParent
      BY DEF ScopeRuleWithoutInertLines
    <2>. PICK p \in Nat : p = events[i].parent_line_ref
      BY EventTypes DEF ScopeInvariant
    <2>1. /\ Len(events) \in Nat /\ i \in 1 .. Len(events)
          /\ \A k \in 1 .. i : Column(k) \in Nat
      BY EventTypes DEF ScopeInvariant, Lines
    <2>2. IsInnermostOpenAt(p, i)
      BY DEF ScopeInvariant, ParentIsInnermostOpenScope
    <2>3. p # 0 => p \in 1 .. i - 1 /\ Column(i) > Column(p)
      BY <2>1, <2>2 DEF IsInnermostOpenAt, OpenAt, NoParent
    <2>4. ASSUME NEW j \in Lines, IsNearestLower(j, i) PROVE p = j
      <3>1. j \in 1 .. i - 1 /\ OpenAt(j, i)
        BY <2>1, <2>4 DEF IsNearestLower, OpenAt
      <3>2. j \notin p + 1 .. i - 1
        BY <2>2, <3>1 DEF IsInnermostOpenAt
      <3>3. p \notin j + 1 .. i - 1
        BY <2>1, <2>3, <2>4 DEF IsNearestLower
      <3>. QED BY <2>1, <2>3, <3>1, <3>2, <3>3
    <2>5. ASSUME \A j \in 1 .. i - 1 : Column(j) >= Column(i) PROVE p = NoParent
      BY <2>1, <2>3, <2>5 DEF NoParent
    <2>. QED BY <2>4, <2>5
  <1>. QED BY <1>1, ScopeInvariantHolds, PTL

\* What the profile has open and no inert line has popped is on the stack, and
\* what is on the stack the profile has open.
LEMMA DeclaredAndOpen ==
    ASSUME ParserTypeOK, NEW i \in Lines, NEW j \in 1 .. i - 1
    PROVE  /\ OpenAt(j, i) => DeclaredOpen(j, i)
           /\ /\ DeclaredOpen(j, i)
              /\ \A k \in j + 1 .. i - 1 : ~ OpensScope(k) => Column(k) > Column(j)
              => OpenAt(j, i)
  <1>1. Len(events) \in Nat /\ i \in 1 .. Len(events)
    BY EventTypes DEF Lines
  <1>. QED BY <1>1 DEF OpenAt, DeclaredOpen

\* Parents are the ones that indentation declares, in a text of any length.
THEOREM ScopesFollowIndentationCorrect == ParserSpec => []ScopesFollowIndentation
  <1>1. ScopeInvariant => ParentIsDeclaredOpen
    <2>. SUFFICES ASSUME ScopeInvariant, NEW i \in Lines,
                         events[i].parent_line_ref # NoParent
                  PROVE  /\ events[i].parent_line_ref \in 1 .. i - 1
                         /\ DeclaredOpen(events[i].parent_line_ref, i)
      BY DEF ParentIsDeclaredOpen
    <2>. PICK p \in Nat : p = events[i].parent_line_ref
      BY EventTypes DEF ScopeInvariant
    <2>1. p \in 1 .. i - 1 /\ OpenAt(p, i)
      BY DEF ScopeInvariant, ParentIsInnermostOpenScope, IsInnermostOpenAt
    <2>. QED BY <2>1, DeclaredAndOpen DEF ScopeInvariant
  <1>2. ScopeInvariant => ParentIsInnermostDeclared
    <2>. SUFFICES ASSUME ScopeInvariant, NEW i \in Lines, NEW p \in 1 .. i - 1,
                         IsInnermostDeclared(p, i),
                         \A k \in p + 1 .. i - 1 : ~ OpensScope(k) => Column(k) > Column(p)
                  PROVE  events[i].parent_line_ref = p
      BY DEF ParentIsInnermostDeclared
    <2>. PICK q \in Nat : q = events[i].parent_line_ref
      BY EventTypes DEF ScopeInvariant
    <2>1. Len(events) \in Nat /\ i \in 1 .. Len(events) /\ p \in Nat
      BY EventTypes DEF ScopeInvariant, Lines
    <2>2. IsInnermostOpenAt(q, i)
      BY DEF ScopeInvariant, ParentIsInnermostOpenScope
    <2>3. OpenAt(p, i)
      BY DeclaredAndOpen DEF IsInnermostDeclared, ScopeInvariant
    <2>4. p \notin q + 1 .. i - 1
      BY <2>2, <2>3 DEF IsInnermostOpenAt
    <2>5. q # 0 /\ q \in 1 .. i - 1 /\ OpenAt(q, i)
      BY <2>1, <2>2, <2>4 DEF IsInnermostOpenAt, NoParent
    <2>6. DeclaredOpen(q, i)
      BY <2>5, DeclaredAndOpen DEF ScopeInvariant
    <2>7. q \notin p + 1 .. i - 1
      BY <2>6 DEF IsInnermostDeclared
    <2>. QED BY <2>1, <2>4, <2>5, <2>7
  <1>3. ParentIsDeclaredOpen /\ ParentIsInnermostDeclared /\ ScopeRuleWithoutInertLines
            => ScopesFollowIndentation
    BY DEF ScopesFollowIndentation
  <1>. QED BY <1>1, <1>2, <1>3, ScopeInvariantHolds, ScopeRuleCorrect, PTL

-----------------------------------------------------------------------------
(* Parser: faults.                                                         *)

\* What one iteration does to the events and the faults.
LEMMA FaultEffects ==
    ASSUME ParserTypeOK, ParserNext
    PROVE  \E noted \in SUBSET FaultKinds :
             LET new == Len(events) + 1
             IN  /\ Len(events') = new
                 /\ \A i \in 1 .. Len(events) : events'[i] = events[i]
                 /\ events'[new].parse_fault_ref_set = noted
                 /\ noted = {} => faults' = faults
                 /\ noted # {} => \E fault \in Fault : /\ faults' = Append(faults, fault)
                                                      /\ fault.line_number = new
                                                      /\ fault.fault_kind \in noted
  <1>1. PICK raw \in RawLines : ParseNextLine(raw)
    BY DEF ParserNext
  <1>. DEFINE new    == Len(events) + 1
              column == IndentationColumn(raw)
              shape  == StrippedShape(raw)
              kind   == MarkerKind(shape)
              noted  == LineFaults(shape)
  <1>2. PICK kept \in 0 .. Len(parent_stack) :
          /\ events' = Append(events,
               [raw                 |-> raw,
                indentation_column  |-> column,
                marker_kind         |-> kind,
                parent_line_ref     |-> ParentFor(kept),
                parse_fault_ref_set |-> noted])
          /\ faults' = ExtendFaults(new, shape)
    BY <1>1 DEF ParseNextLine
  <1>3. noted \in SUBSET FaultKinds /\ new \in Nat \ {0}
    BY LineTypes DEF ParserTypeOK
  <1>4. /\ Len(events') = new
        /\ \A i \in 1 .. Len(events) : events'[i] = events[i]
        /\ events'[new].parse_fault_ref_set = noted
    BY <1>2, AppendProperties DEF ParserTypeOK
  <1>5. noted = {} => faults' = faults
    BY <1>2 DEF ExtendFaults
  <1>6. ASSUME noted # {}
        PROVE  \E fault \in Fault : /\ faults' = Append(faults, fault)
                                    /\ fault.line_number = new
                                    /\ fault.fault_kind \in noted
    <2>. DEFINE fault == FaultRecord(new, shape)
    <2>1. (CHOOSE k \in noted : TRUE) \in noted
      BY <1>6
    <2>2. fault.line_number = new /\ fault.fault_kind \in noted
      BY <2>1 DEF FaultRecord
    <2>3. fault \in Fault
      BY <1>3, <2>1 DEF FaultRecord, Fault
    <2>4. faults' = Append(faults, fault)
      BY <1>2, <1>6 DEF ExtendFaults
    <2>. QED BY <2>2, <2>3, <2>4
  <1>. QED BY <1>3, <1>4, <1>5, <1>6

\* Faults and events go on matching: the fault of a line is the last one.
LEMMA FaultStep == ParserTypeOK /\ FaultsMatchEvents /\ [ParserNext]_parserVars => FaultsMatchEvents'
  <1>. SUFFICES ASSUME ParserTypeOK, FaultsMatchEvents, [ParserNext]_parserVars
                PROVE  FaultsMatchEvents'
    OBVIOUS
  <1>1. CASE UNCHANGED parserVars
    BY <1>1 DEF parserVars, FaultsMatchEvents, Lines
  <1>2. CASE ParserNext
    <2>. DEFINE new == Len(events) + 1
    <2>1. PICK noted \in SUBSET FaultKinds :
            /\ Len(events') = new
            /\ \A i \in 1 .. Len(events) : events'[i] = events[i]
            /\ events'[new].parse_fault_ref_set = noted
            /\ noted = {} => faults' = faults
            /\ noted # {} => \E fault \in Fault : /\ faults' = Append(faults, fault)
                                                  /\ fault.line_number = new
                                                  /\ fault.fault_kind \in noted
      BY <1>2, FaultEffects
    <2>2. Len(events) \in Nat /\ Len(faults) \in Nat /\ Lines = 1 .. Len(events) /\ Lines' = 1 .. new
      BY <2>1 DEF ParserTypeOK, Lines
    <2>3. \A f \in 1 .. Len(faults) : faults[f].line_number \in 1 .. Len(events)
      BY <2>2 DEF FaultsMatchEvents
    <2>4. CASE noted = {}
      <3>1. faults' = faults
        BY <2>1, <2>4
      <3>2. \A f \in 1 .. Len(faults') :
              /\ faults'[f].line_number \in Lines'
              /\ faults'[f].fault_kind \in events'[faults'[f].line_number].parse_fault_ref_set
        BY <2>1, <2>2, <2>3, <3>1 DEF FaultsMatchEvents
      <3>3. ASSUME NEW i \in Lines', events'[i].parse_fault_ref_set # {}
            PROVE  \E f \in 1 .. Len(faults') : faults'[f].line_number = i
        <4>1. i \in 1 .. Len(events)
          BY <2>1, <2>2, <2>4, <3>3
        <4>. QED BY <2>1, <2>2, <3>1, <3>3, <4>1 DEF FaultsMatchEvents
      <3>. QED BY <3>1, <3>2, <3>3 DEF FaultsMatchEvents
    <2>5. CASE noted # {}
      <3>1. PICK fault \in Fault : /\ faults' = Append(faults, fault)
                                   /\ fault.line_number = new
                                   /\ fault.fault_kind \in noted
        BY <2>1, <2>5
      <3>. DEFINE last == Len(faults) + 1
      <3>2. /\ Len(faults') = last
            /\ \A f \in 1 .. Len(faults) : faults'[f] = faults[f]
            /\ faults'[last] = fault
        BY <3>1, AppendProperties DEF ParserTypeOK
      <3>3. \A f \in 1 .. last : f \in 1 .. Len(faults) \/ f = last
        BY <2>2
      <3>4. \A f, g \in 1 .. last : f < g => faults'[f].line_number < faults'[g].line_number
        <4>. TAKE f, g \in 1 .. last
        <4>. HAVE f < g
        <4>1. f \in 1 .. Len(faults)
          BY <2>2
        <4>2. CASE g \in 1 .. Len(faults)
          BY <3>2, <4>1, <4>2 DEF FaultsMatchEvents
        <4>3. CASE g = last
          BY <2>2, <2>3, <3>1, <3>2, <4>1, <4>3
        <4>. QED BY <3>3, <4>2, <4>3
      <3>5. ASSUME NEW f \in 1 .. last
            PROVE  /\ faults'[f].line_number \in Lines'
                   /\ faults'[f].fault_kind \in events'[faults'[f].line_number].parse_fault_ref_set
        <4>1. CASE f \in 1 .. Len(faults)
          BY <2>1, <2>2, <2>3, <3>2, <4>1 DEF FaultsMatchEvents
        <4>2. CASE f = last
          BY <2>1, <2>2, <3>1, <3>2, <4>2
        <4>. QED BY <3>3, <4>1, <4>2
      <3>6. ASSUME NEW i \in Lines', events'[i].parse_fault_ref_set # {}
            PROVE  \E f \in 1 .. last : faults'[f].line_number = i
        <4>1. CASE i = new
          BY <2>2, <3>1, <3>2, <4>1
        <4>2. CASE i \in 1 .. Len(events)
          <5>1. PICK f \in 1 .. Len(faults) : faults[f].line_number = i
            BY <2>1, <2>2, <3>6, <4>2 DEF FaultsMatchEvents
          <5>2. f \in 1 .. last /\ faults'[f].line_number = i
            BY <2>2, <3>2, <5>1
          <5>. QED BY <5>2
        <4>. QED BY <2>2, <4>1, <4>2
      <3>. QED BY <3>2, <3>4, <3>5, <3>6 DEF FaultsMatchEvents
    <2>. QED BY <2>4, <2>5
  <1>. QED BY <1>1, <1>2

\* The fault list and the events tell the same story, for texts of every
\* length (faults.extend in parse_sop_text).
THEOREM FaultsCorrect == ParserSpec => []FaultsMatchEvents
  <1>1. ParserInit => FaultsMatchEvents
    BY DEF ParserInit, FaultsMatchEvents, Lines
  <1>. QED BY <1>1, TypeInit, TypeStep, FaultStep, PTL DEF ParserSpec

-----------------------------------------------------------------------------
(* Validation: one document through both steps.                            *)

\* What the variables hold is computed from the document.
Computed == /\ document \in Document
            /\ candidate # <<>> => candidate = Extract(document)
            /\ result # <<>> => /\ candidate = Extract(document)
                                /\ result = Validate(Extract(document))

\* The inductive invariant: each stage holds what the code computes from the
\* document (extract_kernel_record_candidates, _validate_candidate).
THEOREM StagesCorrect == ValidationSpec => []Computed
<1>1. ValidationInit => Computed
  BY DEF ValidationInit, Computed
<1>2. Computed /\ [ValidationNext]_validationVars => Computed'
  <2> SUFFICES ASSUME Computed, [ValidationNext]_validationVars PROVE Computed'
    OBVIOUS
  <2>1. CASE ExtractCandidate
    BY <2>1 DEF ExtractCandidate, Computed
  <2>2. CASE ValidateCandidate
    BY <2>2 DEF ValidateCandidate, Computed
  <2>3. CASE UNCHANGED validationVars
    BY <2>3 DEF validationVars, Computed
  <2> QED
    BY <2>1, <2>2, <2>3 DEF ValidationNext
<1> QED
  BY <1>1, <1>2, PTL DEF ValidationSpec

-----------------------------------------------------------------------------
(* Validation: facts about the functions.                                  *)

\* The fields of a candidate that the cascade reads (extraction).
LEMMA ExtractFields ==
    ASSUME NEW doc \in Document
    PROVE  LET c == Extract(doc)
           IN  /\ c.natural_key_state = doc.natural_key_state
               /\ c.authority_state = doc.authority_state
               /\ c.freshness_state = FreshnessState(doc)
               /\ c.status = RecordStatus(doc)
               /\ c.parser_fault = HasParserFaultReason(doc)
               /\ c.payload = doc
BY DEF Extract

\* The fields of a result (_validate_candidate).
LEMMA ValidateFields ==
    ASSUME NEW c
    PROVE  LET v == Validate(c)
           IN  /\ v.signature_check_status = SignatureCheckStatus(c)
               /\ v.freshness_check_status = FreshnessCheckStatus(c)
               /\ v.authority_classification = Classification(c)
               /\ v.proof_result_status = ProofResultStatus(c)
               /\ v.fault_or_interrupt = FaultOrInterrupt(c)
BY DEF Validate

\* A verified artifact that expects acceptance went through the whole cascade.
LEMMA AcceptedBranch ==
    ASSUME NEW doc \in Document,
           doc.expected_record_status = "accepted_authority_candidate",
           ProofResultStatus(Extract(doc)) = "verified"
    PROVE  /\ doc.signature_status = "valid"
           /\ doc.signature_protocol_uuid # "other_uuid"
           /\ doc.natural_key_state = "resolved"
           /\ ~ doc.faults
<1> DEFINE c == Extract(doc)
<1> HIDE DEF c
<1>1. /\ c.parser_fault = HasParserFaultReason(doc)
      /\ c.natural_key_state = doc.natural_key_state
      /\ c.payload = doc
  BY ExtractFields DEF c
<1>2. ProofResultStatus(c) = "verified"
  BY DEF c
<1>3. ~ c.parser_fault /\ ~ HasWrongProtocol(c) /\ c.natural_key_state # "unresolved"
  BY <1>1, <1>2 DEF Branch, ProofResultStatus
<1>4. Branch(c) = "accepted"
  BY <1>1, <1>3 DEF Branch
<1>5. HasValidSignature(c)
  BY <1>2, <1>4 DEF ProofResultStatus
<1> QED
  BY <1>1, <1>3, <1>5 DEF HasValidSignature, HasWrongProtocol, HasParserFaultReason, Document

\* A document with a parse fault always takes the first branch.
LEMMA FaultyBranch ==
    ASSUME NEW doc \in Document, doc.faults
    PROVE  Branch(Extract(doc)) = "malformed_line" /\ FreshnessState(doc) = "unknown"
<1>1. Extract(doc).parser_fault
  BY DEF Extract, HasParserFaultReason
<1> QED
  BY <1>1 DEF Branch, FreshnessState

\* A candidate that extraction blocked is verified by no branch.
LEMMA BlockedBranch ==
    ASSUME NEW doc \in Document, RecordStatus(doc) = "blocked"
    PROVE  ProofResultStatus(Extract(doc)) # "verified"
<1> DEFINE c == Extract(doc)
<1>1. /\ c.parser_fault = HasParserFaultReason(doc)
      /\ c.status = "blocked"
      /\ c.payload = doc
  BY ExtractFields
<1> HIDE DEF c
<1>2. CASE doc.faults
  <2>1. Branch(c) = "malformed_line"
    BY <1>2, FaultyBranch DEF c
  <2> QED
    BY <2>1 DEF ProofResultStatus, c
<1>3. CASE ~ doc.faults
  <2>1. /\ doc.expected_record_status \in StartsWithBlocked
                 \cup {"parser_fault_preserved", "source_mutation_refused"}
    BY <1>3 DEF RecordStatus, IsBlocked
  <2>2. Branch(c) \notin {"generated_projection", "unprocessed_source", "accepted"}
    BY <1>1, <2>1 DEF Branch, StartsWithBlocked
  <2>3. DefaultProofStatus(c) = "blocked"
    BY <1>1 DEF DefaultProofStatus
  <2>4. ProofResultStatus(c) # "verified"
    BY <2>2, <2>3 DEF ProofResultStatus, Branch
  <2> QED
    BY <2>4 DEF c
<1> QED
  BY <1>2, <1>3

\* A document that says it is stale is not reported current by any branch.
LEMMA StaleFreshness ==
    ASSUME NEW doc \in Document, doc.expected_record_status \in ContainsStale
    PROVE  FreshnessCheckStatus(Extract(doc)) # "current"
<1>1. FreshnessState(doc) # "current"
  BY DEF FreshnessState
<1>2. Extract(doc).freshness_state # "current"
  BY <1>1, ExtractFields
<1> QED
  BY <1>2 DEF FreshnessCheckStatus

\* Only the branches that report a fault fail a proof.
LEMMA FailedBranch ==
    ASSUME NEW c, ProofResultStatus(c) = "failed"
    PROVE  FaultOrInterrupt(c) # "none"
<1>1. Branch(c) \in {"missing_signature", "wrong_protocol", "source_mutation_forbidden"}
  BY DEF ProofResultStatus, DefaultProofStatus, Branch
<1> QED
  BY <1>1 DEF FaultOrInterrupt

-----------------------------------------------------------------------------
(* Validation: the properties.                                             *)

\* An artifact that expects acceptance is verified only with a signature that
\* is declared valid and names no other protocol, an identity and no fault
\* (_validate_candidate).
THEOREM AcceptanceCorrect == ValidationSpec => []AcceptanceNeedsEvidence
<1>1. Computed => AcceptanceNeedsEvidence
  BY AcceptedBranch, ValidateFields DEF Computed, AcceptanceNeedsEvidence, Validated
<1> QED
  BY <1>1, StagesCorrect, PTL

\* A document with a parse fault is classified blocked, proves nothing and is
\* not current.
THEOREM ParserFaultCorrect == ValidationSpec => []ParserFaultBlocks
<1>1. Computed => ParserFaultBlocks
  <2> SUFFICES ASSUME Computed, Validated, document.faults
               PROVE  /\ result.authority_classification = "blocked"
                      /\ result.proof_result_status = "blocked"
                      /\ result.freshness_check_status # "current"
    BY DEF ParserFaultBlocks
  <2> DEFINE c == Extract(document)
  <2>1. Branch(c) = "malformed_line" /\ c.freshness_state = "unknown"
    BY FaultyBranch, ExtractFields DEF Computed
  <2>2. result = Validate(c)
    BY DEF Computed, Validated
  <2> HIDE DEF c
  <2> QED
    BY <2>1, <2>2, ValidateFields DEF Classification, ProofResultStatus, FreshnessCheckStatus
<1> QED
  BY <1>1, StagesCorrect, PTL

\* What extraction blocked, validation does not verify.
THEOREM BlockedCorrect == ValidationSpec => []BlockedNeverVerified
<1>1. Computed => BlockedNeverVerified
  BY BlockedBranch, ValidateFields, ExtractFields DEF Computed, BlockedNeverVerified, Validated
<1> QED
  BY <1>1, StagesCorrect, PTL

\* What a document calls stale, validation does not report current.
THEOREM StaleCorrect == ValidationSpec => []StaleNeverCurrent
<1>1. Computed => StaleNeverCurrent
  BY StaleFreshness, ValidateFields DEF Computed, StaleNeverCurrent, Validated
<1> QED
  BY <1>1, StagesCorrect, PTL

\* A failed proof comes with a fault.
THEOREM FailedCorrect == ValidationSpec => []FailedProofHasFault
<1>1. Computed => FailedProofHasFault
  BY FailedBranch, ValidateFields DEF Computed, FailedProofHasFault, Validated
<1> QED
  BY <1>1, StagesCorrect, PTL

\* What stops a document in one stage stops it in the others.
THEOREM StopsSurviveCorrect == ValidationSpec => []StopsSurviveCascade
<1>1. ParserFaultBlocks /\ BlockedNeverVerified /\ StaleNeverCurrent /\ FailedProofHasFault
          => StopsSurviveCascade
  BY DEF StopsSurviveCascade
<1> QED
  BY <1>1, ParserFaultCorrect, BlockedCorrect, StaleCorrect, FailedCorrect, PTL

-----------------------------------------------------------------------------
(* Projection: the invariant.                                              *)

\* A projection has the tables of the schema, and no others.
Shaped(t) ==
    DOMAIN t = {"notice", "source_artifacts", "candidates", "source_refs", "validation_results",
                "proof_results", "projection_faults", "freshness_events"}

\* The rows of a record are written together.
Linked(t) ==
    /\ DOMAIN t.candidates = DOMAIN t.validation_results
    /\ DOMAIN t.candidates = DOMAIN t.source_refs
    /\ \A r \in DOMAIN t.candidates : t.validation_results[r] = Validate(t.candidates[r])

\* The proof, fault and freshness rows that the result of a record calls for.
Evidenced(t, r) ==
    LET outcome == t.validation_results[r]
    IN  /\ <<r, outcome.proof_result_status>> \in t.proof_results
        /\ outcome.fault_or_interrupt # "none" =>
             <<r, outcome.fault_or_interrupt>> \in t.projection_faults
        /\ outcome.freshness_check_status = "stale" => r \in t.freshness_events

Labelled(t) ==
    /\ DOMAIN t.candidates # {} => t.notice
    /\ \A p \in DOMAIN t.source_artifacts :
         \E r \in DOMAIN t.candidates :
           r.path = p /\ r.source_hash = t.source_artifacts[p].source_hash

Sound(t) == /\ Linked(t) /\ Labelled(t)
            /\ \A r \in DOMAIN t.candidates : Evidenced(t, r)

\* The rows of path p are those of the artifact that was parsed from it.
Projects(t, p) ==
    /\ p \in DOMAIN t.source_artifacts
    /\ t.source_artifacts[p].source_hash = found[p]
    /\ RecordOf(p) \in DOMAIN t.candidates
    /\ t.candidates[RecordOf(p)] = Extract(parsed[p].document)

\* While the records are written, evidence is owed for them only.
Owed(t, r) == \E p \in written :
                /\ r = RecordOf(p)
                /\ t.candidates[r] = Extract(parsed[p].document)

\* What discovery and parsing found of a file that nobody edited since the
\* build started.
Follows(p) ==
    /\ p \in visited /\ files[p] # NoFile => p \in DOMAIN found /\ found[p] = files[p]
    /\ p \in DOMAIN parsed => parsed[p].document = DocumentOf[files[p]]

\* The build so far.
BuildInv ==
    /\ \A p \in DOMAIN parsed : p \in DOMAIN found /\ parsed[p].source_hash = found[p]
    /\ DOMAIN found \subseteq visited
    /\ phase # "idle" => \A p \in Paths \ edited : Follows(p)
    /\ phase \in {"parsing", "writing", "committing"} => visited = Paths
    /\ phase \in {"discovering", "parsing"} => written = {}
    /\ phase \in {"writing", "committing"} => /\ DOMAIN found = DOMAIN parsed
                                              /\ written \subseteq DOMAIN parsed
                                              /\ \A p \in written : Projects(work, p)

\* The open transaction.
WorkInv ==
    /\ phase = "writing" => /\ work.notice /\ Linked(work) /\ Labelled(work)
                            /\ \A r \in DOMAIN work.candidates :
                                 Evidenced(work, r) \/ Owed(work, r)
    /\ phase = "committing" => Sound(work) /\ written = DOMAIN parsed

ProjectionInv == /\ TypeOK
                 /\ Shaped(work) /\ Shaped(db)
                 /\ BuildInv
                 /\ WorkInv
                 /\ Sound(db)

-----------------------------------------------------------------------------
(* Projection: rows.                                                       *)

\* Replacing a row leaves the other rows alone.
LEMMA ReplaceFacts ==
    ASSUME NEW f, NEW k, NEW v
    PROVE  /\ DOMAIN Replace(f, k, v) = DOMAIN f \cup {k}
           /\ Replace(f, k, v)[k] = v
           /\ \A x \in DOMAIN f : x # k => Replace(f, k, v)[x] = f[x]
BY DEF Replace

\* Inserting a row counts one more copy of it.
LEMMA InsertFacts ==
    ASSUME NEW f, NEW k
    PROVE  /\ DOMAIN Insert(f, k) = DOMAIN f \cup {k}
           /\ (\A x \in DOMAIN f : f[x] \in Nat \ {0}) =>
                \A x \in DOMAIN f \cup {k} : Insert(f, k)[x] \in Nat \ {0}
BY DEF Insert

\* A row that is replaced by a row of the table's type keeps it a table.
LEMMA ReplaceTable ==
    ASSUME NEW f, NEW K, NEW R, IsTable(f, K, R), NEW k \in K, NEW v \in R
    PROVE  IsTable(Replace(f, k, v), K, R)
BY DEF IsTable, Replace

\* The tables that _write_candidate and the functions after it write.
LEMMA WriteFields ==
    ASSUME NEW t, Shaped(t), NEW path, NEW artifact
    PROVE  LET u         == WriteCandidate(t, path, artifact)
               extracted == Extract(artifact.document)
               record    == RecordId(path, artifact.source_hash, artifact.document)
           IN  /\ Shaped(u)
               /\ u.notice = t.notice
               /\ u.source_artifacts =
                    Replace(t.source_artifacts, path, [source_hash |-> artifact.source_hash,
                                                       freshness_state |-> extracted.freshness_state])
               /\ u.candidates = Replace(t.candidates, record, extracted)
               /\ u.source_refs = Insert(t.source_refs, record)
               /\ u.validation_results = Replace(t.validation_results, record, Validate(extracted))
               /\ u.proof_results = t.proof_results
               /\ u.projection_faults = t.projection_faults
               /\ u.freshness_events = t.freshness_events
BY DEF Shaped, WriteCandidate

\* The tables that the report is written to.
LEMMA EvidenceFields ==
    ASSUME NEW t, Shaped(t)
    PROVE  LET u == WriteEvidence(t)
           IN  /\ Shaped(u)
               /\ u.notice = t.notice
               /\ u.source_artifacts = t.source_artifacts
               /\ u.candidates = t.candidates
               /\ u.source_refs = t.source_refs
               /\ u.validation_results = t.validation_results
               /\ u.proof_results = t.proof_results \cup
                    {<<RecordOf(p), ResultOf(p).proof_result_status>> : p \in DOMAIN parsed}
               /\ u.projection_faults = t.projection_faults \cup
                    {<<RecordOf(p), ResultOf(p).fault_or_interrupt>> :
                       p \in {q \in DOMAIN parsed : ResultOf(q).fault_or_interrupt # "none"}}
               /\ u.freshness_events = t.freshness_events \cup
                    {RecordOf(p) : p \in {q \in DOMAIN parsed :
                                            ResultOf(q).freshness_check_status = "stale"}}
BY DEF Shaped, WriteEvidence

\* The statuses of a validation are those of the tables.
LEMMA ValidateFacts ==
    ASSUME NEW doc \in Document
    PROVE  LET outcome == Validate(Extract(doc))
           IN  /\ outcome.proof_result_status \in ProofStatuses
               /\ outcome.fault_or_interrupt \in Faults
               /\ Extract(doc).freshness_state \in FreshnessStates
<1> DEFINE c == Extract(doc)
<1>1. Branch(c) \in Branches
  BY DEF Branch, Branches
<1>2. FreshnessState(doc) \in FreshnessStates
  BY DEF FreshnessState, FreshnessStates
<1>3. c.freshness_state = FreshnessState(doc)
  BY DEF Extract
<1> HIDE DEF c
<1>4. DefaultProofStatus(c) \in ProofStatuses
  BY DEF DefaultProofStatus, ProofStatuses
<1>5. ProofResultStatus(c) \in ProofStatuses
  BY <1>1, <1>4 DEF ProofResultStatus, ProofStatuses, Branches
<1>6. FaultOrInterrupt(c) \in Faults
  BY <1>1 DEF FaultOrInterrupt, Faults, Branches
<1> QED
  BY <1>2, <1>3, <1>5, <1>6 DEF Validate, c

\* What is parsed from a readable text.
LEMMA ParsedFacts ==
    ASSUME TypeOK, NEW p \in DOMAIN parsed
    PROVE  /\ p \in Paths
           /\ parsed[p].source_hash \in Contents
           /\ parsed[p].document \in Document
           /\ Extract(parsed[p].document) \in CandidateRows
           /\ Validate(Extract(parsed[p].document)) \in ResultRows
           /\ RecordOf(p) \in Records
           /\ RecordOf(p).path = p /\ RecordOf(p).source_hash = parsed[p].source_hash
<1>1. /\ p \in Paths /\ parsed[p].source_hash \in Contents
      /\ parsed[p].document \in {DocumentOf[c] : c \in Contents}
  BY DEF TypeOK, IsTable
<1>2. PICK c \in Contents : parsed[p].document = DocumentOf[c]
  BY <1>1
<1>3. parsed[p].document \in Document
  BY <1>2, ContentsAssumption
<1>4. Extract(parsed[p].document) \in CandidateRows
  BY <1>2 DEF CandidateRows
<1>5. Validate(Extract(parsed[p].document)) \in ResultRows
  BY <1>4 DEF ResultRows
<1>6. parsed[p].document.identity \in Identities
  BY <1>3 DEF Document
<1> QED
  BY <1>1, <1>3, <1>4, <1>5, <1>6 DEF RecordOf, RecordId, Records

-----------------------------------------------------------------------------
(* Projection: the steps of a build.                                       *)

\* Nothing is projected before the first build.
LEMMA ProjectionInit == Init => ProjectionInv
<1> SUFFICES ASSUME Init PROVE ProjectionInv
  OBVIOUS
<1>1. Shaped(EmptyProjection) /\ Sound(EmptyProjection) /\ ProjectionOK(EmptyProjection)
  BY DEF EmptyProjection, Shaped, Sound, Linked, Labelled, ProjectionOK, IsTable
<1>2. TypeOK
  BY <1>1, BoundsAssumption DEF Init, TypeOK, Phases, IsTable
<1> QED
  BY <1>1, <1>2 DEF Init, ProjectionInv, BuildInv, WorkInv

\* A file is edited under the build: what was found of it need not hold any more.
LEMMA EditStep == ASSUME ProjectionInv, NEW path \in Paths, EditFile(path) PROVE ProjectionInv'
<1>1. /\ phase' = phase /\ visited' = visited /\ found' = found /\ parsed' = parsed
      /\ written' = written /\ work' = work /\ db' = db /\ builds' = builds
      /\ edited' = edited \cup {path} /\ edits' = edits + 1 /\ edits < MaxEdits
  BY DEF EditFile, build
<1>2. PICK c \in Contents \cup {NoFile} : files' = [files EXCEPT ![path] = c]
  BY DEF EditFile
<1>3. TypeOK'
  BY <1>1, <1>2, BoundsAssumption DEF ProjectionInv, TypeOK
<1>4. ASSUME NEW p \in Paths \ edited' PROVE Follows(p)' <=> Follows(p)
  <2>1. p # path /\ files \in [Paths -> Contents \cup {NoFile}]
    BY <1>1 DEF ProjectionInv, TypeOK
  <2>2. files'[p] = files[p]
    BY <1>2, <2>1
  <2> QED
    BY <1>1, <2>2 DEF Follows
<1>5. BuildInv'
  BY <1>1, <1>4 DEF ProjectionInv, BuildInv, Projects, RecordOf
<1>6. WorkInv'
  BY <1>1 DEF ProjectionInv, WorkInv, Owed, RecordOf
<1> QED
  BY <1>1, <1>3, <1>5, <1>6 DEF ProjectionInv

\* A new build has found nothing.
LEMMA StartStep == ASSUME ProjectionInv, StartBuild PROVE ProjectionInv'
<1>1. /\ phase' = "discovering" /\ visited' = {} /\ found' = <<>> /\ parsed' = <<>>
      /\ written' = {} /\ edited' = {} /\ builds' = builds + 1 /\ builds < MaxBuilds
      /\ files' = files /\ work' = work /\ db' = db /\ edits' = edits
  BY DEF StartBuild
<1>2. TypeOK'
  BY <1>1, BoundsAssumption DEF ProjectionInv, TypeOK, Phases, IsTable
<1>3. BuildInv'
  BY <1>1 DEF BuildInv, Follows
<1>4. WorkInv'
  BY <1>1 DEF WorkInv
<1> QED
  BY <1>1, <1>2, <1>3, <1>4 DEF ProjectionInv

\* A file is discovered with the hash it has.
LEMMA DiscoverStep ==
    ASSUME ProjectionInv, NEW path \in Paths, DiscoverFile(path) PROVE ProjectionInv'
<1>1. /\ phase = "discovering" /\ path \notin visited /\ visited' = visited \cup {path}
      /\ found' = IF files[path] = NoFile THEN found ELSE Replace(found, path, files[path])
      /\ files' = files /\ phase' = phase /\ parsed' = parsed /\ written' = written
      /\ work' = work /\ db' = db /\ edited' = edited /\ edits' = edits /\ builds' = builds
  BY DEF DiscoverFile, SourceHash
<1>2. /\ DOMAIN found \subseteq DOMAIN found'
      /\ \A p \in DOMAIN found' : p \in DOMAIN found \/ p = path
      /\ \A p \in DOMAIN found : p # path /\ found'[p] = found[p]
      /\ files[path] # NoFile => path \in DOMAIN found' /\ found'[path] = files[path]
  <2>1. path \notin DOMAIN found
    BY <1>1 DEF ProjectionInv, BuildInv
  <2>2. CASE files[path] = NoFile
    BY <1>1, <2>1, <2>2
  <2>3. CASE files[path] # NoFile
    <3>1. found' = Replace(found, path, files[path])
      BY <1>1, <2>3
    <3>2. DOMAIN found' = DOMAIN found \cup {path} /\ found'[path] = files[path]
      BY <3>1 DEF Replace
    <3>3. ASSUME NEW p \in DOMAIN found PROVE p # path /\ found'[p] = found[p]
      BY <2>1, <3>1 DEF Replace
    <3> QED
      BY <3>2, <3>3
  <2> QED
    BY <2>2, <2>3
<1>3. TypeOK'
  <2>1. IsTable(found, Paths, Contents) /\ files \in [Paths -> Contents \cup {NoFile}]
    BY DEF ProjectionInv, TypeOK
  <2>2. files[path] # NoFile => IsTable(Replace(found, path, files[path]), Paths, Contents)
    BY <2>1, ReplaceTable
  <2>3. IsTable(found', Paths, Contents)
    BY <1>1, <2>1, <2>2
  <2> QED
    BY <1>1, <2>3 DEF ProjectionInv, TypeOK
<1>4. ASSUME NEW p \in Paths \ edited' PROVE Follows(p)'
  <2>1. Follows(p)
    BY <1>1, <1>4 DEF ProjectionInv, BuildInv
  <2> QED
    BY <1>1, <1>2, <2>1 DEF Follows
<1>5. BuildInv'
  BY <1>1, <1>2, <1>4 DEF ProjectionInv, BuildInv
<1>6. WorkInv'
  BY <1>1 DEF WorkInv
<1> QED
  BY <1>1, <1>3, <1>5, <1>6 DEF ProjectionInv

\* Discovery ends when every path was reached.
LEMMA EndDiscoveryStep == ASSUME ProjectionInv, EndDiscovery PROVE ProjectionInv'
<1>1. /\ phase = "discovering" /\ visited = Paths /\ phase' = "parsing"
      /\ files' = files /\ visited' = visited /\ found' = found /\ parsed' = parsed
      /\ written' = written /\ work' = work /\ db' = db /\ edited' = edited
      /\ edits' = edits /\ builds' = builds
  BY DEF EndDiscovery, build
<1>2. TypeOK'
  BY <1>1 DEF ProjectionInv, TypeOK, Phases
<1>3. BuildInv'
  BY <1>1 DEF ProjectionInv, BuildInv, Follows
<1>4. WorkInv'
  BY <1>1 DEF WorkInv
<1> QED
  BY <1>1, <1>2, <1>3, <1>4 DEF ProjectionInv

\* An artifact keeps its discovered hash when it is parsed.
LEMMA ParseStep ==
    ASSUME ProjectionInv, NEW path \in Paths, ParseFile(path) PROVE ProjectionInv'
<1> DEFINE artifact == [source_hash |-> found[path], document |-> DocumentOf[files[path]]]
<1>1. /\ phase = "parsing" /\ path \in DOMAIN found /\ path \notin DOMAIN parsed
      /\ files[path] \in Contents
      /\ parsed' = Replace(parsed, path, artifact)
      /\ files' = files /\ phase' = phase /\ visited' = visited /\ found' = found
      /\ written' = written /\ work' = work /\ db' = db /\ edited' = edited
      /\ edits' = edits /\ builds' = builds
  BY DEF ParseFile, IsNext, Readable
<1> HIDE DEF artifact
<1>2. /\ DOMAIN parsed' = DOMAIN parsed \cup {path}
      /\ parsed'[path] = artifact
      /\ \A p \in DOMAIN parsed : p # path /\ parsed'[p] = parsed[p]
  <2>1. DOMAIN parsed' = DOMAIN parsed \cup {path} /\ parsed'[path] = artifact
    BY <1>1 DEF Replace
  <2>2. ASSUME NEW p \in DOMAIN parsed PROVE p # path /\ parsed'[p] = parsed[p]
    BY <1>1 DEF Replace
  <2> QED
    BY <2>1, <2>2
<1>3. TypeOK'
  <2> DEFINE rows == [source_hash: Contents, document: {DocumentOf[c] : c \in Contents}]
  <2>1. IsTable(parsed, Paths, rows) /\ found[path] \in Contents
    BY <1>1 DEF ProjectionInv, TypeOK, IsTable
  <2>2. artifact \in rows
    BY <1>1, <2>1 DEF artifact
  <2> HIDE DEF rows
  <2>3. IsTable(parsed', Paths, rows)
    BY <1>1, <2>1, <2>2, ReplaceTable
  <2> QED
    BY <1>1, <2>3 DEF ProjectionInv, TypeOK, rows
<1>4. ASSUME NEW p \in Paths \ edited' PROVE Follows(p)'
  <2>1. Follows(p)
    BY <1>1, <1>4 DEF ProjectionInv, BuildInv
  <2> QED
    BY <1>1, <1>2, <2>1 DEF Follows, artifact
<1>5. BuildInv'
  BY <1>1, <1>2, <1>4 DEF ProjectionInv, BuildInv, artifact
<1>6. WorkInv'
  BY <1>1 DEF WorkInv
<1> QED
  BY <1>1, <1>3, <1>5, <1>6 DEF ProjectionInv

\* A text that cannot be read ends the build.
LEMMA ParseRaisesStep ==
    ASSUME ProjectionInv, NEW path \in Paths, ParseRaises(path) PROVE ProjectionInv'
<1>1. /\ phase' = "idle"
      /\ files' = files /\ visited' = visited /\ found' = found /\ parsed' = parsed
      /\ written' = written /\ work' = work /\ db' = db /\ edited' = edited
      /\ edits' = edits /\ builds' = builds
  BY DEF ParseRaises, build
<1>2. TypeOK'
  BY <1>1 DEF ProjectionInv, TypeOK, Phases
<1>3. BuildInv' /\ WorkInv'
  BY <1>1 DEF ProjectionInv, BuildInv, WorkInv
<1> QED
  BY <1>1, <1>2, <1>3 DEF ProjectionInv

\* The transaction starts from what is committed, with the notice.
LEMMA OpenStep == ASSUME ProjectionInv, OpenProjection PROVE ProjectionInv'
<1>1. /\ phase = "parsing" /\ DOMAIN found = DOMAIN parsed /\ phase' = "writing"
      /\ work' = [db EXCEPT !.notice = TRUE]
      /\ files' = files /\ visited' = visited /\ found' = found /\ parsed' = parsed
      /\ written' = written /\ db' = db /\ edited' = edited
      /\ edits' = edits /\ builds' = builds
  BY DEF OpenProjection, build, InitializedProjection
<1>2. /\ Shaped(work') /\ work'.notice = TRUE
      /\ work'.source_artifacts = db.source_artifacts
      /\ work'.candidates = db.candidates
      /\ work'.source_refs = db.source_refs
      /\ work'.validation_results = db.validation_results
      /\ work'.proof_results = db.proof_results
      /\ work'.projection_faults = db.projection_faults
      /\ work'.freshness_events = db.freshness_events
  BY <1>1 DEF ProjectionInv, Shaped
<1>3. ProjectionOK(work')
  BY <1>2 DEF ProjectionInv, TypeOK, ProjectionOK
<1>4. TypeOK'
  BY <1>1, <1>3 DEF ProjectionInv, TypeOK, Phases
<1>5. BuildInv'
  BY <1>1 DEF ProjectionInv, BuildInv, Follows
<1>6. Linked(work') /\ Labelled(work') /\ \A r \in DOMAIN work'.candidates : Evidenced(work', r)
  <2>1. Linked(db) /\ Labelled(db) /\ \A r \in DOMAIN db.candidates : Evidenced(db, r)
    BY DEF ProjectionInv, Sound
  <2>2. Linked(work')
    BY <1>2, <2>1 DEF Linked
  <2>3. Labelled(work')
    BY <1>2, <2>1 DEF Labelled
  <2>4. \A r \in DOMAIN work'.candidates : Evidenced(work', r)
    BY <1>2, <2>1 DEF Evidenced
  <2> QED
    BY <2>2, <2>3, <2>4
<1>7. WorkInv'
  BY <1>1, <1>2, <1>6 DEF WorkInv
<1> QED
  BY <1>1, <1>2, <1>4, <1>5, <1>7 DEF ProjectionInv

\* The rows of one more record.
LEMMA RecordRows ==
    ASSUME ProjectionInv, NEW path \in Paths, WriteRecord(path)
    PROVE  LET record    == RecordOf(path)
               extracted == Extract(parsed[path].document)
           IN  /\ Shaped(work')
               /\ work'.notice = work.notice
               /\ work'.proof_results = work.proof_results
               /\ work'.projection_faults = work.projection_faults
               /\ work'.freshness_events = work.freshness_events
               /\ DOMAIN work'.source_artifacts = DOMAIN work.source_artifacts \cup {path}
               /\ work'.source_artifacts[path].source_hash = parsed[path].source_hash
               /\ \A p \in DOMAIN work.source_artifacts :
                    p # path => work'.source_artifacts[p] = work.source_artifacts[p]
               /\ DOMAIN work'.candidates = DOMAIN work.candidates \cup {record}
               /\ work'.candidates[record] = extracted
               /\ \A r \in DOMAIN work.candidates :
                    r # record => work'.candidates[r] = work.candidates[r]
               /\ DOMAIN work'.source_refs = DOMAIN work.source_refs \cup {record}
               /\ DOMAIN work'.validation_results = DOMAIN work.validation_results \cup {record}
               /\ work'.validation_results[record] = Validate(extracted)
               /\ \A r \in DOMAIN work.validation_results :
                    r # record => work'.validation_results[r] = work.validation_results[r]
<1> DEFINE record    == RecordOf(path)
           extracted == Extract(parsed[path].document)
           row       == [source_hash |-> parsed[path].source_hash,
                         freshness_state |-> extracted.freshness_state]
<1>1. work' = WriteCandidate(work, path, parsed[path])
  BY DEF WriteRecord
<1>2. record = RecordId(path, parsed[path].source_hash, parsed[path].document)
  BY DEF RecordOf
<1>3. Shaped(work)
  BY DEF ProjectionInv
<1>4. row.source_hash = parsed[path].source_hash
  OBVIOUS
<1> HIDE DEF record, extracted
<1>5. /\ Shaped(work')
      /\ work'.notice = work.notice
      /\ work'.source_artifacts = Replace(work.source_artifacts, path, row)
      /\ work'.candidates = Replace(work.candidates, record, extracted)
      /\ work'.source_refs = Insert(work.source_refs, record)
      /\ work'.validation_results = Replace(work.validation_results, record, Validate(extracted))
      /\ work'.proof_results = work.proof_results
      /\ work'.projection_faults = work.projection_faults
      /\ work'.freshness_events = work.freshness_events
  BY <1>1, <1>2, <1>3, WriteFields DEF extracted
<1> HIDE DEF row
<1>6. /\ DOMAIN work'.source_artifacts = DOMAIN work.source_artifacts \cup {path}
      /\ work'.source_artifacts[path] = row
      /\ \A p \in DOMAIN work.source_artifacts :
           p # path => work'.source_artifacts[p] = work.source_artifacts[p]
  BY <1>5 DEF Replace
<1>7. /\ DOMAIN work'.candidates = DOMAIN work.candidates \cup {record}
      /\ work'.candidates[record] = extracted
      /\ \A r \in DOMAIN work.candidates : r # record => work'.candidates[r] = work.candidates[r]
  BY <1>5 DEF Replace
<1>8. /\ DOMAIN work'.validation_results = DOMAIN work.validation_results \cup {record}
      /\ work'.validation_results[record] = Validate(extracted)
      /\ \A r \in DOMAIN work.validation_results :
           r # record => work'.validation_results[r] = work.validation_results[r]
  BY <1>5 DEF Replace
<1>9. DOMAIN work'.source_refs = DOMAIN work.source_refs \cup {record}
  BY <1>5 DEF Insert
<1> QED
  BY <1>4, <1>5, <1>6, <1>7, <1>8, <1>9 DEF record, extracted

\* The rows of one more record have their types.
LEMMA RecordTypes ==
    ASSUME ProjectionInv, NEW path \in Paths, WriteRecord(path)
    PROVE  ProjectionOK(work')
<1> DEFINE artifact  == parsed[path]
           extracted == Extract(artifact.document)
           record    == RecordId(path, artifact.source_hash, artifact.document)
           row       == [source_hash |-> artifact.source_hash,
                         freshness_state |-> extracted.freshness_state]
           rows      == [source_hash: Contents, freshness_state: FreshnessStates]
<1>1. work' = WriteCandidate(work, path, artifact) /\ path \in DOMAIN parsed
  BY DEF WriteRecord, IsNext
<1>2. Shaped(work) /\ ProjectionOK(work) /\ TypeOK
  BY DEF ProjectionInv, TypeOK
<1>3. /\ record \in Records /\ extracted \in CandidateRows /\ Validate(extracted) \in ResultRows
      /\ artifact.source_hash \in Contents /\ extracted.freshness_state \in FreshnessStates
  BY <1>1, <1>2, ParsedFacts, ValidateFacts DEF RecordOf
<1>4. row \in rows
  BY <1>3
<1> HIDE DEF artifact, extracted, record, row
<1>5. /\ work'.notice = work.notice
      /\ work'.source_artifacts = Replace(work.source_artifacts, path, row)
      /\ work'.candidates = Replace(work.candidates, record, extracted)
      /\ work'.source_refs = Insert(work.source_refs, record)
      /\ work'.validation_results = Replace(work.validation_results, record, Validate(extracted))
      /\ work'.proof_results = work.proof_results
      /\ work'.projection_faults = work.projection_faults
      /\ work'.freshness_events = work.freshness_events
  BY <1>1, <1>2, WriteFields DEF extracted, record, row
<1> HIDE DEF rows
<1>6. IsTable(work'.source_artifacts, Paths, rows)
  <2>1. IsTable(work.source_artifacts, Paths, rows)
    BY <1>2 DEF ProjectionOK, rows
  <2> QED
    BY <1>4, <1>5, <2>1, ReplaceTable
<1>7. IsTable(work'.candidates, Records, CandidateRows)
  BY <1>2, <1>3, <1>5, ReplaceTable DEF ProjectionOK
<1>8. IsTable(work'.validation_results, Records, ResultRows)
  BY <1>2, <1>3, <1>5, ReplaceTable DEF ProjectionOK
<1>9. IsTable(work'.source_refs, Records, Nat \ {0})
  <2>1. IsTable(work.source_refs, Records, Nat \ {0})
    BY <1>2 DEF ProjectionOK
  <2> QED
    BY <1>3, <1>5, <2>1 DEF IsTable, Insert
<1> QED
  BY <1>2, <1>5, <1>6, <1>7, <1>8, <1>9 DEF ProjectionOK, rows

\* A record is written with everything but its evidence, which is owed.
LEMMA WriteRecordStep ==
    ASSUME ProjectionInv, NEW path \in Paths, WriteRecord(path) PROVE ProjectionInv'
<1> DEFINE record    == RecordOf(path)
           extracted == Extract(parsed[path].document)
<1>1. /\ phase = "writing" /\ path \in DOMAIN parsed /\ path \notin written
      /\ written' = written \cup {path}
      /\ files' = files /\ phase' = phase /\ visited' = visited /\ found' = found
      /\ parsed' = parsed /\ db' = db /\ edited' = edited
      /\ edits' = edits /\ builds' = builds
  BY DEF WriteRecord, IsNext
<1>2. /\ TypeOK /\ work.notice /\ Linked(work) /\ Labelled(work)
      /\ \A r \in DOMAIN work.candidates : Evidenced(work, r) \/ Owed(work, r)
      /\ DOMAIN found = DOMAIN parsed /\ written \subseteq DOMAIN parsed
      /\ \A p \in written : Projects(work, p)
      /\ \A p \in DOMAIN parsed : parsed[p].source_hash = found[p]
  BY <1>1 DEF ProjectionInv, BuildInv, WorkInv
<1>3. /\ \A p \in DOMAIN parsed : RecordOf(p).path = p
      /\ RecordOf(path).source_hash = parsed[path].source_hash
  BY <1>1, <1>2, ParsedFacts
<1>4. \A p : RecordOf(p)' = RecordOf(p)
  BY <1>1 DEF RecordOf
<1>5. /\ Shaped(work')
      /\ work'.notice = work.notice
      /\ work'.proof_results = work.proof_results
      /\ work'.projection_faults = work.projection_faults
      /\ work'.freshness_events = work.freshness_events
  BY RecordRows
<1>6. /\ DOMAIN work'.source_artifacts = DOMAIN work.source_artifacts \cup {path}
      /\ work'.source_artifacts[path].source_hash = parsed[path].source_hash
      /\ \A p \in DOMAIN work.source_artifacts :
           p # path => work'.source_artifacts[p] = work.source_artifacts[p]
  BY RecordRows
<1>7. /\ DOMAIN work'.candidates = DOMAIN work.candidates \cup {record}
      /\ work'.candidates[record] = extracted
      /\ \A r \in DOMAIN work.candidates : r # record => work'.candidates[r] = work.candidates[r]
  BY RecordRows
<1>8. /\ DOMAIN work'.source_refs = DOMAIN work.source_refs \cup {record}
      /\ DOMAIN work'.validation_results = DOMAIN work.validation_results \cup {record}
      /\ work'.validation_results[record] = Validate(extracted)
      /\ \A r \in DOMAIN work.validation_results :
           r # record => work'.validation_results[r] = work.validation_results[r]
  BY RecordRows
<1>9. TypeOK'
  <2>1. ProjectionOK(work')
    BY RecordTypes
  <2> QED
    BY <1>1, <1>2, <2>1 DEF TypeOK
<1>10. record.path = path /\ record.source_hash = parsed[path].source_hash
  BY <1>1, <1>3
<1> HIDE DEF record, extracted
<1>11. Linked(work')
  BY <1>2, <1>7, <1>8 DEF Linked
<1>12. Labelled(work')
  <2>1. DOMAIN work'.candidates # {} => work'.notice
    BY <1>2, <1>5
  <2>2. ASSUME NEW p \in DOMAIN work'.source_artifacts
        PROVE  \E r \in DOMAIN work'.candidates :
                 r.path = p /\ r.source_hash = work'.source_artifacts[p].source_hash
    <3>1. CASE p = path
      BY <1>6, <1>7, <1>10, <3>1
    <3>2. CASE p # path
      <4>1. PICK r \in DOMAIN work.candidates :
              r.path = p /\ r.source_hash = work.source_artifacts[p].source_hash
        BY <1>2, <1>6, <2>2, <3>2 DEF Labelled
      <4> QED
        BY <1>6, <1>7, <2>2, <3>2, <4>1
    <3> QED
      BY <3>1, <3>2
  <2> QED
    BY <2>1, <2>2 DEF Labelled
<1>13. ASSUME NEW p \in written' PROVE Projects(work, p)'
  <2>1. CASE p = path
    BY <1>1, <1>2, <1>4, <1>6, <1>7, <2>1 DEF Projects, record, extracted
  <2>2. CASE p # path
    <3>1. p \in written /\ Projects(work, p) /\ RecordOf(p).path = p
      BY <1>1, <1>2, <1>3, <1>13, <2>2
    <3>2. RecordOf(p) # record
      BY <1>10, <2>2, <3>1
    <3> QED
      BY <1>1, <1>4, <1>6, <1>7, <2>2, <3>1, <3>2 DEF Projects
  <2> QED
    BY <2>1, <2>2
<1>14. BuildInv'
  BY <1>1, <1>2, <1>13 DEF ProjectionInv, BuildInv, Follows
<1>15. ASSUME NEW r \in DOMAIN work'.candidates
       PROVE  Evidenced(work', r) \/ Owed(work, r)'
  <2>1. CASE r = record
    BY <1>1, <1>4, <1>7, <2>1 DEF Owed, record, extracted
  <2>2. CASE r # record
    <3>1. /\ r \in DOMAIN work.candidates /\ r \in DOMAIN work.validation_results
          /\ work'.candidates[r] = work.candidates[r]
          /\ work'.validation_results[r] = work.validation_results[r]
      BY <1>2, <1>7, <1>8, <1>15, <2>2 DEF Linked
    <3>2. CASE Evidenced(work, r)
      BY <1>5, <3>1, <3>2 DEF Evidenced
    <3>3. CASE Owed(work, r)
      BY <1>1, <1>4, <3>1, <3>3 DEF Owed
    <3> QED
      BY <1>2, <3>1, <3>2, <3>3
  <2> QED
    BY <2>1, <2>2
<1>16. WorkInv'
  BY <1>1, <1>2, <1>5, <1>11, <1>12, <1>15 DEF WorkInv
<1> QED
  BY <1>1, <1>5, <1>9, <1>14, <1>16 DEF ProjectionInv

\* The report pays the evidence that is owed.
LEMMA WriteReportStep == ASSUME ProjectionInv, WriteReport PROVE ProjectionInv'
<1>1. /\ phase = "writing" /\ written = DOMAIN parsed /\ phase' = "committing"
      /\ work' = WriteEvidence(work)
      /\ files' = files /\ visited' = visited /\ found' = found /\ parsed' = parsed
      /\ written' = written /\ db' = db /\ edited' = edited
      /\ edits' = edits /\ builds' = builds
  BY DEF WriteReport, build
<1>2. /\ TypeOK /\ Shaped(work) /\ ProjectionOK(work)
      /\ work.notice /\ Linked(work) /\ Labelled(work)
      /\ \A r \in DOMAIN work.candidates : Evidenced(work, r) \/ Owed(work, r)
      /\ \A p \in written : Projects(work, p)
  BY <1>1 DEF ProjectionInv, TypeOK, BuildInv, WorkInv
<1>3. /\ Shaped(work')
      /\ work'.notice = work.notice
      /\ work'.source_artifacts = work.source_artifacts
      /\ work'.candidates = work.candidates
      /\ work'.source_refs = work.source_refs
      /\ work'.validation_results = work.validation_results
      /\ work'.proof_results = work.proof_results \cup
           {<<RecordOf(p), ResultOf(p).proof_result_status>> : p \in DOMAIN parsed}
      /\ work'.projection_faults = work.projection_faults \cup
           {<<RecordOf(p), ResultOf(p).fault_or_interrupt>> :
              p \in {q \in DOMAIN parsed : ResultOf(q).fault_or_interrupt # "none"}}
      /\ work'.freshness_events = work.freshness_events \cup
           {RecordOf(p) : p \in {q \in DOMAIN parsed :
                                   ResultOf(q).freshness_check_status = "stale"}}
  BY <1>1, <1>2, EvidenceFields
<1>4. ASSUME NEW p \in DOMAIN parsed
      PROVE  /\ RecordOf(p) \in Records
             /\ ResultOf(p).proof_result_status \in ProofStatuses
             /\ ResultOf(p).fault_or_interrupt \in Faults
  BY <1>2, <1>4, ParsedFacts, ValidateFacts DEF ResultOf
<1>5. ProjectionOK(work')
  <2>1. work'.proof_results \subseteq Records \X ProofStatuses
    BY <1>2, <1>3, <1>4 DEF ProjectionOK
  <2>2. work'.projection_faults \subseteq Records \X Faults
    BY <1>2, <1>3, <1>4 DEF ProjectionOK
  <2>3. work'.freshness_events \subseteq Records
    BY <1>2, <1>3, <1>4 DEF ProjectionOK
  <2> QED
    BY <1>2, <1>3, <2>1, <2>2, <2>3 DEF ProjectionOK
<1>6. TypeOK'
  BY <1>1, <1>2, <1>5 DEF TypeOK, Phases
<1>7. ASSUME NEW p \in written' PROVE Projects(work, p)'
  BY <1>1, <1>2, <1>3, <1>7 DEF Projects, RecordOf
<1>8. BuildInv'
  BY <1>1, <1>7 DEF ProjectionInv, BuildInv, Follows
<1>9. Linked(work') /\ Labelled(work')
  <2>1. /\ work'.notice = work.notice /\ work'.source_artifacts = work.source_artifacts
        /\ work'.candidates = work.candidates /\ work'.source_refs = work.source_refs
        /\ work'.validation_results = work.validation_results
    BY <1>3
  <2>2. Linked(work')
    BY <1>2, <2>1 DEF Linked
  <2>3. Labelled(work')
    BY <1>2, <2>1 DEF Labelled
  <2> QED
    BY <2>2, <2>3
<1>10. ASSUME NEW r \in DOMAIN work'.candidates PROVE Evidenced(work', r)
  <2>1. r \in DOMAIN work.candidates
    BY <1>3, <1>10
  <2>2. CASE Evidenced(work, r)
    BY <1>3, <2>2 DEF Evidenced
  <2>3. CASE Owed(work, r)
    <3>1. PICK p \in written : r = RecordOf(p) /\ work.candidates[r] = Extract(parsed[p].document)
      BY <2>3 DEF Owed
    <3>2. p \in DOMAIN parsed /\ work'.validation_results[r] = ResultOf(p)
      BY <1>1, <1>2, <1>3, <2>1, <3>1 DEF Linked, ResultOf
    <3> QED
      BY <1>3, <3>1, <3>2 DEF Evidenced
  <2> QED
    BY <1>2, <2>1, <2>2, <2>3
<1>11. WorkInv'
  BY <1>1, <1>9, <1>10 DEF WorkInv, Sound
<1> QED
  BY <1>1, <1>3, <1>6, <1>8, <1>11 DEF ProjectionInv

\* What is committed is what the report has made sound.
LEMMA CommitStep == ASSUME ProjectionInv, Commit PROVE ProjectionInv'
<1>1. /\ phase = "committing" /\ phase' = "idle" /\ db' = work
      /\ files' = files /\ visited' = visited /\ found' = found /\ parsed' = parsed
      /\ written' = written /\ work' = work /\ edited' = edited
      /\ edits' = edits /\ builds' = builds
  BY DEF Commit, build
<1>2. TypeOK'
  BY <1>1 DEF ProjectionInv, TypeOK, Phases
<1>3. BuildInv' /\ WorkInv'
  BY <1>1 DEF ProjectionInv, BuildInv, WorkInv
<1>4. Sound(db)'
  <2>1. Sound(work)
    BY <1>1 DEF ProjectionInv, WorkInv
  <2> QED
    BY <1>1, <2>1
<1> QED
  BY <1>1, <1>2, <1>3, <1>4 DEF ProjectionInv

\* A build that fails leaves what was committed.
LEMMA BuildFailsStep == ASSUME ProjectionInv, BuildFails PROVE ProjectionInv'
<1>1. /\ phase' = "idle" /\ db' = db /\ work' = db
      /\ files' = files /\ visited' = visited /\ found' = found /\ parsed' = parsed
      /\ written' = written /\ edited' = edited
      /\ edits' = edits /\ builds' = builds
  BY DEF BuildFails, RolledBackProjection, build
<1>2. TypeOK'
  BY <1>1 DEF ProjectionInv, TypeOK, Phases
<1>3. BuildInv' /\ WorkInv'
  BY <1>1 DEF ProjectionInv, BuildInv, WorkInv
<1> QED
  BY <1>1, <1>2, <1>3 DEF ProjectionInv

\* Every step keeps the invariant.
LEMMA ProjectionStep == ProjectionInv /\ [Next]_vars => ProjectionInv'
<1> SUFFICES ASSUME ProjectionInv, [Next]_vars PROVE ProjectionInv'
  OBVIOUS
<1>1. CASE UNCHANGED vars
  <2>1. /\ phase' = phase /\ db' = db /\ work' = work /\ files' = files
        /\ visited' = visited /\ found' = found /\ parsed' = parsed /\ written' = written
        /\ edited' = edited /\ edits' = edits /\ builds' = builds
    BY <1>1 DEF vars, build
  <2>2. TypeOK'
    BY <2>1 DEF ProjectionInv, TypeOK
  <2>3. BuildInv' /\ WorkInv'
    BY <2>1 DEF ProjectionInv, BuildInv, WorkInv, Follows, Projects, Owed, RecordOf
  <2> QED
    BY <2>1, <2>2, <2>3 DEF ProjectionInv
<1>2. CASE \E path \in Paths : EditFile(path)
  BY <1>2, EditStep
<1>3. CASE \E path \in Paths : DiscoverFile(path)
  BY <1>3, DiscoverStep
<1>4. CASE \E path \in Paths : ParseFile(path)
  BY <1>4, ParseStep
<1>5. CASE \E path \in Paths : ParseRaises(path)
  BY <1>5, ParseRaisesStep
<1>6. CASE \E path \in Paths : WriteRecord(path)
  BY <1>6, WriteRecordStep
<1>7. CASE StartBuild
  BY <1>7, StartStep
<1>8. CASE EndDiscovery
  BY <1>8, EndDiscoveryStep
<1>9. CASE OpenProjection
  BY <1>9, OpenStep
<1>10. CASE WriteReport
  BY <1>10, WriteReportStep
<1>11. CASE Commit
  BY <1>11, CommitStep
<1>12. CASE BuildFails
  BY <1>12, BuildFailsStep
<1> QED
  BY <1>1, <1>2, <1>3, <1>4, <1>5, <1>6, <1>7, <1>8, <1>9, <1>10, <1>11, <1>12 DEF Next

\* The invariant holds always.
LEMMA ProjectionInvariant == Spec => []ProjectionInv
BY ProjectionInit, ProjectionStep, PTL DEF Spec

-----------------------------------------------------------------------------
(* Projection: the theorems.                                               *)

\* After any mix of builds, edits, exceptions and crashes, the committed
\* projection has whole rows, complete evidence and its notice.
THEOREM CommittedCorrect == Spec => []CommittedIsSound
<1>1. ProjectionInv => CommittedIsSound
  <2> SUFFICES ASSUME ProjectionInv PROVE CommittedIsSound
    OBVIOUS
  <2>1. TypeOK /\ Linked(db) /\ Labelled(db) /\ \A r \in DOMAIN db.candidates : Evidenced(db, r)
    BY DEF ProjectionInv, Sound
  <2>2. ProjectionIsLabelled
    BY <2>1 DEF Labelled, ProjectionIsLabelled
  <2>3. EvidenceComplete
    BY <2>1 DEF Linked, Evidenced, EvidenceComplete
  <2> QED
    BY <2>1, <2>2, <2>3 DEF CommittedIsSound
<1> QED
  BY <1>1, ProjectionInvariant, PTL

\* Only Commit changes what is committed.
LEMMA ChangeIsCommit ==
    ASSUME ProjectionInv, [Next]_vars, db' # db
    PROVE  Commit
BY DEF Next, vars, EditFile, DiscoverFile, ParseFile, ParseRaises, WriteRecord, StartBuild,
       EndDiscovery, OpenProjection, WriteReport, BuildFails, RolledBackProjection

\* A commit shows the rows of everything that was parsed.
LEMMA CommitProjects ==
    ASSUME ProjectionInv, Commit
    PROVE  \A p \in DOMAIN found : Projects(db', p)
BY DEF Commit, ProjectionInv, BuildInv, WorkInv

\* A reader sees the projection change in one step, by a whole build.
THEOREM PublishCorrect == Spec => PublishesWholeBuilds
<1>1. ProjectionInv /\ [Next]_vars =>
        [db' # db =>
           \A p \in DOMAIN found :
             /\ p \in DOMAIN db'.source_artifacts
             /\ db'.source_artifacts[p].source_hash = found[p]
             /\ RecordOf(p) \in DOMAIN db'.candidates]_vars
  BY ChangeIsCommit, CommitProjects DEF Projects
<1> QED
  BY <1>1, ProjectionInvariant, PTL DEF Spec, PublishesWholeBuilds

\* A build that commits shows every file that nobody edited under it as it is.
THEOREM CommitCorrect == Spec => CommitMatchesFiles
<1>1. ProjectionInv /\ [Next]_vars =>
        [phase = "committing" /\ phase' = "idle" /\ db' # db =>
           \A p \in Paths \ edited : files[p] # NoFile =>
             LET doc == DocumentOf[files[p]]
                 r   == RecordId(p, files[p], doc)
             IN  /\ p \in DOMAIN db'.source_artifacts
                 /\ db'.source_artifacts[p].source_hash = files[p]
                 /\ r \in DOMAIN db'.candidates
                 /\ db'.candidates[r] = Extract(doc)]_vars
  <2> SUFFICES ASSUME ProjectionInv, [Next]_vars, db' # db,
                      NEW p \in Paths \ edited, files[p] # NoFile
               PROVE  LET doc == DocumentOf[files[p]]
                          r   == RecordId(p, files[p], doc)
                      IN  /\ p \in DOMAIN db'.source_artifacts
                          /\ db'.source_artifacts[p].source_hash = files[p]
                          /\ r \in DOMAIN db'.candidates
                          /\ db'.candidates[r] = Extract(doc)
    OBVIOUS
  <2>1. Commit
    BY ChangeIsCommit
  <2>2. Follows(p) /\ visited = Paths /\ DOMAIN found = DOMAIN parsed
        /\ \A q \in DOMAIN parsed : parsed[q].source_hash = found[q]
    BY <2>1 DEF Commit, ProjectionInv, BuildInv
  <2>3. /\ p \in DOMAIN found /\ found[p] = files[p] /\ parsed[p].source_hash = files[p]
        /\ parsed[p].document = DocumentOf[files[p]]
    BY <2>2 DEF Follows
  <2>4. RecordOf(p) = RecordId(p, files[p], DocumentOf[files[p]])
    BY <2>3 DEF RecordOf
  <2>5. Projects(db', p)
    BY <2>1, <2>3, CommitProjects
  <2> QED
    BY <2>3, <2>4, <2>5 DEF Projects
<1> QED
  BY <1>1, ProjectionInvariant, PTL DEF Spec, CommitMatchesFiles

=============================================================================
