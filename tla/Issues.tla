-------------------------------- MODULE Issues --------------------------------
(***************************************************************************)
(* The shape that the validators and classifiers of coordination/,         *)
(* operations/, manager/, surfaces/ and surfaces_p6/ share: a function     *)
(* collects issues, each with a kind and a severity, and a cascade of      *)
(* early returns reduces them to one status.  Reasons and field names are  *)
(* left out.  A set of issues forgets their order, which no function of    *)
(* these packages looks at unless its module says so.                      *)
(***************************************************************************)
EXTENDS Naturals, Sequences, FiniteSets

\* A string field that was not given.
NoValue == ""

Issue(kind, severity) == [issue_kind |-> kind, severity |-> severity]

\* if condition: issues.append(...)
When(condition, kind, severity) == IF condition THEN {Issue(kind, severity)} ELSE {}

\* any(issue.severity == severity for issue in issues)
HasSeverity(issues, severity) == \E i \in issues : i.severity = severity
HasKind(issues, kind) == \E i \in issues : i.issue_kind = kind
KindsOf(issues) == {i.issue_kind : i \in issues}

\* A cascade of "if condition: return value", ending in "return otherwise".
FirstOf(cases, otherwise) ==
    LET holding == {i \in 1 .. Len(cases) : cases[i][1]}
    IN  IF holding = {} THEN otherwise
        ELSE cases[CHOOSE i \in holding : \A j \in holding : i <= j][2]

\* The same cascade over the severities of issues.
BySeverity(issues, cases, otherwise) ==
    FirstOf([i \in 1 .. Len(cases) |-> <<HasSeverity(issues, cases[i][1]), cases[i][2]>>], otherwise)

\* The fields that changes gives, and the others as base has them.
Merged(changes, base) ==
    [f \in DOMAIN changes \cup DOMAIN base |-> IF f \in DOMAIN changes THEN changes[f] ELSE base[f]]
=============================================================================
