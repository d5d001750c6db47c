----------------------------- MODULE MCSopParser -----------------------------
(* The instance of SopParser for TLC: indentation by spaces, and by tabs.   *)
EXTENDS SopParser

SpaceIndented(columns, shapes) ==
    {[spaces |-> c, tabs |-> 0, written |-> s, afterCut |-> s] :
        c \in columns, s \in shapes}

\* A tab cuts three characters of the text: what remains may be of any
\* shape, but nothing remains of nothing.
TabIndented(shapes, remainders) ==
    {[spaces |-> 0, tabs |-> 1, written |-> s, afterCut |-> r] :
        s \in shapes, r \in remainders}

\* Three columns and every shape but those treated like another one, and
\* tab-indented lines that lose their marker or all of their text.
MCRawLines == SpaceIndented(0 .. 2, {"empty", "marked", "comment_open", "other"})
              \cup TabIndented({"keyed"}, {"other", "empty"})
              \cup SpaceIndented({0}, {"subject"})
=============================================================================
