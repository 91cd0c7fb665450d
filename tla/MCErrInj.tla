------------------------------ MODULE MCErrInj ------------------------------
(* Instances of ErrInj for TLC. *)
EXTENDS ErrInj

Text(n, m) == [num |-> n, match |-> m]
NoText == Text(0, {})
Header(t) ==
    [indent |-> FALSE, kind |-> "section", name |-> t, value |-> NoText, whole |-> NoText]
Pair(k, v) == [indent |-> FALSE, kind |-> "pair", name |-> k, value |-> v, whole |-> NoText]
Indented(line) == [line EXCEPT !.indent = TRUE]

Always == Pair("probability", Text(100, {}))
Negative == Pair("probability", Text(-1, {}))
OnWrites == Pair("op_regexp", Text(0, {"write"}))
OnData == Pair("path_regexp", Text(0, {"data"}))
Nanoseconds == Pair("duration", Text(999, {}))

ConfLines == {Header("noop"), Always, Indented(OnWrites), Indented(Header("delay"))}

\* No file, or an entry of each type: some with the default probability, some
\* that match one operation or one path only, and a section that has no meaning.
Startups ==
    {<<>>,
     <<Header("unknown"), Always, Header("noop"), Negative, OnWrites, Header("slowdown"),
       Nanoseconds, Always, Header("delay"), Always, OnData, Header("errno"), OnWrites,
       Header("kill_caller"), Always, Header("reorder"), Always>>}
=============================================================================
