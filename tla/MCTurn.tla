------------------------------- MODULE MCTurn -------------------------------
EXTENDS TurnProps

\* Both numbers; the values in the other order and repeated; both on a line;
\* a line without a number, and a number that is none; no statistics.  After its
\* reply coturn shows a prompt on a line without an end.
MCReplies == {
  <<"session", "1", "2", "newline", "byte", "2", "1", "newline", "other">>,
  <<"byte", "1", "newline", "session", "2", "2", "newline", "byte", "2", "newline", "other">>,
  <<"session", "2", "newline", "session", "byte", "1", "2", "newline", "other">>,
  <<"session", "newline", "session", "1", "point", "2", "point", "newline", "session", "2", "newline",
    "byte", "1", "point", "2", "newline", "other">>,
  <<"other", "1", "newline", "other">> }
=============================================================================
