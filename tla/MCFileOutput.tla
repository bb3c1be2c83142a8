--------------------------- MODULE MCFileOutput ---------------------------
EXTENDS FileOutput

\* Two records fill a file, or the third of its own.
MCSize(r) == IF r % 3 = 0 THEN 3 ELSE 1
\* A file of another program, older than all of the log's.
MCOthers == {1}
=============================================================================
