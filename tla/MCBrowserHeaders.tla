-------------------------- MODULE MCBrowserHeaders --------------------------
(* The header lists of MCHeaders beside other components.                  *)
CONSTANT MaxEdits
VARIABLES headers, order, genuine, edits
L == INSTANCE MCHeaders

\* Adding an optional header, at any place in any list, never turns a match into an
\* anomaly (order.go on its threshold; see MCHeaders).
InsertionsNeverHurt == L!InsertionsNeverHurt
=============================================================================
