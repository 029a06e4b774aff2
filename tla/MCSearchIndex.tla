---------------------------- MODULE MCSearchIndex ----------------------------
(* Two texts that match one query by their words and another by their sense. *)
EXTENDS SearchIndex

CONSTANTS q1, q2, x, y

\* The first query shares a word with x only; the second with both, more with y.
MCLexical(q, t) == CASE q = q1 -> (IF t = x THEN 1 ELSE 0)
                     [] OTHER -> (IF t = y THEN 2 ELSE 1)

\* The first query is closer to y; the second to x.
MCSimilarity(q, t) == IF (q = q1) = (t = y) THEN 2 ELSE 1
=============================================================================
