------------------------------ MODULE Answers ------------------------------
(***************************************************************************)
(* How the two EARGM wizards, earConf_tool.py and eargm_tool.py, read the  *)
(* administrator's answers.  Both scripts validate an answer with the same *)
(* tests (isdigit, comparison with y/Y/n/N, int() of comma-separated       *)
(* items), so the abstraction of an answer is shared: only what those      *)
(* tests tell apart is kept.                                               *)
(***************************************************************************)
EXTENDS Integers, Sequences, TLC

\* An answer to a [Y/n] question once '' and the letter case are folded.
YesNo == {"y", "n"}

\* The integer 0 both scripts record as the type of a single EARGM: a
\* string no name input equals, so that types stay comparable.
AllTypes == "<0>"

\* The items of a comma list: a numeric item is its value, and two
\* negative codes stand for the items int() rejects.
EmptyItem == -1       \* "" (as in "1,,2" or the whole answer '')
Word == -2            \* a word that is not a number
Token == Nat \cup {EmptyItem, Word}

\* int(x.strip()) succeeds on exactly the numeric items of a comma list.
IsInt(x) == x \in Nat

\* "type" + str(k), the default name of the k-th type.
DefaultTypeName(k) == "type" \o ToString(k)

\* Python's round(n / d) for naturals: halves go to the even neighbour.
PyRoundDiv(n, d) ==
    LET q == n \div d
        r == n % d
    IN  IF 2 * r > d \/ (2 * r = d /\ q % 2 = 1) THEN q + 1 ELSE q

=============================================================================
