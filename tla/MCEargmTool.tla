---------------------------- MODULE MCEargmTool ----------------------------
(***************************************************************************)
(* Inputs for checking EargmTool: the answers the administrator may give  *)
(* to each prompt, chosen so that every branch, every refused answer and  *)
(* every exception of the script can happen.                              *)
(***************************************************************************)
EXTENDS EargmTool

MCClusterSizes == {1, 2}
MCNameInputs == {"cpu", "gpu"}
MCNodeInputs == {1}
MCEargmNumInputs == {1, 2}
\* Two names, a default name, and a name in the wrong case.
MCTypeInputs == {"cpu", "gpu", "type1", "GPU"}
\* Manager id 1 typed plainly, id 2 typed with surrounding spaces.
MCMetaIdInputs == {[id |-> 1, padded |-> FALSE], [id |-> 2, padded |-> TRUE]}
\* Accepted, out of range, non-numeric, duplicated, with an empty item,
\* and an id with a blank before it (" 1").
MCMetaIdsInputs ==
    {[items |-> s, spaced |-> FALSE] :
        s \in {<<1>>, <<2>>, <<3>>, <<Word>>, <<1, 1>>, <<1, EmptyItem>>}}
    \cup {[items |-> <<1>>, spaced |-> TRUE]}
\* '', too few, out of order, non-numeric, in order, in order with blanks.
MCWarnInputs ==
    {Blank}
    \cup {[items |-> s, spaced |-> FALSE] :
            s \in {<<85>>, <<95, 90, 85>>, <<85, Word>>, <<80, 90, 95>>}}
    \cup {[items |-> <<80, 90, 95>>, spaced |-> TRUE]}
=============================================================================
