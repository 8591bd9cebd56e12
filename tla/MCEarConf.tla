----------------------------- MODULE MCEarConf -----------------------------
(***************************************************************************)
(* Inputs for checking EarConf.  Each set is the answers the administrator *)
(* may give to one prompt; they are chosen so that every branch of the     *)
(* script, every exception and every refused answer can happen.            *)
(***************************************************************************)
EXTENDS EarConf

\* Up to two partitions, named or defaulted, one of them possibly without
\* nodes; clusterSize 0 is accepted by 317.
MCClusterSizes == {0, 1, 2}
MCNameInputs == {"cpu", "gpu"}
MCNodeInputs == {0, 1}
MCPowerInputs == {1}
MCEargmNumInputs == {1, 2}
MCBudgetInputs == {}
\* Manager id 1 typed plainly, id 2 typed with surrounding spaces.
MCMetaIdInputs == {[id |-> 1, padded |-> FALSE], [id |-> 2, padded |-> TRUE]}
\* Accepted, out of range, non-numeric, duplicated, with an empty item.
MCMetaIdsInputs == {<<1>>, <<2>>, <<3>>, <<Word>>, <<1, 1>>,
                    <<1, EmptyItem>>}
\* '', too few, out of order, non-numeric, in order.
MCWarnInputs == {<<EmptyItem>>, <<85>>, <<95, 90, 85>>, <<85, Word>>,
                 <<80, 90, 95>>}
MCGpuFreqInputs == {0, 1}
=============================================================================
