------------------------------ MODULE AppCsv ------------------------------
(***************************************************************************)
(* src/src/tools/create_app_csv.py: one run of the script turns a loop CSV *)
(* (one row per loop iteration of an application on a node) into an apps  *)
(* CSV with one row per application and node.  The script is a single     *)
(* straight-line computation, so it is one action, Run, that reads the    *)
(* input chosen by Init and sets the output; the pandas calls it makes     *)
(* are operators, each translated from the lines it names.                 *)
(*                                                                         *)
(* A row's four key columns JOBID, STEPID, APPID, NODENAME are one value   *)
(* of Keys; its metrics are a function from the metric column names of the *)
(* loop file.  A mean is kept exactly, as a numerator and a denominator.   *)
(* The START_DATE and END_DATE columns are conversions of START_TIME and   *)
(* END_TIME to dates and are left out.                                     *)
(***************************************************************************)
EXTENDS Integers, Sequences, SequencesExt, FiniteSets

CONSTANTS
    Keys,            \* values of (JOBID, STEPID, APPID, NODENAME)
    MetricColumns,   \* metric column names of the loop file
    Values,          \* values of a metric cell
    Timestamps,      \* values of the TIMESTAMP column
    ElapsedTimes,    \* values of the ELAPSED column
    MaxRows,         \* the most rows a loop file has
    NoAppFile        \* --app-csv-file not given

\* The names the regular expression of 29-43 accepts.  DataFrame.filter
\* searches each column name for the expression; for the columns of the
\* model a name matches exactly when it is one of the alternatives.
AppColumnNames ==
    {"DCGMI_EVENTS_COUNT", "COMP_BOUND", "MPI_BOUND", "IO_BOUND",
     "CPU_BUSY_WAITING", "CPU_GPU_COMP", "CPU_BOUND", "MEM_BOUND", "MIX_COMP",
     "NODENAME", "JOBID", "STEPID", "APPID", "USERID", "GROUPID", "JOBNAME",
     "USER_ACC", "ENERGY_TAG", "POLICY", "POLICY_TH", "START_TIME",
     "END_TIME", "START_DATE", "END_DATE", "AVG_CPUFREQ_KHZ",
     "AVG_IMCFREQ_KHZ", "DEF_FREQ_KHZ", "TIME_SEC", "CPI", "TPI", "MEM_GBS",
     "IO_MBS", "PERC_MPI", "DC_NODE_POWER_W", "DRAM_POWER_W", "PCK_POWER_W",
     "CYCLES", "INSTRUCTIONS", "CPU-GFLOPS", "L1_MISSES", "L2_MISSES",
     "L3_MISSES", "SPOPS_SINGLE", "SPOPS_128", "SPOPS_256", "SPOPS_512",
     "DPOPS_SINGLE", "DPOPS_128", "DP_256", "DPOPS_512"}

\* cols_to_agg (49): the counters summed over the loops of an application.
CountersToAgg ==
    {"L1_MISSES", "L2_MISSES", "L3_MISSES", "SPOPS_SINGLE", "SPOPS_128",
     "SPOPS_256", "SPOPS_512", "DPOPS_SINGLE", "DPOPS_128", "DPOPS_256",
     "DPOPS_512"}

ASSUME MetricColumns \subseteq STRING /\ Values \subseteq Nat
ASSUME Timestamps \subseteq Nat /\ ElapsedTimes \subseteq Nat
ASSUME MaxRows \in Nat \ {0}

\* ELAPSED counts the seconds since the application started, so it never
\* exceeds the TIMESTAMP of its row.
Row == {r \in [key : Keys, ts : Timestamps, el : ElapsedTimes,
                m : [MetricColumns -> Values]] : r.el <= r.ts}
LoopFiles == UNION {[1..n -> Row] : n \in 1..MaxRows}
Fraction == [num : Nat, den : Nat \ {0}]

VARIABLES
    loop,      \* the rows of the loop CSV, in file order
    appArg,    \* the keys listed in the --app-csv-file, or NoAppFile
    pc,        \* "run", then "done" or "crashed"
    apps       \* the apps CSV: for each key, its metrics and times

vars == <<loop, appArg, pc, apps>>

-----------------------------------------------------------------------------
(* The script's computation.                                               *)

\* A plausible slip in 25: the clauses joined with ' or ', which keeps a
\* row unless it matches every listed application.
ExcludeKnownOr(rows, known) ==
    IF known = NoAppFile THEN rows
    ELSE SelectSeq(rows, LAMBDA r : \E k \in known : r.key # k)

\* 20-26: the rows of the applications already in the apps file are
\* dropped, by a query joining one "not (key == ...)" per listed row.
ExcludeKnown(rows, known) ==
    IF known = NoAppFile THEN rows
    ELSE SelectSeq(rows, LAMBDA r : r.key \notin known)

\* 44-47: the metric columns kept, the key columns being dropped.
Kept == MetricColumns \cap AppColumnNames

\* A slip in 50: every metric averaged.
AggFuncAllMean(c) == "mean"

\* 50: counters are summed, every other kept metric is averaged.
AggFunc(c) == IF c \in CountersToAgg THEN "sum" ELSE "mean"

RowsOf(rows, k) == SelectSeq(rows, LAMBDA r : r.key = k)
ColumnSum(rows, c) == FoldSeq(LAMBDA r, acc : r.m[c] + acc, 0, rows)

\* 52-55: pivot_table over the four key columns.
Pivot(rows) ==
    [k \in {r.key : r \in Range(rows)} |->
        LET g == RowsOf(rows, k)
        IN  [c \in Kept |->
                [num |-> ColumnSum(g, c),
                 den |-> IF AggFunc(c) = "sum" THEN 1 ELSE Len(g)]]]

\* A slip in 59: the greatest ELAPSED taken instead of the least.
StartTimeMaxElapsed(g) ==
    Min({r.ts : r \in Range(g)}) - Max({r.el : r \in Range(g)})

\* 58-63: the least TIMESTAMP less the least ELAPSED of the group.
StartTime(g) == Min({r.ts : r \in Range(g)}) - Min({r.el : r \in Range(g)})
\* 66-70: the greatest TIMESTAMP of the group.
EndTime(g) == Max({r.ts : r \in Range(g)})

\* 73-83: the join of the three frames, one row per key.
AppRows(rows) ==
    LET p == Pivot(rows)
    IN  [k \in DOMAIN p |->
            [vals |-> p[k], start |-> StartTime(RowsOf(rows, k)),
             end |-> EndTime(RowsOf(rows, k))]]

-----------------------------------------------------------------------------
Init ==
    /\ loop \in LoopFiles
    /\ appArg \in {NoAppFile} \cup SUBSET Keys
    /\ pc = "run"
    /\ apps = <<>>

\* The whole script, 15-83.  An apps file with no rows raises: in the
\* apply of 23 on an empty frame, or in the empty query of 25-26.  When every row is
\* dropped, pandas either writes a file without rows or raises, depending
\* on its version; both are allowed.
Run ==
    /\ pc = "run"
    /\ LET rows == ExcludeKnown(loop, appArg)
       IN  CASE appArg = {} ->
                    pc' = "crashed" /\ UNCHANGED apps
             [] rows = <<>> ->
                    \/ pc' = "done" /\ apps' = <<>>
                    \/ pc' = "crashed" /\ UNCHANGED apps
             [] OTHER ->
                    pc' = "done" /\ apps' = AppRows(rows)
    /\ UNCHANGED <<loop, appArg>>

Next == Run

Spec == Init /\ [][Next]_vars

-----------------------------------------------------------------------------
(* What the apps file is meant to hold, stated over the rows of the loop   *)
(* file directly: one row per application and node not already in the     *)
(* apps file, its counters summed and its other metrics averaged.          *)

Remaining == {i \in DOMAIN loop : appArg = NoAppFile \/ loop[i].key \notin appArg}
LoopsOf(k) == {i \in Remaining : loop[i].key = k}

RECURSIVE SumOver(_, _)
SumOver(I, c) ==
    IF I = {} THEN 0
    ELSE LET i == CHOOSE j \in I : TRUE IN loop[i].m[c] + SumOver(I \ {i}, c)

\* The value an application's column should have, as a fraction.
Expected(k, c) ==
    IF c \in CountersToAgg THEN [num |-> SumOver(LoopsOf(k), c), den |-> 1]
    ELSE [num |-> SumOver(LoopsOf(k), c), den |-> Cardinality(LoopsOf(k))]

SameValue(x, y) == x.num * y.den = y.num * x.den

\* The written apps file has a row for each key and its times are epoch
\* seconds; a start before the epoch means ELAPSED was misread (59-61).
TypeOK ==
    /\ pc \in {"run", "done", "crashed"}
    /\ \A k \in DOMAIN apps :
          /\ DOMAIN apps[k].vals = Kept
          /\ \A c \in Kept : apps[k].vals[c] \in Fraction
          /\ apps[k].start \in Nat /\ apps[k].end \in Nat

\* The script writes exactly one row for every application and node of the
\* loop file that the --app-csv-file does not already hold (20-26, 52-55):
\* none is lost, none kept twice.
OneRowPerApplication ==
    pc = "done" => DOMAIN apps = {loop[i].key : i \in Remaining}

\* Every metric the script keeps holds the sum of the application's loops
\* for a counter of cols_to_agg and their mean otherwise (49-55).
AggregatesMatch ==
    \A k \in DOMAIN apps : \A c \in DOMAIN apps[k].vals :
        SameValue(apps[k].vals[c], Expected(k, c))

\* Every counter of cols_to_agg that the loop file holds is summed into
\* the apps file (49): the comment of 28 says the filter of 44 keeps every
\* column expected in an apps header.
CountersSummed ==
    \A k \in DOMAIN apps : MetricColumns \cap CountersToAgg \subseteq DOMAIN apps[k].vals

=============================================================================
