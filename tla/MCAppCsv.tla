------------------------------ MODULE MCAppCsv ------------------------------
(* AppCsv for TLC: two applications, loop files of up to two rows with a  *)
(* mean metric (CPI), a counter the filter keeps (L1_MISSES) and one it     *)
(* drops (DPOPS_256), and every choice of --app-csv-file.                   *)
EXTENDS AppCsv

MCKeys == {1, 2}
MCMetricColumns == {"CPI", "L1_MISSES", "DPOPS_256"}
MCValues == {0, 1}
MCTimestamps == {1, 2}
MCElapsedTimes == {0, 1, 2}
MCMaxRows == 2

=============================================================================
