\* The counters of cols_to_agg that the filter of create_app_csv.py drops.
CONSTANTS
    Keys <- MCKeys
    MetricColumns <- MCMetricColumns
    Values <- MCValues
    Timestamps <- MCTimestamps
    ElapsedTimes <- MCElapsedTimes
    MaxRows <- MCMaxRows
    NoAppFile = NoAppFile
SPECIFICATION Spec
INVARIANTS CountersSummed
CHECK_DEADLOCK FALSE
