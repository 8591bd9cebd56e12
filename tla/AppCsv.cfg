\* The apps file create_app_csv.py writes: one row per application, with
\* the aggregates its loops call for.  The script runs once and stops.
CONSTANTS
    Keys <- MCKeys
    MetricColumns <- MCMetricColumns
    Values <- MCValues
    Timestamps <- MCTimestamps
    ElapsedTimes <- MCElapsedTimes
    MaxRows <- MCMaxRows
    NoAppFile = NoAppFile
SPECIFICATION Spec
INVARIANTS TypeOK OneRowPerApplication AggregatesMatch
CHECK_DEADLOCK FALSE
