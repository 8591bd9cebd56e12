CONSTANTS
    ClusterSizes <- MCClusterSizes
    NameInputs <- MCNameInputs
    NodeInputs <- MCNodeInputs
    PowerCapAnswers = {"y", "n"}
    PowerLimitAnswers = {"y", "n"}
    EargmNumInputs <- MCEargmNumInputs
    TypeInputs <- MCTypeInputs
    MetaAnswers = {"y", "n"}
    MetaIdInputs <- MCMetaIdInputs
    MetaIdsInputs <- MCMetaIdsInputs
    EnergyCapAnswers = {"y", "n"}
    WarningsAnswers = {"y", "n"}
    WarnInputs <- MCWarnInputs
SPECIFICATION Spec
INVARIANT WarningThresholdsOrdered
\* The script stops: it exits after the output or on an exception, and a
\* prompt with no acceptable answer loops without a step of the model.
CHECK_DEADLOCK FALSE
