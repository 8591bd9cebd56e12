CONSTANTS
    ClusterSizes <- MCClusterSizes
    NameInputs <- MCNameInputs
    NodeInputs <- MCNodeInputs
    PowerInputs <- MCPowerInputs
    PowerCapAnswers = {"y", "n"}
    ModeInputs = {0, 1}
    PowerLimitAnswers = {"y", "n"}
    EargmNumInputs <- MCEargmNumInputs
    BudgetInputs <- MCBudgetInputs
    MetaAnswers = {"y", "n"}
    MetaIdInputs <- MCMetaIdInputs
    MetaIdsInputs <- MCMetaIdsInputs
    EnergyCapAnswers = {"y", "n"}
    WarningsAnswers = {"y", "n"}
    WarnInputs <- MCWarnInputs
    GpuFreqInputs <- MCGpuFreqInputs
SPECIFICATION Spec
INVARIANT TagLinesMatchTypes
\* The script stops: it exits after the file or on an exception, and a
\* prompt with no acceptable answer loops without a step of the model.
CHECK_DEADLOCK FALSE
