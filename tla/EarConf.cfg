CONSTANTS
    ClusterSizes <- MCClusterSizes
    NameInputs <- MCNameInputs
    NodeInputs <- MCNodeInputs
    PowerInputs <- MCPowerInputs
    PowerCapAnswers = {"y", "n"}
    ModeInputs = {0, 1}
    PowerLimitAnswers = {"y", "n"}
    EargmNumInputs <- MCEargmNumInputs
    BudgetInputs <- MCBudgetInputs
    MetaAnswers = {"y", "n"}
    MetaIdInputs <- MCMetaIdInputs
    MetaIdsInputs <- MCMetaIdsInputs
    EnergyCapAnswers = {"y", "n"}
    WarningsAnswers = {"y", "n"}
    WarnInputs <- MCWarnInputs
    GpuFreqInputs <- MCGpuFreqInputs
SPECIFICATION FairSpec
INVARIANT TypeOK
INVARIANT WarningThresholdsOrdered
INVARIANT EargmKeysBound
INVARIANT MetaControlsConfigured
INVARIANT IslandsCoverTypes
PROPERTY WizardEnds
PROPERTY SettingsRefined
\* The script ends: it exits after writing the file or on an exception.
CHECK_DEADLOCK FALSE
