------------------------------ MODULE EarConf ------------------------------
(***************************************************************************)
(* The interactive configuration wizard src/src/tools/earConf_tool.py,     *)
(* from the cluster-structure prompts (line 316) to the earConf.txt file   *)
(* it writes (lines 976-1310).  The database, EARD and EARDBD prompts of   *)
(* lines 10-308 sit inside a string literal and are not executed.          *)
(*                                                                         *)
(* The wizard is one sequential Python process talking to an administrator *)
(* on standard input.  Each action is one step of the script: a prompt     *)
(* together with its re-prompt loop, or the straight-line code between two *)
(* prompts.  A re-prompt loop whose state does not survive an iteration    *)
(* ("while not valid: x = input()") only ever ends with a valid answer, so *)
(* it is modelled by choosing that answer from the valid inputs; when no   *)
(* valid input exists the action is disabled and the wizard is stuck, as   *)
(* the program is.  The two loops that keep state across iterations (the  *)
(* warning thresholds, the meta-EARGM id list) are modelled iteration by   *)
(* iteration.  Answers are abstracted to what the code tells apart:        *)
(* y/Y/'' (when '' defaults to y) are "y", n/N are "n", a digit string is  *)
(* its integer, a comma list is a sequence of Token.                      *)
(*                                                                         *)
(* Python variables are globals that stay bound once assigned; "bound" is  *)
(* the set of the names that may be unbound when the output reads them.    *)
(***************************************************************************)
EXTENDS Answers, Integers, Sequences, SequencesExt, FiniteSets, TLC

CONSTANTS
    ClusterSizes,    \* digit answers to "How many types of nodes" (316)
    NameInputs,      \* items of the comma-separated type names (331)
    NodeInputs,      \* digit answers to "How many nodes of this type" (349)
    PowerInputs,     \* digit answers to "max power consumption" (353)
    PowerCapAnswers, \* answers to "configure power capping" (369)
    ModeInputs,      \* powercap modes accepted at 381-383
    PowerLimitAnswers, \* answers to "manage power limit per partition" (393)
    EargmNumInputs,  \* digit answers to "How many EARGMs" (413)
    BudgetInputs,    \* digit answers to "this EARGM's power budget"
    MetaAnswers,     \* answers to "allow power budget redistribution" (606)
    MetaIdInputs,    \* EARGM ids typed at 632 (a value, and whether padded)
    MetaIdsInputs,   \* comma lists typed at 639 and 643
    EnergyCapAnswers, \* answers to "configure energy capping" (673)
    WarningsAnswers, \* answers to "set up warnings" (750)
    WarnInputs,      \* comma lists typed at 759 and 771
    GpuFreqInputs    \* the default GPU frequency of a type (924), 0 if none

ASSUME ClusterSizes \subseteq Nat /\ NodeInputs \subseteq Nat
ASSUME PowerInputs \subseteq Nat /\ BudgetInputs \subseteq Nat
ASSUME EargmNumInputs \subseteq Nat /\ GpuFreqInputs \subseteq Nat
ASSUME ModeInputs \subseteq {0, 1, 2}
ASSUME NameInputs \subseteq STRING /\ AllTypes \notin NameInputs
ASSUME \A S \in {PowerCapAnswers, PowerLimitAnswers, MetaAnswers,
                 EnergyCapAnswers, WarningsAnswers} : S \subseteq YesNo
ASSUME MetaIdInputs \subseteq [id : Nat, padded : BOOLEAN]
ASSUME \A s \in MetaIdsInputs \cup WarnInputs : s \in Seq(Token) /\ s # <<>>

VARIABLES
    pc,               \* the step of the script the wizard is at
    exc,              \* the exception that ended the process, or "none"
    bound,            \* names bound so far among those in MaybeUnbound
    clusterSize,
    typesNameList,
    typeData,         \* nodesNumList and maxPowerList, zipped
    idx,              \* the loop counter of the current for loop
    powerCap,
    EARGMPowerCapMode,
    powerLimit,
    eargmNum,
    eargms,           \* eargmIdList, eargmTypeList, eargmPowerList, zipped
    eargmPowerSug,
    EargmIds2,
    metaEargmIds,     \* the comma list as typed
    metaEargmIdsList, \* metaEargmIds.split(",")
    metaEargmIdlst,
    metaEargmIdslst,
    EARGMWarningsPerc,
    flag,             \* 1 iff the thresholds read last were out of order
    tags,             \* gpuFreqList and defaultTagList, zipped
    file              \* the entries written to earConf.txt

clusterVars == <<clusterSize, typesNameList, typeData>>
powerVars == <<powerCap, EARGMPowerCapMode, powerLimit, eargmNum, eargms,
               eargmPowerSug>>
metaVars == <<EargmIds2, metaEargmIds, metaEargmIdsList, metaEargmIdlst,
              metaEargmIdslst>>
warnVars == <<EARGMWarningsPerc, flag>>
vars == <<pc, exc, bound, idx, clusterVars, powerVars, metaVars, warnVars,
          tags, file>>

\* The keys of lines 1070-1109 and the names read by the EARGM, Tag and
\* Island lines that some path of the script leaves unassigned.
PowerCapKeys == {"EARGMPowerPeriod", "EARGMPowerCapMode",
                 "EARGMPowerCapSuspendLimit", "EARGMPowerCapSuspendAction",
                 "EARGMPowerCapResumeLimit", "EARGMPowerCapResumeAction"}
EnergyKeys == {"EARGMUseAggregated", "T1", "T2", "EARGMUnits",
               "energyLimit"}
WarningKeys == {"EARGMMail", "EARGMWarningsPerc", "EARGMEnergyActionCommand"}
OutputKeys == PowerCapKeys \cup EnergyKeys \cup WarningKeys \cup {"EARGMUseLog"}
MaybeUnbound == OutputKeys \cup {"eargmPowerSug", "metaEargmIdlst"}

Steps == {"clusterSize", "typeName", "names", "typeData", "powerCap",
          "eargmNum", "eargmOne", "eargmMulti", "eargmSingle", "actions",
          "meta", "metaIdsAsk", "metaIdsRetry", "metaIdsCheck", "energyCap",
          "warnings", "warnCheck", "warnRetry", "email", "useLog", "tags",
          "write"}
Terminal == {"done", "crashed"}
Exceptions == {"none", "ValueError", "NameError", "IndexError",
               "ZeroDivisionError"}

ErrorEntry == [sect : {"error"}, exc : Exceptions]
EargmEntry == [sect : {"eargm"}, id : Nat, energy : BOOLEAN,
               meta : Seq(Token)]
TagEntry == [sect : {"tag"}, type : Nat, default : BOOLEAN, budgetOf : Nat]
IslandEntry == [sect : {"island"}, type : Nat, eargm : Nat]

-----------------------------------------------------------------------------
Init ==
    /\ pc = "clusterSize"
    /\ exc = "none"
    /\ bound = {}
    /\ clusterSize = 0
    /\ typesNameList = <<>>
    /\ typeData = <<>>
    /\ idx = 0
    /\ powerCap = "n"
    /\ EARGMPowerCapMode = 0
    /\ powerLimit = "n"
    /\ eargmNum = 0
    /\ eargms = <<>>
    /\ eargmPowerSug = 0
    /\ EargmIds2 = {}
    /\ metaEargmIds = <<EmptyItem>>
    /\ metaEargmIdsList = <<EmptyItem>>
    /\ metaEargmIdlst = <<>>
    /\ metaEargmIdslst = <<>>
    /\ EARGMWarningsPerc = <<>>
    /\ flag = 0
    /\ tags = <<>>
    /\ file = <<>>

\* An exception ends the process; nothing after it runs.
Crash(e) ==
    /\ pc' = "crashed"
    /\ exc' = e
    /\ UNCHANGED <<bound, idx, clusterVars, powerVars, metaVars, warnVars,
                   tags, file>>

-----------------------------------------------------------------------------
(* Cluster structure (lines 316-362).                                      *)

AskClusterSize ==
    /\ pc = "clusterSize"
    /\ \E n \in ClusterSizes :
          /\ clusterSize' = n
          /\ pc' = "typeName"
    /\ UNCHANGED <<exc, bound, idx, typesNameList, typeData, powerVars,
                   metaVars, warnVars, tags, file>>

\* The administrator chooses to name the types: the names prompt follows.
NameTypes ==
    /\ pc = "typeName"
    /\ pc' = "names"
    /\ UNCHANGED <<exc, bound, idx, clusterVars, powerVars, metaVars,
                   warnVars, tags, file>>

\* The for loop of 347 runs once per type; an empty list skips it.
EnterTypeLoop(names) ==
    /\ idx' = 1
    /\ pc' = IF names = <<>> THEN "powerCap" ELSE "typeData"

\* The administrator declines: the types are named type1 .. typeN (338-341).
DefaultTypeNames ==
    /\ pc = "typeName"
    /\ LET names == [k \in 1..clusterSize |-> DefaultTypeName(k)]
       IN  /\ typesNameList' = names
           /\ EnterTypeLoop(names)
    /\ UNCHANGED <<exc, bound, clusterSize, typeData, powerVars, metaVars,
                   warnVars, tags, file>>

\* Accepted when the input is not '' and has clusterSize comma-separated
\* items; an item may be empty ("a," or a lone space).  With clusterSize 0
\* no input has zero items, so the prompt never ends.
AskNames ==
    /\ pc = "names"
    /\ clusterSize >= 1
    /\ \E names \in [1..clusterSize -> NameInputs] :
          /\ typesNameList' = names
          /\ EnterTypeLoop(names)
    /\ UNCHANGED <<exc, bound, clusterSize, typeData, powerVars, metaVars,
                   warnVars, tags, file>>

\* One iteration of 347-361.  The average power is read too; no step of
\* the model reads its value.
ConfigureType ==
    /\ pc = "typeData"
    /\ \E n \in NodeInputs, m \in PowerInputs :
          typeData' = Append(typeData, [nodes |-> n, maxPower |-> m])
    /\ idx' = idx + 1
    /\ pc' = IF idx = Len(typesNameList) THEN "powerCap" ELSE "typeData"
    /\ UNCHANGED <<exc, bound, clusterSize, typesNameList, powerVars,
                   metaVars, warnVars, tags, file>>


-----------------------------------------------------------------------------
(* Power capping (lines 369-666).                                          *)

\* 658-665 guarded by a misspelt answer list, so the keys stay unbound.
DeclinePowerCapNoDefaults ==
    /\ pc = "powerCap"
    /\ "n" \in PowerCapAnswers
    /\ powerCap' = "n"
    /\ EARGMPowerCapMode' = 0
    /\ pc' = "energyCap"
    /\ UNCHANGED <<exc, bound, idx, clusterVars, powerLimit, eargmNum, eargms,
                   eargmPowerSug, metaVars, warnVars, tags, file>>

\* The administrator declines power capping: 658-665 bind the powercap
\* keys to their disabled values.
DeclinePowerCap ==
    /\ pc = "powerCap"
    /\ "n" \in PowerCapAnswers
    /\ powerCap' = "n"
    /\ EARGMPowerCapMode' = 0
    /\ bound' = bound \cup PowerCapKeys
    /\ pc' = "energyCap"
    /\ UNCHANGED <<exc, idx, clusterVars, powerLimit, eargmNum, eargms,
                   eargmPowerSug, metaVars, warnVars, tags, file>>

\* y to the power capping question (369-376, '' counting as y), then the
\* general powercap questions (378-401): the mode, the period, and
\* whether each partition gets its own EARGM.
AcceptPowerCap ==
    /\ pc = "powerCap"
    /\ "y" \in PowerCapAnswers
    /\ \E mode \in ModeInputs, lim \in PowerLimitAnswers :
          /\ powerCap' = "y"
          /\ EARGMPowerCapMode' = mode
          /\ powerLimit' = lim
          /\ pc' = IF lim = "y" THEN "eargmNum" ELSE "eargmSingle"
    /\ bound' = bound \cup {"EARGMPowerCapMode", "EARGMPowerPeriod"}
    /\ UNCHANGED <<exc, idx, clusterVars, eargmNum, eargms, eargmPowerSug,
                   metaVars, warnVars, tags, file>>

\* The recommended number of EARGMs (404-411): the loop overwrites eargmS
\* on every iteration, so only the last type's thousands of nodes count.
EargmS ==
    IF typeData = <<>> THEN 0
    ELSE LET n == Last(typeData).nodes
         IN  clusterSize + (IF n > 1000 THEN PyRoundDiv(n, 1000) ELSE 0)

\* 413-420: '' takes the recommendation.
AskEargmNum ==
    /\ pc = "eargmNum"
    /\ \E n \in EargmNumInputs \cup {EargmS} :
          /\ eargmNum' = n
          /\ pc' = CASE n = 1 -> "eargmOne"
                     [] n > 1 -> "eargmMulti"
                     [] OTHER -> "actions"
    /\ idx' = 1
    /\ UNCHANGED <<exc, bound, clusterVars, powerCap, EARGMPowerCapMode,
                   powerLimit, eargms, eargmPowerSug, metaVars, warnVars,
                   tags, file>>

\* The sum of nodes * max power over all types, the budget suggested to a
\* single EARGM (429-431, 509-512).
TotalPower ==
    LET RECURSIVE SumFrom(_)
        SumFrom(k) == IF k > Len(typeData) THEN 0
                      ELSE typeData[k].nodes * typeData[k].maxPower
                           + SumFrom(k + 1)
    IN  SumFrom(1)

\* The only EARGM, with id 1 and type 0, budget typed or suggested.
OneEargm ==
    /\ \E b \in BudgetInputs \cup {TotalPower} :
          eargms' = <<[id |-> 1, type |-> AllTypes, power |-> b]>>
    /\ eargmPowerSug' = TotalPower
    /\ bound' = bound \cup {"eargmPowerSug"}
    /\ pc' = "actions"

\* 422-459: one EARGM when the administrator asked for exactly one.
ConfigureOnlyEargm ==
    /\ pc = "eargmOne"
    /\ OneEargm
    /\ UNCHANGED <<exc, idx, clusterVars, powerCap, EARGMPowerCapMode,
                   powerLimit, eargmNum, metaVars, warnVars, tags, file>>

\* The types 468 accepts: a listed, non-empty name no earlier EARGM took.
AvailableTypes ==
    {t \in Range(typesNameList) :
        t # "" /\ t \notin {e.type : e \in Range(eargms)}}

\* 462-500 appending id 1 as the single-EARGM branch does (425).
ConfigureEargmFixedId ==
    /\ pc = "eargmMulti"
    /\ \E t \in AvailableTypes :
          LET k == SelectInSeq(typesNameList, LAMBDA x : x = t)
              sug == typeData[k].nodes * typeData[k].maxPower
          IN  /\ \E b \in BudgetInputs \cup {sug} :
                    eargms' = Append(eargms, [id |-> 1, type |-> t,
                                              power |-> b])
              /\ eargmPowerSug' = sug
    /\ bound' = bound \cup {"eargmPowerSug"}
    /\ idx' = idx + 1
    /\ pc' = IF idx = eargmNum THEN "actions" ELSE "eargmMulti"
    /\ UNCHANGED <<exc, clusterVars, powerCap, EARGMPowerCapMode, powerLimit,
                   eargmNum, metaVars, warnVars, tags, file>>

\* One iteration of 462-500: EARGM idx chooses its type; its suggested
\* budget is that of the first type of that name (472-473).
ConfigureEargm ==
    /\ pc = "eargmMulti"
    /\ \E t \in AvailableTypes :
          LET k == SelectInSeq(typesNameList, LAMBDA x : x = t)
              sug == typeData[k].nodes * typeData[k].maxPower
          IN  /\ \E b \in BudgetInputs \cup {sug} :
                    eargms' = Append(eargms, [id |-> idx, type |-> t,
                                              power |-> b])
              /\ eargmPowerSug' = sug
    /\ bound' = bound \cup {"eargmPowerSug"}
    /\ idx' = idx + 1
    /\ pc' = IF idx = eargmNum THEN "actions" ELSE "eargmMulti"
    /\ UNCHANGED <<exc, clusterVars, powerCap, EARGMPowerCapMode, powerLimit,
                   eargmNum, metaVars, warnVars, tags, file>>

\* 502-540: without per-partition limits a single EARGM, eargmNum = 1.
ConfigureSingleEargm ==
    /\ pc = "eargmSingle"
    /\ eargmNum' = 1
    /\ OneEargm
    /\ UNCHANGED <<exc, idx, clusterVars, powerCap, EARGMPowerCapMode,
                   powerLimit, metaVars, warnVars, tags, file>>

\* The suspend and resume commands (548-602); both branches of each bind
\* its limit and action.
ConfigurePowerCapActions ==
    /\ pc = "actions"
    /\ bound' = bound \cup PowerCapKeys
    /\ pc' = IF eargmNum > 1 THEN "meta" ELSE "energyCap"
    /\ UNCHANGED <<exc, idx, clusterVars, powerVars, metaVars, warnVars,
                   tags, file>>

-----------------------------------------------------------------------------
(* Meta-EARGM (lines 605-656).                                             *)

\* 652-655: no redistribution, a list of int zeros; no str(id) is in it.
NoMeta == [id |-> 0, padded |-> FALSE]

DeclineMeta ==
    /\ pc = "meta"
    /\ "n" \in MetaAnswers
    /\ metaEargmIdlst' = [k \in 1..Len(eargms) |-> NoMeta]
    /\ metaEargmIdslst' = [k \in 1..Len(eargms) |-> <<>>]
    /\ bound' = bound \cup {"metaEargmIdlst"}
    /\ pc' = "energyCap"
    /\ UNCHANGED <<exc, idx, clusterVars, powerVars, EargmIds2, metaEargmIds,
                   metaEargmIdsList, warnVars, tags, file>>

\* 614-637.  The count asked at 615 only drives a loop of prints (629-630):
\* one meta-EARGM is configured whatever it is.  The manager id is kept as
\* typed; " 2" passes strip().isdigit() and int().
AcceptMeta ==
    /\ pc = "meta"
    /\ "y" \in MetaAnswers
    /\ \E m \in MetaIdInputs :
          /\ m.id \in 1..eargmNum
          /\ metaEargmIdlst' = <<m>>
    /\ metaEargmIdslst' = <<>>
    /\ EargmIds2' = 1..eargmNum
    /\ bound' = bound \cup {"metaEargmIdlst"}
    /\ pc' = "metaIdsAsk"
    /\ UNCHANGED <<exc, idx, clusterVars, powerVars, metaEargmIds,
                   metaEargmIdsList, warnVars, tags, file>>

\* 639-641: the first answer, split at once.
AnswerMetaIds ==
    /\ pc = "metaIdsAsk"
    /\ \E s \in MetaIdsInputs :
          /\ metaEargmIds' = s
          /\ metaEargmIdsList' = s
    /\ pc' = "metaIdsCheck"
    /\ UNCHANGED <<exc, bound, idx, clusterVars, powerVars, EargmIds2,
                   metaEargmIdlst, metaEargmIdslst, warnVars, tags, file>>

\* The same loop of eargm_tool.py (335-336), which never re-splits.
RetryMetaIdsStale ==
    /\ pc = "metaIdsRetry"
    /\ \E s \in MetaIdsInputs : metaEargmIds' = s
    /\ pc' = "metaIdsCheck"
    /\ UNCHANGED <<exc, bound, idx, clusterVars, powerVars, EargmIds2,
                   metaEargmIdsList, metaEargmIdlst, metaEargmIdslst,
                   warnVars, tags, file>>

\* 643-644: a re-prompt, split again.
RetryMetaIds ==
    /\ pc = "metaIdsRetry"
    /\ \E s \in MetaIdsInputs :
          /\ metaEargmIds' = s
          /\ metaEargmIdsList' = s
    /\ pc' = "metaIdsCheck"
    /\ UNCHANGED <<exc, bound, idx, clusterVars, powerVars, EargmIds2,
                   metaEargmIdlst, metaEargmIdslst, warnVars, tags, file>>

\* 642 without the membership test: any numeric list is taken.
MetaIdsVerdictNoRange ==
    LET k == SelectInSeq(metaEargmIdsList, LAMBDA x : ~IsInt(x))
    IN  CASE metaEargmIds = <<EmptyItem>>
                \/ Contains(metaEargmIds, EmptyItem) -> "retry"
          [] k = 0 -> "accept"
          [] OTHER -> "ValueError"

\* The condition of 642, in Python's evaluation order: '' or a failed
\* pattern (an empty item) rejects before any int(); all() then converts
\* the items left to right and stops at the first one not in EargmIds2.
MetaIdsVerdict ==
    LET k == SelectInSeq(metaEargmIdsList,
                         LAMBDA x : ~IsInt(x) \/ x \notin EargmIds2)
    IN  CASE metaEargmIds = <<EmptyItem>>
                \/ Contains(metaEargmIds, EmptyItem) -> "retry"
          [] k = 0 -> "accept"
          [] IsInt(metaEargmIdsList[k]) -> "retry"
          [] OTHER -> "ValueError"

\* 646: remove() of an id already removed raises ValueError.
HasDuplicates(s) == \E i, j \in 1..Len(s) : i < j /\ s[i] = s[j]

MetaIdsRejected ==
    /\ pc = "metaIdsCheck"
    /\ MetaIdsVerdict = "retry"
    /\ pc' = "metaIdsRetry"
    /\ UNCHANGED <<exc, bound, idx, clusterVars, powerVars, metaVars,
                   warnVars, tags, file>>

MetaIdsCrash ==
    /\ pc = "metaIdsCheck"
    /\ \/ MetaIdsVerdict = "ValueError"
       \/ MetaIdsVerdict = "accept" /\ HasDuplicates(metaEargmIdsList)
    /\ Crash("ValueError")

\* 646-650: the ids leave EargmIds2 and the list is recorded.
MetaIdsAccepted ==
    /\ pc = "metaIdsCheck"
    /\ MetaIdsVerdict = "accept"
    /\ ~HasDuplicates(metaEargmIdsList)
    /\ EargmIds2' = EargmIds2 \ Range(metaEargmIdsList)
    /\ metaEargmIdslst' = Append(metaEargmIdslst, metaEargmIdsList)
    /\ pc' = "energyCap"
    /\ UNCHANGED <<exc, bound, idx, clusterVars, powerVars, metaEargmIds,
                   metaEargmIdsList, metaEargmIdlst, warnVars, tags, file>>


-----------------------------------------------------------------------------
(* Energy capping (lines 673-834).                                         *)

\* 824-833: no energy capping, every energy key gets its disabled value.
DeclineEnergyCap ==
    /\ pc = "energyCap"
    /\ "n" \in EnergyCapAnswers
    /\ EARGMWarningsPerc' = <<0, 0, 0>>
    /\ bound' = bound \cup EnergyKeys \cup WarningKeys
    /\ pc' = "useLog"
    /\ UNCHANGED <<exc, idx, clusterVars, powerVars, metaVars, flag, tags,
                   file>>

\* 682-748: T1, T2, the units, the energy limit and the aggregated flag.
\* Each prompt loops until valid and the unit is one of J, K, M, so the
\* limit of 728 is always computable.
AcceptEnergyCap ==
    /\ pc = "energyCap"
    /\ "y" \in EnergyCapAnswers
    /\ bound' = bound \cup EnergyKeys
    /\ pc' = "warnings"
    /\ UNCHANGED <<exc, idx, clusterVars, powerVars, metaVars, warnVars,
                   tags, file>>

\* 817-822: no thresholds.
DeclineWarnings ==
    /\ pc = "warnings"
    /\ "n" \in WarningsAnswers
    /\ EARGMWarningsPerc' = <<0, 0, 0>>
    /\ bound' = bound \cup WarningKeys
    /\ pc' = "useLog"
    /\ UNCHANGED <<exc, idx, clusterVars, powerVars, metaVars, flag, tags,
                   file>>

\* The default of 760 and 772.
DefaultWarningsPerc == <<85, 90, 95>>

\* 764-769 with flag += 1 for each value below the one before it.
OutOfOrderCount(numbers) ==
    Cardinality({i \in 2..Len(numbers) : numbers[i] < numbers[i - 1]})

\* 1 iff some value is below the one before it (764-769, 776-781).
OutOfOrder(numbers) ==
    IF \E i \in 2..Len(numbers) : numbers[i] < numbers[i - 1] THEN 1 ELSE 0

\* Read one answer: '' is the default; int() of every item runs before
\* any validation and raises on an item that is not a number.
ReadWarningsPerc(s, recompute) ==
    LET v == IF s = <<EmptyItem>> THEN DefaultWarningsPerc ELSE s
    IN  \/ /\ \E i \in 1..Len(v) : ~IsInt(v[i])
           /\ Crash("ValueError")
        \/ /\ \A i \in 1..Len(v) : IsInt(v[i])
           /\ EARGMWarningsPerc' = v
           /\ flag' = IF recompute THEN OutOfOrder(v) ELSE flag
           /\ pc' = "warnCheck"
           /\ UNCHANGED <<exc, bound, idx, clusterVars, powerVars, metaVars,
                          tags, file>>

\* 750-769: warnings wanted, the first answer.
AnswerWarnings ==
    /\ pc = "warnings"
    /\ "y" \in WarningsAnswers
    /\ \E s \in WarnInputs : ReadWarningsPerc(s, TRUE)

\* The same loop of eargm_tool.py (453-456), which never recomputes flag.
RetryWarningsPercStale ==
    /\ pc = "warnRetry"
    /\ \E s \in WarnInputs : ReadWarningsPerc(s, FALSE)

\* 771-781: a re-prompt, the order checked again.
RetryWarningsPerc ==
    /\ pc = "warnRetry"
    /\ \E s \in WarnInputs : ReadWarningsPerc(s, TRUE)

\* The condition of 770, without its pattern test.  The pattern also
\* refuses items int() accepts, such as ' 85' or '-5'; the comma answers
\* of this model are unspaced lists of naturals, on which the pattern
\* fails only where int() has already refused an empty item.
WarningsPercValid == Len(EARGMWarningsPerc) = 3 /\ flag = 0

WarningsPercAccepted ==
    /\ pc = "warnCheck"
    /\ WarningsPercValid
    /\ bound' = bound \cup {"EARGMWarningsPerc"}
    /\ pc' = "email"
    /\ UNCHANGED <<exc, idx, clusterVars, powerVars, metaVars, warnVars,
                   tags, file>>

WarningsPercRejected ==
    /\ pc = "warnCheck"
    /\ ~WarningsPercValid
    /\ pc' = "warnRetry"
    /\ UNCHANGED <<exc, bound, idx, clusterVars, powerVars, metaVars,
                   warnVars, tags, file>>

\* 783-815: the mail address and the threshold command, each bound on
\* both branches of its question.
ConfigureNotifications ==
    /\ pc = "email"
    /\ bound' = bound \cup {"EARGMMail", "EARGMEnergyActionCommand"}
    /\ pc' = "useLog"
    /\ UNCHANGED <<exc, idx, clusterVars, powerVars, metaVars, warnVars,
                   tags, file>>

\* 837-863: the log flag and the authorized users, accounts and groups;
\* then the for loop over the types of 878.
AskUseLog ==
    /\ pc = "useLog"
    /\ bound' = bound \cup {"EARGMUseLog"}
    /\ idx' = 1
    /\ pc' = IF typesNameList = <<>> THEN "write" ELSE "tags"
    /\ UNCHANGED <<exc, clusterVars, powerVars, metaVars, warnVars, tags,
                   file>>

-----------------------------------------------------------------------------
(* Tags (lines 869-970).                                                   *)

\* One iteration of 878-969.  A type with no GPU has frequency '0' (927);
\* with a GPU any digit string, '0' included.  The default-tag question is
\* asked only while no earlier type is the default (960).
ConfigureTag ==
    /\ pc = "tags"
    /\ \E g \in GpuFreqInputs, d \in YesNo :
          tags' = Append(tags,
                    [gpuFreq |-> g,
                     default |-> IF 1 \in {t.default : t \in Range(tags)}
                                 THEN 0
                                 ELSE IF d = "y" THEN 1 ELSE 0])
    /\ idx' = idx + 1
    /\ pc' = IF idx = Len(typesNameList) THEN "write" ELSE "tags"
    /\ UNCHANGED <<exc, bound, clusterVars, powerVars, metaVars, warnVars,
                   file>>


-----------------------------------------------------------------------------
(* The output file (lines 972-1309).  Line 973 announces the file before   *)
(* it is written; the entries are printed in order into earConf.txt, so an *)
(* exception leaves the entries printed before it in the file.  An entry   *)
(* keeps what the properties compare: an EARGM line its id and meta list,  *)
(* a Tag line its type, default flag and the EARGM position its budget     *)
(* comes from, an Island line its type and EARGM id.                       *)

Err(e) == [sect |-> "error", exc |-> e]

\* 1070-1109: a key never assigned raises NameError.
KeyItems ==
    IF OutputKeys \subseteq bound THEN <<>> ELSE <<Err("NameError")>>

\* The meta list of EARGM id: the list recorded for the manager whose id,
\* as typed, equals str(id) (1133, 1139).
MetaOf(id) ==
    LET k == SelectInSeq(metaEargmIdlst,
                         LAMBDA m : m.id = id /\ ~m.padded)
    IN  IF k = 0 THEN <<>> ELSE metaEargmIdslst[k]

EargmLine(i) ==
    [sect |-> "eargm", id |-> eargms[i].id, energy |-> i = 1,
     meta |-> MetaOf(eargms[i].id)]

\* 1124-1142.  Only the per-partition branch reads metaEargmIdlst.
EargmItems ==
    CASE powerCap = "n" -> <<>>
      [] powerLimit = "n" ->
            <<[sect |-> "eargm", id |-> 1, energy |-> TRUE, meta |-> <<>>]>>
      [] eargms # <<>> /\ "metaEargmIdlst" \notin bound ->
            <<Err("NameError")>>
      [] OTHER -> [i \in 1..Len(eargms) |-> EargmLine(i)]

TagLine(i, dflt, b) ==
    [sect |-> "tag", type |-> i, default |-> dflt, budgetOf |-> b]

\* Mode 1 (1215-1222, 1241-1248) joins the conditions of the first two
\* lines with "or", the other branches with "and".
ModeOneLines(i, b) ==
    LET d == tags[i].default = 1
        g == tags[i].gpuFreq > 0
    IN  FlattenSeq(<< IF d \/ ~g THEN <<TagLine(i, TRUE, b)>> ELSE <<>>,
                      IF d \/ g THEN <<TagLine(i, TRUE, b)>> ELSE <<>>,
                      IF ~d /\ ~g THEN <<TagLine(i, FALSE, b)>> ELSE <<>>,
                      IF ~d /\ g THEN <<TagLine(i, FALSE, b)>> ELSE <<>> >>)

TagLines(i, b) ==
    IF powerCap = "y" /\ EARGMPowerCapMode = 1
    THEN ModeOneLines(i, b)
    ELSE <<TagLine(i, tags[i].default = 1, b)>>

\* The percentage of 1198 and 1212: eargmPowerList[i] is read first, then
\* eargmPowerSug, then divided by.
PercentageError(i) ==
    CASE i > Len(eargms) -> "IndexError"
      [] "eargmPowerSug" \notin bound -> "NameError"
      [] eargmPowerSug = 0 -> "ZeroDivisionError"
      [] OTHER -> "none"

\* 1185-1248, one iteration per type.
TagItemsFor(i) ==
    CASE powerCap = "n" -> TagLines(i, 0)
      [] powerLimit = "y" ->
            IF PercentageError(i) # "none"
            THEN <<Err(PercentageError(i))>>
            ELSE TagLines(i, i)
      [] OTHER -> TagLines(i, 0)

TagItems == FlattenSeq([i \in 1..Len(typesNameList) |-> TagItemsFor(i)])

Island(i, e) == [sect |-> "island", type |-> i, eargm |-> e]

\* 1299-1309 with the single-EARGM branch walking the EARGMs too.
IslandItemsPerEargm ==
    CASE powerCap = "n" -> [i \in 1..Len(typesNameList) |-> Island(i, 0)]
      [] OTHER -> [i \in 1..Len(eargms) |->
                     IF i > Len(typesNameList) THEN Err("IndexError")
                     ELSE Island(i, eargms[i].id)]

\* 1299-1309.  The per-partition branch walks the EARGMs, not the types.
IslandItems ==
    CASE powerCap = "n" -> [i \in 1..Len(typesNameList) |-> Island(i, 0)]
      [] powerLimit = "n" -> [i \in 1..Len(typesNameList) |-> Island(i, 1)]
      [] OTHER -> [i \in 1..Len(eargms) |->
                     IF i > Len(typesNameList) THEN Err("IndexError")
                     ELSE Island(i, eargms[i].id)]

WriteConfig ==
    /\ pc = "write"
    /\ LET items == KeyItems \o EargmItems \o TagItems \o IslandItems
           k == SelectInSeq(items, LAMBDA x : x.sect = "error")
       IN  IF k = 0
           THEN /\ file' = items
                /\ pc' = "done"
                /\ UNCHANGED exc
           ELSE /\ file' = SubSeq(items, 1, k - 1)
                /\ pc' = "crashed"
                /\ exc' = items[k].exc
    /\ UNCHANGED <<bound, idx, clusterVars, powerVars, metaVars, warnVars,
                   tags>>

-----------------------------------------------------------------------------
Next ==
    \/ AskClusterSize \/ NameTypes \/ DefaultTypeNames \/ AskNames
    \/ ConfigureType
    \/ DeclinePowerCap \/ AcceptPowerCap \/ AskEargmNum
    \/ ConfigureOnlyEargm \/ ConfigureEargm \/ ConfigureSingleEargm
    \/ ConfigurePowerCapActions
    \/ DeclineMeta \/ AcceptMeta \/ AnswerMetaIds \/ RetryMetaIds
    \/ MetaIdsRejected \/ MetaIdsCrash \/ MetaIdsAccepted
    \/ DeclineEnergyCap \/ AcceptEnergyCap \/ DeclineWarnings
    \/ AnswerWarnings \/ RetryWarningsPerc
    \/ WarningsPercAccepted \/ WarningsPercRejected
    \/ ConfigureNotifications \/ AskUseLog
    \/ ConfigureTag
    \/ WriteConfig

Spec == Init /\ [][Next]_vars

\* The administrator keeps answering: a step that can happen eventually
\* happens, and an administrator asked again and again eventually types
\* an answer the code accepts.
FairSpec ==
    /\ Spec
    /\ WF_vars(Next)
    /\ SF_vars(RetryMetaIds /\ MetaIdsVerdict' = "accept")
    /\ SF_vars(RetryWarningsPerc /\ WarningsPercValid')


-----------------------------------------------------------------------------
(* Properties.                                                             *)

TypeOK ==
    /\ pc \in Steps \cup Terminal
    /\ exc \in Exceptions
    /\ bound \subseteq MaybeUnbound
    /\ clusterSize \in Nat
    /\ typesNameList \in Seq(STRING)
    /\ typeData \in Seq([nodes : Nat, maxPower : Nat])
    /\ idx \in Nat
    /\ powerCap \in YesNo /\ powerLimit \in YesNo
    /\ EARGMPowerCapMode \in {0, 1, 2}
    /\ eargmNum \in Nat
    /\ eargms \in Seq([id : Nat, type : STRING, power : Nat])
    /\ eargmPowerSug \in Nat
    /\ EargmIds2 \subseteq Nat
    /\ metaEargmIds \in Seq(Token) /\ metaEargmIdsList \in Seq(Token)
    /\ metaEargmIdlst \in Seq([id : Nat, padded : BOOLEAN])
    /\ metaEargmIdslst \in Seq(Seq(Token))
    /\ EARGMWarningsPerc \in Seq(Nat)
    /\ flag \in {0, 1}
    /\ tags \in Seq([gpuFreq : Nat, default : {0, 1}])
    /\ file \in Seq(EargmEntry \cup TagEntry \cup IslandEntry)

\* The thresholds of EARGMWarningsPerc, once accepted by the loop of
\* 770-781 or set by 819 and 831, are three values from lowest to highest,
\* whatever answers were refused before.
WarningThresholdsOrdered ==
    "EARGMWarningsPerc" \in bound =>
        /\ Len(EARGMWarningsPerc) = 3
        /\ IsSorted(EARGMWarningsPerc, <=)

\* Every key of lines 1070-1109 is assigned on every path that reaches
\* the output, whichever of power capping, energy capping and warnings
\* were declined.
EargmKeysBound ==
    pc = "write" => OutputKeys \subseteq bound

\* A meta-EARGM line written to the file (1134, 1140) lists only EARGMs
\* the file configures, none of them twice.
MetaControlsConfigured ==
    \A k \in 1..Len(file) :
        file[k].sect = "eargm" =>
            /\ Range(file[k].meta) \subseteq {e.id : e \in Range(eargms)}
            /\ ~HasDuplicates(file[k].meta)

\* A file the script finishes (1299-1309) has exactly one Island line for
\* each type of node, whichever way power capping was configured.
IslandsCoverTypes ==
    pc = "done" =>
        \A i \in 1..Len(typesNameList) :
            Cardinality({k \in 1..Len(file) :
                            file[k].sect = "island" /\ file[k].type = i}) = 1

\* The two prompts that can be left with no answer the code accepts: the
\* names prompt of 334 after clusterSize '0' (317), and the EARGM type
\* prompt of 468 once every listed type is taken.
NoAcceptableAnswer ==
    \/ pc = "names" /\ clusterSize = 0
    \/ pc = "eargmMulti" /\ AvailableTypes = {}

\* An administrator who keeps answering, and who eventually types what a
\* re-prompt asks for, gets through every re-prompt loop (643, 775): the
\* wizard ends, or stops at a prompt that accepts nothing.
WizardEnds == <>(pc \in Terminal \/ NoAcceptableAnswer)

-----------------------------------------------------------------------------
(* The wizard implements EargmSettings: the EARGMs it has configured, the  *)
(* EARGMs its meta-EARGM controls, its thresholds once bound, and whether  *)
(* the process has ended.                                                  *)

Settings == INSTANCE EargmSettings WITH
    stage <- CASE pc = "done" -> "written"
               [] pc = "crashed" -> "failed"
               [] OTHER -> "config",
    eargmIds <- {e.id : e \in Range(eargms)},
    managed <- UNION {Range(l) : l \in Range(metaEargmIdslst)},
    thresholds <- IF "EARGMWarningsPerc" \in bound THEN EARGMWarningsPerc
                  ELSE <<>>

\* Every step of the wizard, through its whole run of prompts, retries,
\* exceptions and output, is a step EargmSettings allows.
SettingsRefined == Settings!Spec

-----------------------------------------------------------------------------
(* What the output is meant to say, and the code does not always write.   *)

\* A finished file has one Tag line per type (1185-1248), marked
\* default=yes exactly when the administrator chose that type at 960.
TagLinesMatchTypes ==
    pc = "done" =>
        \A i \in 1..Len(typesNameList) :
            LET lines == {k \in 1..Len(file) :
                             file[k].sect = "tag" /\ file[k].type = i}
            IN  /\ Cardinality(lines) = 1
                /\ \A k \in lines : file[k].default = (tags[i].default = 1)

\* The EARGM a Tag line takes its budget from (1198, 1212) and the EARGM
\* an Island line names (1309) is one that manages that type: the
\* partition chosen for it at 468, or all types for a single EARGM.
PartitionsMatchControllers ==
    \A k \in 1..Len(file) :
        LET name == typesNameList[file[k].type]
        IN  /\ file[k].sect = "tag" /\ file[k].budgetOf # 0 =>
                   eargms[file[k].budgetOf].type \in {name, AllTypes}
            /\ file[k].sect = "island" /\ file[k].eargm # 0 =>
                   \E p \in 1..Len(eargms) :
                       /\ eargms[p].id = file[k].eargm
                       /\ eargms[p].type \in {name, AllTypes}

\* The file announced at 973 is written whole: the output step never ends
\* in an exception raised by the code of 1070-1309.
WriteCompletes ==
    [][pc = "write" => pc' = "done"]_vars

\* The EARGM put in charge of a redistribution (632-650) gets a meta= field
\* with the EARGMs it controls in the finished file (1133-1140).
MetaLineForManager ==
    pc = "done" =>
        \A k \in 1..Len(metaEargmIdslst) :
            metaEargmIdslst[k] # <<>> =>
                \E j \in 1..Len(file) :
                    /\ file[j].sect = "eargm"
                    /\ file[j].id = metaEargmIdlst[k].id
                    /\ file[j].meta = metaEargmIdslst[k]

\* Whatever the administrator answers, the wizard ends: it writes the file
\* or stops on an exception.  Its prompts 331-336 and 466-469 loop while
\* no answer can be accepted.
Termination == <>(pc \in Terminal)

=============================================================================
