----------------------------- MODULE EargmTool -----------------------------
(***************************************************************************)
(* The EARGM wizard src/src/tools/eargm_tool.py.  It asks the same         *)
(* questions as the EARGM part of earConf_tool.py and prints the EARGM     *)
(* section of ear.conf to standard output (lines 539-611).  The Tag and    *)
(* Island code of lines 513-530 sits in a string literal and never runs.   *)
(*                                                                         *)
(* As in EarConf, an action is one prompt with its validation loop or the  *)
(* straight-line code between prompts; a loop that keeps no state between  *)
(* iterations is the choice of an answer it accepts.  The two loops that   *)
(* do keep state (the meta-EARGM id list, 332-336, and the warning         *)
(* thresholds, 442-456) are modelled iteration by iteration: in this       *)
(* script their retries re-read the answer but not what was derived from   *)
(* it (the split list, the order flag).                                    *)
(*                                                                         *)
(* "bound" holds the Python names, among those some path leaves unset,     *)
(* that have been assigned; reading any other raises NameError.            *)
(***************************************************************************)
EXTENDS Answers, Integers, Sequences, SequencesExt, FiniteSets

CONSTANTS
    ClusterSizes,     \* digit answers to "How many types of nodes" (14)
    NameInputs,       \* items of the comma-separated type names (29)
    NodeInputs,       \* digit answers to "How many nodes of this type" (47)
    PowerCapAnswers,  \* answers to "configure power capping" (70)
    PowerLimitAnswers, \* answers to "manage power limit per partition" (94)
    EargmNumInputs,   \* digit answers to "How many EARGMs" (119)
    TypeInputs,       \* answers to "What type of nodes will it control" (166)
    MetaAnswers,      \* answers to "allow power budget redistribution" (299)
    MetaIdInputs,     \* EARGM ids typed at 325 (a value, and whether padded)
    MetaIdsInputs,    \* comma lists typed at 332 and 336
    EnergyCapAnswers, \* answers to "configure energy capping" (357)
    WarningsAnswers,  \* answers to "set up warnings" (433)
    WarnInputs        \* comma lists typed at 442 and 454

\* A comma-separated answer: its items, and whether it has a blank next to
\* an item (" 1", "1 ,2").  int(x.strip()) ignores such blanks; the pattern
\* ^(\w+)(,\s*\w+)*$ of 333 and 445 refuses them, and refuses empty items.
CommaAnswer == [items : Seq(Token), spaced : BOOLEAN]
Blank == [items |-> <<EmptyItem>>, spaced |-> FALSE]     \* the answer ''
PatternOK(a) == ~a.spaced /\ ~Contains(a.items, EmptyItem)

ASSUME ClusterSizes \subseteq Nat /\ NodeInputs \subseteq Nat
ASSUME EargmNumInputs \subseteq Nat
ASSUME NameInputs \subseteq STRING /\ AllTypes \notin NameInputs
ASSUME TypeInputs \subseteq STRING /\ AllTypes \notin TypeInputs
ASSUME \A S \in {PowerCapAnswers, PowerLimitAnswers, MetaAnswers,
                 EnergyCapAnswers, WarningsAnswers} : S \subseteq YesNo
ASSUME MetaIdInputs \subseteq [id : Nat, padded : BOOLEAN]
ASSUME MetaIdsInputs \cup WarnInputs \subseteq CommaAnswer
ASSUME \A a \in MetaIdsInputs \cup WarnInputs : a.items # <<>>

VARIABLES
    pc,               \* the step of the script the wizard is at
    exc,              \* the exception that ended the process, or "none"
    bound,            \* names among MaybeUnbound assigned so far
    clusterSize,
    namesList,
    nodesNumList,
    idx,              \* the loop counter of the current for loop
    eargmNum,
    eargms,           \* eargmIdList and eargmTypeList, zipped
    EargmIds2,
    metaEargmIds,     \* the comma list as last typed
    metaEargmIdsList, \* the list split at 334
    metaEargmIdlst,
    metaEargmIdslst,
    EARGMWarningsPerc, \* the thresholds as last typed
    flag,             \* set at 446-452 from the first thresholds typed
    out               \* the lines printed by 539-611

clusterVars == <<clusterSize, namesList, nodesNumList>>
eargmVars == <<eargmNum, eargms>>
metaVars == <<EargmIds2, metaEargmIds, metaEargmIdsList, metaEargmIdlst,
              metaEargmIdslst>>
warnVars == <<EARGMWarningsPerc, flag>>
vars == <<pc, exc, bound, idx, clusterVars, eargmVars, metaVars, warnVars,
          out>>

\* The keys printed by 549-588, in the order they are printed.
PrintedKeys == <<"EARGMUseAggregated", "T1", "T2", "EARGMUnits", "EARGMMail",
                 "EARGMWarningsPerc", "EARGMUseLog",
                 "EARGMEnergyActionCommand", "EARGMPowerPeriod",
                 "EARGMPowerCapMode", "EARGMPowerCapSuspendLimit",
                 "EARGMPowerCapSuspendAction", "EARGMPowerCapResumeLimit",
                 "EARGMPowerCapResumeAction">>
EnergyKeys == {"EARGMUseAggregated", "T1", "T2", "EARGMUnits", "energyLimit"}
WarningKeys == {"EARGMMail", "EARGMWarningsPerc", "EARGMEnergyActionCommand"}
ActionKeys == {"EARGMPowerCapSuspendLimit", "EARGMPowerCapSuspendAction",
               "EARGMPowerCapResumeLimit", "EARGMPowerCapResumeAction"}
MaybeUnbound == Range(PrintedKeys) \cup EnergyKeys
                \cup {"eargmNum", "eargmIdList", "metaEargmIdlst"}

Steps == {"clusterSize", "typeName", "names", "typeData", "powerCap",
          "eargmNum", "eargmOne", "eargmMulti", "eargmSingle", "actions",
          "meta", "metaIdsAsk", "metaIdsCheck", "metaIdsRetry", "energyCap",
          "warnings", "warnCheck", "warnRetry", "email", "useLog", "output"}
Terminal == {"done", "crashed"}
Exceptions == {"none", "ValueError", "NameError"}

KeyLine == [sect : {"key"}, key : Range(PrintedKeys)]
EargmLine == [sect : {"eargm"}, id : Nat, meta : Seq(Token)]

-----------------------------------------------------------------------------
Init ==
    /\ pc = "clusterSize"
    /\ exc = "none"
    /\ bound = {}
    /\ clusterSize = 0
    /\ namesList = <<>>
    /\ nodesNumList = <<>>
    /\ idx = 0
    /\ eargmNum = 0
    /\ eargms = <<>>
    /\ EargmIds2 = {}
    /\ metaEargmIds = Blank
    /\ metaEargmIdsList = <<>>
    /\ metaEargmIdlst = <<>>
    /\ metaEargmIdslst = <<>>
    /\ EARGMWarningsPerc = Blank
    /\ flag = 0
    /\ out = <<>>

\* An exception ends the process; nothing after it runs.
Crash(e) ==
    /\ pc' = "crashed"
    /\ exc' = e
    /\ UNCHANGED <<bound, idx, clusterVars, eargmVars, metaVars, warnVars,
                   out>>

-----------------------------------------------------------------------------
(* Cluster structure (lines 14-60).                                        *)

AskClusterSize ==
    /\ pc = "clusterSize"
    /\ \E n \in ClusterSizes : clusterSize' = n
    /\ pc' = "typeName"
    /\ UNCHANGED <<exc, bound, idx, namesList, nodesNumList, eargmVars,
                   metaVars, warnVars, out>>

\* The for loop of 45 runs once per name; an empty list skips it.
EnterTypeLoop(names) ==
    /\ namesList' = names
    /\ idx' = 1
    /\ pc' = IF names = <<>> THEN "powerCap" ELSE "typeData"

\* 18-28: the administrator chooses to name the types.
NameTypes ==
    /\ pc = "typeName"
    /\ pc' = "names"
    /\ UNCHANGED <<exc, bound, idx, clusterVars, eargmVars, metaVars,
                   warnVars, out>>

\* 36-39: the types are named type1 .. typeN.
DefaultTypeNames ==
    /\ pc = "typeName"
    /\ EnterTypeLoop([k \in 1..clusterSize |-> DefaultTypeName(k)])
    /\ UNCHANGED <<exc, bound, clusterSize, nodesNumList, eargmVars,
                   metaVars, warnVars, out>>

\* 29-34: clusterSize items, blanks removed; an item may be empty.  No
\* answer has zero items, so with clusterSize 0 the prompt never ends.
AskNames ==
    /\ pc = "names"
    /\ clusterSize >= 1
    /\ \E names \in [1..clusterSize -> NameInputs \cup {""}] :
          EnterTypeLoop(names)
    /\ UNCHANGED <<exc, bound, clusterSize, nodesNumList, eargmVars,
                   metaVars, warnVars, out>>

\* One iteration of 45-59.  Only the node count is read later (106-111).
ConfigureType ==
    /\ pc = "typeData"
    /\ \E n \in NodeInputs : nodesNumList' = Append(nodesNumList, n)
    /\ idx' = idx + 1
    /\ pc' = IF idx = Len(namesList) THEN "powerCap" ELSE "typeData"
    /\ UNCHANGED <<exc, bound, clusterSize, namesList, eargmVars, metaVars,
                   warnVars, out>>

-----------------------------------------------------------------------------
(* Power capping (lines 70-350).                                           *)

\* 70-77 and 348-349: no power capping.  Unlike earConf_tool.py nothing
\* assigns the powercap keys, the EARGM list or eargmNum.
DeclinePowerCap ==
    /\ pc = "powerCap"
    /\ "n" \in PowerCapAnswers
    /\ pc' = "energyCap"
    /\ UNCHANGED <<exc, bound, idx, clusterVars, eargmVars, metaVars,
                   warnVars, out>>

\* 79-102: the mode, the period, and whether each partition gets its own
\* EARGM; the EARGM lists start empty.
AcceptPowerCap ==
    /\ pc = "powerCap"
    /\ "y" \in PowerCapAnswers
    /\ bound' = bound \cup {"EARGMPowerCapMode", "EARGMPowerPeriod",
                            "eargmIdList"}
    /\ \E lim \in PowerLimitAnswers :
          pc' = IF lim = "y" THEN "eargmNum" ELSE "eargmSingle"
    /\ UNCHANGED <<exc, idx, clusterVars, eargmVars, metaVars, warnVars,
                   out>>

\* The recommendation of 104-111: eargmS is overwritten on every
\* iteration, so only the last type's thousands of nodes count.
EargmS ==
    IF nodesNumList = <<>> THEN 0
    ELSE LET n == Last(nodesNumList)
         IN  clusterSize + (IF n > 1000 THEN PyRoundDiv(n, 1000) ELSE 0)

\* 118-124: '' takes the recommendation.
AskEargmNum ==
    /\ pc = "eargmNum"
    /\ \E n \in EargmNumInputs \cup {EargmS} :
          /\ eargmNum' = n
          /\ pc' = CASE n = 1 -> "eargmOne"
                     [] n > 1 -> "eargmMulti"
                     [] OTHER -> "actions"
    /\ bound' = bound \cup {"eargmNum"}
    /\ idx' = 1
    /\ UNCHANGED <<exc, clusterVars, eargms, metaVars, warnVars, out>>

\* 126-158 and 201-233: a single EARGM with id 1 and type 0; its budget,
\* host and port are not read by anything the model keeps.
OnlyEargm ==
    /\ eargms' = <<[id |-> 1, type |-> AllTypes]>>
    /\ pc' = "actions"

ConfigureOnlyEargm ==
    /\ pc = "eargmOne"
    /\ OnlyEargm
    /\ UNCHANGED <<exc, bound, idx, clusterVars, eargmNum, metaVars,
                   warnVars, out>>

ConfigureSingleEargm ==
    /\ pc = "eargmSingle"
    /\ OnlyEargm
    /\ UNCHANGED <<exc, bound, idx, clusterVars, eargmNum, metaVars,
                   warnVars, out>>

\* One iteration of 160-199.  The type is checked only for being non-empty
\* and not a number (167); namesList.index at 171 raises ValueError on a
\* type that is not one of the names.  Two EARGMs may take the same type.
ConfigureEargm ==
    /\ pc = "eargmMulti"
    /\ \E t \in TypeInputs :
          IF t \in Range(namesList)
          THEN /\ eargms' = Append(eargms, [id |-> idx, type |-> t])
               /\ idx' = idx + 1
               /\ pc' = IF idx = eargmNum THEN "actions" ELSE "eargmMulti"
               /\ UNCHANGED <<exc, bound, clusterVars, eargmNum, metaVars,
                              warnVars, out>>
          ELSE Crash("ValueError")

\* 241-295: both branches of the suspend and of the resume question bind
\* their limit and action.  Then 298 reads eargmNum, which only the
\* per-partition branch (118-124) assigned.
ConfigurePowerCapActions ==
    /\ pc = "actions"
    /\ IF "eargmNum" \in bound
       THEN /\ bound' = bound \cup ActionKeys
            /\ pc' = IF eargmNum > 1 THEN "meta" ELSE "energyCap"
            /\ UNCHANGED <<exc, idx, clusterVars, eargmVars, metaVars,
                           warnVars, out>>
       ELSE Crash("NameError")

-----------------------------------------------------------------------------
(* Meta-EARGM (lines 298-346).                                             *)

\* 344-346: nothing is assigned; metaEargmIdlst stays unbound.
DeclineMeta ==
    /\ pc = "meta"
    /\ "n" \in MetaAnswers
    /\ pc' = "energyCap"
    /\ UNCHANGED <<exc, bound, idx, clusterVars, eargmVars, metaVars,
                   warnVars, out>>

\* y to the redistribution question (299-306, '' counting as Y), then
\* 307-330: one meta-EARGM whatever the count typed at 308; the manager
\* id is kept as typed (" 2" passes strip().isdigit() and int()).
AcceptMeta ==
    /\ pc = "meta"
    /\ "y" \in MetaAnswers
    /\ \E m \in MetaIdInputs :
          /\ m.id \in 1..eargmNum
          /\ metaEargmIdlst' = <<m>>
    /\ metaEargmIdslst' = <<>>
    /\ EargmIds2' = 1..eargmNum
    /\ bound' = bound \cup {"metaEargmIdlst"}
    /\ pc' = "metaIdsAsk"
    /\ UNCHANGED <<exc, idx, clusterVars, eargmVars, metaEargmIds,
                   metaEargmIdsList, warnVars, out>>

\* 332-334: the first answer, split at once.
AnswerMetaIds ==
    /\ pc = "metaIdsAsk"
    /\ \E a \in MetaIdsInputs :
          /\ metaEargmIds' = a
          /\ metaEargmIdsList' = a.items
    /\ pc' = "metaIdsCheck"
    /\ UNCHANGED <<exc, bound, idx, clusterVars, eargmVars, EargmIds2,
                   metaEargmIdlst, metaEargmIdslst, warnVars, out>>

\* 336: a re-prompt; the list of 334 is not split again.
RetryMetaIds ==
    /\ pc = "metaIdsRetry"
    /\ \E a \in MetaIdsInputs : metaEargmIds' = a
    /\ pc' = "metaIdsCheck"
    /\ UNCHANGED <<exc, bound, idx, clusterVars, eargmVars, EargmIds2,
                   metaEargmIdsList, metaEargmIdlst, metaEargmIdslst,
                   warnVars, out>>

\* 335 without the membership test: any numeric list is taken.
MetaIdsVerdictNoRange ==
    LET k == SelectInSeq(metaEargmIdsList, LAMBDA x : ~IsInt(x))
    IN  CASE metaEargmIds = Blank \/ ~PatternOK(metaEargmIds) -> "retry"
          [] k = 0 -> "accept"
          [] OTHER -> "ValueError"

\* The condition of 335, left to right: '' and the pattern look at the
\* answer last typed, all() at the list split at 334, converting its
\* items in order and stopping at the first one not in EargmIds2.
MetaIdsVerdict ==
    LET k == SelectInSeq(metaEargmIdsList,
                         LAMBDA x : ~IsInt(x) \/ x \notin EargmIds2)
    IN  CASE metaEargmIds = Blank \/ ~PatternOK(metaEargmIds) -> "retry"
          [] k = 0 -> "accept"
          [] IsInt(metaEargmIdsList[k]) -> "retry"
          [] OTHER -> "ValueError"

\* 339: remove() of an id already removed raises ValueError.
HasDuplicates(s) == \E i, j \in 1..Len(s) : i < j /\ s[i] = s[j]

MetaIdsRejected ==
    /\ pc = "metaIdsCheck"
    /\ MetaIdsVerdict = "retry"
    /\ pc' = "metaIdsRetry"
    /\ UNCHANGED <<exc, bound, idx, clusterVars, eargmVars, metaVars,
                   warnVars, out>>

MetaIdsCrash ==
    /\ pc = "metaIdsCheck"
    /\ \/ MetaIdsVerdict = "ValueError"
       \/ MetaIdsVerdict = "accept" /\ HasDuplicates(metaEargmIdsList)
    /\ Crash("ValueError")

\* 338-341: the ids of the split list leave EargmIds2 and that list is
\* recorded.
MetaIdsAccepted ==
    /\ pc = "metaIdsCheck"
    /\ MetaIdsVerdict = "accept"
    /\ ~HasDuplicates(metaEargmIdsList)
    /\ EargmIds2' = EargmIds2 \ Range(metaEargmIdsList)
    /\ metaEargmIdslst' = Append(metaEargmIdslst, metaEargmIdsList)
    /\ pc' = "energyCap"
    /\ UNCHANGED <<exc, bound, idx, clusterVars, eargmVars, metaEargmIds,
                   metaEargmIdsList, metaEargmIdlst, warnVars, out>>

-----------------------------------------------------------------------------
(* Energy capping (lines 357-498).                                         *)

\* 357-364 and 496-498: no energy capping; none of its keys is assigned.
DeclineEnergyCap ==
    /\ pc = "energyCap"
    /\ "n" \in EnergyCapAnswers
    /\ pc' = "useLog"
    /\ UNCHANGED <<exc, bound, idx, clusterVars, eargmVars, metaVars,
                   warnVars, out>>

\* 366-431: T1, T2, the unit, the energy limit and the aggregated flag;
\* each prompt loops until valid, and the unit is always J, K or M.
AcceptEnergyCap ==
    /\ pc = "energyCap"
    /\ "y" \in EnergyCapAnswers
    /\ bound' = bound \cup EnergyKeys
    /\ pc' = "warnings"
    /\ UNCHANGED <<exc, idx, clusterVars, eargmVars, metaVars, warnVars,
                   out>>

\* 492-494: no thresholds; nothing is assigned.
DeclineWarnings ==
    /\ pc = "warnings"
    /\ "n" \in WarningsAnswers
    /\ pc' = "useLog"
    /\ UNCHANGED <<exc, bound, idx, clusterVars, eargmVars, metaVars,
                   warnVars, out>>

\* '' is replaced by '85,90,95' (443-444, 455-456).
WithDefault(a) ==
    IF a = Blank THEN [items |-> <<85, 90, 95>>, spaced |-> FALSE] ELSE a

\* 446-452 with flag += 1 for each value below the one before it.
OutOfOrderCount(numbers) ==
    Cardinality({i \in 2..Len(numbers) : numbers[i] < numbers[i - 1]})

\* 1 iff some value is below the one before it (446-452).
OutOfOrder(numbers) ==
    IF \E i \in 2..Len(numbers) : numbers[i] < numbers[i - 1] THEN 1 ELSE 0

\* y to the warnings question (432-439, '' counting as y), then
\* 441-452: the first thresholds.  int() of every item (448) runs before
\* any validation; the order flag is computed from this answer only.
AnswerWarnings ==
    /\ pc = "warnings"
    /\ "y" \in WarningsAnswers
    /\ \E a \in WarnInputs :
          LET v == WithDefault(a)
          IN  IF \A i \in 1..Len(v.items) : IsInt(v.items[i])
              THEN /\ EARGMWarningsPerc' = v
                   /\ flag' = OutOfOrder(v.items)
                   /\ bound' = bound \cup {"EARGMWarningsPerc"}
                   /\ pc' = "warnCheck"
                   /\ UNCHANGED <<exc, idx, clusterVars, eargmVars,
                                  metaVars, out>>
              ELSE Crash("ValueError")

\* 454-456: a re-prompt; flag is neither reset nor recomputed.
RetryWarningsPerc ==
    /\ pc = "warnRetry"
    /\ \E a \in WarnInputs : EARGMWarningsPerc' = WithDefault(a)
    /\ pc' = "warnCheck"
    /\ UNCHANGED <<exc, bound, idx, clusterVars, eargmVars, metaVars, flag,
                   out>>

\* The condition of 453, left to right: the pattern, then int() of every
\* item (raising on a word), the count, and the flag.
WarningsVerdict ==
    LET v == EARGMWarningsPerc.items
    IN  CASE ~PatternOK(EARGMWarningsPerc) -> "retry"
          [] \E i \in 1..Len(v) : ~IsInt(v[i]) -> "ValueError"
          [] Len(v) # 3 \/ flag > 0 -> "retry"
          [] OTHER -> "accept"

WarningsPercRejected ==
    /\ pc = "warnCheck"
    /\ WarningsVerdict = "retry"
    /\ pc' = "warnRetry"
    /\ UNCHANGED <<exc, bound, idx, clusterVars, eargmVars, metaVars,
                   warnVars, out>>

WarningsPercCrash ==
    /\ pc = "warnCheck"
    /\ WarningsVerdict = "ValueError"
    /\ Crash("ValueError")

\* 458-490, once 453 lets the thresholds through: the mail address and
\* the threshold command, each assigned on both branches of its question.
WarningsPercAccepted ==
    /\ pc = "warnCheck"
    /\ WarningsVerdict = "accept"
    /\ bound' = bound \cup {"EARGMMail", "EARGMEnergyActionCommand"}
    /\ pc' = "useLog"
    /\ UNCHANGED <<exc, idx, clusterVars, eargmVars, metaVars, warnVars,
                   out>>

\* 500-511: the log flag, asked on every path.
AskUseLog ==
    /\ pc = "useLog"
    /\ bound' = bound \cup {"EARGMUseLog"}
    /\ pc' = "output"
    /\ UNCHANGED <<exc, idx, clusterVars, eargmVars, metaVars, warnVars,
                   out>>

-----------------------------------------------------------------------------
(* The output (lines 539-611), printed line by line: an exception leaves   *)
(* the lines before it on the terminal.                                    *)

Err == [sect |-> "error"]

\* 549-588: a key never assigned raises NameError when printed.
KeyItems ==
    [i \in 1..Len(PrintedKeys) |->
        IF PrintedKeys[i] \in bound
        THEN [sect |-> "key", key |-> PrintedKeys[i]]
        ELSE Err]

\* The meta list of EARGM id: the list of the manager whose id, as typed,
\* equals str(id) (603, 609).
MetaOf(id) ==
    LET k == SelectInSeq(metaEargmIdlst, LAMBDA m : m.id = id /\ ~m.padded)
    IN  IF k = 0 THEN <<>> ELSE metaEargmIdslst[k]

\* 601-611: every line reads metaEargmIdlst, the first also energyLimit.
EargmItems ==
    IF "eargmIdList" \notin bound THEN <<Err>>
    ELSE [i \in 1..Len(eargms) |->
            IF "metaEargmIdlst" \notin bound
               \/ (i = 1 /\ "energyLimit" \notin bound)
            THEN Err
            ELSE [sect |-> "eargm", id |-> eargms[i].id,
                  meta |-> MetaOf(eargms[i].id)]]

WriteOutput ==
    /\ pc = "output"
    /\ LET items == KeyItems \o EargmItems
           k == SelectInSeq(items, LAMBDA x : x.sect = "error")
       IN  IF k = 0
           THEN /\ out' = items
                /\ pc' = "done"
                /\ UNCHANGED exc
           ELSE /\ out' = SubSeq(items, 1, k - 1)
                /\ pc' = "crashed"
                /\ exc' = "NameError"
    /\ UNCHANGED <<bound, idx, clusterVars, eargmVars, metaVars, warnVars>>

-----------------------------------------------------------------------------
Next ==
    \/ AskClusterSize \/ NameTypes \/ DefaultTypeNames \/ AskNames
    \/ ConfigureType
    \/ DeclinePowerCap \/ AcceptPowerCap \/ AskEargmNum
    \/ ConfigureOnlyEargm \/ ConfigureEargm \/ ConfigureSingleEargm
    \/ ConfigurePowerCapActions
    \/ DeclineMeta \/ AcceptMeta \/ AnswerMetaIds \/ RetryMetaIds
    \/ MetaIdsRejected \/ MetaIdsCrash \/ MetaIdsAccepted
    \/ DeclineEnergyCap \/ AcceptEnergyCap \/ DeclineWarnings
    \/ AnswerWarnings \/ RetryWarningsPerc
    \/ WarningsPercRejected \/ WarningsPercCrash \/ WarningsPercAccepted
    \/ AskUseLog \/ WriteOutput

Spec == Init /\ [][Next]_vars

\* The administrator keeps answering, and one asked again and again
\* eventually types an answer the code would accept if it looked at it.
FairSpec ==
    /\ Spec
    /\ WF_vars(Next)
    /\ SF_vars(RetryMetaIds /\ PatternOK(metaEargmIds')
               /\ Range(metaEargmIds'.items) \subseteq EargmIds2)
    /\ SF_vars(RetryWarningsPerc /\ PatternOK(EARGMWarningsPerc')
               /\ IsSorted(EARGMWarningsPerc'.items, <=)
               /\ Len(EARGMWarningsPerc'.items) = 3)

-----------------------------------------------------------------------------
(* Properties.                                                             *)

TypeOK ==
    /\ pc \in Steps \cup Terminal
    /\ exc \in Exceptions
    /\ bound \subseteq MaybeUnbound
    /\ clusterSize \in Nat
    /\ namesList \in Seq(STRING)
    /\ nodesNumList \in Seq(Nat)
    /\ idx \in Nat
    /\ eargmNum \in Nat
    /\ eargms \in Seq([id : Nat, type : STRING])
    /\ EargmIds2 \subseteq Nat
    /\ metaEargmIds \in CommaAnswer /\ metaEargmIdsList \in Seq(Token)
    /\ metaEargmIdlst \in Seq([id : Nat, padded : BOOLEAN])
    /\ metaEargmIdslst \in Seq(Seq(Token))
    /\ EARGMWarningsPerc \in CommaAnswer
    /\ flag \in {0, 1}
    /\ out \in Seq(KeyLine \cup EargmLine)

\* A meta= field printed at 604 or 610 names only EARGMs the output
\* configures, none twice, although the list it prints is the one split
\* from the first answer to 332 rather than the answer accepted.
MetaControlsConfigured ==
    \A k \in 1..Len(out) :
        out[k].sect = "eargm" =>
            /\ Range(out[k].meta) \subseteq {e.id : e \in Range(eargms)}
            /\ ~HasDuplicates(out[k].meta)

-----------------------------------------------------------------------------
(* What the output is meant to say, and the code does not always do.       *)

\* Thresholds that get past the loop of 453 are three values from lowest
\* to highest, as its prompt (454) asks.
WarningThresholdsOrdered ==
    pc \in {"useLog", "output", "done"} /\ "EARGMWarningsPerc" \in bound =>
        /\ Len(EARGMWarningsPerc.items) = 3
        /\ IsSorted(EARGMWarningsPerc.items, <=)

\* The EARGM put in charge of a redistribution (307-330) gets a meta= field
\* in the printed section (601-611) listing the EARGMs of the answer the
\* loop of 335 accepted.
MetaLineMatchesAnswer ==
    pc = "done" =>
        \A k \in 1..Len(metaEargmIdslst) :
            \E j \in 1..Len(out) :
                /\ out[j].sect = "eargm"
                /\ out[j].id = metaEargmIdlst[k].id
                /\ out[j].meta = metaEargmIds.items

\* Every name the script reads has been assigned before: no path of
\* answers ends in NameError (298, 549-588, 603).
NoNameError == exc # "NameError"

=============================================================================
