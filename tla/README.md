# TLA+ models of the EAR configuration tools

This directory holds TLA+ models of the Python tools under `src/src/tools/`
and `src/src/pbs_hook/`, with the TLC configurations that check them.

## The system

The Python part of this repository is four scripts. None of them runs
concurrently with anything else:

| Script | What it does |
|---|---|
| `tools/earConf_tool.py` (1310 lines) | An interactive wizard. It asks the administrator about the cluster's node types, power capping, EARGMs (the EAR Global Managers), meta-EARGM budget redistribution, energy capping, warnings, log settings and per-type tags. It then prints an `earConf.txt`. Lines 10-308 and 979-1062 are inside string literals and never run. |
| `tools/eargm_tool.py` (611 lines) | A near copy of the EARGM part of the same wizard. It has its own loops and its own unbound-name paths. |
| `tools/create_app_csv.py` (84 lines) | A pandas pivot that turns per-loop telemetry rows into per-application rows. |
| `pbs_hook/legacy/ctypes_test.py` (101 lines) | A ctypes smoke test of the libear remote API. It calls connect, new job and disconnect. |

The components interact through data only:
- The wizard's answers feed the file it prints.
- Inside the wizard, later steps read what earlier steps bound. These are Python globals.

The hard behaviours are therefore in the wizard's control flow:
- Re-prompt loops that keep state between iterations.
- Names that only some answer paths bind.
- Exceptions raised halfway through printing the file.
- Indexes that pair lists built in different orders.

## Modules

The modules are:
- `Answers.tla`: the answer abstraction both wizards share.
- `EarConf.tla` and `EargmTool.tla`: the two wizards.
- `EargmSettings.tla`: the abstract specification of the EARGM settings.
- `AppCsv.tla`: the aggregation script.

Each has an `MC` module giving its constants.

### `Answers.tla`

Both wizards validate answers with the same tests: `isdigit`, comparison with
y/n, and `int()` of comma-separated items. `Answers` keeps only what those
tests tell apart:
- `YesNo`.
- Digit strings as naturals.
- The comma-list tokens `EmptyItem` and `Word`.
- `DefaultTypeName`.
- Python's banker's rounding, `PyRoundDiv`.

### `EarConf.tla`: `earConf_tool.py`, lines 309-1310

**State.** The variables are the script's Python globals, under their own
names. Parallel lists are zipped into records:
- `typeData` holds `nodesNumList` and `maxPowerList`.
- `eargms` holds `eargmIdList`, `eargmTypeList` and `eargmPowerList`.
- `tags` holds `gpuFreqList` and `defaultTagList`.

Three more variables track control:
- `pc` is the step the script is at.
- `exc` is the exception that ended it.
- `bound` is the set of names that some path may leave unbound. It is used to detect `NameError`.

**Answers.** An answer is abstracted to what the code tells apart:
- y and n.
- A digit string, as its integer.
- A comma list, as a sequence of `Token`. A number is itself; `EmptyItem` and `Word` stand for the two kinds of item `int()` rejects.

**Actions.** Each action is one prompt with its validation loop, or the
straight-line code between two prompts:
- A loop whose state does not survive an iteration is modelled by choosing an answer the code accepts. When no such answer exists the action is disabled, and that is a hang.
- The two loops that carry state across iterations are modelled one iteration at a time, with the answer, check and retry steps separate:
  - the meta-EARGM id list (639-650);
  - the warning thresholds (759-781).

**Output.** `WriteConfig` is the whole output block, 972-1309:
1. It builds the sequence of entries the code prints: EARGM lines, Tag lines and Island lines.
2. An exception the code would raise appears as an `Err` item in that sequence.
3. The file keeps the entries before the first error, and the process crashes with that exception.

Free-text answers are not modelled. These are hosts, ports, commands, mail
addresses and user lists. No branch reads them; the actions only mark their
names as bound.

`MCEarConf.tla` gives the inputs:
- 0, 1 or 2 types. 317 accepts 0.
- Names `cpu`/`gpu`, or the defaults.
- 0 or 1 nodes per type.
- 1 or 2 EARGMs.
- Manager id 1 typed plainly, or id 2 typed with spaces.
- Meta id lists that are accepted, out of range, non-numeric, duplicated, or have an empty item.
- Threshold lists that are `''`, too short, unsorted, non-numeric, or sorted.
- GPU frequency 0 or 1.

These are the smallest values under which every branch of the script runs:
- every exception path;
- every rejected answer;
- both orders of choosing EARGM types.

Values above 1000 nodes, used only by the EARGM-count recommendation, are
left out.

### `EargmTool.tla`: `eargm_tool.py`

The structure is the one `EarConf` uses: one action per prompt, and `bound`
to detect `NameError`. The differences from `earConf_tool.py` are what the
model is for:
- **Unchecked EARGM type (167, 171).** The type is checked only for being a non-numeric word. `namesList.index` then raises `ValueError` (`ConfigureEargm`).
- **Unbound names.** `eargmNum` is bound only on the per-partition power-capping branch but read at 298. Keys of the energy, power and warning sections are read by the output (549-611) whether or not the section was answered y.
- **Stale meta list (335-336).** The re-prompt reads a new answer, but `metaEargmIdsList` is not split again. The model keeps the answer (`metaEargmIds`) and the split list (`metaEargmIdsList`) as two variables.
- **Stale flag (446-456).** `flag` is computed once and never recomputed by the re-prompt loop.

A comma answer is a record `[items, spaced]`. `spaced` marks blanks inside
an item, which `int(x.strip())` accepts and the pattern `^(\w+)(,\s*\w+)*$`
refuses. `MCEargmTool` gives:
- 1 or 2 types and 1 or 2 EARGMs.
- Types typed as a name, a default name, or a non-name (`GPU`).
- Meta id lists that are valid, out of range, a word, duplicated, have an empty item, or are spaced.
- Threshold lists that are `''`, too short, sorted, unsorted, a word, or spaced.

### `EargmSettings.tla` and the refinement

`EargmSettings` states what an EARGM wizard promises, whatever the order of
its questions:
- EARGMs are added with fresh ids.
- The meta-EARGM's set of managed EARGMs is fixed once, from configured ids.
- The thresholds are fixed once, as three sorted values.
- The run ends once, written or failed.

`EarConf` instantiates it as `Settings`. The mapping is:
- `stage` from `pc`.
- `eargmIds` as the ids of `eargms`.
- `managed` as the union of the meta lists.
- `thresholds` as `EARGMWarningsPerc` once bound.

`SettingsRefined == Settings!Spec` is checked as a property of
`earconf_safety`.

`EargmTool` does not refine it. Because of the stale flag it can accept
unsorted thresholds, which `eargm_thresholds` already shows, so there is no
refinement run for it.

### `AppCsv.tla`: `create_app_csv.py`

The script is one straight computation, so it is one action, `Run`. Its
pandas steps are operators:
- `ExcludeKnown`: the query of 20-26.
- `Kept`: the regex filter and column drop, 44-47.
- `AggFunc` and `Pivot`: 49-55.
- `StartTime` and `EndTime`: 58-70.
- `AppRows`: the join, 73-83.

Further details:
- A row's four key columns are one value of `Keys`.
- A mean is kept exactly, as a fraction.
- An apps file without rows makes the script crash. The `apply` of 23 on an empty frame may fail first, or else the empty query of 25-26 does.
- If every row is excluded, the model allows both an empty file and a crash, since pandas versions differ there.

`DataFrame.filter(regex=)` searches column names. The model treats a name as
kept when it is one of the regex's literal alternatives. This is exact for
the model's columns (`CPI`, `L1_MISSES`, `DPOPS_256`), since no alternative
is a substring of another of them.

`MCAppCsv` uses:
- 2 keys.
- Loop files of up to 2 rows.
- Metric values 0/1, timestamps 1-2 and elapsed 0-2, with `ELAPSED <= TIMESTAMP`.
- Every `--app-csv-file` choice: none, empty, each key, both.

Two rows of one key are what separate a sum from a mean. Two listed keys are
what separate `and` from `or` in the query.

## Runs

The passing run, `earconf_safety` (`EarConf.cfg`), reaches 38,070 distinct
states in about 30 s. It checks:

| Property | What it checks |
|---|---|
| `TypeOK` | Types of all variables. |
| `WarningThresholdsOrdered` | Accepted thresholds are three values in order, whatever was refused before. This depends on `flag` being reset on every re-prompt. |
| `EargmKeysBound` | Every key printed at 1070-1109 is bound on every answer path that reaches the output. |
| `MetaControlsConfigured` | A written meta list names only configured EARGMs, none twice. |
| `IslandsCoverTypes` | A finished file has exactly one Island line per type. |
| `WizardEnds` | Under `FairSpec`, the wizard ends unless it stops at one of the two prompts that accept nothing (`NoAcceptableAnswer`). The first is the names prompt after `clusterSize` 0. The second is the EARGM-type prompt once every type is taken. A re-prompt loop that keeps refusing a valid answer, such as the stale loops at 335 and 453 of `eargm_tool.py`, breaks it. |

Each property has a mutant in `PROJECT.json` that breaks it under this run.
Two of the mutants are the loops of `eargm_tool.py` (335 and 453):
- `RetryMetaIdsStale` never re-splits the meta id list.
- `RetryWarningsPercStale` never recomputes `flag`.

Each violation run checks one statement of what the output should say, and
TLC refutes it:

| Run | Property | What TLC finds |
|---|---|---|
| `earconf_tag_lines` | `TagLinesMatchTypes` | In mode 1, `or` at 1215/1217 writes two Tag lines per type and marks non-default types `default=yes`. |
| `earconf_partitions` | `PartitionsMatchControllers` | Island `i` and the budget of Tag `i` are taken from the `i`-th EARGM, not from the EARGM that chose type `i`. |
| `earconf_write_completes` | `WriteCompletes` (action property) | The file announced at 973 can be left partial: `NameError` at 1133 (power limit per partition with one EARGM), `IndexError` or `ZeroDivisionError` at 1198. |
| `earconf_meta_line` | `MetaLineForManager` | A manager id typed as `" 2"` loses its `meta=` field. |
| `earconf_termination` | `Termination` | The wizard never ends in two cases. After `clusterSize` 0 the names prompt accepts nothing. With more EARGMs than type names the type prompt never accepts an answer. |

### `EargmTool` runs

| Run | Property | Result |
|---|---|---|
| `eargm_safety` (`EargmTool.cfg`) | `TypeOK`, `MetaControlsConfigured` | Passes. The meta lists that reach the printed section name configured EARGMs only, none twice, since 339 crashes on a duplicate. A mistyped EARGM type crashes at 171, and no property states what should happen instead. |
| `eargm_thresholds` | `WarningThresholdsOrdered` | Violated. After a too-short answer, an unsorted list of three is accepted, because `flag` is never recomputed. Once `flag` is 1, the same stale value makes the loop endless. |
| `eargm_meta_list` | `MetaLineMatchesAnswer` | Violated. The manager's printed `meta=` field should list the accepted answer. It fails in two ways. A manager id typed as `" 2"` gets no `meta=` field (603/609), which is the trace TLC shows. After a re-prompt, the first list split is printed, not the answer the loop accepted (336, 341). The first list passed the `all()` test, but the accepted answer can be a word. |
| `eargm_name_error` | `NoNameError` | Violated. The failing path answers y to power capping and n to the per-partition limit question, which reaches `eargmNum` at 298 unbound. Answering n to power, energy capping or warnings also reaches unbound names at 549-611. |

### `AppCsv` runs

| Run | Property | Result |
|---|---|---|
| `appcsv_aggregation` (`AppCsv.cfg`, 74,560 states) | `TypeOK`, `OneRowPerApplication`, `AggregatesMatch` | Passes. There is one row per application not already listed. Each kept metric equals a reference sum or mean computed by a separate recursive definition over the rows. Start times are never before the epoch. |
| `appcsv_counters` | `CountersSummed` | Violated. `DPOPS_256` is in `cols_to_agg`, but the regex alternative `DP_256` does not match it, so the column is dropped. |

## Fairness

`FairSpec` (in `EarConf`, and the same in `EargmTool`) assumes three things:
- Weak fairness on `Next`: the administrator keeps answering.
- Strong fairness on a retry whose answer is accepted: an administrator asked again and again eventually types a valid answer.

The script itself has no scheduling to justify anything stronger. The model
stops in `done` or `crashed` (the script exits), or at a prompt that accepts
nothing (the script loops). This is why the configurations set
`CHECK_DEADLOCK FALSE`. `AppCsv` runs once and stops, and it has no fairness.

## Not modelled, and the plan

1. **`ctypes_test.py`.** It is a straight call sequence into C code outside these sources, so only its call order could be modelled.
2. **An abstract specification of the output file.** It would state that each type gets one Tag line and one Island line with its controller. `earconf_tag_lines` and `earconf_partitions` show that the code would not refine it.
3. **The remaining output of `create_app_csv.py`.** The date columns, the GPU and TEMP regex patterns, and the stdout copy are left out.

The string-literal parts of `earConf_tool.py` never run and are not modelled.
The other source lines outside the map are of three kinds:
- section banners and blank `print`s;
- commented-out code;
- the `power` list of `eargm_tool.py` 112-116, which nothing reads.
Free-text answers (hosts, ports, mails, commands) are not modelled in either
wizard.
