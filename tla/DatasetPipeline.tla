---------------------------- MODULE DatasetPipeline ----------------------------
(***************************************************************************)
(* From the run index to the corpora that training and evaluation use:     *)
(* exported datasets, prepared corpora, an append-only expansion filled by *)
(* a campaign of new runs, training corpora and registered evaluation      *)
(* corpora.  Producers publish runs at any time; one tool process does     *)
(* everything else and may be cut off; files may be damaged afterwards.    *)
(***************************************************************************)
EXTENDS DatasetExamples, ArtifactDirectory, SequencesExt

CONSTANTS
  Library,       \* the runs that may be published in the shared index
  NewRuns,       \* the runs that a campaign may make, in an index of its own
  Policy,        \* the split policy
  Candidates,    \* the pool of an expansion: candidate groups in canonical order
  CorpusVersions, \* the datasets that are prepared as corpora
  GroupTarget,   \* requested_group_count
  RunsPerGroup, Retries,
  MinGroups, MinExamples, \* MIN_TRAIN_GROUPS, MIN_TRAIN_EXAMPLES
  MaxFaults,     \* cut-offs and damaged files together
  MaxCorpora     \* training corpora, and evaluation corpora

ASSUME PolicyAssumption == PolicyIsValid(Policy)
ASSUME RunsAssumption == Library \cup NewRuns \subseteq Runs /\ Library \cap NewRuns = {}

Versions == {1, 2}          \* datasets, built one after the other
Expanded == 3               \* the prepared corpus that an expansion appends to

ASSUME VersionsAssumption == CorpusVersions \subseteq Versions

VARIABLES
  index,      \* runs listed in the shared index
  tool,       \* what the tool process is doing
  store,      \* directories: <<"dataset", v>> and <<"prepared", v>>
  campaign,   \* the expansion: plan, records, runs it published
  trained,    \* training corpora written
  registered, \* evaluation corpora registered
  faults

vars == <<index, tool, store, campaign, trained, registered, faults>>

Slots == ({"dataset"} \X Versions) \cup ({"prepared"} \X (CorpusVersions \cup {Expanded}))

(***************************************************************************)
(* Datasets: one file per partition.                                       *)
(***************************************************************************)
SplitFile == [train |-> "train.jsonl", validation |-> "validation.jsonl",
              test |-> "test.jsonl", abstention |-> "abstention.jsonl"]

DatasetLayout ==
  [subdirs |-> <<"splits">>,
   files |-> <<Manifest, "abstention.jsonl", "test.jsonl", "train.jsonl", "validation.jsonl">>]

InPartition(assigned, part) == { a \in assigned : a.partition = part }

\* Refused: two examples of one run, another policy's assignment, a leak.
CanBuildDataset(assigned) ==
  /\ \A a, b \in assigned : a.example.run = b.example.run => a = b
  /\ \A a \in assigned : a.partition # "abstention" => a.policy = Policy.salt
  /\ \A a \in assigned : ExampleIsConsistent(a.example) /\ AssignmentIsConsistent(a)
  /\ AuditLeakage(SetToSeq(assigned)).errors = {}

DatasetDigest(assigned, v, pin) ==
  [version |-> v, pin |-> pin, policy |-> Policy.salt,
   counts |-> [p \in Partitions |-> Cardinality(InPartition(assigned, p))],
   files |-> [f \in Files(DatasetLayout) \ {Manifest} |->
                UNION { InPartition(assigned, p) : p \in { p \in Partitions : SplitFile[p] = f } }]]

BuildDataset(assigned, v, pin) ==
  LET digest == DatasetDigest(assigned, v, pin)
  IN Put(digest.files, Manifest, digest)

DatasetVerifies(d) ==
  /\ FilesVerify(d, DatasetLayout)
  /\ \A p \in Partitions :
       /\ \A a \in d[SplitFile[p]] : a.partition = p
       /\ Cardinality(d[SplitFile[p]]) = d[Manifest].counts[p]
  /\ \A p, q \in Partitions : \A a \in d[SplitFile[p]], b \in d[SplitFile[q]] :
       a.example.run = b.example.run => p = q /\ a = b

DatasetReadable(v) ==
  Unmarked(store[<<"dataset", v>>]) /\ DatasetVerifies(store[<<"dataset", v>>])

ReadDataset(v) == UNION { store[<<"dataset", v>>][SplitFile[p]] : p \in Partitions }

(***************************************************************************)
(* Prepared corpora: features, labels and metadata in files of their own,  *)
(* matched line by line.                                                   *)
(***************************************************************************)
PreparedLayout ==
  [subdirs |-> <<"features", "labels", "metadata">>,
   files |-> <<"features.jsonl", "labels.jsonl", Manifest, "metadata.jsonl">>]

Line(e, layer) == [run |-> e.trace.run, line |-> e[layer]]

PreparedFiles(separated) ==
  [f \in {"features.jsonl", "labels.jsonl", "metadata.jsonl"} |->
     { Line(e, CASE f = "features.jsonl" -> "features"
                 [] f = "labels.jsonl" -> "labels"
                 [] OTHER -> "trace") : e \in separated }]

CanBuildPrepared(separated) ==
  /\ SeparatedPasses(separated)
  /\ \A e, f \in separated : e.trace.run = f.trace.run => e = f

BuildPrepared(separated, v, source) ==
  LET files == PreparedFiles(separated)
  IN Put(files, Manifest,
         [version |-> v, source |-> source, rows |-> Cardinality(separated), files |-> files])

\* The example whose three lines the layers hold.
JoinLayers(d, run) ==
  LET LineOf(f) == (CHOOSE l \in d[f] : l.run = run).line
  IN [features |-> LineOf("features.jsonl"), labels |-> LineOf("labels.jsonl"),
      trace |-> LineOf("metadata.jsonl")]

Rows(d) == { JoinLayers(d, l.run) : l \in d["metadata.jsonl"] }

PreparedVerifies(d) ==
  /\ FilesVerify(d, PreparedLayout)
  /\ \A f \in Files(PreparedLayout) \ {Manifest} :
       /\ Cardinality(d[f]) = d[Manifest].rows
       /\ { l.run : l \in d[f] } = { l.run : l \in d["metadata.jsonl"] }
  /\ SeparatedPasses(Rows(d))

PreparedReadable(v) ==
  Unmarked(store[<<"prepared", v>>]) /\ PreparedVerifies(store[<<"prepared", v>>])

LoadPrepared(v) == Rows(store[<<"prepared", v>>])

(***************************************************************************)
(* Training and evaluation corpora.                                        *)
(***************************************************************************)
\* Mutant: the partition is not asked.
EligibleAnyPartition(rows) == { e \in rows : e.trace.kind = "accepted_fault" }

Eligible(rows) ==
  { e \in rows : e.trace.partition = "train" /\ e.trace.kind = "accepted_fault" }

\* The id of a training corpus: its examples, not the corpus they come from.
TrainingCorpusId(rows) ==
  { [run |-> e.trace.run, input |-> e.features, target |-> e.labels.family] : e \in Eligible(rows) }

\* Mutant: the groups are not compared.
VerifyCorpusQualityPerRow(rows) == \A e \in rows : SeparatedIsConsistent(e)

VerifyCorpusQuality(rows) ==
  /\ \A e, f \in rows :
       e.trace.group = f.trace.group => e.trace.partition = f.trace.partition
  /\ \A e \in rows : SeparatedIsConsistent(e) /\ "baseline" \in e.features.evidence

CorpusCoverage(rows) ==
  [partitions |-> [p \in Partitions |-> Cardinality({ e \in rows : e.trace.partition = p })],
   families |-> { e.labels.family : e \in { e \in rows : e.trace.kind = "accepted_fault" } },
   repeated |-> Cardinality({ e \in rows : \E f \in rows \ {e} :
                                e.features = f.features /\ e.labels.family = f.labels.family })]

(***************************************************************************)
(* The expansion: groups nobody has used, all of them TRAIN.               *)
(***************************************************************************)
\* Mutant: the inventory lists what is held out, not what is trained on.
FrozenGroupsHeldOut(rows) ==
  { e.trace.group : e \in { e \in rows : e.trace.partition \in {"validation", "test"} } }

\* The groups of accepted rows; a group known from an abstention only is not frozen.
FrozenGroups(rows) ==
  { e.trace.group : e \in { e \in rows : e.trace.kind = "accepted_fault" } }

UnusedTrainCandidates(rows) ==
  SelectSeq(Candidates, LAMBDA g : /\ g \notin FrozenGroups(rows)
                                   /\ AssignGroupSplit(g, Policy) = "train")

CanPlanExpansion(rows) == Len(UnusedTrainCandidates(rows)) >= GroupTarget
PlanExpansion(rows) == SubSeq(UnusedTrainCandidates(rows), 1, GroupTarget)

\* audit_expansion_firewall.
FirewallPasses(plan, rows) ==
  /\ \A j, k \in DOMAIN plan : plan[j] = plan[k] => j = k
  /\ \A k \in DOMAIN plan : /\ plan[k] \notin FrozenGroups(rows)
                            /\ AssignGroupSplit(plan[k], Policy) = "train"
  /\ Len(plan) >= GroupTarget /\ GroupTarget >= MinGroups
  /\ Len(plan) * RunsPerGroup >= MinExamples

MaxTotalExecutions == GroupTarget * RunsPerGroup + Retries

AcceptedRecords(g) == { k \in DOMAIN campaign.records :
                          campaign.records[k].accepted /\ campaign.records[k].planned = g }
Accepted == { campaign.records[k].run : k \in { k \in DOMAIN campaign.records :
                                                  campaign.records[k].accepted } }
CoverageIsMet ==
  /\ Cardinality({ k \in DOMAIN campaign.plan :
                    AcceptedRecords(campaign.plan[k]) # {} }) >= MinGroups
  /\ Cardinality(Accepted) >= MinExamples

\* Every prior row unchanged, and no new row in a group that the caller calls
\* frozen.
AppendOnly(parent, rows, frozen) ==
  /\ parent \subseteq rows
  /\ \A e \in rows \ parent : e.trace.group \notin frozen

(***************************************************************************)
(* State                                                                   *)
(***************************************************************************)
Idle == [step |-> "idle"]
NoCampaign == [parent |-> 0, plan |-> << >>, records |-> << >>, index |-> {}, approved |-> FALSE]

Init ==
  /\ index = {}
  /\ tool = Idle
  /\ store = [s \in Slots |-> NoDirectory]
  /\ campaign = NoCampaign
  /\ trained = {} /\ registered = {}
  /\ faults = 0

\* A producer's run enters the index (RunStore).
Publish(r) ==
  /\ r \in Library \ index
  /\ index' = index \cup {r}
  /\ UNCHANGED <<tool, store, campaign, trained, registered, faults>>

\* discover_verified_runs reads the index twice: what it verifies is what every
\* example will name, what it loads is what it goes through.
VerifyIndex(v) ==
  /\ tool.step = "idle" /\ v \in Versions
  /\ index # {}
  /\ Vacant(store[<<"dataset", v>>])
  /\ \A w \in Versions : w < v => ~Vacant(store[<<"dataset", w>>])
  /\ tool' = [step |-> "verified", version |-> v, pin |-> index]
  /\ UNCHANGED <<index, store, campaign, trained, registered, faults>>

LoadIndex ==
  /\ tool.step = "verified"
  /\ tool' = [step |-> "loaded", version |-> tool.version, pin |-> tool.pin, entries |-> index]
  /\ UNCHANGED <<index, store, campaign, trained, registered, faults>>

Write(slot, artifact) == [step |-> "writing", slot |-> slot, artifact |-> artifact, pos |-> 1]

\* Projection of every run, split, audit and export; any refusal ends the build.
ExportDataset ==
  /\ tool.step = "loaded"
  /\ LET assigned == AssignSplits({ Project(r) : r \in tool.entries }, Policy)
     IN tool' = IF /\ \A r \in tool.entries : Projects(r)
                   /\ GroupsAreCohesive(assigned)
                   /\ CanBuildDataset(assigned)
                THEN Write(<<"dataset", tool.version>>,
                           BuildDataset(assigned, tool.version, tool.pin))
                ELSE Idle
  /\ UNCHANGED <<index, store, campaign, trained, registered, faults>>

Prepare(v) ==
  /\ tool.step = "idle" /\ v \in CorpusVersions
  /\ DatasetReadable(v)
  /\ Vacant(store[<<"prepared", v>>])
  /\ LET manifest == store[<<"dataset", v>>][Manifest]
         separated == SeparateDataset(ReadDataset(v), v, manifest.pin)
     IN /\ CanBuildPrepared(separated)
        /\ tool' = Write(<<"prepared", v>>, BuildPrepared(separated, v, manifest))
  /\ UNCHANGED <<index, store, campaign, trained, registered, faults>>

LayoutOf(slot) == IF slot[1] = "dataset" THEN DatasetLayout ELSE PreparedLayout
Verifies(slot, d) == IF slot[1] = "dataset" THEN DatasetVerifies(d) ELSE PreparedVerifies(d)

WriteEntry ==
  /\ tool.step = "writing"
  /\ tool.pos <= Len(WriteOrder(LayoutOf(tool.slot)))
  /\ store' = [store EXCEPT ![tool.slot] =
                 Install(@, WriteOrder(LayoutOf(tool.slot))[tool.pos], tool.artifact)]
  /\ tool' = [tool EXCEPT !.pos = @ + 1]
  /\ UNCHANGED <<index, campaign, trained, registered, faults>>

\* The marker goes only when everything but the marker verifies.
FinishWrite ==
  /\ tool.step = "writing"
  /\ tool.pos > Len(WriteOrder(LayoutOf(tool.slot)))
  /\ store' = IF Verifies(tool.slot, store[tool.slot])
              THEN [store EXCEPT ![tool.slot] = Drop(@, Marker)] ELSE store
  /\ tool' = Idle
  /\ UNCHANGED <<index, campaign, trained, registered, faults>>

\* A kill, or an exception of a file operation.
CutOff ==
  /\ faults < MaxFaults /\ tool.step # "idle"
  /\ faults' = faults + 1
  /\ tool' = Idle
  /\ UNCHANGED <<index, store, campaign, trained, registered>>

\* A file of a finished directory is lost, or its rows are edited.
Edited(name, rows) ==
  IF name = "labels.jsonl" THEN { [l EXCEPT !.line.family = "edited"] : l \in rows }
                           ELSE { [a EXCEPT !.policy = "edited"] : a \in rows }

Damage(slot, name) ==
  /\ faults < MaxFaults
  /\ name \in Files(LayoutOf(slot)) \cap Entries(store[slot])
  /\ Unmarked(store[slot])
  /\ \/ store' = [store EXCEPT ![slot] = Drop(@, name)]
     \/ store' = [store EXCEPT ![slot] = Put(@, name, Edited(name, store[slot][name]))]
  /\ faults' = faults + 1
  /\ UNCHANGED <<index, tool, campaign, trained, registered>>

StartCampaign(v) ==
  /\ tool.step = "idle" /\ v \in CorpusVersions
  /\ campaign.parent = 0
  /\ PreparedReadable(v)
  /\ CanPlanExpansion(LoadPrepared(v))
  /\ FirewallPasses(PlanExpansion(LoadPrepared(v)), LoadPrepared(v))
  /\ campaign' = [campaign EXCEPT !.parent = v, !.plan = PlanExpansion(LoadPrepared(v))]
  /\ UNCHANGED <<index, tool, store, trained, registered, faults>>

\* The planned groups are filled one after the other.
IsCurrent(k) ==
  /\ Cardinality(AcceptedRecords(campaign.plan[k])) < RunsPerGroup
  /\ \A m \in 1 .. (k - 1) : Cardinality(AcceptedRecords(campaign.plan[m])) >= RunsPerGroup

CampaignGoesOn ==
  /\ campaign.parent # 0
  /\ \E k \in DOMAIN campaign.plan : Cardinality(AcceptedRecords(campaign.plan[k])) < RunsPerGroup
  /\ Len(campaign.records) < MaxTotalExecutions

\* One execution for the current group.  A run that is not verified, projects to an
\* abstention, or shows another group than the planned one, is recorded and not
\* accepted.
Attempt(r, verified) ==
  /\ tool.step = "idle" /\ CampaignGoesOn
  /\ r \in NewRuns \ { campaign.records[k].run : k \in DOMAIN campaign.records }
  /\ \E k \in DOMAIN campaign.plan :
       LET planned == campaign.plan[k]
           observed == Project(r)
       IN /\ IsCurrent(k)
          /\ campaign' = [campaign EXCEPT
               !.index = IF verified THEN @ \cup {r} ELSE @,
               !.records = Append(@, [run |-> r, planned |-> planned,
                                      accepted |-> /\ verified
                                                   /\ observed.kind = "accepted_fault"
                                                   /\ observed.group = planned
                                                   /\ AssignGroupSplit(observed.group, Policy) = "train"])]
  /\ UNCHANGED <<index, tool, store, trained, registered, faults>>

NewRows ==
  SeparateDataset({ AssignExampleSplit(Project(r), Policy) : r \in Accepted },
                  Expanded, campaign.index)

\* The rows of the parent and those of the campaign; build_prepared asks nothing
\* of their groups.
Expand ==
  /\ tool.step = "idle"
  /\ campaign.parent # 0 /\ ~CampaignGoesOn /\ CoverageIsMet
  /\ Vacant(store[<<"prepared", Expanded>>])
  /\ PreparedReadable(campaign.parent)
  /\ LET rows == LoadPrepared(campaign.parent) \cup NewRows
     IN /\ CanBuildPrepared(rows)
        /\ tool' = Write(<<"prepared", Expanded>>,
                         BuildPrepared(rows, Expanded,
                                       store[<<"prepared", campaign.parent>>][Manifest].source))
  /\ UNCHANGED <<index, store, campaign, trained, registered, faults>>

\* compute_append_only_diff and assess_v4_readiness.  The frozen groups are an
\* argument, any set: freshness must come from the plan and the records.  The
\* caller's leakage_clean, v2_derivation_ok and counts are taken to be good.
Approve(frozen) ==
  /\ tool.step = "idle" /\ ~campaign.approved
  /\ campaign.parent # 0
  /\ PreparedReadable(Expanded) /\ PreparedReadable(campaign.parent)
  /\ CoverageIsMet
  /\ AppendOnly(LoadPrepared(campaign.parent), LoadPrepared(Expanded), frozen)
  /\ campaign' = [campaign EXCEPT !.approved = TRUE]
  /\ UNCHANGED <<index, tool, store, trained, registered, faults>>

WriteTrainingCorpus(v) ==
  /\ tool.step = "idle" /\ PreparedReadable(v)
  /\ Cardinality(trained) < MaxCorpora
  /\ Eligible(LoadPrepared(v)) # {}
  /\ \A c \in trained : c.id # TrainingCorpusId(LoadPrepared(v))
  /\ trained' = trained \cup {[id |-> TrainingCorpusId(LoadPrepared(v)),
                               rows |-> Eligible(LoadPrepared(v))]}
  /\ UNCHANGED <<index, tool, store, campaign, registered, faults>>

RegisterEvaluationCorpus(v) ==
  /\ tool.step = "idle" /\ PreparedReadable(v)
  /\ Cardinality(registered) < MaxCorpora
  /\ VerifyCorpusQuality(LoadPrepared(v))
  /\ \A c \in registered : c.version # v
  /\ registered' = registered \cup {[version |-> v, rows |-> LoadPrepared(v),
                                     coverage |-> CorpusCoverage(LoadPrepared(v))]}
  /\ UNCHANGED <<index, tool, store, campaign, trained, faults>>

Next ==
  \/ \E r \in Library : Publish(r)
  \/ \E v \in Versions : VerifyIndex(v)
  \/ \E v \in CorpusVersions : Prepare(v) \/ StartCampaign(v)
  \/ LoadIndex \/ ExportDataset \/ WriteEntry \/ FinishWrite \/ CutOff
  \/ \E s \in Slots, n \in {"train.jsonl", "labels.jsonl"} : Damage(s, n)
  \/ \E r \in NewRuns, ok \in BOOLEAN : Attempt(r, ok)
  \/ Expand
  \/ \E frozen \in SUBSET Groups : Approve(frozen)
  \/ \E v \in CorpusVersions \cup {Expanded} : WriteTrainingCorpus(v) \/ RegisterEvaluationCorpus(v)

Spec == Init /\ [][Next]_vars

(***************************************************************************)
(* Properties                                                              *)
(***************************************************************************)
Readable(slot) ==
  IF slot[1] = "dataset" THEN DatasetReadable(slot[2]) ELSE PreparedReadable(slot[2])

\* The groups of a slot that can be read, each with the partitions it is in.
Placed(slot) ==
  IF slot[1] = "dataset"
  THEN { <<a.example.group, a.partition>> : a \in ReadDataset(slot[2]) }
  ELSE { <<e.trace.group, e.trace.partition>> : e \in LoadPrepared(slot[2]) }

\* While the library grows, a group keeps its split: no two artifacts that can be
\* read, of whatever version, put it in different splits (splitting.py: the split
\* depends on the group alone).
SplitsAreStable ==
  LET placed == UNION { Placed(s) : s \in { s \in Slots : Readable(s) } }
  IN \A x, y \in placed :
       x[1] = y[1] /\ {x[2], y[2]} \subseteq SplitPartitions => x[2] = y[2]

\* Nothing a model was trained on, and no other run of the same group, is among
\* the held-out rows of an evaluation corpus, whichever corpora the two came from
\* and whatever was exported in between (training/corpus.py, evalcorpus.py).
EvaluationIsHeldOut ==
  \A c \in trained, d \in registered : \A e \in c.rows, f \in d.rows :
    f.trace.partition \in {"validation", "test"} => e.trace.group # f.trace.group

\* A reader gets all of one export or nothing, in spite of cut-offs and damaged
\* files: a dataset holds every run its pin names, each as that run projects; a
\* prepared corpus holds what its source dataset separates into.
ReadersGetWholeExports ==
  \A v \in Versions :
    /\ DatasetReadable(v) =>
         LET found == { a.example.run : a \in ReadDataset(v) }
         IN /\ store[<<"dataset", v>>][Manifest].pin \subseteq found
            /\ ReadDataset(v) = AssignSplits({ Project(r) : r \in found }, Policy)
    /\ v \in CorpusVersions /\ PreparedReadable(v) =>
         LET source == store[<<"prepared", v>>][Manifest].source
             exported == UNION { source.files[f] : f \in DOMAIN source.files }
         IN LoadPrepared(v) = SeparateDataset(exported, v, source.pin)

\* No dataset that can be read and no registered evaluation corpus has a group in
\* two partitions, abstention included.  An expanded corpus may: nothing freezes a
\* group known from an abstention only, and build_prepared does not compare groups.
GroupsStayTogether ==
  LET Together(placed) == \A x, y \in placed : x[1] = y[1] => x = y
  IN /\ \A v \in Versions : DatasetReadable(v) => Together(Placed(<<"dataset", v>>))
     /\ \A c \in registered :
          Together({ <<e.trace.group, e.trace.partition>> : e \in c.rows })

\* An approved expansion keeps the rows of its parent and adds training rows only,
\* all of them of groups that no accepted row of the parent belongs to, whatever
\* the runs of the campaign turned out to be (remoteas_expansion.py,
\* remoteas_campaign.py).
ExpansionIsFresh ==
  campaign.approved /\ PreparedReadable(Expanded) /\ PreparedReadable(campaign.parent) =>
    LET parent == LoadPrepared(campaign.parent)
        added == LoadPrepared(Expanded) \ parent
    IN /\ parent \subseteq LoadPrepared(Expanded)
       /\ \A e \in added :
            /\ e.trace.partition = "train"
            /\ \A f \in parent : f.trace.kind = "accepted_fault" => f.trace.group # e.trace.group

================================================================================
