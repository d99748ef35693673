------------------------ MODULE DatasetPipelineProofs ------------------------
(***************************************************************************)
(* What readers of datasets and corpora may rely on, for every library of  *)
(* runs, split policy, pool of candidates and number of faults: a group    *)
(* keeps its split, nothing held out is trained on, an export is read      *)
(* whole or not at all, and an approved expansion is fresh.                *)
(*                                                                         *)
(* A directory that can be read holds what its manifest says, and nothing  *)
(* but its writer changes a manifest: the proofs are about manifests.      *)
(***************************************************************************)
EXTENDS DatasetPipeline, TLAPS

(***************************************************************************)
(* The inductive invariant                                                 *)
(***************************************************************************)
HasManifest(slot) == Manifest \in Entries(store[slot])
ManifestOf(slot) == store[slot][Manifest]

\* The examples of some runs of the index, each in its partition.
AssignedRuns(runs) == AssignSplits({ Project(r) : r \in runs }, Policy)

\* The manifest of a dataset: it has the examples of all runs that were loaded, and
\* these are the pinned ones or more.
OfDataset(m, v) ==
  \E runs \in SUBSET Library : \E pin \in SUBSET runs :
    /\ m = DatasetDigest(AssignedRuns(runs), v, pin)
    /\ GroupsAreCohesive(AssignedRuns(runs))

AssignedOf(m) == UNION { m.files[f] : f \in DOMAIN m.files }

\* A row that is split is split by its group.
RowFollowsGroup(e) ==
  e.trace.partition \in SplitPartitions =>
    e.trace.partition = AssignGroupSplit(e.trace.group, Policy)

\* The manifest of a prepared corpus: it has what its source dataset separates into.
OfPrepared(m, v) ==
  /\ OfDataset(m.source, v)
  /\ m.files = PreparedFiles(SeparateDataset(AssignedOf(m.source), v, m.source.pin))

ParentSlot == <<"prepared", campaign.parent>>
ExpandedSlot == <<"prepared", Expanded>>

\* The rows of the corpus that a campaign expands, and the groups that are taken.
ParentRows == Rows(ManifestOf(ParentSlot).files)
Taken == FrozenGroups(ParentRows)

\* The manifest of an expanded corpus: its rows are the parent's, or for training and
\* of a group that was not taken.
OfExpansion(m) ==
  /\ campaign.parent # 0 /\ HasManifest(ParentSlot)
  /\ \A e \in Rows(m.files) :
       /\ RowFollowsGroup(e)
       /\ \/ e \in ParentRows
          \/ e.trace.partition = "train" /\ e.trace.group \notin Taken

GoodManifest(slot, m) ==
  CASE slot[1] = "dataset" -> OfDataset(m, slot[2])
    [] slot = ExpandedSlot -> OfExpansion(m)
    [] OTHER -> OfPrepared(m, slot[2])

StoreInv ==
  /\ index \subseteq Library
  /\ DOMAIN store = Slots
  /\ \A s \in Slots : HasManifest(s) => GoodManifest(s, ManifestOf(s))

\* What is about to be written is good, and a manifest that is there already is the
\* one that is being written.
ToolInv ==
  /\ tool.step \in {"idle", "verified", "loaded", "writing"}
  /\ tool.step \in {"verified", "loaded"} =>
       tool.version \in Versions /\ ~HasManifest(<<"dataset", tool.version>>)
  /\ tool.step = "verified" => tool.pin \subseteq index
  /\ tool.step = "loaded" =>
       /\ tool.pin \subseteq tool.entries /\ tool.entries \subseteq Library
  /\ tool.step = "writing" =>
       /\ DOMAIN tool = {"step", "slot", "artifact", "pos"}
       /\ tool.slot \in Slots
       /\ Manifest \in DOMAIN tool.artifact
       /\ GoodManifest(tool.slot, tool.artifact[Manifest])
       /\ HasManifest(tool.slot) => ManifestOf(tool.slot) = tool.artifact[Manifest]

\* A campaign plans groups that are not taken and accepts runs of planned groups only,
\* and an approved expansion has the rows of its parent.
CampaignInv ==
  /\ DOMAIN campaign = {"parent", "plan", "records", "index", "approved"}
  /\ campaign.parent \in CorpusVersions \cup {0}
  /\ campaign.records \in Seq({ campaign.records[k] : k \in DOMAIN campaign.records })
  /\ campaign.parent = 0 => campaign.records = << >> /\ ~campaign.approved
  /\ campaign.parent # 0 =>
       /\ HasManifest(ParentSlot)
       /\ \A k \in DOMAIN campaign.plan : campaign.plan[k] \notin Taken
  /\ \A k \in DOMAIN campaign.records :
       campaign.records[k].accepted =>
         LET x == Project(campaign.records[k].run)
         IN /\ x.kind = "accepted_fault" /\ AssignGroupSplit(x.group, Policy) = "train"
            /\ x.group \notin Taken
  /\ campaign.approved =>
       HasManifest(ExpandedSlot) /\ ParentRows \subseteq Rows(ManifestOf(ExpandedSlot).files)

CorporaInv ==
  /\ \A c \in trained : \A e \in c.rows : e.trace.partition = "train" /\ RowFollowsGroup(e)
  /\ \A c \in registered : VerifyCorpusQuality(c.rows) /\ \A e \in c.rows : RowFollowsGroup(e)

PipelineInv == StoreInv /\ ToolInv /\ CampaignInv /\ CorporaInv

(***************************************************************************)
(* Lemmas about datasets                                                   *)
(***************************************************************************)
DatasetFiles == {"abstention.jsonl", "test.jsonl", "train.jsonl", "validation.jsonl"}
PreparedLayers == {"features.jsonl", "labels.jsonl", "metadata.jsonl"}

LEMMA LayoutFiles ==
  /\ Files(DatasetLayout) \ {Manifest} = DatasetFiles
  /\ Files(PreparedLayout) \ {Manifest} = PreparedLayers
  /\ \A p \in Partitions : SplitFile[p] \in DatasetFiles
  /\ \A p, q \in Partitions : SplitFile[p] = SplitFile[q] => p = q
  /\ \A f \in DatasetFiles : \E p \in Partitions : f = SplitFile[p]
<1>1. Files(DatasetLayout) \ {Manifest} = DatasetFiles
  <2>1. DOMAIN DatasetLayout.files = 1 .. 5
    BY DEF DatasetLayout
  <2>2. Files(DatasetLayout) = {DatasetLayout.files[1], DatasetLayout.files[2],
          DatasetLayout.files[3], DatasetLayout.files[4], DatasetLayout.files[5]}
    BY <2>1 DEF Files
  <2> QED
    BY <2>2 DEF DatasetLayout, DatasetFiles, Manifest
<1>2. Files(PreparedLayout) \ {Manifest} = PreparedLayers
  <2>1. DOMAIN PreparedLayout.files = 1 .. 4
    BY DEF PreparedLayout
  <2>2. Files(PreparedLayout) = {PreparedLayout.files[1], PreparedLayout.files[2],
          PreparedLayout.files[3], PreparedLayout.files[4]}
    BY <2>1 DEF Files
  <2> QED
    BY <2>2 DEF PreparedLayout, PreparedLayers, Manifest
<1> QED
  BY <1>1, <1>2 DEF Partitions, SplitPartitions, SplitFile, DatasetFiles

\* What projection and splitting make of a run names the run, and its partition
\* follows from the group.
LEMMA AssignedRun ==
  ASSUME NEW runs, NEW a \in AssignedRuns(runs)
  PROVE  /\ a.example.run \in runs
         /\ a = AssignExampleSplit(Project(a.example.run), Policy)
         /\ a.example = Project(a.example.run)
         /\ a.partition \in Partitions
         /\ a.partition \in SplitPartitions =>
              a.partition = AssignGroupSplit(a.example.group, Policy)
<1>1. PICK r \in runs : a = AssignExampleSplit(Project(r), Policy)
  BY DEF AssignedRuns, AssignSplits
<1>2. Project(r).run = r
  BY DEF Project
<1>3. a.example = Project(r)
  BY <1>1 DEF AssignExampleSplit
<1>4. AssignGroupSplit(Project(r).group, Policy) \in SplitPartitions
  BY DEF AssignGroupSplit, SplitPartitions
<1>5. \/ a.partition = "abstention"
      \/ a.partition = AssignGroupSplit(Project(r).group, Policy)
  BY <1>1 DEF AssignExampleSplit
<1> QED
  BY <1>1, <1>2, <1>3, <1>4, <1>5 DEF Partitions, SplitPartitions

\* The files of a dataset together hold the examples it was made of.
LEMMA FilesHoldTheRuns ==
  ASSUME NEW runs, NEW v, NEW pin,
         NEW m, m = DatasetDigest(AssignedRuns(runs), v, pin)
  PROVE  /\ m.pin = pin
         /\ DOMAIN m.files = DatasetFiles
         /\ \A p \in Partitions : m.files[SplitFile[p]] = InPartition(AssignedRuns(runs), p)
         /\ AssignedOf(m) = AssignedRuns(runs)
<1> DEFINE all == AssignedRuns(runs)
<1>1. m.pin = pin
  BY DEF DatasetDigest
<1>2. m.files = [f \in Files(DatasetLayout) \ {Manifest} |->
                   UNION { InPartition(all, p) : p \in { p \in Partitions : SplitFile[p] = f } }]
  BY DEF DatasetDigest
<1>3. m.files = [f \in DatasetFiles |->
                   UNION { InPartition(all, p) : p \in { p \in Partitions : SplitFile[p] = f } }]
  BY <1>2, LayoutFiles, Zenon
<1>4. ASSUME NEW p \in Partitions
      PROVE  m.files[SplitFile[p]] = InPartition(all, p)
  <2>1. SplitFile[p] \in DatasetFiles /\ { q \in Partitions : SplitFile[q] = SplitFile[p] } = {p}
    BY LayoutFiles
  <2> HIDE DEF all
  <2>2. UNION { InPartition(all, q) : q \in {p} } = InPartition(all, p)
    OBVIOUS
  <2> QED
    BY <1>3, <2>1, <2>2
<1>5. DOMAIN m.files = DatasetFiles
  BY <1>3
<1>6. \A a \in all : a.partition \in Partitions
  BY AssignedRun
<1> HIDE DEF all
<1>7. AssignedOf(m) = all
  <2>1. \A f \in DatasetFiles : m.files[f] \subseteq all
    BY <1>4, LayoutFiles DEF InPartition
  <2>2. \A a \in all : a \in m.files[SplitFile[a.partition]] /\ SplitFile[a.partition] \in DatasetFiles
    BY <1>4, <1>6, LayoutFiles DEF InPartition
  <2> QED
    BY <1>5, <2>1, <2>2 DEF AssignedOf
<1> QED
  BY <1>1, <1>4, <1>5, <1>7 DEF all

(***************************************************************************)
(* Lemmas about prepared corpora                                           *)
(***************************************************************************)
\* Examples in three layers, one for each run.
Separated(rows) ==
  /\ \A e \in rows : e = [features |-> e.features, labels |-> e.labels, trace |-> e.trace]
  /\ \A e, f \in rows : e.trace.run = f.trace.run => e = f

\* The join of the layers gives back what was separated.
LEMMA LayersJoin ==
  ASSUME NEW rows, Separated(rows)
  PROVE  Rows(PreparedFiles(rows)) = rows
<1> DEFINE d == PreparedFiles(rows)
<1>1. /\ d["features.jsonl"] = { Line(e, "features") : e \in rows }
      /\ d["labels.jsonl"] = { Line(e, "labels") : e \in rows }
      /\ d["metadata.jsonl"] = { Line(e, "trace") : e \in rows }
  BY DEF PreparedFiles
<1>2. ASSUME NEW e \in rows
      PROVE  JoinLayers(d, e.trace.run) = e
  <2>1. ASSUME NEW layer
        PROVE  (CHOOSE l \in { Line(f, layer) : f \in rows } : l.run = e.trace.run).line = e[layer]
    <3> DEFINE lines == { Line(f, layer) : f \in rows }
               l == CHOOSE l \in lines : l.run = e.trace.run
    <3>1. Line(e, layer) \in lines /\ Line(e, layer).run = e.trace.run
      BY DEF Line
    <3>2. l \in lines /\ l.run = e.trace.run
      BY <3>1
    <3>3. PICK f \in rows : l = Line(f, layer)
      BY <3>2
    <3> HIDE DEF l, lines
    <3>4. l.run = f.trace.run /\ l.line = f[layer]
      BY <3>3 DEF Line
    <3>5. f = e
      BY <3>2, <3>4 DEF Separated
    <3>6. l.line = e[layer]
      BY <3>4, <3>5
    <3> QED
      BY <3>6 DEF l, lines
  <2>2. JoinLayers(d, e.trace.run) =
          [features |-> e["features"], labels |-> e["labels"], trace |-> e["trace"]]
    BY <1>1, <2>1 DEF JoinLayers
  <2> QED
    BY <2>2 DEF Separated
<1>3. Rows(d) = { JoinLayers(d, l.run) : l \in { Line(e, "trace") : e \in rows } }
  BY <1>1 DEF Rows
<1>4. \A e \in rows : Line(e, "trace").run = e.trace.run
  BY DEF Line
<1> HIDE DEF d
<1>5. Rows(d) = { JoinLayers(d, e.trace.run) : e \in rows }
  BY <1>3, <1>4
<1> QED
  BY <1>2, <1>5 DEF d

LEMMA SeparatedRuns ==
  ASSUME NEW runs, NEW v, NEW pin
  PROVE  /\ Separated(SeparateDataset(AssignedRuns(runs), v, pin))
         /\ \A e \in SeparateDataset(AssignedRuns(runs), v, pin) : RowFollowsGroup(e)
<1>1. ASSUME NEW e \in SeparateDataset(AssignedRuns(runs), v, pin)
      PROVE  /\ e = [features |-> e.features, labels |-> e.labels, trace |-> e.trace]
             /\ RowFollowsGroup(e)
             /\ e = SeparateExample(AssignExampleSplit(Project(e.trace.run), Policy), v, pin)
  <2>1. PICK a \in AssignedRuns(runs) : e = SeparateExample(a, v, pin)
    BY DEF SeparateDataset
  <2>2. /\ e.trace.run = a.example.run /\ e.trace.group = a.example.group
        /\ e.trace.partition = a.partition
        /\ e = [features |-> e.features, labels |-> e.labels, trace |-> e.trace]
    BY <2>1 DEF SeparateExample
  <2> QED
    BY <2>1, <2>2, AssignedRun DEF RowFollowsGroup
<1> QED
  BY <1>1 DEF Separated

(***************************************************************************)
(* Lemmas about readers                                                    *)
(***************************************************************************)
LEMMA DatasetSource ==
  ASSUME NEW m, NEW v, OfDataset(m, v)
  PROVE  \E runs \in SUBSET Library :
           /\ m.pin \subseteq runs
           /\ AssignedOf(m) = AssignedRuns(runs)
           /\ GroupsAreCohesive(AssignedRuns(runs))
           /\ \A p \in Partitions : m.files[SplitFile[p]] = InPartition(AssignedRuns(runs), p)
  BY FilesHoldTheRuns DEF OfDataset

LEMMA PreparedSource ==
  ASSUME NEW m, NEW v, OfPrepared(m, v)
  PROVE  /\ Rows(m.files) = SeparateDataset(AssignedOf(m.source), v, m.source.pin)
         /\ Separated(Rows(m.files))
         /\ \A e \in Rows(m.files) : RowFollowsGroup(e)
<1>1. PICK runs \in SUBSET Library : AssignedOf(m.source) = AssignedRuns(runs)
  BY DatasetSource DEF OfPrepared
<1> DEFINE rows == SeparateDataset(AssignedOf(m.source), v, m.source.pin)
<1>2. Separated(rows) /\ \A e \in rows : RowFollowsGroup(e)
  BY <1>1, SeparatedRuns
<1>3. m.files = PreparedFiles(rows)
  BY DEF OfPrepared
<1> HIDE DEF rows
<1>4. Rows(m.files) = rows
  BY <1>2, <1>3, LayersJoin
<1> QED
  BY <1>2, <1>4 DEF rows

LEMMA SlotKinds ==
  /\ \A v \in Versions : <<"dataset", v>> \in Slots
  /\ \A v \in CorpusVersions \cup {Expanded} : <<"prepared", v>> \in Slots
  /\ \A s \in Slots : \/ \E v \in Versions : s = <<"dataset", v>>
                      \/ \E v \in CorpusVersions \cup {Expanded} : s = <<"prepared", v>>
  /\ Expanded \notin CorpusVersions /\ 0 \notin CorpusVersions
<1> DEFINE all == CorpusVersions \cup {Expanded}
<1>1. \A v \in Versions : <<"dataset", v>> \in {"dataset"} \X Versions
  OBVIOUS
<1>2. \A v \in all : <<"prepared", v>> \in {"prepared"} \X all
  OBVIOUS
<1>3. \A s \in {"dataset"} \X Versions : \E v \in Versions : s = <<"dataset", v>>
  OBVIOUS
<1>4. \A s \in {"prepared"} \X all : \E v \in all : s = <<"prepared", v>>
  OBVIOUS
<1>5. Slots = ({"dataset"} \X Versions) \cup ({"prepared"} \X all)
  BY DEF Slots
<1>6. Expanded \notin CorpusVersions /\ 0 \notin CorpusVersions
  BY VersionsAssumption DEF Versions, Expanded
<1> HIDE DEF all
<1>7. /\ \A v \in Versions : <<"dataset", v>> \in Slots
      /\ \A v \in all : <<"prepared", v>> \in Slots
      /\ \A s \in Slots : \/ \E v \in Versions : s = <<"dataset", v>>
                          \/ \E v \in all : s = <<"prepared", v>>
  BY <1>1, <1>2, <1>3, <1>4, <1>5, Zenon
<1> QED
  BY <1>6, <1>7 DEF all

LEMMA GoodManifests ==
  ASSUME NEW m
  PROVE  /\ \A v \in Versions : GoodManifest(<<"dataset", v>>, m) <=> OfDataset(m, v)
         /\ \A v \in CorpusVersions : GoodManifest(<<"prepared", v>>, m) <=> OfPrepared(m, v)
         /\ GoodManifest(ExpandedSlot, m) <=> OfExpansion(m)
<1>1. ASSUME NEW v \in Versions
      PROVE  GoodManifest(<<"dataset", v>>, m) <=> OfDataset(m, v)
  <2> DEFINE slot == <<"dataset", v>>
  <2>1. slot[1] = "dataset" /\ slot[2] = v /\ slot # ExpandedSlot
    BY DEF ExpandedSlot
  <2> HIDE DEF slot
  <2>2. GoodManifest(slot, m) <=> OfDataset(m, v)
    BY <2>1 DEF GoodManifest
  <2> QED
    BY <2>2 DEF slot
<1>2. ASSUME NEW v \in CorpusVersions
      PROVE  GoodManifest(<<"prepared", v>>, m) <=> OfPrepared(m, v)
  <2>1. <<"prepared", v>> # ExpandedSlot
    BY SlotKinds DEF ExpandedSlot
  <2> QED
    BY <2>1 DEF GoodManifest
<1>3. GoodManifest(ExpandedSlot, m) <=> OfExpansion(m)
  BY DEF GoodManifest, ExpandedSlot
<1> QED
  BY <1>1, <1>2, <1>3

\* The rows of a good manifest follow their groups.
LEMMA GoodRows ==
  ASSUME NEW v \in CorpusVersions \cup {Expanded}, NEW m, GoodManifest(<<"prepared", v>>, m)
  PROVE  \A e \in Rows(m.files) : RowFollowsGroup(e)
<1>1. CASE v \in CorpusVersions
  BY <1>1, GoodManifests, PreparedSource
<1>2. CASE v = Expanded
  BY <1>2, GoodManifests DEF ExpandedSlot, OfExpansion
<1> QED
  BY <1>1, <1>2

\* What is read of a dataset is what its manifest was made of.
LEMMA DatasetIsRead ==
  ASSUME StoreInv, NEW v \in Versions, DatasetReadable(v)
  PROVE  LET slot == <<"dataset", v>>
         IN /\ HasManifest(slot) /\ OfDataset(ManifestOf(slot), v)
            /\ ReadDataset(v) = AssignedOf(ManifestOf(slot))
<1> DEFINE slot == <<"dataset", v>>
           d == store[slot]
           m == ManifestOf(slot)
<1>1. HasManifest(slot) /\ \A f \in DatasetFiles : d[f] = m.files[f]
  BY LayoutFiles DEF DatasetReadable, DatasetVerifies, FilesVerify, HasManifest, ManifestOf
<1>2. OfDataset(m, v)
  BY <1>1, SlotKinds, GoodManifests DEF StoreInv
<1>3. PICK runs \in SUBSET Library :
        /\ AssignedOf(m) = AssignedRuns(runs)
        /\ \A p \in Partitions : m.files[SplitFile[p]] = InPartition(AssignedRuns(runs), p)
  BY <1>2, DatasetSource
<1>4. \A p \in Partitions : d[SplitFile[p]] = InPartition(AssignedRuns(runs), p)
  BY <1>1, <1>3, LayoutFiles
<1>5. \A a \in AssignedRuns(runs) : a.partition \in Partitions
  BY AssignedRun
<1> HIDE DEF d, m
<1>6. UNION { d[SplitFile[p]] : p \in Partitions } = AssignedRuns(runs)
  BY <1>4, <1>5 DEF InPartition
<1>7. ReadDataset(v) = AssignedRuns(runs)
  BY <1>6 DEF ReadDataset, d
<1> QED
  BY <1>1, <1>2, <1>3, <1>7 DEF m

\* What is read of a prepared corpus is what its manifest was made of.
LEMMA PreparedIsRead ==
  ASSUME StoreInv, NEW v \in CorpusVersions \cup {Expanded}, PreparedReadable(v)
  PROVE  LET slot == <<"prepared", v>>
         IN /\ HasManifest(slot) /\ GoodManifest(slot, ManifestOf(slot))
            /\ LoadPrepared(v) = Rows(ManifestOf(slot).files)
            /\ \A e \in LoadPrepared(v) : RowFollowsGroup(e)
<1> DEFINE slot == <<"prepared", v>>
           d == store[slot]
           m == ManifestOf(slot)
<1>1. HasManifest(slot) /\ \A f \in PreparedLayers : d[f] = m.files[f]
  BY LayoutFiles DEF PreparedReadable, PreparedVerifies, FilesVerify, HasManifest, ManifestOf
<1>2. GoodManifest(slot, m)
  BY <1>1, SlotKinds DEF StoreInv
<1>3. Rows(d) = Rows(m.files)
  <2> HIDE DEF d, m
  <2>1. \A run : JoinLayers(d, run) = JoinLayers(m.files, run)
    BY <1>1 DEF JoinLayers, PreparedLayers
  <2> QED
    BY <1>1, <2>1 DEF Rows, PreparedLayers
<1>4. LoadPrepared(v) = Rows(m.files)
  BY <1>3 DEF LoadPrepared
<1> QED
  BY <1>1, <1>2, <1>4, GoodRows

(***************************************************************************)
(* What a step does to manifests                                           *)
(***************************************************************************)
ManifestsStay ==
  /\ DOMAIN store' = Slots
  /\ \A s \in Slots : HasManifest(s) => HasManifest(s)' /\ ManifestOf(s)' = ManifestOf(s)

\* A manifest that is not there before a step is the one that the tool writes.
NewManifestsAreWritten ==
  \A s \in Slots : HasManifest(s)' /\ ~HasManifest(s) =>
    /\ tool.step = "writing" /\ s = tool.slot
    /\ ManifestOf(s)' = tool.artifact[Manifest]

LEMMA DirectoryChanges ==
  ASSUME NEW d, NEW name, NEW content
  PROVE  /\ Manifest \in Entries(Put(d, name, content)) <=> name = Manifest \/ Manifest \in Entries(d)
         /\ name = Manifest => Put(d, name, content)[Manifest] = content
         /\ name # Manifest /\ Manifest \in Entries(d) =>
              Put(d, name, content)[Manifest] = d[Manifest]
         /\ name # Manifest =>
              /\ Manifest \in Entries(Drop(d, name)) <=> Manifest \in Entries(d)
              /\ Manifest \in Entries(d) => Drop(d, name)[Manifest] = d[Manifest]
  BY DEF Put, Drop, Entries

\* The directory of one slot changes.
LEMMA SlotChanges ==
  ASSUME DOMAIN store = Slots, NEW slot \in Slots, NEW d, store' = [store EXCEPT ![slot] = d],
         Manifest \in Entries(store[slot]) =>
           Manifest \in Entries(d) /\ d[Manifest] = store[slot][Manifest],
         Manifest \in Entries(d) /\ Manifest \notin Entries(store[slot]) =>
           tool.step = "writing" /\ slot = tool.slot /\ d[Manifest] = tool.artifact[Manifest]
  PROVE  ManifestsStay /\ NewManifestsAreWritten
<1>1. store'[slot] = d /\ \A s \in Slots \ {slot} : store'[s] = store[s]
  OBVIOUS
<1> QED
  BY <1>1 DEF ManifestsStay, NewManifestsAreWritten, HasManifest, ManifestOf

LEMMA StoreStep ==
  ASSUME StoreInv, ToolInv, [Next]_vars
  PROVE  ManifestsStay /\ NewManifestsAreWritten
<1>1. CASE UNCHANGED store
  BY <1>1 DEF ManifestsStay, NewManifestsAreWritten, HasManifest, ManifestOf, StoreInv
<1>2. CASE WriteEntry
  <2> DEFINE name == WriteOrder(LayoutOf(tool.slot))[tool.pos]
             d == Install(store[tool.slot], name, tool.artifact)
             content == IF name \in DOMAIN tool.artifact THEN tool.artifact[name] ELSE Subdirectory
  <2>1. /\ tool.step = "writing" /\ tool.slot \in Slots /\ DOMAIN store = Slots
        /\ Manifest \in DOMAIN tool.artifact
        /\ HasManifest(tool.slot) => ManifestOf(tool.slot) = tool.artifact[Manifest]
    BY <1>2 DEF WriteEntry, ToolInv, StoreInv
  <2>2. store' = [store EXCEPT ![tool.slot] = d]
    BY <1>2 DEF WriteEntry
  <2>3. d = Put(store[tool.slot], name, content)
    BY DEF Install
  <2>4. name = Manifest => content = tool.artifact[Manifest]
    BY <2>1
  <2> HIDE DEF name, d, content
  <2>5. /\ Manifest \in Entries(store[tool.slot]) =>
              Manifest \in Entries(d) /\ d[Manifest] = store[tool.slot][Manifest]
        /\ Manifest \in Entries(d) /\ Manifest \notin Entries(store[tool.slot]) =>
              d[Manifest] = tool.artifact[Manifest]
    BY <2>1, <2>3, <2>4, DirectoryChanges DEF HasManifest, ManifestOf
  <2> QED
    BY <2>1, <2>2, <2>5, SlotChanges
<1>3. CASE FinishWrite
  <2>1. tool.slot \in Slots /\ DOMAIN store = Slots
    BY <1>3 DEF FinishWrite, ToolInv, StoreInv
  <2>2. CASE store' = [store EXCEPT ![tool.slot] = Drop(store[tool.slot], Marker)]
    <3>1. Marker # Manifest
      BY DEF Marker, Manifest
    <3> QED
      BY <2>1, <2>2, <3>1, DirectoryChanges, SlotChanges
  <2> QED
    BY <1>1, <1>3, <2>2 DEF FinishWrite
<1>4. ASSUME NEW slot \in Slots, NEW name \in {"train.jsonl", "labels.jsonl"}, Damage(slot, name)
      PROVE  ManifestsStay /\ NewManifestsAreWritten
  <2>1. name # Manifest /\ DOMAIN store = Slots
    BY DEF Manifest, StoreInv
  <2>2. \/ store' = [store EXCEPT ![slot] = Drop(store[slot], name)]
        \/ store' = [store EXCEPT ![slot] =
                       Put(store[slot], name, Edited(name, store[slot][name]))]
    BY <1>4, <2>1 DEF Damage
  <2> QED
    BY <2>1, <2>2, DirectoryChanges, SlotChanges
<1> QED
  BY <1>1, <1>2, <1>3, <1>4
  DEF Next, vars, Publish, VerifyIndex, Prepare, StartCampaign, LoadIndex, ExportDataset, CutOff,
      Attempt, Expand, Approve, WriteTrainingCorpus, RegisterEvaluationCorpus

(***************************************************************************)
(* What a step does to the campaign                                        *)
(***************************************************************************)
ParentStays == campaign.parent # 0 => campaign'.parent = campaign.parent

\* What the campaign started from is still what the manifests say.
LEMMA ParentRowsStay ==
  ASSUME CampaignInv, ManifestsStay, campaign'.parent = campaign.parent, campaign.parent # 0
  PROVE  HasManifest(ParentSlot)' /\ ParentRows' = ParentRows /\ Taken' = Taken
<1> DEFINE slot(p) == <<"prepared", p>>
<1>1. PICK p : p = campaign.parent
  OBVIOUS
<1>2. p \in CorpusVersions /\ HasManifest(slot(p))
  BY <1>1 DEF CampaignInv, ParentSlot
<1>3. slot(p) \in Slots
  BY <1>2, SlotKinds
<1> HIDE DEF slot
<1>4. HasManifest(slot(p))' /\ ManifestOf(slot(p))' = ManifestOf(slot(p))
  BY <1>2, <1>3 DEF ManifestsStay
<1>5. ParentSlot = slot(p) /\ ParentSlot' = slot(p)
  BY <1>1 DEF ParentSlot, slot
<1>6. HasManifest(ParentSlot)' /\ ParentRows' = ParentRows
  BY <1>4, <1>5 DEF ParentRows
<1> QED
  BY <1>6 DEF Taken, FrozenGroups

\* What was compared at the approval is still what the manifests say.
LEMMA ApprovalStands ==
  ASSUME CampaignInv, ManifestsStay, campaign'.parent = campaign.parent, campaign.approved
  PROVE  HasManifest(ExpandedSlot)' /\ (ParentRows \subseteq Rows(ManifestOf(ExpandedSlot).files))'
<1>1. /\ campaign.parent # 0 /\ HasManifest(ExpandedSlot)
      /\ ParentRows \subseteq Rows(ManifestOf(ExpandedSlot).files)
  BY DEF CampaignInv
<1>2. PICK slot : slot = ExpandedSlot
  OBVIOUS
<1>3. slot \in Slots /\ HasManifest(slot)
  BY <1>1, <1>2, SlotKinds DEF ExpandedSlot
<1>4. HasManifest(slot)' /\ ManifestOf(slot)' = ManifestOf(slot)
  BY <1>3 DEF ManifestsStay
<1>5. ParentRows' = ParentRows
  BY <1>1, ParentRowsStay
<1> QED
  BY <1>1, <1>2, <1>4, <1>5 DEF ExpandedSlot

\* A step that leaves the plan, and the records or the approval, alone.
LEMMA CampaignUndisturbed ==
  ASSUME CampaignInv, ManifestsStay, UNCHANGED campaign
  PROVE  CampaignInv'
<1>1. CASE campaign.parent = 0
  BY <1>1 DEF CampaignInv
<1>2. CASE campaign.parent # 0
  BY <1>2, ParentRowsStay, ApprovalStands DEF CampaignInv
<1> QED
  BY <1>1, <1>2

\* A campaign starts with a plan that the firewall has passed.
LEMMA CampaignStarts ==
  ASSUME StoreInv, CampaignInv, NEW v \in CorpusVersions, StartCampaign(v)
  PROVE  CampaignInv' /\ ParentStays
<1> DEFINE plan == PlanExpansion(LoadPrepared(v))
<1>0. DOMAIN campaign = {"parent", "plan", "records", "index", "approved"}
  BY DEF CampaignInv
<1>1. /\ campaign'.parent = v /\ campaign'.records = campaign.records
      /\ campaign'.approved = campaign.approved /\ DOMAIN campaign' = DOMAIN campaign
      /\ campaign'.plan = plan /\ campaign.parent = 0 /\ UNCHANGED store
      /\ PreparedReadable(v) /\ FirewallPasses(plan, LoadPrepared(v))
  BY <1>0 DEF StartCampaign
<1>2. /\ v # 0 /\ campaign'.records = << >> /\ ~campaign'.approved
  BY <1>1, SlotKinds DEF CampaignInv
<1>3. HasManifest(<<"prepared", v>>) /\ LoadPrepared(v) = Rows(ManifestOf(<<"prepared", v>>).files)
  BY <1>1, PreparedIsRead
<1>4. \A k \in DOMAIN plan : plan[k] \notin FrozenGroups(LoadPrepared(v))
  BY <1>1 DEF FirewallPasses
<1> HIDE DEF plan
<1>5. ParentSlot' = <<"prepared", v>>
  BY <1>1 DEF ParentSlot
<1>6. HasManifest(ParentSlot)' /\ ParentRows' = LoadPrepared(v)
  BY <1>1, <1>3, <1>5 DEF HasManifest, ManifestOf, ParentRows
<1>7. Taken' = FrozenGroups(LoadPrepared(v))
  BY <1>6 DEF Taken, FrozenGroups
<1> QED
  BY <1>0, <1>1, <1>2, <1>4, <1>6, <1>7 DEF CampaignInv, ParentStays

\* An attempt accepts no run but one of the group that was planned.
LEMMA AttemptIsRecorded ==
  ASSUME CampaignInv, ManifestsStay, NEW r \in NewRuns, NEW ok \in BOOLEAN, Attempt(r, ok)
  PROVE  CampaignInv' /\ ParentStays
<1> DEFINE Records == { campaign.records[k] : k \in DOMAIN campaign.records }
           x == Project(r)
           record(planned) ==
             [run |-> r, planned |-> planned,
              accepted |-> /\ ok /\ x.kind = "accepted_fault" /\ x.group = planned
                           /\ AssignGroupSplit(x.group, Policy) = "train"]
           Good(y) == /\ y.kind = "accepted_fault" /\ AssignGroupSplit(y.group, Policy) = "train"
                      /\ y.group \notin Taken
<1>0. /\ DOMAIN campaign = {"parent", "plan", "records", "index", "approved"}
      /\ campaign.parent \in CorpusVersions \cup {0}
      /\ campaign.records \in Seq(Records)
  BY DEF CampaignInv
<1>1. PICK j \in DOMAIN campaign.plan :
        /\ campaign'.parent = campaign.parent /\ campaign'.approved = campaign.approved
        /\ campaign'.plan = campaign.plan /\ DOMAIN campaign' = DOMAIN campaign
        /\ campaign'.records = Append(campaign.records, record(campaign.plan[j]))
  BY <1>0 DEF Attempt
<1>2. campaign.parent # 0
  BY DEF Attempt, CampaignGoesOn
<1>3. campaign.plan[j] \notin Taken
  BY <1>2 DEF CampaignInv
<1>4. PICK new : new = record(campaign.plan[j])
  OBVIOUS
<1>5. new.run = r /\ (new.accepted => Good(x))
  BY <1>3, <1>4
<1> HIDE DEF record
<1>6. /\ DOMAIN campaign.records = 1 .. Len(campaign.records) /\ Len(campaign.records) \in Nat
      /\ campaign.records \in Seq(Records \cup {new})
  BY <1>0
<1>7. /\ campaign'.records \in Seq(Records \cup {new})
      /\ DOMAIN campaign'.records = 1 .. Len(campaign.records) + 1
      /\ \A k \in DOMAIN campaign.records : campaign'.records[k] = campaign.records[k]
      /\ campaign'.records[Len(campaign.records) + 1] = new
  BY <1>1, <1>4, <1>6
<1>8. campaign'.records \in Seq({ campaign'.records[k] : k \in DOMAIN campaign'.records })
  BY <1>7
<1>9. ASSUME NEW k \in DOMAIN campaign'.records, campaign'.records[k].accepted
      PROVE  Good(Project(campaign'.records[k].run))
  <2>1. CASE k \in DOMAIN campaign.records
    BY <1>7, <1>9, <2>1 DEF CampaignInv
  <2>2. CASE k = Len(campaign.records) + 1
    BY <1>5, <1>7, <1>9, <2>2
  <2> QED
    BY <1>6, <1>7, <2>1, <2>2
<1>10. HasManifest(ParentSlot)' /\ ParentRows' = ParentRows /\ Taken' = Taken
  BY <1>1, <1>2, ParentRowsStay
<1> QED
  BY <1>0, <1>1, <1>2, <1>8, <1>9, <1>10, ApprovalStands DEF CampaignInv, ParentStays

\* An approval finds every row of the parent in the expansion.
LEMMA ApprovalCompares ==
  ASSUME StoreInv, CampaignInv, ManifestsStay, NEW frozen \in SUBSET Groups, Approve(frozen)
  PROVE  CampaignInv' /\ ParentStays
<1>0. /\ DOMAIN campaign = {"parent", "plan", "records", "index", "approved"}
      /\ campaign.parent \in CorpusVersions \cup {0}
  BY DEF CampaignInv
<1>1. /\ campaign'.parent = campaign.parent /\ campaign'.records = campaign.records
      /\ campaign'.plan = campaign.plan /\ DOMAIN campaign' = DOMAIN campaign
      /\ campaign.parent # 0 /\ campaign.parent \in CorpusVersions /\ UNCHANGED store
  BY <1>0 DEF Approve
<1>2. /\ HasManifest(ExpandedSlot)
      /\ ParentRows \subseteq Rows(ManifestOf(ExpandedSlot).files)
  BY <1>1, PreparedIsRead DEF Approve, ParentSlot, ParentRows, ExpandedSlot, AppendOnly
<1>3. HasManifest(ParentSlot)' /\ ParentRows' = ParentRows /\ Taken' = Taken
  BY <1>1, ParentRowsStay
<1>4. HasManifest(ExpandedSlot)' /\ ManifestOf(ExpandedSlot)' = ManifestOf(ExpandedSlot)
  BY <1>1, <1>2 DEF HasManifest, ManifestOf, ExpandedSlot
<1> QED
  BY <1>0, <1>1, <1>2, <1>3, <1>4 DEF CampaignInv, ParentStays

LEMMA CampaignStep ==
  ASSUME StoreInv, CampaignInv, ManifestsStay, [Next]_vars
  PROVE  CampaignInv' /\ ParentStays
<1>1. CASE UNCHANGED campaign
  BY <1>1, CampaignUndisturbed DEF ParentStays
<1>2. ASSUME NEW v \in CorpusVersions, StartCampaign(v)
      PROVE  CampaignInv' /\ ParentStays
  BY <1>2, CampaignStarts
<1>3. ASSUME NEW r \in NewRuns, NEW ok \in BOOLEAN, Attempt(r, ok)
      PROVE  CampaignInv' /\ ParentStays
  BY <1>3, AttemptIsRecorded
<1>4. ASSUME NEW frozen \in SUBSET Groups, Approve(frozen)
      PROVE  CampaignInv' /\ ParentStays
  BY <1>4, ApprovalCompares
<1> QED
  BY <1>1, <1>2, <1>3, <1>4
  DEF Next, vars, Publish, VerifyIndex, Prepare, LoadIndex, ExportDataset, WriteEntry, FinishWrite,
      CutOff, Damage, Expand, WriteTrainingCorpus, RegisterEvaluationCorpus

(***************************************************************************)
(* Good manifests stay good, and what is written is good                   *)
(***************************************************************************)
LEMMA GoodManifestsStay ==
  ASSUME CampaignInv, ManifestsStay, ParentStays, NEW s, NEW m, GoodManifest(s, m)
  PROVE  GoodManifest(s, m)'
<1>1. ASSUME OfExpansion(m)
      PROVE  OfExpansion(m)'
  <2>1. campaign.parent # 0 /\ campaign'.parent = campaign.parent
    BY <1>1 DEF OfExpansion, ParentStays
  <2>2. campaign'.parent # 0
    BY <2>1
  <2>3. HasManifest(ParentSlot)' /\ ParentRows' = ParentRows /\ Taken' = Taken
    BY <2>1, ParentRowsStay
  <2>4. \A e \in Rows(m.files) : RowFollowsGroup(e)' <=> RowFollowsGroup(e)
    BY DEF RowFollowsGroup
  <2> QED
    BY <1>1, <2>2, <2>3, <2>4 DEF OfExpansion
<1> QED
  BY <1>1 DEF GoodManifest, ExpandedSlot

LEMMA BuiltDatasetIsGood ==
  ASSUME StoreInv, ToolInv, tool.step = "loaded",
         GroupsAreCohesive(AssignSplits({ Project(r) : r \in tool.entries }, Policy))
  PROVE  LET artifact == BuildDataset(AssignSplits({ Project(r) : r \in tool.entries }, Policy),
                                      tool.version, tool.pin)
         IN Manifest \in DOMAIN artifact
              /\ GoodManifest(<<"dataset", tool.version>>, artifact[Manifest])
<1> DEFINE digest == DatasetDigest(AssignedRuns(tool.entries), tool.version, tool.pin)
           artifact == Put(digest.files, Manifest, digest)
<1>1. tool.version \in Versions /\ tool.entries \in SUBSET Library /\ tool.pin \in SUBSET tool.entries
  BY DEF ToolInv
<1>2. OfDataset(digest, tool.version)
  BY <1>1 DEF OfDataset, AssignedRuns
<1>3. artifact = BuildDataset(AssignSplits({ Project(r) : r \in tool.entries }, Policy),
                              tool.version, tool.pin)
  BY DEF BuildDataset, AssignedRuns
<1> HIDE DEF digest
<1>4. Manifest \in DOMAIN artifact /\ artifact[Manifest] = digest
  BY DEF Put, Entries
<1>5. GoodManifest(<<"dataset", tool.version>>, digest)
  BY <1>1, <1>2, GoodManifests
<1> QED
  BY <1>3, <1>4, <1>5

LEMMA BuiltCorpus ==
  ASSUME NEW rows, NEW v, NEW source
  PROVE  LET artifact == BuildPrepared(rows, v, source)
         IN /\ Manifest \in DOMAIN artifact
            /\ artifact[Manifest].source = source
            /\ artifact[Manifest].files = PreparedFiles(rows)
<1> DEFINE m == [version |-> v, source |-> source, rows |-> Cardinality(rows),
                 files |-> PreparedFiles(rows)]
<1>1. BuildPrepared(rows, v, source) = Put(PreparedFiles(rows), Manifest, m)
  BY DEF BuildPrepared
<1>2. m.source = source /\ m.files = PreparedFiles(rows)
  OBVIOUS
<1> HIDE DEF m
<1>3. /\ Manifest \in DOMAIN Put(PreparedFiles(rows), Manifest, m)
      /\ Put(PreparedFiles(rows), Manifest, m)[Manifest] = m
  BY DEF Put, Entries
<1> QED
  BY <1>1, <1>2, <1>3

LEMMA BuiltPreparedIsGood ==
  ASSUME StoreInv, NEW v \in CorpusVersions, DatasetReadable(v)
  PROVE  LET manifest == ManifestOf(<<"dataset", v>>)
             artifact == BuildPrepared(SeparateDataset(ReadDataset(v), v, manifest.pin), v, manifest)
         IN Manifest \in DOMAIN artifact /\ GoodManifest(<<"prepared", v>>, artifact[Manifest])
<1> DEFINE manifest == ManifestOf(<<"dataset", v>>)
           rows == SeparateDataset(ReadDataset(v), v, manifest.pin)
<1>1. OfDataset(manifest, v) /\ ReadDataset(v) = AssignedOf(manifest)
  BY DatasetIsRead, VersionsAssumption
<1>2. rows = SeparateDataset(AssignedOf(manifest), v, manifest.pin)
  BY <1>1
<1> HIDE DEF rows, manifest
<1>3. PICK m : m = BuildPrepared(rows, v, manifest)[Manifest]
  OBVIOUS
<1>4. Manifest \in DOMAIN BuildPrepared(rows, v, manifest) /\ OfPrepared(m, v)
  BY <1>1, <1>2, <1>3, BuiltCorpus DEF OfPrepared
<1>5. GoodManifest(<<"prepared", v>>, m)
  BY <1>4, GoodManifests
<1> QED
  BY <1>3, <1>4, <1>5 DEF rows, manifest

\* The rows that a campaign adds are for training, of groups that were not taken.
LEMMA NewRowsAreForTraining ==
  ASSUME CampaignInv, NEW e \in NewRows
  PROVE  /\ e = [features |-> e.features, labels |-> e.labels, trace |-> e.trace]
         /\ RowFollowsGroup(e) /\ e.trace.partition = "train" /\ e.trace.group \notin Taken
<1>1. PICK r \in Accepted :
        e = SeparateExample(AssignExampleSplit(Project(r), Policy), Expanded, campaign.index)
  BY DEF NewRows, SeparateDataset
<1>2. /\ Project(r).kind = "accepted_fault" /\ AssignGroupSplit(Project(r).group, Policy) = "train"
      /\ Project(r).group \notin Taken
  BY DEF Accepted, CampaignInv
<1>3. AssignExampleSplit(Project(r), Policy) =
        [example |-> Project(r), partition |-> "train", policy |-> Policy.salt]
  BY <1>2 DEF AssignExampleSplit
<1>4. /\ e.trace.partition = "train" /\ e.trace.group = Project(r).group
      /\ e = [features |-> e.features, labels |-> e.labels, trace |-> e.trace]
  BY <1>1, <1>3 DEF SeparateExample
<1> QED
  BY <1>2, <1>4 DEF RowFollowsGroup

LEMMA BuiltExpansionIsGood ==
  ASSUME StoreInv, CampaignInv, campaign.parent # 0, PreparedReadable(campaign.parent),
         NEW source, CanBuildPrepared(LoadPrepared(campaign.parent) \cup NewRows)
  PROVE  LET artifact == BuildPrepared(LoadPrepared(campaign.parent) \cup NewRows, Expanded, source)
         IN Manifest \in DOMAIN artifact /\ GoodManifest(ExpandedSlot, artifact[Manifest])
<1> DEFINE parent == LoadPrepared(campaign.parent)
           rows == parent \cup NewRows
<1>1. campaign.parent \in CorpusVersions
  BY DEF CampaignInv
<1>2. /\ HasManifest(ParentSlot) /\ parent = Rows(ManifestOf(ParentSlot).files)
      /\ GoodManifest(ParentSlot, ManifestOf(ParentSlot))
      /\ \A e \in parent : RowFollowsGroup(e)
  BY <1>1, PreparedIsRead DEF ParentSlot
<1>3. Separated(parent)
  <2>1. PICK v : v = campaign.parent
    OBVIOUS
  <2>2. GoodManifest(<<"prepared", v>>, ManifestOf(ParentSlot))
    BY <1>2, <2>1 DEF ParentSlot
  <2> QED
    BY <1>1, <1>2, <2>1, <2>2, GoodManifests, PreparedSource
<1>4. \A e \in NewRows :
        RowFollowsGroup(e) /\ e.trace.partition = "train" /\ e.trace.group \notin Taken
  BY NewRowsAreForTraining
<1>5. Separated(rows)
  BY <1>3, NewRowsAreForTraining DEF Separated, CanBuildPrepared
<1>6. PICK m : m = BuildPrepared(rows, Expanded, source)[Manifest]
  OBVIOUS
<1> HIDE DEF rows, parent
<1>7. Manifest \in DOMAIN BuildPrepared(rows, Expanded, source) /\ m.files = PreparedFiles(rows)
  BY <1>6, BuiltCorpus
<1>8. Rows(m.files) = rows
  BY <1>5, <1>7, LayersJoin
<1>9. OfExpansion(m)
  BY <1>2, <1>4, <1>8 DEF OfExpansion, ParentRows, rows
<1> QED
  BY <1>6, <1>7, <1>9, GoodManifests DEF rows, parent

(***************************************************************************)
(* Every step keeps the invariant                                          *)
(***************************************************************************)
LEMMA StoreInvStep ==
  ASSUME PipelineInv, ManifestsStay, NewManifestsAreWritten, ParentStays, [Next]_vars
  PROVE  StoreInv'
<1>1. (index \subseteq Library)'
  BY DEF PipelineInv, StoreInv, Next, vars, Publish, VerifyIndex, Prepare, StartCampaign, LoadIndex,
         ExportDataset, WriteEntry, FinishWrite, CutOff, Damage, Attempt, Expand, Approve,
         WriteTrainingCorpus, RegisterEvaluationCorpus
<1>2. ASSUME NEW s \in Slots, HasManifest(s)'
      PROVE  GoodManifest(s, ManifestOf(s))'
  <2>1. PICK m : m = ManifestOf(s)'
    OBVIOUS
  <2>2. GoodManifest(s, m)
    <3>1. CASE HasManifest(s)
      BY <2>1, <3>1 DEF ManifestsStay, PipelineInv, StoreInv
    <3>2. CASE ~HasManifest(s)
      BY <1>2, <2>1, <3>2 DEF NewManifestsAreWritten, PipelineInv, ToolInv
    <3> QED
      BY <3>1, <3>2
  <2>3. GoodManifest(s, m)'
    BY <2>2, GoodManifestsStay DEF PipelineInv
  <2> QED
    BY <2>1, <2>3
<1> QED
  BY <1>1, <1>2 DEF StoreInv, ManifestsStay

\* A tool that writes what is good to a vacant slot.
LEMMA WriteStarts ==
  ASSUME PipelineInv, ManifestsStay, ParentStays, UNCHANGED store,
         NEW slot \in Slots, NEW artifact, Manifest \in DOMAIN artifact,
         GoodManifest(slot, artifact[Manifest]), ~HasManifest(slot),
         tool' = Write(slot, artifact)
  PROVE  ToolInv'
<1>1. PICK m : m = artifact[Manifest]
  OBVIOUS
<1>2. GoodManifest(slot, m)'
  BY <1>1, GoodManifestsStay DEF PipelineInv
<1>3. /\ tool'.step = "writing" /\ tool'.slot = slot /\ tool'.artifact[Manifest] = m
      /\ DOMAIN tool' = {"step", "slot", "artifact", "pos"}
      /\ Manifest \in DOMAIN tool'.artifact
  BY <1>1 DEF Write
<1>4. ~HasManifest(slot)'
  BY DEF HasManifest
<1> QED
  BY <1>2, <1>3, <1>4 DEF ToolInv

LEMMA ToolInvStep ==
  ASSUME PipelineInv, ManifestsStay, NewManifestsAreWritten, ParentStays, [Next]_vars
  PROVE  ToolInv'
<1>0. StoreInv /\ ToolInv /\ CampaignInv
  BY DEF PipelineInv
<1>1. ASSUME UNCHANGED tool, index \subseteq index'
      PROVE  ToolInv'
  <2>1. \A v \in Versions : HasManifest(<<"dataset", v>>)' /\ tool.step # "writing" =>
          HasManifest(<<"dataset", v>>)
    BY SlotKinds DEF NewManifestsAreWritten
  <2>2. CASE tool.step = "writing"
    <3>1. PICK s, m : s \in Slots /\ s = tool.slot /\ m = tool.artifact[Manifest] /\ GoodManifest(s, m)
      BY <1>0, <2>2 DEF ToolInv
    <3>2. GoodManifest(s, m)'
      BY <1>0, <3>1, GoodManifestsStay
    <3>3. HasManifest(s)' => ManifestOf(s)' = m
      BY <1>0, <2>2, <3>1 DEF ToolInv, ManifestsStay, NewManifestsAreWritten
    <3> QED
      BY <1>0, <1>1, <2>2, <3>1, <3>2, <3>3 DEF ToolInv
  <2>3. CASE tool.step # "writing"
    BY <1>0, <1>1, <2>1, <2>3 DEF ToolInv
  <2> QED
    BY <2>2, <2>3
<1>2. ASSUME NEW v \in Versions, VerifyIndex(v)
      PROVE  ToolInv'
  <2>1. ~HasManifest(<<"dataset", v>>)'
    BY <1>2 DEF VerifyIndex, HasManifest, Vacant
  <2>2. tool'.step = "verified" /\ tool'.version = v /\ tool'.pin = index /\ index' = index
    BY <1>2 DEF VerifyIndex
  <2> QED
    BY <2>1, <2>2 DEF ToolInv
<1>3. CASE LoadIndex
  <2>1. /\ tool'.step = "loaded" /\ tool'.version = tool.version /\ tool'.pin = tool.pin
        /\ tool'.entries = index /\ tool.step = "verified" /\ UNCHANGED store
    BY <1>3 DEF LoadIndex
  <2>2. ~HasManifest(<<"dataset", tool.version>>)'
    BY <1>0, <2>1 DEF HasManifest, ToolInv
  <2> QED
    BY <1>0, <2>1, <2>2 DEF ToolInv, StoreInv
<1>4. ASSUME tool' = Idle
      PROVE  ToolInv'
  BY <1>4 DEF ToolInv, Idle
<1>5. CASE ExportDataset
  <2> DEFINE assigned == AssignSplits({ Project(r) : r \in tool.entries }, Policy)
             artifact == BuildDataset(assigned, tool.version, tool.pin)
  <2>1. tool.step = "loaded" /\ UNCHANGED store
    BY <1>5 DEF ExportDataset
  <2>2. tool.version \in Versions /\ ~HasManifest(<<"dataset", tool.version>>)
    BY <1>0, <2>1 DEF ToolInv
  <2>3. \/ tool' = Idle
        \/ GroupsAreCohesive(assigned) /\ tool' = Write(<<"dataset", tool.version>>, artifact)
    BY <1>5 DEF ExportDataset
  <2>4. CASE GroupsAreCohesive(assigned) /\ tool' = Write(<<"dataset", tool.version>>, artifact)
    <3>1. /\ Manifest \in DOMAIN artifact
          /\ GoodManifest(<<"dataset", tool.version>>, artifact[Manifest])
      BY <1>0, <2>1, <2>4, BuiltDatasetIsGood
    <3> QED
      BY <2>1, <2>2, <2>4, <3>1, WriteStarts, SlotKinds
  <2> QED
    BY <1>4, <2>3, <2>4
<1>6. ASSUME NEW v \in CorpusVersions, Prepare(v)
      PROVE  ToolInv'
  <2> DEFINE slot == <<"prepared", v>>
             manifest == ManifestOf(<<"dataset", v>>)
             artifact == BuildPrepared(SeparateDataset(ReadDataset(v), v, manifest.pin), v, manifest)
  <2>1. /\ DatasetReadable(v) /\ UNCHANGED store /\ tool' = Write(slot, artifact)
        /\ ~HasManifest(slot)
    BY <1>6 DEF Prepare, ManifestOf, HasManifest, Vacant
  <2>2. Manifest \in DOMAIN artifact /\ GoodManifest(slot, artifact[Manifest])
    BY <1>0, <2>1, BuiltPreparedIsGood
  <2> QED
    BY <2>1, <2>2, WriteStarts, SlotKinds
<1>7. CASE Expand
  <2> DEFINE source == ManifestOf(ParentSlot).source
             rows == LoadPrepared(campaign.parent) \cup NewRows
             artifact == BuildPrepared(rows, Expanded, source)
  <2>1. /\ campaign.parent # 0 /\ PreparedReadable(campaign.parent) /\ CanBuildPrepared(rows)
        /\ UNCHANGED store /\ tool' = Write(ExpandedSlot, artifact)
        /\ ~HasManifest(ExpandedSlot)
    BY <1>7 DEF Expand, ManifestOf, HasManifest, Vacant, ParentSlot, ExpandedSlot
  <2>2. Manifest \in DOMAIN artifact /\ GoodManifest(ExpandedSlot, artifact[Manifest])
    BY <1>0, <2>1, BuiltExpansionIsGood
  <2>3. ExpandedSlot \in Slots
    BY SlotKinds DEF ExpandedSlot
  <2> QED
    BY <2>1, <2>2, <2>3, WriteStarts
<1>8. CASE WriteEntry
  <2>1. /\ tool.step = "writing" /\ tool'.step = tool.step /\ tool'.slot = tool.slot
        /\ tool'.artifact = tool.artifact /\ DOMAIN tool' = DOMAIN tool
    BY <1>0, <1>8 DEF WriteEntry, ToolInv
  <2>2. PICK s, m : s \in Slots /\ s = tool.slot /\ m = tool.artifact[Manifest] /\ GoodManifest(s, m)
    BY <1>0, <2>1 DEF ToolInv
  <2>3. GoodManifest(s, m)'
    BY <1>0, <2>2, GoodManifestsStay
  <2>4. HasManifest(s)' => ManifestOf(s)' = m
    BY <1>0, <2>1, <2>2 DEF ToolInv, ManifestsStay, NewManifestsAreWritten
  <2> QED
    BY <1>0, <2>1, <2>2, <2>3, <2>4 DEF ToolInv
<1> QED
  BY <1>1, <1>2, <1>3, <1>4, <1>5, <1>6, <1>7, <1>8
  DEF Next, vars, Publish, StartCampaign, FinishWrite, CutOff, Damage, Attempt, Approve,
      WriteTrainingCorpus, RegisterEvaluationCorpus

LEMMA CorporaInvStep ==
  ASSUME PipelineInv, [Next]_vars
  PROVE  CorporaInv'
<1>0. StoreInv /\ CorporaInv
  BY DEF PipelineInv
<1>1. CASE UNCHANGED <<trained, registered>>
  BY <1>0, <1>1 DEF CorporaInv
<1>2. ASSUME NEW v \in CorpusVersions \cup {Expanded}, WriteTrainingCorpus(v)
      PROVE  CorporaInv'
  <2>1. PICK c : /\ c = [id |-> TrainingCorpusId(LoadPrepared(v)), rows |-> Eligible(LoadPrepared(v))]
                 /\ trained' = trained \cup {c}
    BY <1>2 DEF WriteTrainingCorpus
  <2>2. \A e \in c.rows : e.trace.partition = "train" /\ RowFollowsGroup(e)
    BY <1>0, <1>2, <2>1, PreparedIsRead DEF WriteTrainingCorpus, Eligible
  <2>3. registered' = registered
    BY <1>2 DEF WriteTrainingCorpus
  <2> QED
    BY <1>0, <2>1, <2>2, <2>3 DEF CorporaInv
<1>3. ASSUME NEW v \in CorpusVersions \cup {Expanded}, RegisterEvaluationCorpus(v)
      PROVE  CorporaInv'
  <2>1. PICK c : /\ c.rows = LoadPrepared(v)
                 /\ registered' = registered \cup {c}
    BY <1>3 DEF RegisterEvaluationCorpus
  <2>2. VerifyCorpusQuality(c.rows) /\ \A e \in c.rows : RowFollowsGroup(e)
    BY <1>0, <1>3, <2>1, PreparedIsRead DEF RegisterEvaluationCorpus
  <2>3. trained' = trained
    BY <1>3 DEF RegisterEvaluationCorpus
  <2> QED
    BY <1>0, <2>1, <2>2, <2>3 DEF CorporaInv
<1> QED
  BY <1>1, <1>2, <1>3
  DEF Next, vars, Publish, VerifyIndex, Prepare, StartCampaign, LoadIndex, ExportDataset, WriteEntry,
      FinishWrite, CutOff, Damage, Attempt, Expand, Approve

LEMMA PipelineStarts == Init => PipelineInv
<1> SUFFICES ASSUME Init PROVE PipelineInv
  OBVIOUS
<1>1. StoreInv
  BY DEF Init, StoreInv, HasManifest, NoDirectory, Entries
<1>2. ToolInv
  BY DEF Init, ToolInv, Idle
<1>3. CampaignInv
  BY DEF Init, CampaignInv, NoCampaign
<1>4. CorporaInv
  BY DEF Init, CorporaInv
<1> QED
  BY <1>1, <1>2, <1>3, <1>4 DEF PipelineInv

LEMMA PipelineStep ==
  ASSUME PipelineInv, [Next]_vars
  PROVE  PipelineInv'
<1>1. ManifestsStay /\ NewManifestsAreWritten
  BY StoreStep DEF PipelineInv
<1>2. CampaignInv' /\ ParentStays
  BY <1>1, CampaignStep DEF PipelineInv
<1> QED
  BY <1>1, <1>2, StoreInvStep, ToolInvStep, CorporaInvStep DEF PipelineInv

\* Whatever is published, exported, prepared, expanded, cut off or damaged: the
\* manifest of a directory describes what its writer computed (datasets/export.py,
\* prepared.py, expansion in evaluation/), and corpora were taken from what verified.
THEOREM PipelineKeepsItsManifests == Spec => []PipelineInv
<1>1. PipelineInv /\ [Next]_vars => PipelineInv'
  BY PipelineStep
<1> QED
  BY PipelineStarts, <1>1, PTL DEF Spec

(***************************************************************************)
(* What readers may rely on                                                *)
(***************************************************************************)
LEMMA PlacedByGroup ==
  ASSUME PipelineInv, NEW s \in Slots, Readable(s), NEW x \in Placed(s), x[2] \in SplitPartitions
  PROVE  x[2] = AssignGroupSplit(x[1], Policy)
<1>0. StoreInv
  BY DEF PipelineInv
<1>1. ASSUME NEW v \in Versions, s = <<"dataset", v>>
      PROVE  x[2] = AssignGroupSplit(x[1], Policy)
  <2>1. DatasetReadable(v)
    BY <1>1 DEF Readable
  <2>2. PICK a \in ReadDataset(v) : x = <<a.example.group, a.partition>>
    BY <1>1 DEF Placed
  <2>3. PICK runs : ReadDataset(v) = AssignedRuns(runs)
    BY <1>0, <2>1, DatasetIsRead, DatasetSource
  <2> QED
    BY <2>2, <2>3, AssignedRun
<1>2. ASSUME NEW v \in CorpusVersions \cup {Expanded}, s = <<"prepared", v>>
      PROVE  x[2] = AssignGroupSplit(x[1], Policy)
  <2>1. PreparedReadable(v)
    BY <1>2 DEF Readable
  <2>2. PICK e \in LoadPrepared(v) : x = <<e.trace.group, e.trace.partition>>
    BY <1>2 DEF Placed
  <2> QED
    BY <1>0, <2>1, <2>2, PreparedIsRead DEF RowFollowsGroup
<1> QED
  BY <1>1, <1>2, SlotKinds

\* While runs are published, exports are cut off and files damaged, no two datasets or
\* corpora that can be read put a group in different splits (assign_group_split,
\* datasets/splitting.py).
THEOREM ReadableSplitsAreStable == Spec => []SplitsAreStable
<1>1. ASSUME PipelineInv
      PROVE  SplitsAreStable
  <2> SUFFICES ASSUME NEW s \in Slots, NEW t \in Slots, Readable(s), Readable(t),
                      NEW x \in Placed(s), NEW y \in Placed(t),
                      x[1] = y[1], {x[2], y[2]} \subseteq SplitPartitions
               PROVE  x[2] = y[2]
    BY DEF SplitsAreStable
  <2>1. x[2] = AssignGroupSplit(x[1], Policy) /\ y[2] = AssignGroupSplit(y[1], Policy)
    BY <1>1, PlacedByGroup
  <2> QED
    BY <2>1
<1> QED
  BY PipelineKeepsItsManifests, <1>1, PTL

\* No group of a training corpus has a row among the held-out rows of an evaluation
\* corpus, whichever exports the two were made from (training/corpus.py,
\* evaluation/evalcorpus.py).
THEOREM HeldOutGroupsAreNotTrainedOn == Spec => []EvaluationIsHeldOut
<1>1. ASSUME PipelineInv
      PROVE  EvaluationIsHeldOut
  <2> SUFFICES ASSUME NEW c \in trained, NEW d \in registered, NEW e \in c.rows, NEW f \in d.rows,
                      f.trace.partition \in {"validation", "test"}
               PROVE  e.trace.group # f.trace.group
    BY DEF EvaluationIsHeldOut
  <2>1. e.trace.partition = "train" /\ RowFollowsGroup(e) /\ RowFollowsGroup(f)
    BY <1>1 DEF PipelineInv, CorporaInv
  <2>2. AssignGroupSplit(e.trace.group, Policy) = "train"
    BY <2>1 DEF RowFollowsGroup, SplitPartitions
  <2>3. AssignGroupSplit(f.trace.group, Policy) \in {"validation", "test"}
    BY <2>1 DEF RowFollowsGroup, SplitPartitions
  <2> QED
    BY <2>2, <2>3
<1> QED
  BY PipelineKeepsItsManifests, <1>1, PTL

\* A dataset that verifies has every run of its pin, each as it projects and splits; a
\* prepared corpus that verifies has what its source separates into (verify and load
\* in datasets/export.py and prepared.py).
THEOREM ReadersSeeWholeExports == Spec => []ReadersGetWholeExports
<1>1. ASSUME PipelineInv
      PROVE  ReadersGetWholeExports
  <2>0. StoreInv
    BY <1>1 DEF PipelineInv
  <2>1. ASSUME NEW v \in Versions, DatasetReadable(v),
               NEW found, found = { a.example.run : a \in ReadDataset(v) }
        PROVE  /\ store[<<"dataset", v>>][Manifest].pin \subseteq found
               /\ ReadDataset(v) = AssignSplits({ Project(r) : r \in found }, Policy)
    <3>1. PICK m : /\ m = store[<<"dataset", v>>][Manifest]
                   /\ OfDataset(m, v) /\ ReadDataset(v) = AssignedOf(m)
      BY <2>0, <2>1, DatasetIsRead DEF ManifestOf
    <3>2. PICK runs : m.pin \subseteq runs /\ AssignedOf(m) = AssignedRuns(runs)
      BY <3>1, DatasetSource
    <3>3. \A r \in runs : AssignExampleSplit(Project(r), Policy) \in AssignedRuns(runs)
      BY DEF AssignedRuns, AssignSplits
    <3>4. \A r : AssignExampleSplit(Project(r), Policy).example.run = r
      BY DEF AssignExampleSplit, Project
    <3>5. found = runs
      BY <2>1, <3>1, <3>2, <3>3, <3>4, AssignedRun
    <3> QED
      BY <3>1, <3>2, <3>5 DEF AssignedRuns
  <2>2. ASSUME NEW v \in CorpusVersions, PreparedReadable(v),
               NEW source, source = store[<<"prepared", v>>][Manifest].source
        PROVE  LoadPrepared(v) = SeparateDataset(UNION { source.files[f] : f \in DOMAIN source.files },
                                                 v, source.pin)
    <3>1. PICK m : /\ m = store[<<"prepared", v>>][Manifest]
                   /\ OfPrepared(m, v) /\ LoadPrepared(v) = Rows(m.files)
      BY <2>0, <2>2, PreparedIsRead, GoodManifests DEF ManifestOf
    <3> QED
      BY <2>2, <3>1, PreparedSource DEF AssignedOf
  <2> QED
    BY <2>1, <2>2 DEF ReadersGetWholeExports
<1> QED
  BY PipelineKeepsItsManifests, <1>1, PTL

\* No dataset that can be read and no registered evaluation corpus has a group in two
\* partitions (check_group_cohesion, verify_corpus_quality).
THEOREM GroupsAreNeverSplitUp == Spec => []GroupsStayTogether
<1>1. ASSUME PipelineInv
      PROVE  GroupsStayTogether
  <2>0. StoreInv
    BY <1>1 DEF PipelineInv
  <2>1. ASSUME NEW v \in Versions, DatasetReadable(v),
               NEW x \in Placed(<<"dataset", v>>), NEW y \in Placed(<<"dataset", v>>), x[1] = y[1]
        PROVE  x = y
    <3>1. PICK a \in ReadDataset(v), b \in ReadDataset(v) :
            x = <<a.example.group, a.partition>> /\ y = <<b.example.group, b.partition>>
      BY <2>1 DEF Placed
    <3>2. GroupsAreCohesive(ReadDataset(v))
      BY <2>0, <2>1, DatasetIsRead, DatasetSource
    <3> QED
      BY <2>1, <3>1, <3>2 DEF GroupsAreCohesive
  <2>2. ASSUME NEW c \in registered, NEW e \in c.rows, NEW f \in c.rows,
               e.trace.group = f.trace.group
        PROVE  <<e.trace.group, e.trace.partition>> = <<f.trace.group, f.trace.partition>>
    BY <1>1, <2>2 DEF PipelineInv, CorporaInv, VerifyCorpusQuality
  <2> QED
    BY <2>1, <2>2 DEF GroupsStayTogether
<1> QED
  BY PipelineKeepsItsManifests, <1>1, PTL

\* An approved expansion has every row of its parent, and its other rows are for
\* training, of groups that no accepted row of the parent is of, whatever the approval
\* was told to be frozen (the plan's firewall, and the records of accepted runs).
THEOREM ApprovedExpansionsAreFresh == Spec => []ExpansionIsFresh
<1>1. ASSUME PipelineInv
      PROVE  ExpansionIsFresh
  <2> DEFINE parent == LoadPrepared(campaign.parent)
             expanded == LoadPrepared(Expanded)
  <2> SUFFICES ASSUME campaign.approved, PreparedReadable(Expanded),
                      PreparedReadable(campaign.parent)
               PROVE  /\ parent \subseteq expanded
                      /\ \A e \in expanded \ parent :
                           /\ e.trace.partition = "train"
                           /\ \A f \in parent : f.trace.kind = "accepted_fault" =>
                                f.trace.group # e.trace.group
    BY DEF ExpansionIsFresh
  <2>0. StoreInv /\ CampaignInv
    BY <1>1 DEF PipelineInv
  <2>1. campaign.parent \in CorpusVersions
    BY <2>0 DEF CampaignInv
  <2>2. parent = ParentRows
    BY <2>0, <2>1, PreparedIsRead DEF ParentSlot, ParentRows
  <2>3. expanded = Rows(ManifestOf(ExpandedSlot).files) /\ OfExpansion(ManifestOf(ExpandedSlot))
    BY <2>0, PreparedIsRead, GoodManifests DEF ExpandedSlot
  <2>4. parent \subseteq expanded
    BY <2>0, <2>2, <2>3 DEF CampaignInv
  <2>5. \A e \in expanded \ parent : e.trace.partition = "train" /\ e.trace.group \notin Taken
    BY <2>2, <2>3 DEF OfExpansion
  <2>6. \A f \in parent : f.trace.kind = "accepted_fault" => f.trace.group \in Taken
    BY <2>2 DEF Taken, FrozenGroups
  <2> HIDE DEF parent, expanded
  <2> QED
    BY <2>4, <2>5, <2>6
<1> QED
  BY PipelineKeepsItsManifests, <1>1, PTL
===============================================================================
