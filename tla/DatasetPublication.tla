-------------------------- MODULE DatasetPublication --------------------------
(***************************************************************************)
(* Files on disk between command-line processes: generators of simulated   *)
(* data sets (src/simulator/generator.py) and trainers that load one and   *)
(* save a model (src/ml/dataset.py, training.py, artifact.py).             *)
(*                                                                         *)
(* Nothing locks the directories.  Each file is written under a fixed      *)
(* temporary name and renamed into place; an action is one such operation  *)
(* on one file, and processes interleave and die between any two.          *)
(*                                                                         *)
(* A data file's content is determined by the configuration it was made    *)
(* with (seed and case count), so a whole file is represented by it and a  *)
(* SHA-256 by the content hashed.  The rows reach the two data files piece *)
(* by piece; a manifest, a model and its metadata are taken to be written  *)
(* under their temporary names in one piece each.                          *)
(***************************************************************************)
EXTENDS Naturals, FiniteSets

CONSTANTS
  Configs,     \* simulation configurations
  CaseCount,   \* configuration -> number of rows
  Generators,  \* `python -m simulator' processes with one output directory
  Trainers,    \* `python -m ml' processes over that data and one model
  Absent,      \* no such file
  MaxStarts,   \* bound: processes started
  MaxFaults    \* bound: processes that die or raise while writing

ASSUME CountAssumption == CaseCount \in [Configs -> Nat \ {0}]
ASSUME BoundsAssumption == MaxStarts \in Nat /\ MaxFaults \in Nat

VARIABLES
  tmp,          \* features.csv.tmp and ground_truth.csv.tmp
  file,         \* features.csv and ground_truth.csv
  manifestTmp, manifest,
  modelTmp, model,
  metadataTmp, metadata,
  gen,          \* generator -> its progress
  trainer,      \* trainer -> its progress
  disturbed,    \* history: trainers during whose load a data file changed
  halfSaved,    \* history: a trainer was cut off between model and metadata
  starts, faults

dataset == <<tmp, file, manifestTmp, manifest>>
artifacts == <<modelTmp, model, metadataTmp, metadata>>
bounds == <<starts, faults>>
history == <<disturbed, halfSaved>>
vars == <<dataset, artifacts, gen, trainer, history, bounds>>

Files == {"features", "truth"}

(* "partial": truncated and being written by one process; "torn": written  *)
(* by several.                                                             *)
Broken == {"partial", "torn"}
Content == Configs \cup Broken \cup {Absent}

(* `alone' is history: no other generator ran at the same time.            *)
Manifest == [config : Configs, features : Content, truth : Content,
             alone : BOOLEAN]

(* The version of a model is a hash of the manifest's hashes: `named'.     *)
Model == [named : [features : Content, truth : Content], data : Content]

Metadata == [named : [features : Content, truth : Content],
             artifact : Model \cup {Absent}, alone : BOOLEAN]

ASSUME ConfigsAssumption == Configs \cap Broken = {}
ASSUME AbsentAssumption ==
  /\ Absent \notin Configs \cup Broken
  /\ Absent \notin Manifest /\ Absent \notin Model /\ Absent \notin Metadata

(* Program order of a generator and of a trainer.                          *)
ProgramOrder ==
  [open_features |-> "open_truth", open_truth |-> "close_truth",
   close_truth |-> "replace_truth", replace_truth |-> "close_features",
   close_features |-> "replace_features", replace_features |-> "hash_features",
   hash_features |-> "hash_truth", hash_truth |-> "write_manifest",
   write_manifest |-> "replace_manifest", replace_manifest |-> "idle",
   read_manifest |-> "verify_features", verify_features |-> "verify_truth",
   verify_truth |-> "read_features", read_features |-> "read_truth",
   read_truth |-> "dump_model", dump_model |-> "replace_model",
   replace_model |-> "hash_model", hash_model |-> "write_metadata",
   write_metadata |-> "replace_metadata", replace_metadata |-> "idle"]

(* Seeded faults: checksums are not verified; the model is hashed before   *)
(* it is in place.                                                         *)
MutUnverified == [ProgramOrder EXCEPT !.read_manifest = "read_features"]
MutModelLate ==
  [ProgramOrder EXCEPT !.dump_model = "hash_model",
     !.hash_model = "replace_model", !.replace_model = "write_metadata"]
Then == ProgramOrder

GeneratorPoints ==
  {"open_features", "open_truth", "close_truth", "replace_truth",
   "close_features", "replace_features", "hash_features", "hash_truth",
   "write_manifest", "replace_manifest"}

TrainerPoints == DOMAIN Then \ GeneratorPoints

IdleGenerator == [pc |-> "idle"]

(* `handle' tells where the open temporary file is now: still under its    *)
(* temporary name, put in place or unlinked by someone else, or closed.    *)
Generator ==
  [pc : GeneratorPoints, config : Configs, alone : BOOLEAN,
   handle : [Files -> {"closed", "tmp", "file", "lost"}],
   hash : [Files -> Content]]

IdleTrainer == [pc |-> "idle"]

Trainer ==
  [pc : TrainerPoints, manifest : Manifest \cup {Absent}, alone : BOOLEAN,
   rows : [Files -> Content], artifact : Model \cup {Absent}]

BusyGenerators == {g \in Generators : gen[g].pc # "idle"}
BusyTrainers == {t \in Trainers : trainer[t].pc # "idle"}

Init ==
  /\ tmp = [f \in Files |-> Absent] /\ file = [f \in Files |-> Absent]
  /\ manifestTmp = Absent /\ manifest = Absent
  /\ modelTmp = Absent /\ model = Absent
  /\ metadataTmp = Absent /\ metadata = Absent
  /\ gen = [g \in Generators |-> IdleGenerator]
  /\ trainer = [t \in Trainers |-> IdleTrainer]
  /\ disturbed = {} /\ halfSaved = FALSE
  /\ starts = 0 /\ faults = 0

-------------------------------------------------------------------------------
(* Generating a data set.                                                  *)

StartGenerator(g, c) ==
  LET others == BusyGenerators IN
  /\ gen[g].pc = "idle" /\ starts < MaxStarts
  /\ starts' = starts + 1
  /\ gen' = [h \in Generators |->
       IF h = g THEN [pc |-> "open_features", config |-> c, alone |-> others = {},
                      handle |-> [f \in Files |-> "closed"],
                      hash |-> [f \in Files |-> Absent]]
       ELSE IF h \in others THEN [gen[h] EXCEPT !.alone = FALSE]
       ELSE gen[h]]
  /\ UNCHANGED <<dataset, artifacts, trainer, history, faults>>

(* The trainers whose check or read of the data files is under way.        *)
Loading == {t \in Trainers : trainer[t].pc \in
              {"verify_features", "verify_truth", "read_features", "read_truth"}}

(* The data files become `now'.                                            *)
SetFile(now) ==
  /\ file' = now
  /\ disturbed' = IF now = file THEN disturbed ELSE disturbed \cup Loading

Advance(g) == gen' = [gen EXCEPT ![g].pc = Then[@]]

(* _atomic_csv.__enter__: open(..., "w") truncates a temporary file that   *)
(* someone left or is still writing.  Seeded fault: it appends.            *)
MutOpened(f) == IF tmp[f] = Absent THEN "partial" ELSE "torn"
Opened(f) ==
  IF \E h \in BusyGenerators : gen[h].handle[f] = "tmp" THEN "torn" ELSE "partial"

OpenTemporary(g, f, at) ==
  /\ gen[g].pc = at
  /\ tmp' = [tmp EXCEPT ![f] = Opened(f)]
  /\ gen' = [gen EXCEPT ![g].pc = Then[@], ![g].handle[f] = "tmp"]
  /\ UNCHANGED <<file, manifestTmp, manifest, artifacts, trainer, history, bounds>>

(* What a file holds after the last rows of c are flushed into it: a file  *)
(* someone else wrote too may be overwritten completely or not.            *)
Flushed(before, c) == IF before = "partial" THEN {c} ELSE {c, "torn"}

(* Flushing and closing g's handle on f, with `left' one of the contents   *)
(* it may leave behind.                                                    *)
FlushInto(g, f, left) ==
  /\ tmp' = IF gen[g].handle[f] = "tmp" THEN [tmp EXCEPT ![f] = left] ELSE tmp
  /\ SetFile(IF gen[g].handle[f] = "file" THEN [file EXCEPT ![f] = left] ELSE file)

HandleContent(g, f) == IF gen[g].handle[f] = "tmp" THEN tmp[f] ELSE file[f]

(* _atomic_csv.__exit__ after the last row: close.                         *)
CloseTemporary(g, f, at) ==
  /\ gen[g].pc = at
  /\ \E left \in Flushed(HandleContent(g, f), gen[g].config) : FlushInto(g, f, left)
  /\ gen' = [gen EXCEPT ![g].pc = Then[@], ![g].handle[f] = "closed"]
  /\ UNCHANGED <<manifestTmp, manifest, artifacts, trainer, halfSaved, bounds>>

(* Where the open handles of the others are after f's temporary name is    *)
(* renamed or unlinked.                                                    *)
Renamed(f) ==
  [h \in Generators |->
     IF gen[h].pc = "idle" THEN gen[h]
     ELSE [gen[h] EXCEPT !.handle[f] = CASE @ = "tmp" -> "file"
                                         [] @ = "file" -> "lost"
                                         [] OTHER -> @]]

Unlinked(fs) ==
  [h \in Generators |->
     IF gen[h].pc = "idle" THEN gen[h]
     ELSE [gen[h] EXCEPT !.handle = [f \in Files |->
             IF f \in fs /\ @[f] = "tmp" THEN "lost" ELSE @[f]]]]

(* ...and rename into place.                                               *)
ReplaceFile(g, f, at) ==
  /\ gen[g].pc = at
  /\ tmp[f] # Absent
  /\ SetFile([file EXCEPT ![f] = tmp[f]])
  /\ tmp' = [tmp EXCEPT ![f] = Absent]
  /\ gen' = [Renamed(f) EXCEPT ![g].pc = Then[@]]
  /\ UNCHANGED <<manifestTmp, manifest, artifacts, trainer, halfSaved, bounds>>

(* An exception while the rows are written, or a rename of a temporary     *)
(* file that someone else moved: the handles still open are flushed and    *)
(* closed, and their temporary names unlinked, whosever they are now (up to*)
(* four operations on files, taken here as one).                           *)
Unwind(g) ==
  LET open == {f \in Files : gen[g].handle[f] # "closed"} IN
  /\ tmp' = [f \in Files |-> IF f \in open THEN Absent ELSE tmp[f]]
  /\ SetFile([f \in Files |->
       IF f \in open /\ gen[g].handle[f] = "file" THEN "torn" ELSE file[f]])
  /\ gen' = [Unlinked(open) EXCEPT ![g] = IdleGenerator]
  /\ UNCHANGED <<manifestTmp, manifest, artifacts, trainer, halfSaved, starts>>

RowsRaise(g) ==
  /\ gen[g].pc = "close_truth"
  /\ faults < MaxFaults /\ faults' = faults + 1
  /\ Unwind(g)

ReplaceRaises(g) ==
  /\ \/ gen[g].pc = "replace_truth" /\ tmp["truth"] = Absent
     \/ gen[g].pc = "replace_features" /\ tmp["features"] = Absent
  /\ Unwind(g)
  /\ UNCHANGED faults

(* _sha256 of the file now in place.                                       *)
HashFile(g, f, at) ==
  /\ gen[g].pc = at
  /\ file[f] # Absent
  /\ gen' = [gen EXCEPT ![g].pc = Then[@], ![g].hash[f] = file[f]]
  /\ UNCHANGED <<dataset, artifacts, trainer, history, bounds>>

(* _atomic_json                                                            *)
WriteManifest(g) ==
  /\ gen[g].pc = "write_manifest"
  /\ manifestTmp' = [config |-> gen[g].config, features |-> gen[g].hash["features"],
                     truth |-> gen[g].hash["truth"], alone |-> gen[g].alone]
  /\ Advance(g)
  /\ UNCHANGED <<tmp, file, manifest, artifacts, trainer, history, bounds>>

(* Seeded fault: a manifest that is there is kept.                         *)
MutReplaceManifest(g) ==
  /\ gen[g].pc = "replace_manifest"
  /\ manifest' = IF manifest = Absent THEN manifestTmp ELSE manifest
  /\ manifestTmp' = Absent
  /\ gen' = [gen EXCEPT ![g] = IdleGenerator]
  /\ UNCHANGED <<tmp, file, artifacts, trainer, history, bounds>>

(* Without the temporary file the rename raises and the process ends too.  *)
ReplaceManifest(g) ==
  /\ gen[g].pc = "replace_manifest"
  /\ manifest' = IF manifestTmp = Absent THEN manifest ELSE manifestTmp
  /\ manifestTmp' = Absent
  /\ gen' = [gen EXCEPT ![g] = IdleGenerator]
  /\ UNCHANGED <<tmp, file, artifacts, trainer, history, bounds>>

Generate(g) ==
  \/ OpenTemporary(g, "features", "open_features")
  \/ OpenTemporary(g, "truth", "open_truth")
  \/ CloseTemporary(g, "truth", "close_truth")
  \/ ReplaceFile(g, "truth", "replace_truth")
  \/ CloseTemporary(g, "features", "close_features")
  \/ ReplaceFile(g, "features", "replace_features")
  \/ RowsRaise(g)
  \/ ReplaceRaises(g)
  \/ HashFile(g, "features", "hash_features")
  \/ HashFile(g, "truth", "hash_truth")
  \/ WriteManifest(g)
  \/ ReplaceManifest(g)

-------------------------------------------------------------------------------
(* Loading a data set and training on it.                                  *)

StartTrainer(t) ==
  LET others == BusyTrainers IN
  /\ trainer[t].pc = "idle" /\ starts < MaxStarts
  /\ starts' = starts + 1
  /\ trainer' = [u \in Trainers |->
       IF u = t THEN [pc |-> "read_manifest", manifest |-> Absent,
                      alone |-> others = {}, artifact |-> Absent,
                      rows |-> [f \in Files |-> Absent]]
       ELSE IF u \in others THEN [trainer[u] EXCEPT !.alone = FALSE]
       ELSE trainer[u]]
  /\ disturbed' = disturbed \ {t}
  /\ UNCHANGED <<dataset, artifacts, gen, halfSaved, faults>>

StopTrainer(t) ==
  /\ trainer' = [trainer EXCEPT ![t] = IdleTrainer]
  /\ UNCHANGED <<dataset, gen, disturbed, bounds>>

ReadManifest(t) ==
  /\ trainer[t].pc = "read_manifest"
  /\ manifest # Absent
  /\ trainer' = [trainer EXCEPT ![t].pc = Then[@], ![t].manifest = manifest]
  /\ UNCHANGED <<dataset, artifacts, gen, history, bounds>>

VerifyFile(t, f, at) ==
  /\ trainer[t].pc = at
  /\ file[f] = trainer[t].manifest[f]
  /\ trainer' = [trainer EXCEPT ![t].pc = Then[@]]
  /\ UNCHANGED <<dataset, artifacts, gen, history, bounds>>

ReadFeatures(t) ==
  /\ trainer[t].pc = "read_features"
  /\ file["features"] # Absent
  /\ trainer' = [trainer EXCEPT ![t].pc = Then[@],
                                ![t].rows["features"] = file["features"]]
  /\ UNCHANGED <<dataset, artifacts, gen, history, bounds>>

(* Equally many rows with the same case ids, as many as the manifest says. *)
(* Ids depend on seed and index, so those of two configurations differ     *)
(* unless one is cut short: a broken file may agree with any other.        *)
Aligned(features, truth, m) ==
  /\ Absent \notin {features, truth}
  /\ \A c, d \in {features, truth} \cap Configs :
       c = d /\ CaseCount[c] = CaseCount[m.config]

ReadTruth(t) ==
  /\ trainer[t].pc = "read_truth"
  /\ Aligned(trainer[t].rows["features"], file["truth"], trainer[t].manifest)
  /\ trainer' = [trainer EXCEPT ![t].pc = Then[@], ![t].rows["truth"] = file["truth"]]
  /\ UNCHANGED <<dataset, artifacts, gen, history, bounds>>

(* load raises: no manifest, a wrong checksum, a missing file, bad rows.   *)
(* What is broken changes while it is written and may fail any check.      *)
LoadRaises(t) ==
  /\ CASE trainer[t].pc = "read_manifest" -> manifest = Absent
       [] trainer[t].pc = "verify_features" ->
            file["features"] # trainer[t].manifest.features
            \/ file["features"] \in Broken
       [] trainer[t].pc = "verify_truth" ->
            file["truth"] # trainer[t].manifest.truth \/ file["truth"] \in Broken
       [] trainer[t].pc = "read_features" -> file["features"] = Absent
       [] trainer[t].pc = "read_truth" ->
            ~Aligned(trainer[t].rows["features"], file["truth"], trainer[t].manifest)
            \/ {trainer[t].rows["features"], file["truth"]} \cap Broken # {}
       [] OTHER -> FALSE
  /\ StopTrainer(t)
  /\ UNCHANGED <<artifacts, halfSaved>>

(* _model_version: a hash of the manifest's hashes, not of the rows read.  *)
(* Seeded fault: the whole manifest is taken.                              *)
MutNamed(t) == trainer[t].manifest
Named(t) == [features |-> trainer[t].manifest.features,
             truth |-> trainer[t].manifest.truth]

(* Fit and ActionConditionalModel.save: dump to the temporary file ...     *)
DumpModel(t) ==
  /\ trainer[t].pc = "dump_model"
  /\ modelTmp' = [named |-> Named(t), data |-> trainer[t].rows["features"]]
  /\ trainer' = [trainer EXCEPT ![t].pc = Then[@]]
  /\ UNCHANGED <<dataset, model, metadataTmp, metadata, gen, history, bounds>>

(* ... and rename; another trainer may have moved it.                      *)
ReplaceModel(t) ==
  /\ trainer[t].pc = "replace_model"
  /\ modelTmp # Absent
  /\ model' = modelTmp /\ modelTmp' = Absent
  /\ trainer' = [trainer EXCEPT ![t].pc = Then[@]]
  /\ UNCHANGED <<dataset, metadataTmp, metadata, gen, history, bounds>>

ReplaceModelRaises(t) ==
  /\ trainer[t].pc = "replace_model" /\ modelTmp = Absent
  /\ StopTrainer(t)
  /\ UNCHANGED <<artifacts, halfSaved>>

HashModel(t) ==
  /\ trainer[t].pc = "hash_model"
  /\ trainer' = [trainer EXCEPT ![t].pc = Then[@], ![t].artifact = model]
  /\ UNCHANGED <<dataset, artifacts, gen, history, bounds>>

WriteMetadata(t) ==
  /\ trainer[t].pc = "write_metadata"
  /\ metadataTmp' = [named |-> Named(t), artifact |-> trainer[t].artifact,
                     alone |-> trainer[t].alone]
  /\ trainer' = [trainer EXCEPT ![t].pc = Then[@]]
  /\ UNCHANGED <<dataset, modelTmp, model, metadata, gen, history, bounds>>

ReplaceMetadata(t) ==
  /\ trainer[t].pc = "replace_metadata"
  /\ metadata' = IF metadataTmp = Absent THEN metadata ELSE metadataTmp
  /\ metadataTmp' = Absent
  /\ halfSaved' = (halfSaved /\ ~trainer[t].alone)
  /\ StopTrainer(t)
  /\ UNCHANGED <<modelTmp, model>>

Train(t) ==
  \/ ReadManifest(t)
  \/ VerifyFile(t, "features", "verify_features")
  \/ VerifyFile(t, "truth", "verify_truth")
  \/ ReadFeatures(t)
  \/ ReadTruth(t)
  \/ LoadRaises(t)
  \/ DumpModel(t)
  \/ ReplaceModel(t)
  \/ ReplaceModelRaises(t)
  \/ HashModel(t)
  \/ WriteMetadata(t)
  \/ ReplaceMetadata(t)

-------------------------------------------------------------------------------
(* A process is killed: what it wrote stays where it is.  A trainer's      *)
(* other exceptions end it in the same way.                                *)
KillGenerator(g) ==
  /\ gen[g].pc # "idle" /\ faults < MaxFaults
  /\ faults' = faults + 1
  /\ gen' = [gen EXCEPT ![g] = IdleGenerator]
  /\ UNCHANGED <<dataset, artifacts, trainer, history, starts>>

KillTrainer(t) ==
  /\ trainer[t].pc # "idle" /\ faults < MaxFaults
  /\ faults' = faults + 1
  /\ halfSaved' = (halfSaved \/ trainer[t].pc \in
                      {"hash_model", "write_metadata", "replace_metadata"})
  /\ trainer' = [trainer EXCEPT ![t] = IdleTrainer]
  /\ UNCHANGED <<dataset, artifacts, gen, disturbed, starts>>

Next ==
  \/ \E g \in Generators : \/ \E c \in Configs : StartGenerator(g, c)
                           \/ Generate(g) \/ KillGenerator(g)
  \/ \E t \in Trainers : StartTrainer(t) \/ Train(t) \/ KillTrainer(t)

Spec == Init /\ [][Next]_vars
-------------------------------------------------------------------------------

TypeOK ==
  /\ tmp \in [Files -> Content] /\ file \in [Files -> Content]
  /\ manifestTmp \in Manifest \cup {Absent} /\ manifest \in Manifest \cup {Absent}
  /\ modelTmp \in Model \cup {Absent} /\ model \in Model \cup {Absent}
  /\ metadataTmp \in Metadata \cup {Absent}
  /\ metadata \in Metadata \cup {Absent}
  /\ gen \in [Generators -> Generator \cup {IdleGenerator}]
  /\ trainer \in [Trainers -> Trainer \cup {IdleTrainer}]
  /\ disturbed \subseteq Trainers /\ halfSaved \in BOOLEAN
  /\ starts \in 0 .. MaxStarts /\ faults \in 0 .. MaxFaults

(* The manifest's checksums are those of the files in place.               *)
Loadable ==
  manifest # Absent /\ \A f \in Files : file[f] = manifest[f]

(* docs/simulator.md:20 -- the manifest tells configuration and checksums. *)
(* A generator that runs alone to its end leaves a loadable data set of    *)
(* its own configuration, whatever runs that died had left behind.         *)
FinishedIsLoadable ==
  [][\A g \in Generators :
       gen[g].pc = "replace_manifest" /\ gen'[g].pc = "idle" /\ faults' = faults
         /\ gen[g].alone =>
         /\ Loadable' /\ manifest'.config = gen[g].config
         /\ \A f \in Files : file'[f] = gen[g].config]_vars

(* docs/simulator.md:22-23 -- equal configurations give byte-identical     *)
(* files: generating again what is there never makes it unloadable, not    *)
(* even between two renames or after a crash.                              *)
RerunStaysLoadable ==
  [][/\ Loadable /\ manifest.alone
     /\ \A g \in BusyGenerators :
          gen[g].alone /\ gen[g].config = manifest.config
     => Loadable']_vars

HasLoaded(t) ==
  trainer[t].pc \in {"dump_model", "replace_model", "hash_model",
                     "write_metadata", "replace_metadata"}

(* A model's version is that of the data it was fitted to, unless a file   *)
(* was put in place between the check of its checksum and its reading.     *)
TrainedOnVerified ==
  \A t \in BusyTrainers :
    HasLoaded(t) /\ t \notin disturbed =>
      \A f \in Files : trainer[t].rows[f] = trainer[t].manifest[f]

(* docs/ml-model.md:28 -- the loader verifies both hashes before training. *)
(* So a model is fitted to the whole data of the configuration that its    *)
(* manifest tells, if that manifest's generator ran alone: after any       *)
(* number of generators that died, and with others at work by now.         *)
FittedToPublished ==
  \A t \in BusyTrainers :
    HasLoaded(t) /\ t \notin disturbed /\ trainer[t].manifest.alone =>
      \A f \in Files : trainer[t].rows[f] = trainer[t].manifest.config

(* The metadata of a trainer that ran alone describe the model they name   *)
(* by its checksum; and unless a trainer is at work, or was cut off since  *)
(* between its two files, that model is the one in place.                  *)
MetadataTellsModel ==
  metadata # Absent /\ metadata.alone =>
    /\ metadata.artifact # Absent
    /\ metadata.artifact.named = metadata.named
    /\ BusyTrainers = {} /\ ~halfSaved => model = metadata.artifact
===============================================================================
