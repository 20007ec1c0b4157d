----------------------- MODULE DatasetPublicationProofs -----------------------
(***************************************************************************)
(* The safety of DatasetPublication, for any number of generators,         *)
(* trainers and configurations and any bound on starts and faults.         *)
(*                                                                         *)
(* The first half lists what each process's step changes; each invariant   *)
(* then goes through the steps of generators, of trainers, their starts    *)
(* and their deaths.                                                       *)
(***************************************************************************)
EXTENDS DatasetPublication, TLAPS

-------------------------------------------------------------------------------
(* The program order, point by point.                                      *)

(* Where a generator goes from each of its points.                         *)
LEMMA GeneratorOrder ==
  /\ Then["open_features"] = "open_truth" /\ Then["open_truth"] = "close_truth"
  /\ Then["close_truth"] = "replace_truth"
  /\ Then["replace_truth"] = "close_features"
  /\ Then["close_features"] = "replace_features"
  /\ Then["replace_features"] = "hash_features"
  /\ Then["hash_features"] = "hash_truth" /\ Then["hash_truth"] = "write_manifest"
  /\ Then["write_manifest"] = "replace_manifest"
BY DEF Then, ProgramOrder

(* Where a trainer goes from each of its points.                           *)
LEMMA TrainerOrder ==
  /\ Then["read_manifest"] = "verify_features"
  /\ Then["verify_features"] = "verify_truth"
  /\ Then["verify_truth"] = "read_features" /\ Then["read_features"] = "read_truth"
  /\ Then["read_truth"] = "dump_model" /\ Then["dump_model"] = "replace_model"
  /\ Then["replace_model"] = "hash_model" /\ Then["hash_model"] = "write_metadata"
  /\ Then["write_metadata"] = "replace_metadata"
BY DEF Then, ProgramOrder

(* The points of a trainer are the other ones.                             *)
LEMMA TrainerPointsAre ==
  TrainerPoints =
    {"read_manifest", "verify_features", "verify_truth", "read_features",
     "read_truth", "dump_model", "replace_model", "hash_model",
     "write_metadata", "replace_metadata"}
BY DEF TrainerPoints, GeneratorPoints, Then, ProgramOrder

Handles == {"closed", "tmp", "file", "lost"}

(* A generator that moves on, opens or closes a handle, or takes a         *)
(* checksum is still a generator.                                          *)
LEMMA GeneratorKept ==
  ASSUME NEW r \in Generator, NEW p \in GeneratorPoints, NEW f \in Files,
         NEW h \in Handles, NEW c \in Content
  PROVE  /\ [r EXCEPT !.pc = p] \in Generator
         /\ [r EXCEPT !.pc = p, !.handle[f] = h] \in Generator
         /\ [r EXCEPT !.pc = p, !.hash[f] = c] \in Generator
         /\ [r EXCEPT !.handle[f] = h] \in Generator
         /\ [r EXCEPT !.alone = FALSE] \in Generator
BY DEF Generator, Handles

(* So is a trainer that moves on, reads or hashes.                         *)
LEMMA TrainerKept ==
  ASSUME NEW r \in Trainer, NEW p \in TrainerPoints, NEW f \in Files,
         NEW c \in Content, NEW m \in Manifest \cup {Absent},
         NEW a \in Model \cup {Absent}
  PROVE  /\ [r EXCEPT !.pc = p] \in Trainer
         /\ [r EXCEPT !.pc = p, !.manifest = m] \in Trainer
         /\ [r EXCEPT !.pc = p, !.rows[f] = c] \in Trainer
         /\ [r EXCEPT !.pc = p, !.artifact = a] \in Trainer
         /\ [r EXCEPT !.alone = FALSE] \in Trainer
BY DEF Trainer

(* A process that is at a point of its program is not an idle one.         *)
LEMMA BusyAreTyped ==
  ASSUME TypeOK
  PROVE  /\ \A g \in Generators : gen[g].pc # "idle" => gen[g] \in Generator
         /\ \A t \in Trainers : trainer[t].pc # "idle" => trainer[t] \in Trainer
BY DEF TypeOK, IdleGenerator, IdleTrainer

LEMMA IdleIsNoPoint ==
  "idle" \notin GeneratorPoints /\ "idle" \notin TrainerPoints
BY TrainerPointsAre DEF GeneratorPoints

-------------------------------------------------------------------------------
(* Types.                                                                  *)

(* What SetFile leaves is typed when what it is given is.                  *)
LEMMA SetFileTypes ==
  ASSUME TypeOK, NEW now \in [Files -> Content], SetFile(now)
  PROVE  file' \in [Files -> Content] /\ disturbed' \subseteq Trainers
BY DEF SetFile, TypeOK, Loading

(* The contents of the data files and of the open handles.                 *)
LEMMA ContentTypes ==
  ASSUME TypeOK
  PROVE  /\ \A f \in Files : tmp[f] \in Content /\ file[f] \in Content
         /\ \A g \in Generators, f \in Files : HandleContent(g, f) \in Content
         /\ \A f \in Files : Opened(f) \in Broken
         /\ \A c \in Configs, b \in Content : Flushed(b, c) \subseteq Content
         /\ Broken \subseteq Content
<1>1. \A f \in Files : tmp[f] \in Content /\ file[f] \in Content
  BY DEF TypeOK
<1>2. \A f \in Files : Opened(f) \in Broken
  BY DEF Opened, Broken
<1>3. \A c \in Configs, b \in Content : Flushed(b, c) \subseteq Content
  BY DEF Flushed, Content, Broken
<1> QED
  BY <1>1, <1>2, <1>3 DEF HandleContent, Content

(* A step of one generator, which puts r in its place.                     *)
LEMMA GeneratorPut ==
  ASSUME TypeOK, NEW g \in Generators, NEW r \in Generator \cup {IdleGenerator},
         gen' = [gen EXCEPT ![g] = r]
  PROVE  gen' \in [Generators -> Generator \cup {IdleGenerator}]
BY DEF TypeOK

LEMMA TrainerPut ==
  ASSUME TypeOK, NEW t \in Trainers, NEW r \in Trainer \cup {IdleTrainer},
         trainer' = [trainer EXCEPT ![t] = r]
  PROVE  trainer' \in [Trainers -> Trainer \cup {IdleTrainer}]
BY DEF TypeOK

(* The handles of the others after a rename or an unlinking.               *)
LEMMA HandlesMoved ==
  ASSUME TypeOK
  PROVE  /\ \A f \in Files :
              Renamed(f) \in [Generators -> Generator \cup {IdleGenerator}]
         /\ \A fs \in SUBSET Files :
              Unlinked(fs) \in [Generators -> Generator \cup {IdleGenerator}]
<1>1. ASSUME NEW f \in Files, NEW h \in Generators, gen[h].pc # "idle"
      PROVE  Renamed(f)[h] \in Generator
  <2>1. gen[h] \in Generator
    BY <1>1, BusyAreTyped
  <2> DEFINE moved == CASE gen[h].handle[f] = "tmp" -> "file"
                        [] gen[h].handle[f] = "file" -> "lost"
                        [] OTHER -> gen[h].handle[f]
  <2>2. moved \in Handles
    BY <2>1 DEF Generator, Handles
  <2>3. Renamed(f)[h] = [gen[h] EXCEPT !.handle[f] = moved]
    BY <1>1 DEF Renamed
  <2> HIDE DEF moved
  <2> QED
    BY <2>1, <2>2, <2>3 DEF Generator, Handles
<1>2. ASSUME NEW fs \in SUBSET Files, NEW h \in Generators, gen[h].pc # "idle"
      PROVE  Unlinked(fs)[h] \in Generator
  <2>1. gen[h] \in Generator
    BY <1>2, BusyAreTyped
  <2> DEFINE left == [f \in Files |-> IF f \in fs /\ gen[h].handle[f] = "tmp"
                                      THEN "lost" ELSE gen[h].handle[f]]
  <2>2. left \in [Files -> Handles]
    BY <2>1 DEF Generator, Handles
  <2>3. Unlinked(fs)[h] = [gen[h] EXCEPT !.handle = left]
    BY <1>2 DEF Unlinked
  <2> HIDE DEF left
  <2> QED
    BY <2>1, <2>2, <2>3 DEF Generator, Handles
<1>3. \A h \in Generators : gen[h].pc = "idle" => gen[h] \in Generator \cup {IdleGenerator}
  BY DEF TypeOK
<1>4. \A f \in Files, h \in Generators : Renamed(f)[h] \in Generator \cup {IdleGenerator}
  BY <1>1, <1>3 DEF Renamed
<1>5. \A fs \in SUBSET Files, h \in Generators :
        Unlinked(fs)[h] \in Generator \cup {IdleGenerator}
  BY <1>2, <1>3 DEF Unlinked
<1> QED
  BY <1>4, <1>5 DEF Renamed, Unlinked

(* Every step of a generator keeps the types.                              *)
LEMMA GenerateTypes ==
  ASSUME TypeOK, NEW g \in Generators, Generate(g)
  PROVE  TypeOK'
<1> USE IdleIsNoPoint
<1>0. Files = {"features", "truth"}
  BY DEF Files
<1>1. ASSUME NEW f \in Files, NEW at \in {"open_features", "open_truth"},
             OpenTemporary(g, f, at)
      PROVE  TypeOK'
  <2>1. Then[at] \in GeneratorPoints /\ at # "idle"
    BY GeneratorOrder DEF GeneratorPoints
  <2>2. gen[g] \in Generator
    BY <1>1, <2>1, BusyAreTyped DEF OpenTemporary
  <2> DEFINE r == [gen[g] EXCEPT !.pc = Then[at], !.handle[f] = "tmp"]
  <2>3. r \in Generator
    BY <2>1, <2>2, GeneratorKept, ContentTypes DEF Handles, TypeOK
  <2>4. gen' = [gen EXCEPT ![g] = r]
    BY <1>1, <2>2 DEF OpenTemporary, TypeOK, Generator
  <2> HIDE DEF r
  <2>5. tmp' \in [Files -> Content]
    BY <1>1, ContentTypes DEF OpenTemporary, TypeOK
  <2>6. gen' \in [Generators -> Generator \cup {IdleGenerator}]
    BY <2>3, <2>4, GeneratorPut
  <2> QED
    BY <1>1, <2>5, <2>6 DEF OpenTemporary, TypeOK, artifacts, history, bounds
<1>2. ASSUME NEW f \in Files, NEW at \in {"close_features", "close_truth"},
             CloseTemporary(g, f, at)
      PROVE  TypeOK'
  <2>1. Then[at] \in GeneratorPoints /\ at # "idle"
    BY GeneratorOrder DEF GeneratorPoints
  <2>2. gen[g] \in Generator
    BY <1>2, <2>1, BusyAreTyped DEF CloseTemporary
  <2> DEFINE r == [gen[g] EXCEPT !.pc = Then[at], !.handle[f] = "closed"]
  <2>3. r \in Generator
    BY <2>1, <2>2, GeneratorKept, ContentTypes DEF Handles, TypeOK
  <2>4. gen' = [gen EXCEPT ![g] = r]
    BY <1>2, <2>2 DEF CloseTemporary, TypeOK, Generator
  <2> HIDE DEF r
  <2>5. PICK left \in Content : FlushInto(g, f, left)
    BY <1>2, <2>2, ContentTypes DEF CloseTemporary, Generator
  <2>6. tmp' \in [Files -> Content]
    BY <2>5 DEF FlushInto, TypeOK
  <2> DEFINE now == IF gen[g].handle[f] = "file" THEN [file EXCEPT ![f] = left] ELSE file
  <2>7. now \in [Files -> Content] /\ SetFile(now)
    BY <2>5 DEF FlushInto, TypeOK
  <2>8. file' \in [Files -> Content] /\ disturbed' \subseteq Trainers
    BY <2>7, SetFileTypes
  <2>9. gen' \in [Generators -> Generator \cup {IdleGenerator}]
    BY <2>3, <2>4, GeneratorPut
  <2> QED
    BY <1>2, <2>6, <2>8, <2>9 DEF CloseTemporary, TypeOK, artifacts, bounds
<1>3. ASSUME NEW f \in Files, NEW at \in {"replace_features", "replace_truth"},
             ReplaceFile(g, f, at)
      PROVE  TypeOK'
  <2>1. Then[at] \in GeneratorPoints /\ at # "idle"
    BY GeneratorOrder DEF GeneratorPoints
  <2>2. gen[g].pc = at /\ gen[g].pc # "idle"
    BY <1>3, <2>1 DEF ReplaceFile
  <2>3. Renamed(f)[g] \in Generator /\ Renamed(f)[g].pc = at
    BY <2>2, HandlesMoved, BusyAreTyped DEF Renamed, IdleGenerator, Generator
  <2> DEFINE r == [Renamed(f)[g] EXCEPT !.pc = Then[at]]
  <2>4. r \in Generator
    BY <2>1, <2>3 DEF Generator
  <2>5. gen' = [Renamed(f) EXCEPT ![g] = r]
    BY <1>3, <2>3 DEF ReplaceFile
  <2> HIDE DEF r
  <2>6. gen' \in [Generators -> Generator \cup {IdleGenerator}]
    BY <2>4, <2>5, HandlesMoved
  <2>7. tmp' \in [Files -> Content]
    BY <1>3, <1>0, ContentTypes DEF ReplaceFile, TypeOK, Content
  <2>8. [file EXCEPT ![f] = tmp[f]] \in [Files -> Content]
    BY DEF TypeOK
  <2>9. file' \in [Files -> Content] /\ disturbed' \subseteq Trainers
    BY <1>3, <2>8, SetFileTypes DEF ReplaceFile
  <2> QED
    BY <1>3, <2>6, <2>7, <2>9 DEF ReplaceFile, TypeOK, artifacts, bounds
<1>4. ASSUME Unwind(g), faults' \in 0 .. MaxFaults
      PROVE  TypeOK'
  <2> DEFINE open == {f \in Files : gen[g].handle[f] # "closed"}
  <2>1. Unlinked(open) \in [Generators -> Generator \cup {IdleGenerator}]
    BY HandlesMoved
  <2>2. gen' \in [Generators -> Generator \cup {IdleGenerator}]
    BY <1>4, <2>1 DEF Unwind
  <2>3. tmp' \in [Files -> Content]
    BY <1>4, ContentTypes DEF Unwind, Content
  <2> DEFINE now == [f \in Files |->
                       IF f \in open /\ gen[g].handle[f] = "file" THEN "torn" ELSE file[f]]
  <2>4. now \in [Files -> Content] /\ SetFile(now)
    BY <1>4, ContentTypes DEF Unwind, Content, Broken
  <2>5. file' \in [Files -> Content] /\ disturbed' \subseteq Trainers
    BY <2>4, SetFileTypes
  <2> QED
    BY <1>4, <2>2, <2>3, <2>5 DEF Unwind, TypeOK, artifacts
<1>5. ASSUME NEW f \in Files, NEW at \in {"hash_features", "hash_truth"},
             HashFile(g, f, at)
      PROVE  TypeOK'
  <2>1. Then[at] \in GeneratorPoints /\ at # "idle"
    BY GeneratorOrder DEF GeneratorPoints
  <2>2. gen[g] \in Generator
    BY <1>5, <2>1, BusyAreTyped DEF HashFile
  <2> DEFINE r == [gen[g] EXCEPT !.pc = Then[at], !.hash[f] = file[f]]
  <2>3. r \in Generator
    BY <2>1, <2>2, ContentTypes DEF Generator
  <2>4. gen' = [gen EXCEPT ![g] = r]
    BY <1>5, <2>2 DEF HashFile, TypeOK, Generator
  <2> HIDE DEF r
  <2>5. gen' \in [Generators -> Generator \cup {IdleGenerator}]
    BY <2>3, <2>4, GeneratorPut
  <2> QED
    BY <1>5, <2>5 DEF HashFile, TypeOK, dataset, artifacts, history, bounds
<1>6. CASE WriteManifest(g)
  <2>1. gen[g] \in Generator
    BY <1>6, BusyAreTyped DEF WriteManifest
  <2> DEFINE r == [gen[g] EXCEPT !.pc = "replace_manifest"]
  <2>2. r \in Generator
    BY <2>1 DEF Generator, GeneratorPoints
  <2>3. gen' = [gen EXCEPT ![g] = r]
    BY <1>6, GeneratorOrder DEF WriteManifest, Advance
  <2> HIDE DEF r
  <2>4. gen' \in [Generators -> Generator \cup {IdleGenerator}]
    BY <2>2, <2>3, GeneratorPut
  <2>5. manifestTmp' \in Manifest
    BY <1>6, <1>0, <2>1 DEF WriteManifest, Manifest, Generator
  <2> QED
    BY <1>6, <2>4, <2>5 DEF WriteManifest, TypeOK, artifacts, history, bounds
<1>7. CASE ReplaceManifest(g)
  BY <1>7 DEF ReplaceManifest, TypeOK, artifacts, history, bounds
<1>8. CASE RowsRaise(g)
  <2>1. faults' \in 0 .. MaxFaults
    BY <1>8, BoundsAssumption DEF RowsRaise, TypeOK
  <2> QED
    BY <1>4, <1>8, <2>1 DEF RowsRaise
<1>9. CASE ReplaceRaises(g)
  BY <1>4, <1>9 DEF ReplaceRaises, TypeOK
<1> QED
  BY <1>0, <1>1, <1>2, <1>3, <1>5, <1>6, <1>7, <1>8, <1>9 DEF Generate

(* What a trainer calls its model is a pair of checksums, once it has a    *)
(* manifest: every trainer past its first point has one.                   *)
HaveManifest ==
  \A t \in BusyTrainers :
    trainer[t].pc # "read_manifest" => trainer[t].manifest \in Manifest

Typed == TypeOK /\ HaveManifest

LEMMA NamedTypes ==
  ASSUME Typed, NEW t \in BusyTrainers, trainer[t].pc # "read_manifest"
  PROVE  Named(t) \in [features : Content, truth : Content]
BY DEF Typed, HaveManifest, Named, Manifest

(* Every step of a trainer keeps the types.                                *)
LEMMA TrainTypes ==
  ASSUME Typed, NEW t \in Trainers, Train(t)
  PROVE  TypeOK'
<1> USE IdleIsNoPoint DEF Typed
<1>0. Files = {"features", "truth"}
  BY DEF Files
<1>1. \A p \in TrainerPoints \ {"replace_metadata"} : Then[p] \in TrainerPoints
  BY TrainerOrder, TrainerPointsAre
<1>2. trainer[t].pc # "idle" => trainer[t] \in Trainer
  BY BusyAreTyped
<1>3. \A p : p \in TrainerPoints => p # "idle"
  OBVIOUS
<1>4. CASE ReadManifest(t)
  <2>1. trainer[t] \in Trainer
    BY <1>4, <1>2 DEF ReadManifest
  <2> DEFINE r == [trainer[t] EXCEPT !.pc = Then["read_manifest"], !.manifest = manifest]
  <2>2. r \in Trainer
    BY <2>1, <1>1, TrainerPointsAre DEF Trainer, TypeOK
  <2>3. trainer' = [trainer EXCEPT ![t] = r]
    BY <1>4, <2>1 DEF ReadManifest, TypeOK, Trainer
  <2> HIDE DEF r
  <2>4. trainer' \in [Trainers -> Trainer \cup {IdleTrainer}]
    BY <2>2, <2>3, TrainerPut
  <2> QED
    BY <1>4, <2>4 DEF ReadManifest, TypeOK, dataset, artifacts, history, bounds
<1>5. ASSUME NEW at \in TrainerPoints \ {"replace_metadata"}, trainer[t].pc = at,
             trainer' = [trainer EXCEPT ![t].pc = Then[@]]
      PROVE  trainer' \in [Trainers -> Trainer \cup {IdleTrainer}]
  <2>1. trainer[t] \in Trainer
    BY <1>5, <1>2, <1>3
  <2> DEFINE r == [trainer[t] EXCEPT !.pc = Then[at]]
  <2>2. r \in Trainer
    BY <2>1, <1>1 DEF Trainer
  <2>3. trainer' = [trainer EXCEPT ![t] = r]
    BY <1>5, <2>1 DEF TypeOK, Trainer
  <2> HIDE DEF r
  <2> QED
    BY <2>2, <2>3, TrainerPut
<1>6. ASSUME NEW f \in Files, NEW at \in {"verify_features", "verify_truth"},
             VerifyFile(t, f, at)
      PROVE  TypeOK'
  <2>1. trainer' \in [Trainers -> Trainer \cup {IdleTrainer}]
    BY <1>5, <1>6, TrainerPointsAre DEF VerifyFile
  <2> QED
    BY <1>6, <2>1 DEF VerifyFile, TypeOK, dataset, artifacts, history, bounds
<1>7. ASSUME NEW f \in Files, NEW at \in {"read_features", "read_truth"},
             trainer[t].pc = at,
             trainer' = [trainer EXCEPT ![t].pc = Then[@], ![t].rows[f] = file[f]]
      PROVE  trainer' \in [Trainers -> Trainer \cup {IdleTrainer}]
  <2>1. trainer[t] \in Trainer
    BY <1>7, <1>2
  <2> DEFINE r == [trainer[t] EXCEPT !.pc = Then[at], !.rows[f] = file[f]]
  <2>2. Then[at] \in TrainerPoints
    BY <1>1, TrainerPointsAre
  <2>3. r \in Trainer
    BY <2>1, <2>2, ContentTypes DEF Trainer
  <2>4. trainer' = [trainer EXCEPT ![t] = r]
    BY <1>7, <2>1 DEF TypeOK, Trainer
  <2> HIDE DEF r
  <2> QED
    BY <2>3, <2>4, TrainerPut
<1>8. CASE ReadFeatures(t)
  <2>1. trainer' \in [Trainers -> Trainer \cup {IdleTrainer}]
    BY <1>7, <1>8, <1>0 DEF ReadFeatures
  <2> QED
    BY <1>8, <2>1 DEF ReadFeatures, TypeOK, dataset, artifacts, history, bounds
<1>9. CASE ReadTruth(t)
  <2>1. trainer' \in [Trainers -> Trainer \cup {IdleTrainer}]
    BY <1>7, <1>9, <1>0 DEF ReadTruth
  <2> QED
    BY <1>9, <2>1 DEF ReadTruth, TypeOK, dataset, artifacts, history, bounds
<1>10. ASSUME StopTrainer(t), artifacts' = artifacts, halfSaved' = halfSaved
       PROVE  TypeOK'
  BY <1>10 DEF StopTrainer, TypeOK, dataset, artifacts, bounds
<1>11. CASE LoadRaises(t)
  BY <1>10, <1>11 DEF LoadRaises
<1>12. CASE ReplaceModelRaises(t)
  BY <1>10, <1>12 DEF ReplaceModelRaises
<1>13. CASE DumpModel(t)
  <2>1. trainer' \in [Trainers -> Trainer \cup {IdleTrainer}]
    BY <1>5, <1>13, TrainerPointsAre DEF DumpModel
  <2>2. Named(t) \in [features : Content, truth : Content]
    BY <1>13, NamedTypes DEF DumpModel, BusyTrainers
  <2>3. trainer[t].rows["features"] \in Content
    BY <1>13, <1>2, <1>0 DEF DumpModel, Trainer
  <2>4. modelTmp' \in Model
    BY <1>13, <2>2, <2>3 DEF DumpModel, Model
  <2> QED
    BY <1>13, <2>1, <2>4 DEF DumpModel, TypeOK, dataset, history, bounds
<1>14. CASE ReplaceModel(t)
  <2>1. trainer' \in [Trainers -> Trainer \cup {IdleTrainer}]
    BY <1>5, <1>14, TrainerPointsAre DEF ReplaceModel
  <2> QED
    BY <1>14, <2>1 DEF ReplaceModel, TypeOK, dataset, history, bounds
<1>15. CASE HashModel(t)
  <2>1. trainer[t] \in Trainer
    BY <1>15, <1>2 DEF HashModel
  <2> DEFINE r == [trainer[t] EXCEPT !.pc = Then["hash_model"], !.artifact = model]
  <2>2. r \in Trainer
    BY <2>1, <1>1, TrainerPointsAre DEF Trainer, TypeOK
  <2>3. trainer' = [trainer EXCEPT ![t] = r]
    BY <1>15, <2>1 DEF HashModel, TypeOK, Trainer
  <2> HIDE DEF r
  <2>4. trainer' \in [Trainers -> Trainer \cup {IdleTrainer}]
    BY <2>2, <2>3, TrainerPut
  <2> QED
    BY <1>15, <2>4 DEF HashModel, TypeOK, dataset, artifacts, history, bounds
<1>16. CASE WriteMetadata(t)
  <2>1. trainer' \in [Trainers -> Trainer \cup {IdleTrainer}]
    BY <1>5, <1>16, TrainerPointsAre DEF WriteMetadata
  <2>2. Named(t) \in [features : Content, truth : Content]
    BY <1>16, NamedTypes DEF WriteMetadata, BusyTrainers
  <2>3. trainer[t].artifact \in Model \cup {Absent} /\ trainer[t].alone \in BOOLEAN
    BY <1>16, <1>2 DEF WriteMetadata, Trainer
  <2>4. metadataTmp' \in Metadata
    BY <1>16, <2>2, <2>3 DEF WriteMetadata, Metadata
  <2> QED
    BY <1>16, <2>1, <2>4 DEF WriteMetadata, TypeOK, dataset, history, bounds
<1>17. CASE ReplaceMetadata(t)
  <2>1. halfSaved' \in BOOLEAN
    BY <1>17 DEF ReplaceMetadata, TypeOK
  <2>2. trainer' \in [Trainers -> Trainer \cup {IdleTrainer}]
    BY <1>17 DEF ReplaceMetadata, StopTrainer, TypeOK
  <2> QED
    BY <1>17, <2>1, <2>2 DEF ReplaceMetadata, StopTrainer, TypeOK, dataset, bounds
<1> QED
  BY <1>0, <1>4, <1>6, <1>8, <1>9, <1>11, <1>12, <1>13, <1>14, <1>15, <1>16, <1>17
     DEF Train

(* Starting and killing processes keeps the types.                         *)
LEMMA StartAndKillTypes ==
  ASSUME TypeOK,
         \/ \E g \in Generators, c \in Configs : StartGenerator(g, c)
         \/ \E g \in Generators : KillGenerator(g)
         \/ \E t \in Trainers : StartTrainer(t) \/ KillTrainer(t)
  PROVE  TypeOK'
<1> USE IdleIsNoPoint, BoundsAssumption
<1>1. ASSUME NEW g \in Generators, NEW c \in Configs, StartGenerator(g, c)
      PROVE  TypeOK'
  <2> DEFINE new == [pc |-> "open_features", config |-> c, alone |-> BusyGenerators = {},
                     handle |-> [f \in Files |-> "closed"],
                     hash |-> [f \in Files |-> Absent]]
  <2>0. (BusyGenerators = {}) \in BOOLEAN
    OBVIOUS
  <2>1. new \in Generator
    BY <2>0 DEF Generator, GeneratorPoints, Content
  <2> HIDE DEF new
  <2>2. \A h \in BusyGenerators : [gen[h] EXCEPT !.alone = FALSE] \in Generator
    BY BusyAreTyped DEF BusyGenerators, Generator
  <2>3. gen' = [h \in Generators |->
                  IF h = g THEN new
                  ELSE IF h \in BusyGenerators THEN [gen[h] EXCEPT !.alone = FALSE]
                  ELSE gen[h]]
    BY <1>1 DEF StartGenerator, new
  <2>4. gen' \in [Generators -> Generator \cup {IdleGenerator}]
    BY <2>1, <2>2, <2>3 DEF TypeOK
  <2>5. starts' \in 0 .. MaxStarts
    BY <1>1 DEF StartGenerator, TypeOK
  <2> QED
    BY <1>1, <2>4, <2>5 DEF StartGenerator, TypeOK, dataset, artifacts, history
<1>2. ASSUME NEW g \in Generators, KillGenerator(g)
      PROVE  TypeOK'
  BY <1>2 DEF KillGenerator, TypeOK, dataset, artifacts, history
<1>3. ASSUME NEW t \in Trainers, StartTrainer(t)
      PROVE  TypeOK'
  <2> DEFINE new == [pc |-> "read_manifest", manifest |-> Absent,
                     alone |-> BusyTrainers = {}, artifact |-> Absent,
                     rows |-> [f \in Files |-> Absent]]
  <2>0. (BusyTrainers = {}) \in BOOLEAN
    OBVIOUS
  <2>1. new \in Trainer
    BY <2>0, TrainerPointsAre DEF Trainer, Content
  <2> HIDE DEF new
  <2>2. \A u \in BusyTrainers : [trainer[u] EXCEPT !.alone = FALSE] \in Trainer
    BY BusyAreTyped DEF BusyTrainers, Trainer
  <2>3. trainer' = [u \in Trainers |->
                  IF u = t THEN new
                  ELSE IF u \in BusyTrainers THEN [trainer[u] EXCEPT !.alone = FALSE]
                  ELSE trainer[u]]
    BY <1>3 DEF StartTrainer, new
  <2>4. trainer' \in [Trainers -> Trainer \cup {IdleTrainer}]
    BY <2>1, <2>2, <2>3 DEF TypeOK
  <2>5. starts' \in 0 .. MaxStarts
    BY <1>3 DEF StartTrainer, TypeOK
  <2> QED
    BY <1>3, <2>4, <2>5 DEF StartTrainer, TypeOK, dataset, artifacts
<1>4. ASSUME NEW t \in Trainers, KillTrainer(t)
      PROVE  TypeOK'
  <2>1. halfSaved' \in BOOLEAN
    BY <1>4 DEF KillTrainer, TypeOK
  <2>2. faults' \in 0 .. MaxFaults
    BY <1>4 DEF KillTrainer, TypeOK
  <2>3. trainer' \in [Trainers -> Trainer \cup {IdleTrainer}]
    BY <1>4 DEF KillTrainer, TypeOK
  <2> QED
    BY <1>4, <2>1, <2>2, <2>3 DEF KillTrainer, TypeOK, dataset, artifacts
<1> QED
  BY <1>1, <1>2, <1>3, <1>4

-------------------------------------------------------------------------------
(* What a step of one trainer does to it.                                  *)

(* The trainer passes one point of its program, and what it takes there.   *)
Progress(t) ==
  LET pc == trainer[t].pc IN
  /\ pc \in TrainerPoints \ {"replace_metadata"} /\ trainer'[t].pc = Then[pc]
  /\ trainer'[t].alone = trainer[t].alone
  /\ pc = "read_manifest" => manifest # Absent /\ trainer'[t].manifest = manifest
  /\ pc # "read_manifest" => trainer'[t].manifest = trainer[t].manifest
  /\ pc = "verify_features" => file["features"] = trainer[t].manifest["features"]
  /\ pc = "verify_truth" => file["truth"] = trainer[t].manifest["truth"]
  /\ pc = "read_features" =>
       trainer'[t].rows = [trainer[t].rows EXCEPT !["features"] = file["features"]]
  /\ pc = "read_truth" =>
       /\ Aligned(trainer[t].rows["features"], file["truth"], trainer[t].manifest)
       /\ trainer'[t].rows = [trainer[t].rows EXCEPT !["truth"] = file["truth"]]
  /\ pc \notin {"read_features", "read_truth"} => trainer'[t].rows = trainer[t].rows
  /\ pc = "hash_model" => trainer'[t].artifact = model
  /\ pc # "hash_model" => trainer'[t].artifact = trainer[t].artifact

(* A step of a trainer touches neither data files nor generators nor the   *)
(* other trainers; it ends the trainer or takes it one point further.      *)
LEMMA TrainSteps ==
  ASSUME TypeOK, NEW t \in Trainers, Train(t)
  PROVE  /\ \A v \in Trainers \ {t} : trainer'[v] = trainer[v]
         /\ dataset' = dataset /\ gen' = gen /\ disturbed' = disturbed
         /\ trainer[t].pc # "idle"
         /\ trainer'[t].pc = "idle" \/ Progress(t)
<1> USE IdleIsNoPoint
<1>1. trainer[t].pc # "idle" => trainer[t] \in Trainer
  BY BusyAreTyped
<1>2. ASSUME trainer' = [trainer EXCEPT ![t].pc = Then[@]],
             trainer[t].pc \in TrainerPoints \ {"replace_metadata", "read_manifest",
               "verify_features", "verify_truth", "read_features", "read_truth",
               "hash_model"}
      PROVE  Progress(t)
  BY <1>1, <1>2 DEF Progress, TypeOK, Trainer
<1>3. CASE ReadManifest(t)
  BY <1>1, <1>3, TrainerPointsAre DEF ReadManifest, Progress, TypeOK, Trainer, history
<1>4. CASE VerifyFile(t, "features", "verify_features")
  BY <1>1, <1>4, TrainerPointsAre DEF VerifyFile, Progress, TypeOK, Trainer, history
<1>5. CASE VerifyFile(t, "truth", "verify_truth")
  BY <1>1, <1>5, TrainerPointsAre DEF VerifyFile, Progress, TypeOK, Trainer, history
<1>6. CASE ReadFeatures(t)
  BY <1>1, <1>6, TrainerPointsAre DEF ReadFeatures, Progress, TypeOK, Trainer, history
<1>7. CASE ReadTruth(t)
  BY <1>1, <1>7, TrainerPointsAre DEF ReadTruth, Progress, TypeOK, Trainer, history
<1>8. CASE LoadRaises(t)
  BY <1>8 DEF LoadRaises, StopTrainer, IdleTrainer, TypeOK
<1>9. CASE DumpModel(t)
  BY <1>2, <1>9, TrainerPointsAre DEF DumpModel, TypeOK, history
<1>10. CASE ReplaceModel(t)
  BY <1>2, <1>10, TrainerPointsAre DEF ReplaceModel, TypeOK, history
<1>11. CASE ReplaceModelRaises(t)
  BY <1>11 DEF ReplaceModelRaises, StopTrainer, IdleTrainer, TypeOK
<1>12. CASE HashModel(t)
  BY <1>1, <1>12, TrainerPointsAre DEF HashModel, Progress, TypeOK, Trainer, history
<1>13. CASE WriteMetadata(t)
  BY <1>2, <1>13, TrainerPointsAre DEF WriteMetadata, TypeOK, history
<1>14. CASE ReplaceMetadata(t)
  BY <1>14 DEF ReplaceMetadata, StopTrainer, IdleTrainer, TypeOK
<1> QED
  BY <1>3, <1>4, <1>5, <1>6, <1>7, <1>8, <1>9, <1>10, <1>11, <1>12, <1>13, <1>14
     DEF Train

(* A trainer that starts is at its first point; the others only learn that *)
(* they are not alone.                                                     *)
LEMMA StartTrainerStep ==
  ASSUME TypeOK, NEW t \in Trainers, StartTrainer(t)
  PROVE  /\ trainer[t].pc = "idle" /\ trainer'[t].pc = "read_manifest"
         /\ trainer'[t].alone = (BusyTrainers = {})
         /\ \A v \in Trainers \ {t} : trainer'[v].pc = trainer[v].pc
         /\ \A v \in BusyTrainers :
              /\ trainer'[v].rows = trainer[v].rows /\ ~trainer'[v].alone
              /\ trainer'[v].manifest = trainer[v].manifest
              /\ trainer'[v].artifact = trainer[v].artifact
         /\ dataset' = dataset /\ gen' = gen /\ disturbed' = disturbed \ {t}
<1>1. \A v \in BusyTrainers : trainer[v] \in Trainer
  BY BusyAreTyped DEF BusyTrainers
<1>2. \A v \in BusyTrainers : trainer'[v] = [trainer[v] EXCEPT !.alone = FALSE]
  BY DEF StartTrainer, BusyTrainers
<1> QED
  BY <1>1, <1>2 DEF StartTrainer, Trainer, BusyTrainers

(* What no generator touches.                                              *)
LEMMA GeneratorsLeave ==
  ASSUME NEW g \in Generators,
         (\E c \in Configs : StartGenerator(g, c)) \/ Generate(g) \/ KillGenerator(g)
  PROVE  artifacts' = artifacts /\ trainer' = trainer /\ halfSaved' = halfSaved
BY DEF StartGenerator, Generate, OpenTemporary, CloseTemporary, ReplaceFile,
       RowsRaise, ReplaceRaises, Unwind, HashFile, WriteManifest, ReplaceManifest,
       KillGenerator, history, artifacts

(* A killed trainer is idle, and nothing but halfSaved is touched.         *)
LEMMA KillTrainerStep ==
  ASSUME TypeOK, NEW t \in Trainers, KillTrainer(t)
  PROVE  /\ trainer'[t].pc = "idle"
         /\ \A v \in Trainers \ {t} : trainer'[v] = trainer[v]
         /\ dataset' = dataset /\ artifacts' = artifacts /\ gen' = gen
         /\ disturbed' = disturbed
BY DEF KillTrainer, TypeOK, IdleTrainer

(* The steps of the whole system, by who takes them.                       *)
LEMMA WhoSteps ==
  ASSUME [Next]_vars
  PROVE  \/ \E g \in Generators :
              (\E c \in Configs : StartGenerator(g, c)) \/ Generate(g) \/ KillGenerator(g)
         \/ \E t \in Trainers : StartTrainer(t) \/ Train(t) \/ KillTrainer(t)
         \/ UNCHANGED vars
BY DEF Next

(* Every trainer past the manifest has one, as every step leaves it.       *)
LEMMA HaveManifestStep ==
  ASSUME Typed, [Next]_vars
  PROVE  HaveManifest'
<1> USE DEF Typed
<1>1. ASSUME NEW g \in Generators,
             (\E c \in Configs : StartGenerator(g, c)) \/ Generate(g) \/ KillGenerator(g)
      PROVE  HaveManifest'
  <2>1. trainer' = trainer
    BY <1>1, GeneratorsLeave
  <2> QED
    BY <2>1 DEF HaveManifest, BusyTrainers
<1>2. ASSUME NEW t \in Trainers, StartTrainer(t)
      PROVE  HaveManifest'
  BY <1>2, StartTrainerStep DEF HaveManifest, BusyTrainers
<1>3. ASSUME NEW t \in Trainers, Train(t)
      PROVE  HaveManifest'
  <2>1. ASSUME NEW v \in BusyTrainers', v # t, trainer'[v].pc # "read_manifest"
        PROVE  trainer'[v].manifest \in Manifest
    BY <1>3, <2>1, TrainSteps DEF HaveManifest, BusyTrainers
  <2>2. ASSUME trainer'[t].pc # "idle", trainer'[t].pc # "read_manifest"
        PROVE  trainer'[t].manifest \in Manifest
    BY <1>3, <2>2, TrainSteps DEF Progress, HaveManifest, BusyTrainers, TypeOK
  <2> QED
    BY <2>1, <2>2 DEF HaveManifest, BusyTrainers
<1>4. ASSUME NEW t \in Trainers, KillTrainer(t)
      PROVE  HaveManifest'
  BY <1>4, KillTrainerStep DEF HaveManifest, BusyTrainers
<1>5. CASE UNCHANGED vars
  BY <1>5 DEF vars, HaveManifest, BusyTrainers
<1> QED
  BY <1>1, <1>2, <1>3, <1>4, <1>5, WhoSteps

LEMMA TypedStep ==
  ASSUME Typed, [Next]_vars
  PROVE  Typed'
<1>1. ASSUME UNCHANGED vars PROVE TypeOK'
  BY <1>1 DEF vars, dataset, artifacts, history, bounds, Typed, TypeOK
<1>2. ASSUME \E g \in Generators :
             (\E c \in Configs : StartGenerator(g, c)) \/ Generate(g) \/ KillGenerator(g)
      PROVE  TypeOK'
  BY <1>2, GenerateTypes, StartAndKillTypes DEF Typed
<1>3. ASSUME \E t \in Trainers : StartTrainer(t) \/ Train(t) \/ KillTrainer(t)
      PROVE  TypeOK'
  BY <1>3, TrainTypes, StartAndKillTypes DEF Typed
<1>4. TypeOK'
  BY <1>1, <1>2, <1>3, WhoSteps
<1> QED
  BY <1>4, HaveManifestStep DEF Typed

LEMMA TypedInit == Init => Typed
<1> SUFFICES ASSUME Init PROVE Typed
  OBVIOUS
<1>1. TypeOK
  <2>1. tmp \in [Files -> Content] /\ file \in [Files -> Content]
    BY DEF Init, Content
  <2>2. /\ gen \in [Generators -> Generator \cup {IdleGenerator}]
        /\ trainer \in [Trainers -> Trainer \cup {IdleTrainer}]
    BY DEF Init
  <2>3. starts \in 0 .. MaxStarts /\ faults \in 0 .. MaxFaults
    BY BoundsAssumption DEF Init
  <2> QED
    BY <2>1, <2>2, <2>3 DEF Init, TypeOK
<1>2. HaveManifest
  BY DEF Init, HaveManifest, BusyTrainers, IdleTrainer
<1> QED
  BY <1>1, <1>2 DEF Typed

(* TypeOK: files, temporary files, generators and trainers always hold     *)
(* what the model of src/simulator/generator.py and src/ml declares, and   *)
(* no trainer names a model after a manifest it has not read.              *)
THEOREM TypeCorrect == Spec => []TypeOK
<1>1. Spec => []Typed
  BY TypedInit, TypedStep, PTL DEF Spec
<1>2. Typed => TypeOK
  BY DEF Typed
<1> QED
  BY <1>1, <1>2, PTL

-------------------------------------------------------------------------------
(* What was checked is what is read.                                       *)

(* What a generator does to the data files disturbs every load under way.  *)
LEMMA GeneratorsDisturb ==
  ASSUME TypeOK, NEW g \in Generators,
         (\E c \in Configs : StartGenerator(g, c)) \/ Generate(g) \/ KillGenerator(g)
  PROVE  disturbed \subseteq disturbed' /\ (file' # file => Loading \subseteq disturbed')
<1>1. ASSUME NEW now, SetFile(now)
      PROVE  disturbed \subseteq disturbed' /\ (file' # file => Loading \subseteq disturbed')
  BY <1>1 DEF SetFile
<1>2. ASSUME NEW f \in Files, NEW at, CloseTemporary(g, f, at) \/ ReplaceFile(g, f, at)
      PROVE  \E now : SetFile(now)
  BY <1>2 DEF CloseTemporary, FlushInto, ReplaceFile
<1>3. ASSUME RowsRaise(g) \/ ReplaceRaises(g)
      PROVE  \E now : SetFile(now)
  BY <1>3 DEF RowsRaise, ReplaceRaises, Unwind
<1>4. ASSUME \/ \E c \in Configs : StartGenerator(g, c)
             \/ \E f \in Files, at \in {"open_features", "open_truth"} : OpenTemporary(g, f, at)
             \/ \E f \in Files, at \in {"hash_features", "hash_truth"} : HashFile(g, f, at)
             \/ WriteManifest(g) \/ ReplaceManifest(g) \/ KillGenerator(g)
      PROVE  disturbed' = disturbed /\ file' = file
  BY <1>4 DEF StartGenerator, OpenTemporary, HashFile, WriteManifest, ReplaceManifest,
              KillGenerator, dataset, history
<1>5. "features" \in Files /\ "truth" \in Files
  BY DEF Files
<1> QED
  BY <1>1, <1>2, <1>3, <1>4, <1>5 DEF Generate

(* A trainer whose load nobody disturbed has in hand, and still has in     *)
(* place, what it compared with the manifest.                              *)
LoadsWhatItChecked(t) ==
  /\ trainer[t].pc \in {"verify_truth", "read_features", "read_truth"} =>
       file["features"] = trainer[t].manifest["features"]
  /\ trainer[t].pc \in {"read_features", "read_truth"} =>
       file["truth"] = trainer[t].manifest["truth"]
  /\ trainer[t].pc = "read_truth" =>
       trainer[t].rows["features"] = trainer[t].manifest["features"]
  /\ HasLoaded(t) => \A f \in Files : trainer[t].rows[f] = trainer[t].manifest[f]

LoadsChecked == \A t \in BusyTrainers : t \notin disturbed => LoadsWhatItChecked(t)

LEMMA LoadsCheckedStep ==
  ASSUME Typed, LoadsChecked, [Next]_vars
  PROVE  LoadsChecked'
<1> USE DEF Typed
<1>1. ASSUME NEW g \in Generators,
             (\E c \in Configs : StartGenerator(g, c)) \/ Generate(g) \/ KillGenerator(g)
      PROVE  LoadsChecked'
  <2>1. trainer' = trainer
    BY <1>1, GeneratorsLeave
  <2>2. disturbed \subseteq disturbed' /\ (file' # file => Loading \subseteq disturbed')
    BY <1>1, GeneratorsDisturb
  <2> QED
    BY <2>1, <2>2 DEF LoadsChecked, LoadsWhatItChecked, BusyTrainers, HasLoaded, Loading
<1>2. ASSUME NEW t \in Trainers, StartTrainer(t)
      PROVE  LoadsChecked'
  <2>1. file' = file
    BY <1>2, StartTrainerStep DEF dataset
  <2>3. LoadsWhatItChecked(t)'
    BY <1>2, StartTrainerStep DEF LoadsWhatItChecked, HasLoaded
  <2>4. ASSUME NEW v \in BusyTrainers', v # t, v \notin disturbed'
        PROVE  LoadsWhatItChecked(v)'
    <3>1. /\ trainer'[v].pc = trainer[v].pc /\ trainer'[v].rows = trainer[v].rows
          /\ trainer'[v].manifest = trainer[v].manifest
      BY <1>2, <2>4, StartTrainerStep DEF BusyTrainers
    <3> QED
      BY <1>2, <2>1, <2>4, <3>1, StartTrainerStep
         DEF LoadsChecked, LoadsWhatItChecked, BusyTrainers, HasLoaded
  <2> QED
    BY <2>3, <2>4 DEF LoadsChecked
<1>3. ASSUME NEW t \in Trainers, Train(t)
      PROVE  LoadsChecked'
  <2>1. file' = file /\ disturbed' = disturbed
    BY <1>3, TrainSteps DEF dataset
  <2>2. ASSUME NEW v \in BusyTrainers', v # t, v \notin disturbed'
        PROVE  LoadsWhatItChecked(v)'
    BY <1>3, <2>1, <2>2, TrainSteps
       DEF LoadsChecked, LoadsWhatItChecked, BusyTrainers, HasLoaded
  <2>3. ASSUME trainer'[t].pc # "idle", t \notin disturbed'
        PROVE  LoadsWhatItChecked(t)'
    <3>1. Progress(t) /\ trainer[t] \in Trainer
      BY <1>3, <2>3, TrainSteps, BusyAreTyped
    <3>2. LoadsWhatItChecked(t)
      BY <1>3, <2>1, <2>3, TrainSteps DEF LoadsChecked, BusyTrainers
    <3>3. trainer[t].pc = "read_manifest" => trainer'[t].pc = "verify_features"
      BY <3>1, TrainerOrder DEF Progress
    <3>4. /\ trainer[t].pc = "verify_features" => trainer'[t].pc = "verify_truth"
          /\ trainer[t].pc = "verify_truth" => trainer'[t].pc = "read_features"
          /\ trainer[t].pc = "read_features" => trainer'[t].pc = "read_truth"
          /\ trainer[t].pc = "read_truth" => trainer'[t].pc = "dump_model"
          /\ HasLoaded(t) => HasLoaded(t)'
      BY <3>1, TrainerOrder DEF Progress, HasLoaded
    <3>5. CASE trainer[t].pc \in {"read_manifest", "verify_features", "verify_truth"}
      BY <2>1, <3>1, <3>2, <3>3, <3>4, <3>5 DEF Progress, LoadsWhatItChecked, HasLoaded
    <3>6. CASE trainer[t].pc = "read_features"
      <4>1. trainer'[t].rows["features"] = file["features"]
        BY <3>1, <3>6 DEF Progress, Trainer, Files
      <4> QED
        BY <2>1, <3>1, <3>2, <3>4, <3>6, <4>1 DEF Progress, LoadsWhatItChecked, HasLoaded
    <3>7. CASE trainer[t].pc = "read_truth"
      <4>1. /\ trainer'[t].rows["features"] = trainer[t].rows["features"]
            /\ trainer'[t].rows["truth"] = file["truth"]
        BY <3>1, <3>7 DEF Progress, Trainer, Files
      <4>2. \A f \in Files : trainer'[t].rows[f] = trainer'[t].manifest[f]
        BY <3>1, <3>2, <3>7, <4>1 DEF Progress, LoadsWhatItChecked, Files
      <4> QED
        BY <3>4, <3>7, <4>2 DEF LoadsWhatItChecked, HasLoaded
    <3>8. CASE HasLoaded(t)
      <4>1. \A f \in Files : trainer'[t].rows[f] = trainer'[t].manifest[f]
        BY <3>1, <3>2, <3>8 DEF Progress, LoadsWhatItChecked, HasLoaded
      <4> QED
        BY <3>4, <3>8, <4>1 DEF LoadsWhatItChecked, HasLoaded
    <3> QED
      BY <3>1, <3>5, <3>6, <3>7, <3>8, TrainerPointsAre DEF Progress, HasLoaded
  <2> QED
    BY <2>2, <2>3 DEF LoadsChecked, BusyTrainers
<1>4. ASSUME NEW t \in Trainers, KillTrainer(t)
      PROVE  LoadsChecked'
  <2>1. file' = file
    BY <1>4, KillTrainerStep DEF dataset
  <2> QED
    BY <1>4, <2>1, KillTrainerStep
       DEF LoadsChecked, LoadsWhatItChecked, BusyTrainers, HasLoaded
<1>5. CASE UNCHANGED vars
  BY <1>5 DEF vars, dataset, history, LoadsChecked, LoadsWhatItChecked, BusyTrainers,
              HasLoaded
<1> QED
  BY <1>1, <1>2, <1>3, <1>4, <1>5, WhoSteps

(* TrainedOnVerified: a model is fitted to the data its version names      *)
(* (_model_version in src/ml/training.py hashes the manifest's checksums,  *)
(* not the rows), unless a file was put in place during its load.          *)
THEOREM TrainedOnVerifiedHolds == Spec => []TrainedOnVerified
<1>1. Init => LoadsChecked
  BY DEF Init, LoadsChecked, BusyTrainers, IdleTrainer
<1>2. Spec => [](Typed /\ LoadsChecked)
  BY <1>1, TypedInit, TypedStep, LoadsCheckedStep, PTL DEF Spec
<1>3. LoadsChecked => TrainedOnVerified
  BY DEF LoadsChecked, LoadsWhatItChecked, TrainedOnVerified
<1> QED
  BY <1>2, <1>3, PTL

-------------------------------------------------------------------------------
(* The metadata and the model they name.                                   *)

Saving == {"hash_model", "write_metadata", "replace_metadata"}

(* What a trainer's step does to the model, its metadata and halfSaved, by *)
(* the point the trainer is at.                                            *)
LEMMA ArtifactSteps ==
  ASSUME TypeOK, NEW t \in Trainers, Train(t)
  PROVE  LET pc == trainer[t].pc IN
         /\ pc = "dump_model" =>
              modelTmp' = [named |-> Named(t), data |-> trainer[t].rows["features"]]
         /\ pc \notin {"dump_model", "replace_model"} => modelTmp' = modelTmp
         /\ \/ model' = model
            \/ pc = "replace_model" /\ modelTmp # Absent /\ trainer'[t].pc = "hash_model"
         /\ pc = "replace_model" /\ trainer'[t].pc # "idle" =>
              modelTmp # Absent /\ model' = modelTmp
         /\ pc = "write_metadata" =>
              metadataTmp' = [named |-> Named(t), artifact |-> trainer[t].artifact,
                              alone |-> trainer[t].alone]
         /\ pc \notin {"write_metadata", "replace_metadata"} => metadataTmp' = metadataTmp
         /\ pc = "replace_metadata" =>
              /\ metadata' = IF metadataTmp = Absent THEN metadata ELSE metadataTmp
              /\ metadataTmp' = Absent /\ halfSaved' = (halfSaved /\ ~trainer[t].alone)
         /\ pc # "replace_metadata" => metadata' = metadata /\ halfSaved' = halfSaved
         /\ pc \in {"dump_model", "hash_model", "write_metadata"} =>
              trainer'[t].pc = Then[pc]
<1>1. CASE ReadManifest(t) \/ ReadFeatures(t) \/ ReadTruth(t)
  BY <1>1 DEF ReadManifest, ReadFeatures, ReadTruth, artifacts, history
<1>2. CASE VerifyFile(t, "features", "verify_features")
             \/ VerifyFile(t, "truth", "verify_truth")
  BY <1>2 DEF VerifyFile, artifacts, history
<1>3. CASE LoadRaises(t)
  <2>1. trainer[t].pc \in {"read_manifest", "verify_features", "verify_truth",
                           "read_features", "read_truth"}
    BY <1>3 DEF LoadRaises
  <2> QED
    BY <1>3, <2>1 DEF LoadRaises, artifacts
<1>4. CASE ReplaceModelRaises(t)
  BY <1>4 DEF ReplaceModelRaises, StopTrainer, IdleTrainer, TypeOK, artifacts
<1>5. CASE DumpModel(t)
  <2>1. trainer'[t].pc = Then["dump_model"]
    BY <1>5, BusyAreTyped DEF DumpModel, TypeOK, Trainer
  <2> QED
    BY <1>5, <2>1 DEF DumpModel, history
<1>6. CASE ReplaceModel(t)
  <2>1. trainer'[t].pc = "hash_model"
    BY <1>6, BusyAreTyped, TrainerOrder DEF ReplaceModel, TypeOK, Trainer
  <2> QED
    BY <1>6, <2>1 DEF ReplaceModel, history
<1>7. CASE HashModel(t)
  <2>1. trainer'[t].pc = Then["hash_model"]
    BY <1>7, BusyAreTyped DEF HashModel, TypeOK, Trainer
  <2> QED
    BY <1>7, <2>1 DEF HashModel, artifacts, history
<1>8. CASE WriteMetadata(t)
  <2>1. trainer'[t].pc = Then["write_metadata"]
    BY <1>8, BusyAreTyped DEF WriteMetadata, TypeOK, Trainer
  <2> QED
    BY <1>8, <2>1 DEF WriteMetadata, history
<1>9. CASE ReplaceMetadata(t)
  BY <1>9 DEF ReplaceMetadata
<1> QED
  BY <1>1, <1>2, <1>3, <1>4, <1>5, <1>6, <1>7, <1>8, <1>9 DEF Train

(* A trainer that has been alone so far is the only one at work.           *)
SoleTrainer == \A t \in BusyTrainers : trainer[t].alone => BusyTrainers = {t}

(* The files such a trainer finds are its own.                             *)
OwnModel(t) ==
  /\ trainer[t].pc = "replace_model" => modelTmp # Absent /\ modelTmp.named = Named(t)
  /\ trainer[t].pc \in Saving => model # Absent /\ model.named = Named(t)
  /\ trainer[t].pc = "write_metadata" => trainer[t].artifact = model
  /\ trainer[t].pc = "replace_metadata" =>
       metadataTmp = [named |-> Named(t), artifact |-> model, alone |-> TRUE]

TrainsAlone == \A t \in BusyTrainers : trainer[t].alone => OwnModel(t)

LEMMA SoleTrainerStep ==
  ASSUME Typed, SoleTrainer, [Next]_vars
  PROVE  SoleTrainer'
<1> USE DEF Typed
<1>1. ASSUME trainer' = trainer
      PROVE  SoleTrainer'
  BY <1>1 DEF SoleTrainer, BusyTrainers
<1>2. ASSUME NEW t \in Trainers, StartTrainer(t)
      PROVE  SoleTrainer'
  <2>1. BusyTrainers' = BusyTrainers \cup {t}
    BY <1>2, StartTrainerStep DEF BusyTrainers
  <2> QED
    BY <1>2, <2>1, StartTrainerStep DEF SoleTrainer
<1>3. ASSUME NEW t \in Trainers, Train(t)
      PROVE  SoleTrainer'
  <2>1. BusyTrainers' \subseteq BusyTrainers
    BY <1>3, TrainSteps DEF BusyTrainers
  <2>2. \A v \in BusyTrainers' : trainer'[v].alone = trainer[v].alone
    BY <1>3, TrainSteps DEF BusyTrainers, Progress
  <2> QED
    BY <2>1, <2>2 DEF SoleTrainer
<1>4. ASSUME NEW t \in Trainers, KillTrainer(t)
      PROVE  SoleTrainer'
  <2>1. BusyTrainers' \subseteq BusyTrainers
    BY <1>4, KillTrainerStep DEF BusyTrainers
  <2>2. \A v \in BusyTrainers' : trainer'[v].alone = trainer[v].alone
    BY <1>4, KillTrainerStep DEF BusyTrainers
  <2> QED
    BY <2>1, <2>2 DEF SoleTrainer
<1> QED
  BY <1>1, <1>2, <1>3, <1>4, WhoSteps, GeneratorsLeave DEF vars

LEMMA TrainsAloneStep ==
  ASSUME Typed, SoleTrainer, TrainsAlone, [Next]_vars
  PROVE  TrainsAlone'
<1> USE DEF Typed
<1>1. ASSUME trainer' = trainer, artifacts' = artifacts
      PROVE  TrainsAlone'
  BY <1>1 DEF TrainsAlone, OwnModel, Named, BusyTrainers, artifacts
<1>2. ASSUME NEW t \in Trainers, StartTrainer(t)
      PROVE  TrainsAlone'
  <2>1. OwnModel(t)'
    BY <1>2, StartTrainerStep DEF OwnModel, Saving
  <2>2. \A v \in BusyTrainers' : v = t \/ v \in BusyTrainers
    BY <1>2, StartTrainerStep DEF BusyTrainers
  <2> QED
    BY <1>2, <2>1, <2>2, StartTrainerStep DEF TrainsAlone
<1>3. ASSUME NEW t \in Trainers, Train(t)
      PROVE  TrainsAlone'
  <2>0. t \in BusyTrainers
    BY <1>3, TrainSteps DEF BusyTrainers
  <2>1. ASSUME NEW v \in BusyTrainers', trainer'[v].alone
        PROVE  v = t
    BY <1>3, <2>0, <2>1, TrainSteps DEF SoleTrainer, BusyTrainers
  <2>2. ASSUME trainer'[t].pc # "idle", trainer'[t].alone
        PROVE  OwnModel(t)'
    <3>1. Progress(t) /\ OwnModel(t) /\ trainer[t].alone
      BY <1>3, <2>0, <2>2, TrainSteps DEF TrainsAlone, Progress
    <3>2. trainer[t].pc # "read_manifest" => Named(t)' = Named(t)
      BY <3>1 DEF Progress, Named
    <3>3. CASE trainer[t].pc \in {"read_manifest", "verify_features", "verify_truth",
                                  "read_features", "read_truth"}
      <4>1. trainer'[t].pc \in {"verify_features", "verify_truth", "read_features",
                                "read_truth", "dump_model"}
        BY <3>1, <3>3, TrainerOrder DEF Progress
      <4> QED
        BY <4>1 DEF OwnModel, Saving
    <3>4. CASE trainer[t].pc = "dump_model"
      <4>1. /\ trainer'[t].pc = "replace_model"
            /\ modelTmp' = [named |-> Named(t), data |-> trainer[t].rows["features"]]
        BY <1>3, <3>1, <3>4, TrainerOrder, ArtifactSteps DEF Progress
      <4>2. TypeOK'
        BY <1>3, TrainTypes
      <4>3. modelTmp' # Absent
        <5>1. [named |-> Named(t), data |-> trainer[t].rows["features"]] \in Model
          BY <2>0, <3>4, NamedTypes, BusyAreTyped DEF Model, Trainer, BusyTrainers, Files
        <5> QED
          BY <4>1, <5>1, AbsentAssumption
      <4>4. modelTmp'.named = Named(t)
        BY <4>1
      <4> QED
        BY <3>2, <3>4, <4>1, <4>3, <4>4 DEF OwnModel, Saving
    <3>5. CASE trainer[t].pc = "replace_model"
      <4>1. trainer'[t].pc = "hash_model" /\ modelTmp # Absent /\ model' = modelTmp
        BY <1>3, <2>2, <3>1, <3>5, TrainerOrder, ArtifactSteps DEF Progress
      <4> QED
        BY <3>1, <3>2, <3>5, <4>1 DEF OwnModel, Saving
    <3>6. CASE trainer[t].pc = "hash_model"
      <4>1. trainer'[t].pc = "write_metadata" /\ model' = model
            /\ trainer'[t].artifact = model
        BY <1>3, <3>1, <3>6, TrainerOrder, ArtifactSteps DEF Progress
      <4> QED
        BY <3>1, <3>2, <3>6, <4>1 DEF OwnModel, Saving
    <3>7. CASE trainer[t].pc = "write_metadata"
      <4>1. /\ trainer'[t].pc = "replace_metadata" /\ model' = model
            /\ metadataTmp' = [named |-> Named(t), artifact |-> trainer[t].artifact,
                               alone |-> trainer[t].alone]
        BY <1>3, <3>1, <3>7, TrainerOrder, ArtifactSteps DEF Progress
      <4>2. trainer[t].alone = TRUE
        BY <3>1, <3>7, BusyAreTyped DEF Trainer
      <4>3. metadataTmp' = [named |-> Named(t)', artifact |-> model', alone |-> TRUE]
        BY <3>1, <3>2, <3>7, <4>1, <4>2 DEF OwnModel
      <4>4. model' # Absent /\ model'.named = Named(t)'
        BY <3>1, <3>2, <3>7, <4>1 DEF OwnModel, Saving
      <4> QED
        BY <4>1, <4>3, <4>4 DEF OwnModel, Saving
    <3> QED
      BY <3>1, <3>3, <3>4, <3>5, <3>6, <3>7, TrainerPointsAre DEF Progress
  <2> QED
    BY <2>1, <2>2 DEF TrainsAlone, BusyTrainers
<1>4. ASSUME NEW t \in Trainers, KillTrainer(t)
      PROVE  TrainsAlone'
  <2>1. \A v \in BusyTrainers' : v \in BusyTrainers /\ trainer'[v] = trainer[v]
    BY <1>4, KillTrainerStep DEF BusyTrainers
  <2> QED
    BY <1>4, <2>1, KillTrainerStep DEF TrainsAlone, OwnModel, Named, artifacts
<1> QED
  BY <1>1, <1>2, <1>3, <1>4, WhoSteps, GeneratorsLeave DEF vars

(* Some trainer is at one of these points.                                 *)
At(points) == \E v \in Trainers : trainer[v].pc \in points

(* The metadata name a model and its version; and the model is the one in  *)
(* place, or was cut off from its metadata, or its metadata are coming.    *)
Describes(m) == m.artifact # Absent /\ m.artifact.named = m.named
Current(m) == model = m.artifact \/ halfSaved \/ At({"hash_model", "write_metadata"})
Pending == metadataTmp # Absent /\ At({"replace_metadata"})

MetadataTell ==
  /\ metadataTmp # Absent /\ metadataTmp.alone =>
       Describes(metadataTmp) /\ Current(metadataTmp)
  /\ metadata # Absent /\ metadata.alone =>
       Describes(metadata) /\ (Current(metadata) \/ Pending)

(* A step of a trainer keeps MetadataTell.                                 *)
LEMMA MetadataTellTrain ==
  ASSUME Typed, SoleTrainer, TrainsAlone, MetadataTell, NEW t \in Trainers, Train(t)
  PROVE  MetadataTell'
<1> USE DEF Typed
<1> DEFINE pc == trainer[t].pc
<1>0. t \in BusyTrainers
  BY TrainSteps DEF BusyTrainers
<1>1. \A v \in Trainers \ {t} : trainer'[v] = trainer[v]
  BY TrainSteps
<1>2. ASSUME NEW points, trainer[t].pc \notin points, At(points)
      PROVE  At(points)'
  BY <1>1, <1>2 DEF At
<1>3. CASE pc \in {"read_manifest", "verify_features", "verify_truth", "read_features",
                   "read_truth", "dump_model"}
  <2>1. /\ model' = model /\ metadataTmp' = metadataTmp /\ metadata' = metadata
        /\ halfSaved' = halfSaved
    BY <1>3, ArtifactSteps
  <2>2. /\ At({"hash_model", "write_metadata"}) => At({"hash_model", "write_metadata"})'
        /\ At({"replace_metadata"}) => At({"replace_metadata"})'
    BY <1>2, <1>3
  <2> QED
    BY <2>1, <2>2 DEF MetadataTell, Describes, Current, Pending
<1>4. CASE pc = "replace_model"
  <2>1. /\ metadataTmp' = metadataTmp /\ metadata' = metadata /\ halfSaved' = halfSaved
        /\ model' = model \/ trainer'[t].pc = "hash_model"
    BY <1>4, ArtifactSteps
  <2>2. /\ At({"hash_model", "write_metadata"}) => At({"hash_model", "write_metadata"})'
        /\ At({"replace_metadata"}) => At({"replace_metadata"})'
    BY <1>2, <1>4
  <2>3. trainer'[t].pc = "hash_model" => At({"hash_model", "write_metadata"})'
    BY DEF At
  <2> QED
    BY <2>1, <2>2, <2>3 DEF MetadataTell, Describes, Current, Pending
<1>5. CASE pc = "hash_model"
  <2>1. /\ model' = model /\ metadataTmp' = metadataTmp /\ metadata' = metadata
        /\ halfSaved' = halfSaved /\ trainer'[t].pc = "write_metadata"
    BY <1>5, ArtifactSteps, TrainerOrder
  <2>2. At({"hash_model", "write_metadata"})'
    BY <2>1 DEF At
  <2> QED
    BY <2>1, <2>2 DEF MetadataTell, Describes, Current
<1>6. CASE pc = "write_metadata"
  <2>1. /\ model' = model /\ metadata' = metadata /\ halfSaved' = halfSaved
        /\ trainer'[t].pc = "replace_metadata"
        /\ metadataTmp' = [named |-> Named(t), artifact |-> trainer[t].artifact,
                           alone |-> trainer[t].alone]
    BY <1>6, ArtifactSteps, TrainerOrder
  <2>2. metadataTmp' # Absent
    <3>1. [named |-> Named(t), artifact |-> trainer[t].artifact,
           alone |-> trainer[t].alone] \in Metadata
      BY <1>0, <1>6, NamedTypes, BusyAreTyped DEF Metadata, Trainer, BusyTrainers
    <3> QED
      BY <2>1, <3>1, AbsentAssumption
  <2>3. Pending'
    BY <2>1, <2>2 DEF Pending, At
  <2>4. metadataTmp'.alone => Describes(metadataTmp)' /\ metadataTmp'.artifact = model'
    BY <1>0, <1>6, <2>1 DEF TrainsAlone, OwnModel, Saving, Describes
  <2> QED
    BY <2>1, <2>3, <2>4 DEF MetadataTell, Describes, Current
<1>7. CASE pc = "replace_metadata"
  <2>1. /\ model' = model /\ metadataTmp' = Absent
        /\ metadata' = IF metadataTmp = Absent THEN metadata ELSE metadataTmp
        /\ halfSaved' = (halfSaved /\ ~trainer[t].alone)
    BY <1>7, ArtifactSteps
  <2>2. At({"hash_model", "write_metadata"}) => At({"hash_model", "write_metadata"})'
    BY <1>2, <1>7
  <2>3. CASE trainer[t].alone
    <3>1. /\ metadataTmp = [named |-> Named(t), artifact |-> model, alone |-> TRUE]
          /\ model # Absent /\ model.named = Named(t)
      BY <1>0, <1>7, <2>3 DEF TrainsAlone, OwnModel, Saving
    <3>2. trainer[t].manifest \in Manifest /\ model \in Model
      BY <1>0, <1>7, <3>1 DEF HaveManifest, TypeOK
    <3>3. metadataTmp # Absent
      <4>1. [named |-> Named(t), artifact |-> model, alone |-> TRUE] \in Metadata
        BY <1>0, <1>7, <3>2, NamedTypes DEF Metadata
      <4> QED
        BY <3>1, <4>1, AbsentAssumption
    <3>4. metadata'.artifact = model' /\ metadata'.named = Named(t)
      BY <2>1, <3>1, <3>3
    <3> QED
      BY <2>1, <3>1, <3>4 DEF MetadataTell, Describes, Current
  <2>4. CASE ~trainer[t].alone
    <3>1. halfSaved' = halfSaved
      BY <2>1, <2>4 DEF TypeOK
    <3> QED
      BY <2>1, <2>2, <3>1 DEF MetadataTell, Describes, Current, Pending
  <2> QED
    BY <2>3, <2>4
<1>8. pc \in TrainerPoints
  BY <1>0, BusyAreTyped DEF BusyTrainers, Trainer
<1> QED
  BY <1>3, <1>4, <1>5, <1>6, <1>7, <1>8, TrainerPointsAre

LEMMA MetadataTellStep ==
  ASSUME Typed, SoleTrainer, TrainsAlone, MetadataTell, [Next]_vars
  PROVE  MetadataTell'
<1> USE DEF Typed
<1>1. ASSUME trainer' = trainer, artifacts' = artifacts, halfSaved' = halfSaved
      PROVE  MetadataTell'
  BY <1>1 DEF MetadataTell, Describes, Current, Pending, At, artifacts
<1>2. ASSUME NEW t \in Trainers, StartTrainer(t)
      PROVE  MetadataTell'
  <2>1. artifacts' = artifacts /\ halfSaved' = halfSaved
    BY <1>2 DEF StartTrainer
  <2>2. /\ At({"hash_model", "write_metadata"}) => At({"hash_model", "write_metadata"})'
        /\ At({"replace_metadata"}) => At({"replace_metadata"})'
    BY <1>2, StartTrainerStep DEF At
  <2> QED
    BY <2>1, <2>2 DEF MetadataTell, Describes, Current, Pending, artifacts
<1>3. ASSUME NEW t \in Trainers, KillTrainer(t)
      PROVE  MetadataTell'
  <2>1. artifacts' = artifacts
    BY <1>3 DEF KillTrainer
  <2>2. halfSaved' = (halfSaved \/ trainer[t].pc \in Saving)
    BY <1>3 DEF KillTrainer, Saving
  <2>3. CASE trainer[t].pc \in Saving
    BY <2>1, <2>2, <2>3 DEF MetadataTell, Describes, Current, artifacts
  <2>4. CASE trainer[t].pc \notin Saving
    <3>1. /\ At({"hash_model", "write_metadata"}) => At({"hash_model", "write_metadata"})'
          /\ At({"replace_metadata"}) => At({"replace_metadata"})'
      BY <1>3, <2>4, KillTrainerStep DEF At, Saving
    <3> QED
      BY <2>1, <2>2, <2>4, <3>1 DEF MetadataTell, Describes, Current, Pending, artifacts
  <2> QED
    BY <2>3, <2>4
<1> QED
  BY <1>1, <1>2, <1>3, MetadataTellTrain, WhoSteps, GeneratorsLeave DEF vars, history

(* MetadataTellsModel: the metadata saved beside a model by a trainer that *)
(* ran alone name that model by its checksum and version, and it is the    *)
(* one in place once nobody is at work, unless somebody was cut off        *)
(* between the two files (ActionConditionalModel.save, src/ml/artifact.py  *)
(* writes the model before its metadata).                                  *)
THEOREM MetadataTellsModelHolds == Spec => []MetadataTellsModel
<1>1. Init => SoleTrainer /\ TrainsAlone /\ MetadataTell
  BY DEF Init, SoleTrainer, TrainsAlone, MetadataTell, BusyTrainers, IdleTrainer
<1>2. Spec => [](Typed /\ SoleTrainer /\ TrainsAlone /\ MetadataTell)
  BY <1>1, TypedInit, TypedStep, SoleTrainerStep, TrainsAloneStep, MetadataTellStep,
     PTL DEF Spec
<1>3. Typed /\ MetadataTell => MetadataTellsModel
  <2> SUFFICES ASSUME Typed, MetadataTell, metadata # Absent, metadata.alone
               PROVE  /\ metadata.artifact # Absent
                      /\ metadata.artifact.named = metadata.named
                      /\ BusyTrainers = {} /\ ~halfSaved => model = metadata.artifact
    BY DEF MetadataTellsModel
  <2>1. BusyTrainers = {} => ~At(Saving)
    BY DEF BusyTrainers, At, Saving
  <2> QED
    BY <2>1 DEF MetadataTell, Describes, Current, Pending, At, Saving
<1> QED
  BY <1>2, <1>3, PTL

-------------------------------------------------------------------------------
(* A generator that is alone.                                              *)

(* A step of a generator leaves the others where they are, handles apart.  *)
LEMMA GenerateSteps ==
  ASSUME TypeOK, NEW g \in Generators, Generate(g)
  PROVE  /\ gen[g].pc # "idle"
         /\ \A h \in Generators : gen'[h].pc # "idle" =>
              /\ gen[h].pc # "idle" /\ gen'[h].alone = gen[h].alone
              /\ gen'[h].config = gen[h].config
              /\ h # g => gen'[h].pc = gen[h].pc
         /\ gen'[g].pc \in {"idle", Then[gen[g].pc]}
         /\ \A h \in Generators \ {g} : gen'[h].pc = "idle" => gen[h].pc = "idle"
<1> USE IdleIsNoPoint
<1>0. \A h \in Generators : gen[h].pc # "idle" => gen[h] \in Generator
  BY BusyAreTyped
<1>1. ASSUME NEW f \in Files, NEW at \in {"open_features", "open_truth"},
             OpenTemporary(g, f, at)
      PROVE  /\ gen[g].pc = at /\ gen'[g].pc = Then[at]
             /\ gen'[g].alone = gen[g].alone /\ gen'[g].config = gen[g].config
             /\ \A h \in Generators \ {g} : gen'[h] = gen[h]
  BY <1>0, <1>1 DEF OpenTemporary, TypeOK, Generator
<1>2. ASSUME NEW f \in Files, NEW at \in {"close_features", "close_truth"},
             CloseTemporary(g, f, at)
      PROVE  /\ gen[g].pc = at /\ gen'[g].pc = Then[at]
             /\ gen'[g].alone = gen[g].alone /\ gen'[g].config = gen[g].config
             /\ \A h \in Generators \ {g} : gen'[h] = gen[h]
  BY <1>0, <1>2 DEF CloseTemporary, TypeOK, Generator
<1>3. ASSUME NEW f \in Files, NEW h \in Generators
      PROVE  /\ Renamed(f)[h].pc = gen[h].pc
             /\ gen[h].pc # "idle" => Renamed(f)[h].alone = gen[h].alone
                                      /\ Renamed(f)[h].config = gen[h].config
  BY <1>0 DEF Renamed, Generator
<1>4. ASSUME NEW fs \in SUBSET Files, NEW h \in Generators
      PROVE  /\ Unlinked(fs)[h].pc = gen[h].pc
             /\ gen[h].pc # "idle" => Unlinked(fs)[h].alone = gen[h].alone
                                      /\ Unlinked(fs)[h].config = gen[h].config
  BY <1>0 DEF Unlinked, Generator
<1>5. ASSUME NEW f \in Files, NEW at \in {"replace_features", "replace_truth"},
             ReplaceFile(g, f, at)
      PROVE  /\ gen[g].pc = at /\ gen'[g].pc = Then[at]
             /\ gen'[g].alone = gen[g].alone /\ gen'[g].config = gen[g].config
             /\ \A h \in Generators \ {g} : gen'[h] = Renamed(f)[h]
  <2>1. Renamed(f)[g] \in Generator
    BY <1>5, HandlesMoved, <1>3 DEF ReplaceFile, IdleGenerator
  <2>2. gen'[g] = [Renamed(f)[g] EXCEPT !.pc = Then[at]]
    BY <1>3, <1>5 DEF ReplaceFile, Renamed
  <2>3. \A h \in Generators \ {g} : gen'[h] = Renamed(f)[h]
    BY <1>5 DEF ReplaceFile, Renamed
  <2> QED
    BY <1>3, <1>5, <2>1, <2>2, <2>3 DEF ReplaceFile, Generator
<1>6. ASSUME Unwind(g)
      PROVE  /\ gen'[g].pc = "idle"
             /\ \E fs \in SUBSET Files :
                  \A h \in Generators \ {g} : gen'[h] = Unlinked(fs)[h]
  BY <1>6 DEF Unwind, Unlinked, IdleGenerator
<1>7. ASSUME NEW f \in Files, NEW at \in {"hash_features", "hash_truth"},
             HashFile(g, f, at)
      PROVE  /\ gen[g].pc = at /\ gen'[g].pc = Then[at]
             /\ gen'[g].alone = gen[g].alone /\ gen'[g].config = gen[g].config
             /\ \A h \in Generators \ {g} : gen'[h] = gen[h]
  BY <1>0, <1>7 DEF HashFile, TypeOK, Generator
<1>8. ASSUME WriteManifest(g)
      PROVE  /\ gen[g].pc = "write_manifest" /\ gen'[g].pc = Then["write_manifest"]
             /\ gen'[g].alone = gen[g].alone /\ gen'[g].config = gen[g].config
             /\ \A h \in Generators \ {g} : gen'[h] = gen[h]
  BY <1>0, <1>8 DEF WriteManifest, Advance, TypeOK, Generator
<1>9. ASSUME ReplaceManifest(g)
      PROVE  /\ gen[g].pc = "replace_manifest" /\ gen'[g].pc = "idle"
             /\ \A h \in Generators \ {g} : gen'[h] = gen[h]
  BY <1>9 DEF ReplaceManifest, TypeOK, IdleGenerator
<1>10. "features" \in Files /\ "truth" \in Files
  BY DEF Files
<1>11. CASE \/ OpenTemporary(g, "features", "open_features")
            \/ OpenTemporary(g, "truth", "open_truth")
            \/ CloseTemporary(g, "truth", "close_truth")
            \/ CloseTemporary(g, "features", "close_features")
            \/ HashFile(g, "features", "hash_features")
            \/ HashFile(g, "truth", "hash_truth")
            \/ WriteManifest(g) \/ ReplaceManifest(g)
  BY <1>1, <1>2, <1>7, <1>8, <1>9, <1>10, <1>11
<1>12. CASE \/ ReplaceFile(g, "truth", "replace_truth")
            \/ ReplaceFile(g, "features", "replace_features")
  BY <1>3, <1>5, <1>10, <1>12
<1>13. CASE RowsRaise(g) \/ ReplaceRaises(g)
  <2>1. Unwind(g) /\ gen[g].pc # "idle"
    BY <1>13 DEF RowsRaise, ReplaceRaises
  <2> QED
    BY <1>4, <1>6, <2>1
<1> QED
  BY <1>11, <1>12, <1>13 DEF Generate

(* A generator that has been alone so far is the only one at work.         *)
SoleGenerator == \A g \in BusyGenerators : gen[g].alone => BusyGenerators = {g}

LEMMA SoleGeneratorStep ==
  ASSUME TypeOK, SoleGenerator, [Next]_vars
  PROVE  SoleGenerator'
<1>1. ASSUME gen' = gen
      PROVE  SoleGenerator'
  BY <1>1 DEF SoleGenerator, BusyGenerators
<1>2. ASSUME NEW g \in Generators, NEW c \in Configs, StartGenerator(g, c)
      PROVE  SoleGenerator'
  <2>1. BusyGenerators' = BusyGenerators \cup {g}
    <3>1. \A h \in BusyGenerators : gen[h] \in Generator
      BY BusyAreTyped DEF BusyGenerators
    <3>2. gen'[g].pc = "open_features"
      BY <1>2 DEF StartGenerator
    <3>3. \A h \in Generators \ {g} : gen'[h].pc = gen[h].pc
      BY <1>2, <3>1 DEF StartGenerator, Generator
    <3> QED
      BY <3>2, <3>3 DEF BusyGenerators
  <2>2. gen'[g].alone = (BusyGenerators = {})
    BY <1>2 DEF StartGenerator
  <2>3. \A h \in BusyGenerators : ~gen'[h].alone
    BY <1>2, BusyAreTyped DEF StartGenerator, BusyGenerators, Generator
  <2> QED
    BY <2>1, <2>2, <2>3 DEF SoleGenerator
<1>3. ASSUME NEW g \in Generators, Generate(g)
      PROVE  SoleGenerator'
  <2>1. BusyGenerators' \subseteq BusyGenerators
    BY <1>3, GenerateSteps DEF BusyGenerators
  <2>2. \A h \in BusyGenerators' : gen'[h].alone = gen[h].alone
    BY <1>3, GenerateSteps DEF BusyGenerators
  <2> QED
    BY <2>1, <2>2 DEF SoleGenerator
<1>4. ASSUME NEW g \in Generators, KillGenerator(g)
      PROVE  SoleGenerator'
  <2>1. \A h \in BusyGenerators' : h \in BusyGenerators /\ gen'[h] = gen[h]
    BY <1>4 DEF KillGenerator, BusyGenerators, IdleGenerator, TypeOK
  <2> QED
    BY <2>1 DEF SoleGenerator
<1>5. ASSUME NEW t \in Trainers, StartTrainer(t) \/ Train(t) \/ KillTrainer(t)
      PROVE  gen' = gen
  BY <1>5, StartTrainerStep, TrainSteps, KillTrainerStep
<1> QED
  BY <1>1, <1>2, <1>3, <1>4, <1>5, WhoSteps DEF vars

(* What a generator that is alone finds in its handles and files ...       *)
HoldsFeatures(g) ==
  gen[g].pc \in {"open_truth", "close_truth", "replace_truth", "close_features"}
HoldsTruth(g) == gen[g].pc = "close_truth"

OwnHandles(g) ==
  /\ HoldsFeatures(g) => gen[g].handle["features"] = "tmp" /\ tmp["features"] = "partial"
  /\ ~HoldsFeatures(g) => gen[g].handle["features"] = "closed"
  /\ HoldsTruth(g) => gen[g].handle["truth"] = "tmp" /\ tmp["truth"] = "partial"
  /\ ~HoldsTruth(g) => gen[g].handle["truth"] = "closed"

FeaturesInPlace == {"hash_features", "hash_truth", "write_manifest", "replace_manifest"}
TruthInPlace == FeaturesInPlace \cup {"close_features", "replace_features"}

OwnFiles(g) ==
  /\ gen[g].pc = "replace_truth" => tmp["truth"] = gen[g].config
  /\ gen[g].pc = "replace_features" => tmp["features"] = gen[g].config
  /\ gen[g].pc \in TruthInPlace => file["truth"] = gen[g].config
  /\ gen[g].pc \in FeaturesInPlace => file["features"] = gen[g].config

(* ... and in its checksums and manifest.                                  *)
OwnHashes(g) ==
  /\ gen[g].pc \in {"hash_truth", "write_manifest"} =>
       gen[g].hash["features"] = gen[g].config
  /\ gen[g].pc = "write_manifest" => gen[g].hash["truth"] = gen[g].config
  /\ gen[g].pc = "replace_manifest" =>
       manifestTmp = [config |-> gen[g].config, features |-> gen[g].config,
                      truth |-> gen[g].config, alone |-> TRUE]

Own(g) == OwnHandles(g) /\ OwnFiles(g) /\ OwnHashes(g)

GeneratesAlone == \A g \in BusyGenerators : gen[g].alone => Own(g)

(* Opening a temporary file that nobody else writes truncates it.          *)
LEMMA OwnOpen ==
  ASSUME TypeOK, NEW g \in Generators, BusyGenerators = {g}, Own(g),
         NEW f \in Files, NEW at \in {"open_features", "open_truth"},
         <<f, at>> \in {<<"features", "open_features">>, <<"truth", "open_truth">>},
         OpenTemporary(g, f, at)
  PROVE  Own(g)' /\ file' = file /\ manifest' = manifest /\ manifestTmp' = manifestTmp
<1>1. gen[g] \in Generator /\ gen[g].pc = at
  BY BusyAreTyped DEF OpenTemporary
<1>2. gen[g].handle[f] = "closed"
  BY <1>1 DEF Own, OwnHandles, HoldsFeatures, HoldsTruth
<1>3. Opened(f) = "partial"
  BY <1>2 DEF Opened
<1>4. /\ gen'[g].pc = Then[at] /\ gen'[g].handle = [gen[g].handle EXCEPT ![f] = "tmp"]
      /\ gen'[g].hash = gen[g].hash /\ gen'[g].config = gen[g].config
  BY <1>1 DEF OpenTemporary, TypeOK, Generator
<1>5. tmp' = [tmp EXCEPT ![f] = "partial"] /\ tmp \in [Files -> Content]
  BY <1>3 DEF OpenTemporary, TypeOK
<1>6. gen[g].handle \in [Files -> Handles] /\ Files = {"features", "truth"}
  BY <1>1 DEF Generator, Handles, Files
<1>7. CASE f = "features" /\ at = "open_features"
  <2>1. gen'[g].pc = "open_truth"
    BY <1>4, <1>7, GeneratorOrder
  <2>2. gen'[g].handle["features"] = "tmp" /\ tmp'["features"] = "partial"
        /\ gen'[g].handle["truth"] = "closed"
    BY <1>1, <1>4, <1>5, <1>6, <1>7 DEF Own, OwnHandles, HoldsTruth
  <2> QED
    BY <2>1, <2>2 DEF Own, OwnHandles, OwnFiles, OwnHashes, HoldsFeatures, HoldsTruth,
       TruthInPlace, FeaturesInPlace, OpenTemporary
<1>8. CASE f = "truth" /\ at = "open_truth"
  <2>1. gen'[g].pc = "close_truth"
    BY <1>4, <1>8, GeneratorOrder
  <2>2. /\ gen'[g].handle["truth"] = "tmp" /\ tmp'["truth"] = "partial"
        /\ gen'[g].handle["features"] = "tmp" /\ tmp'["features"] = "partial"
    BY <1>1, <1>4, <1>5, <1>6, <1>8 DEF Own, OwnHandles, HoldsFeatures
  <2> QED
    BY <2>1, <2>2 DEF Own, OwnHandles, OwnFiles, OwnHashes, HoldsFeatures, HoldsTruth,
       TruthInPlace, FeaturesInPlace, OpenTemporary
<1> QED
  BY <1>7, <1>8

(* Closing it leaves the whole file under its temporary name.              *)
LEMMA OwnClose ==
  ASSUME TypeOK, NEW g \in Generators, Own(g),
         NEW f \in Files, NEW at \in {"close_features", "close_truth"},
         <<f, at>> \in {<<"features", "close_features">>, <<"truth", "close_truth">>},
         CloseTemporary(g, f, at)
  PROVE  Own(g)' /\ file' = file /\ manifest' = manifest /\ manifestTmp' = manifestTmp
<1>1. gen[g] \in Generator /\ gen[g].pc = at
  BY BusyAreTyped DEF CloseTemporary
<1>2. gen[g].handle[f] = "tmp" /\ tmp[f] = "partial"
  BY <1>1 DEF Own, OwnHandles, HoldsFeatures, HoldsTruth
<1>3. tmp' = [tmp EXCEPT ![f] = gen[g].config] /\ file' = file
  BY <1>2 DEF CloseTemporary, HandleContent, Flushed, FlushInto, SetFile
<1>4. /\ gen'[g].pc = Then[at]
      /\ gen'[g].handle = [gen[g].handle EXCEPT ![f] = "closed"]
      /\ gen'[g].hash = gen[g].hash /\ gen'[g].config = gen[g].config
  BY <1>1 DEF CloseTemporary, TypeOK, Generator
<1>5. tmp \in [Files -> Content]
  BY DEF TypeOK
<1>6. gen[g].handle \in [Files -> Handles] /\ Files = {"features", "truth"}
  BY <1>1 DEF Generator, Handles, Files
<1>7. CASE f = "truth" /\ at = "close_truth"
  <2>1. gen'[g].pc = "replace_truth"
    BY <1>4, <1>7, GeneratorOrder
  <2>2. /\ gen'[g].handle["truth"] = "closed" /\ tmp'["truth"] = gen'[g].config
        /\ gen'[g].handle["features"] = "tmp" /\ tmp'["features"] = "partial"
    BY <1>1, <1>3, <1>4, <1>5, <1>6, <1>7 DEF Own, OwnHandles, HoldsFeatures
  <2> QED
    BY <1>3, <2>1, <2>2 DEF Own, OwnHandles, OwnFiles, OwnHashes, HoldsFeatures,
       HoldsTruth, TruthInPlace, FeaturesInPlace, CloseTemporary
<1>8. CASE f = "features" /\ at = "close_features"
  <2>1. gen'[g].pc = "replace_features"
    BY <1>4, <1>8, GeneratorOrder
  <2>2. /\ gen'[g].handle["features"] = "closed" /\ tmp'["features"] = gen'[g].config
        /\ gen'[g].handle["truth"] = "closed" /\ file'["truth"] = gen'[g].config
    BY <1>1, <1>3, <1>4, <1>5, <1>6, <1>8
       DEF Own, OwnHandles, OwnFiles, HoldsTruth, TruthInPlace
  <2> QED
    BY <1>3, <2>1, <2>2 DEF Own, OwnHandles, OwnFiles, OwnHashes, HoldsFeatures,
       HoldsTruth, TruthInPlace, FeaturesInPlace, CloseTemporary
<1> QED
  BY <1>7, <1>8

(* Renaming it puts the whole file in place, next to the other one.        *)
LEMMA OwnReplace ==
  ASSUME TypeOK, NEW g \in Generators, Own(g),
         NEW f \in Files, NEW at \in {"replace_features", "replace_truth"},
         <<f, at>> \in {<<"features", "replace_features">>, <<"truth", "replace_truth">>},
         ReplaceFile(g, f, at)
  PROVE  /\ Own(g)' /\ file' = [file EXCEPT ![f] = gen[g].config]
         /\ manifest' = manifest /\ manifestTmp' = manifestTmp
<1>1. gen[g] \in Generator /\ gen[g].pc = at
  BY BusyAreTyped DEF ReplaceFile
<1>2. gen[g].handle[f] = "closed" /\ tmp[f] = gen[g].config
  BY <1>1 DEF Own, OwnHandles, OwnFiles, HoldsFeatures, HoldsTruth
<1>3. file' = [file EXCEPT ![f] = gen[g].config] /\ tmp' = [tmp EXCEPT ![f] = Absent]
  BY <1>2 DEF ReplaceFile, SetFile
<1>4. gen[g].handle \in [Files -> Handles] /\ Files = {"features", "truth"}
  BY <1>1 DEF Generator, Handles, Files
<1>5. /\ Renamed(f)[g].handle = gen[g].handle /\ Renamed(f)[g].hash = gen[g].hash
      /\ Renamed(f)[g].config = gen[g].config /\ Renamed(f)[g].pc = at
      /\ Renamed(f)[g] \in Generator
  <2>1. Renamed(f)[g] = [gen[g] EXCEPT !.handle[f] = "closed"]
    BY <1>1, <1>2 DEF Renamed
  <2>2. [gen[g].handle EXCEPT ![f] = "closed"] = gen[g].handle
    BY <1>2, <1>4
  <2> QED
    BY <1>1, <2>1, <2>2 DEF Generator
<1>6. gen'[g] = [Renamed(f)[g] EXCEPT !.pc = Then[at]]
  BY <1>5 DEF ReplaceFile, Renamed
<1>7. /\ gen'[g].pc = Then[at] /\ gen'[g].handle = gen[g].handle
      /\ gen'[g].hash = gen[g].hash /\ gen'[g].config = gen[g].config
  BY <1>5, <1>6 DEF Generator
<1>8. tmp \in [Files -> Content] /\ file \in [Files -> Content]
  BY DEF TypeOK
<1>9. CASE f = "truth" /\ at = "replace_truth"
  <2>1. gen'[g].pc = "close_features"
    BY <1>7, <1>9, GeneratorOrder
  <2>2. /\ gen'[g].handle["truth"] = "closed" /\ file'["truth"] = gen'[g].config
        /\ gen'[g].handle["features"] = "tmp" /\ tmp'["features"] = "partial"
    BY <1>1, <1>2, <1>3, <1>4, <1>7, <1>8, <1>9 DEF Own, OwnHandles, HoldsFeatures
  <2> QED
    BY <1>3, <2>1, <2>2 DEF Own, OwnHandles, OwnFiles, OwnHashes, HoldsFeatures,
       HoldsTruth, TruthInPlace, FeaturesInPlace, ReplaceFile
<1>10. CASE f = "features" /\ at = "replace_features"
  <2>1. gen'[g].pc = "hash_features"
    BY <1>7, <1>10, GeneratorOrder
  <2>2. /\ gen'[g].handle["truth"] = "closed" /\ file'["truth"] = gen'[g].config
        /\ gen'[g].handle["features"] = "closed" /\ file'["features"] = gen'[g].config
    BY <1>1, <1>2, <1>3, <1>4, <1>7, <1>8, <1>10
       DEF Own, OwnHandles, OwnFiles, HoldsTruth, TruthInPlace
  <2> QED
    BY <1>3, <2>1, <2>2 DEF Own, OwnHandles, OwnFiles, OwnHashes, HoldsFeatures,
       HoldsTruth, TruthInPlace, FeaturesInPlace, ReplaceFile
<1> QED
  BY <1>9, <1>10

(* The checksums it takes and the manifest it writes are of its own files. *)
LEMMA OwnHash ==
  ASSUME TypeOK, NEW g \in Generators, Own(g),
         NEW f \in Files, NEW at \in {"hash_features", "hash_truth"},
         <<f, at>> \in {<<"features", "hash_features">>, <<"truth", "hash_truth">>},
         HashFile(g, f, at)
  PROVE  Own(g)' /\ dataset' = dataset
<1>1. gen[g] \in Generator /\ gen[g].pc = at
  BY BusyAreTyped DEF HashFile
<1>2. /\ gen'[g].pc = Then[at] /\ gen'[g].hash = [gen[g].hash EXCEPT ![f] = file[f]]
      /\ gen'[g].handle = gen[g].handle /\ gen'[g].config = gen[g].config
  BY <1>1 DEF HashFile, TypeOK, Generator
<1>3. gen[g].hash \in [Files -> Content] /\ Files = {"features", "truth"}
  BY <1>1 DEF Generator, Files
<1>4. /\ tmp' = tmp /\ file' = file /\ dataset' = dataset
  BY DEF HashFile, dataset
<1>5. /\ gen[g].handle["features"] = "closed" /\ gen[g].handle["truth"] = "closed"
      /\ file["features"] = gen[g].config /\ file["truth"] = gen[g].config
  BY <1>1 DEF Own, OwnHandles, OwnFiles, HoldsFeatures, HoldsTruth, TruthInPlace,
              FeaturesInPlace
<1>6. CASE f = "features" /\ at = "hash_features"
  <2>1. gen'[g].pc = "hash_truth" /\ gen'[g].hash["features"] = gen[g].config
    BY <1>2, <1>3, <1>5, <1>6, GeneratorOrder
  <2> QED
    BY <1>2, <1>4, <1>5, <2>1 DEF Own, OwnHandles, OwnFiles, OwnHashes, HoldsFeatures,
       HoldsTruth, TruthInPlace, FeaturesInPlace
<1>7. CASE f = "truth" /\ at = "hash_truth"
  <2>1. /\ gen'[g].pc = "write_manifest" /\ gen'[g].hash["truth"] = gen[g].config
        /\ gen'[g].hash["features"] = gen[g].config
    BY <1>1, <1>2, <1>3, <1>5, <1>7, GeneratorOrder DEF Own, OwnHashes
  <2> QED
    BY <1>2, <1>4, <1>5, <2>1 DEF Own, OwnHandles, OwnFiles, OwnHashes, HoldsFeatures,
       HoldsTruth, TruthInPlace, FeaturesInPlace
<1> QED
  BY <1>6, <1>7

LEMMA OwnManifest ==
  ASSUME TypeOK, NEW g \in Generators, Own(g), gen[g].alone, WriteManifest(g)
  PROVE  Own(g)' /\ file' = file /\ manifest' = manifest
<1>1. gen[g] \in Generator /\ gen[g].pc = "write_manifest"
  BY BusyAreTyped DEF WriteManifest
<1>2. /\ gen'[g].pc = "replace_manifest" /\ gen'[g].hash = gen[g].hash
      /\ gen'[g].handle = gen[g].handle /\ gen'[g].config = gen[g].config
  BY <1>1, GeneratorOrder DEF WriteManifest, Advance, TypeOK, Generator
<1>3. gen[g].alone = TRUE
  BY <1>1 DEF Generator
<1>4. manifestTmp' = [config |-> gen[g].config, features |-> gen[g].config,
                      truth |-> gen[g].config, alone |-> TRUE]
  BY <1>1, <1>3 DEF WriteManifest, Own, OwnHashes
<1>5. /\ gen[g].handle["features"] = "closed" /\ gen[g].handle["truth"] = "closed"
      /\ file["features"] = gen[g].config /\ file["truth"] = gen[g].config
  BY <1>1 DEF Own, OwnHandles, OwnFiles, HoldsFeatures, HoldsTruth, TruthInPlace,
              FeaturesInPlace
<1>6. tmp' = tmp /\ file' = file /\ manifest' = manifest
  BY DEF WriteManifest
<1> QED
  BY <1>2, <1>4, <1>5, <1>6 DEF Own, OwnHandles, OwnFiles, OwnHashes, HoldsFeatures,
     HoldsTruth, TruthInPlace, FeaturesInPlace

(* An exception in it, or a rename it cannot do, leaves the files in place *)
(* alone: its open handles are still on temporary names.                   *)
LEMMA OwnUnwind ==
  ASSUME TypeOK, NEW g \in Generators, Own(g), RowsRaise(g) \/ ReplaceRaises(g)
  PROVE  file' = file /\ manifest' = manifest /\ manifestTmp' = manifestTmp
<1>1. Unwind(g)
  BY DEF RowsRaise, ReplaceRaises
<1>2. \A f \in Files : gen[g].handle[f] # "file"
  BY DEF Own, OwnHandles, Files
<1>3. file = [f \in Files |-> file[f]]
  BY DEF TypeOK
<1> DEFINE open == {f \in Files : gen[g].handle[f] # "closed"}
<1>4. [f \in Files |-> IF f \in open /\ gen[g].handle[f] = "file" THEN "torn" ELSE file[f]]
        = file
  BY <1>2, <1>3
<1> QED
  BY <1>1, <1>4 DEF Unwind, SetFile

OwnRecord(g) ==
  [config |-> gen[g].config, features |-> gen[g].config, truth |-> gen[g].config,
   alone |-> TRUE]

LEMMA OwnRecordIs ==
  ASSUME TypeOK, NEW g \in Generators, gen[g].pc # "idle"
  PROVE  /\ OwnRecord(g) # Absent /\ OwnRecord(g).config = gen[g].config
         /\ \A f \in Files : OwnRecord(g)[f] = gen[g].config
<1>1. gen[g] \in Generator
  BY BusyAreTyped
<1>2. gen[g].config \in Configs /\ gen[g].config \in Content
  BY <1>1 DEF Generator, Content
<1>3. OwnRecord(g) \in Manifest
  BY <1>2 DEF OwnRecord, Manifest
<1>4. OwnRecord(g)["features"] = gen[g].config /\ OwnRecord(g)["truth"] = gen[g].config
      /\ OwnRecord(g).config = gen[g].config
  BY DEF OwnRecord
<1> QED
  BY <1>3, <1>4, AbsentAssumption DEF Files

(* Publishing its manifest, it names what is in place.                     *)
LEMMA OwnPublish ==
  ASSUME TypeOK, NEW g \in Generators, Own(g), ReplaceManifest(g)
  PROVE  /\ file' = file /\ manifest' = OwnRecord(g) /\ manifestTmp' = Absent
         /\ \A f \in Files : file[f] = gen[g].config
<1>1. gen[g] \in Generator /\ gen[g].pc = "replace_manifest"
  BY BusyAreTyped DEF ReplaceManifest
<1>2. manifestTmp = OwnRecord(g)
  BY <1>1 DEF Own, OwnHashes, OwnRecord
<1>4. manifestTmp # Absent
  BY <1>1, <1>2, OwnRecordIs
<1>5. \A f \in Files : file[f] = gen[g].config
  BY <1>1 DEF Own, OwnFiles, Files, TruthInPlace, FeaturesInPlace
<1> QED
  BY <1>2, <1>4, <1>5 DEF ReplaceManifest

(* What a step of a generator that is alone may do to the data set.        *)
LEMMA AloneStep ==
  ASSUME TypeOK, SoleGenerator, GeneratesAlone, NEW g \in Generators, Generate(g),
         gen[g].alone
  PROVE  /\ gen'[g].pc # "idle" => Own(g)'
         /\ \/ \E f \in Files : file' = [file EXCEPT ![f] = gen[g].config]
            \/ file' = file
         /\ manifest' = manifest \/ (manifest' = OwnRecord(g) /\ ReplaceManifest(g))
<1>1. g \in BusyGenerators
  BY GenerateSteps DEF BusyGenerators
<1>2. BusyGenerators = {g} /\ Own(g)
  BY <1>1 DEF SoleGenerator, GeneratesAlone
<1>3. "features" \in Files /\ "truth" \in Files
  BY DEF Files
<1>4. CASE OpenTemporary(g, "features", "open_features")
             \/ OpenTemporary(g, "truth", "open_truth")
  BY <1>2, <1>3, <1>4, OwnOpen
<1>5. CASE CloseTemporary(g, "features", "close_features")
             \/ CloseTemporary(g, "truth", "close_truth")
  BY <1>2, <1>3, <1>5, OwnClose
<1>6. CASE ReplaceFile(g, "features", "replace_features")
             \/ ReplaceFile(g, "truth", "replace_truth")
  BY <1>2, <1>3, <1>6, OwnReplace
<1>7. CASE RowsRaise(g) \/ ReplaceRaises(g)
  <2>1. gen'[g].pc = "idle"
    BY <1>7 DEF RowsRaise, ReplaceRaises, Unwind, Unlinked, IdleGenerator
  <2> QED
    BY <1>2, <1>7, <2>1, OwnUnwind
<1>8. CASE HashFile(g, "features", "hash_features")
             \/ HashFile(g, "truth", "hash_truth")
  BY <1>2, <1>3, <1>8, OwnHash DEF dataset
<1>9. CASE WriteManifest(g)
  BY <1>2, <1>9, OwnManifest
<1>10. CASE ReplaceManifest(g)
  <2>1. gen'[g].pc = "idle"
    BY <1>10 DEF ReplaceManifest, TypeOK, IdleGenerator
  <2> QED
    BY <1>2, <1>10, <2>1, OwnPublish
<1> QED
  BY <1>4, <1>5, <1>6, <1>7, <1>8, <1>9, <1>10 DEF Generate

LEMMA GeneratesAloneStep ==
  ASSUME TypeOK, SoleGenerator, GeneratesAlone, [Next]_vars
  PROVE  GeneratesAlone'
<1>1. ASSUME gen' = gen, dataset' = dataset
      PROVE  GeneratesAlone'
  BY <1>1 DEF GeneratesAlone, BusyGenerators, Own, OwnHandles, OwnFiles, OwnHashes,
     HoldsFeatures, HoldsTruth, dataset
<1>2. ASSUME NEW g \in Generators, NEW c \in Configs, StartGenerator(g, c)
      PROVE  GeneratesAlone'
  <2>1. /\ gen'[g].pc = "open_features"
        /\ gen'[g].handle = [f \in Files |-> "closed"]
    BY <1>2 DEF StartGenerator
  <2>2. Own(g)'
    BY <2>1 DEF Own, OwnHandles, OwnFiles, OwnHashes, HoldsFeatures, HoldsTruth,
       TruthInPlace, FeaturesInPlace, Files
  <2>3. ASSUME NEW h \in BusyGenerators', h # g
        PROVE  ~gen'[h].alone
    <3>1. gen'[h] = IF h \in BusyGenerators THEN [gen[h] EXCEPT !.alone = FALSE]
                    ELSE gen[h]
      BY <1>2, <2>3 DEF StartGenerator, BusyGenerators
    <3>2. h \in BusyGenerators
      BY <2>3, <3>1 DEF BusyGenerators
    <3> QED
      BY <3>1, <3>2, BusyAreTyped DEF BusyGenerators, Generator
  <2> QED
    BY <2>2, <2>3 DEF GeneratesAlone
<1>3. ASSUME NEW g \in Generators, Generate(g)
      PROVE  GeneratesAlone'
  <2>1. ASSUME NEW h \in BusyGenerators', gen'[h].alone
        PROVE  h = g /\ gen[g].alone
    <3>1. h \in BusyGenerators /\ gen[h].alone /\ g \in BusyGenerators
      BY <1>3, <2>1, GenerateSteps DEF BusyGenerators
    <3> QED
      BY <3>1 DEF SoleGenerator
  <2> QED
    BY <1>3, <2>1, AloneStep DEF GeneratesAlone, BusyGenerators
<1>4. ASSUME NEW g \in Generators, KillGenerator(g)
      PROVE  GeneratesAlone'
  <2>1. dataset' = dataset
    BY <1>4 DEF KillGenerator
  <2>2. \A h \in BusyGenerators' : h \in BusyGenerators /\ gen'[h] = gen[h]
    BY <1>4 DEF KillGenerator, BusyGenerators, IdleGenerator, TypeOK
  <2> QED
    BY <2>1, <2>2 DEF GeneratesAlone, Own, OwnHandles, OwnFiles, OwnHashes,
       HoldsFeatures, HoldsTruth, dataset
<1>5. ASSUME NEW t \in Trainers, StartTrainer(t) \/ Train(t) \/ KillTrainer(t)
      PROVE  gen' = gen /\ dataset' = dataset
  BY <1>5, StartTrainerStep, TrainSteps, KillTrainerStep
<1> QED
  BY <1>1, <1>2, <1>3, <1>4, <1>5, WhoSteps DEF vars

(* A manifest whose generator was alone names one configuration throughout.*)
OfItsConfig(m) == m # Absent /\ m.alone => m.features = m.config /\ m.truth = m.config
ManifestsTell == OfItsConfig(manifestTmp) /\ OfItsConfig(manifest)

LEMMA ManifestsTellStep ==
  ASSUME TypeOK, SoleGenerator, GeneratesAlone, ManifestsTell, [Next]_vars
  PROVE  ManifestsTell'
<1>1. ASSUME manifest' = manifest, manifestTmp' = manifestTmp
      PROVE  ManifestsTell'
  BY <1>1 DEF ManifestsTell, OfItsConfig
<1>2. ASSUME NEW g \in Generators, Generate(g)
      PROVE  ManifestsTell'
  <2>1. CASE WriteManifest(g)
    <3>1. gen[g].pc = "write_manifest" /\ gen[g] \in Generator
      BY <2>1, BusyAreTyped DEF WriteManifest
    <3>2. manifest' = manifest /\ manifestTmp'.alone = gen[g].alone
          /\ manifestTmp'.config = gen[g].config
          /\ manifestTmp'.features = gen[g].hash["features"]
          /\ manifestTmp'.truth = gen[g].hash["truth"]
      BY <2>1 DEF WriteManifest
    <3>3. gen[g].alone => gen[g].hash["features"] = gen[g].config
                          /\ gen[g].hash["truth"] = gen[g].config
      BY <3>1 DEF GeneratesAlone, BusyGenerators, Own, OwnHashes
    <3> QED
      BY <3>2, <3>3 DEF ManifestsTell, OfItsConfig
  <2>2. CASE ReplaceManifest(g)
    BY <2>2 DEF ReplaceManifest, ManifestsTell, OfItsConfig
  <2>3. CASE ~WriteManifest(g) /\ ~ReplaceManifest(g)
    <3>1. manifest' = manifest /\ manifestTmp' = manifestTmp
      BY <1>2, <2>3 DEF Generate, OpenTemporary, CloseTemporary, ReplaceFile, RowsRaise,
         ReplaceRaises, Unwind, HashFile, dataset
    <3> QED
      BY <1>1, <3>1
  <2> QED
    BY <2>1, <2>2, <2>3
<1>3. ASSUME NEW g \in Generators,
             (\E c \in Configs : StartGenerator(g, c)) \/ KillGenerator(g)
      PROVE  manifest' = manifest /\ manifestTmp' = manifestTmp
  BY <1>3 DEF StartGenerator, KillGenerator, dataset
<1>4. ASSUME NEW t \in Trainers, StartTrainer(t) \/ Train(t) \/ KillTrainer(t)
      PROVE  manifest' = manifest /\ manifestTmp' = manifestTmp
  BY <1>4, StartTrainerStep, TrainSteps, KillTrainerStep DEF dataset
<1> QED
  BY <1>1, <1>2, <1>3, <1>4, WhoSteps DEF vars, dataset

Published == TypeOK /\ SoleGenerator /\ GeneratesAlone /\ ManifestsTell

LEMMA PublishedAlways == Spec => []Published
<1>1. Init => SoleGenerator /\ GeneratesAlone /\ ManifestsTell
  BY DEF Init, SoleGenerator, GeneratesAlone, ManifestsTell, OfItsConfig,
         BusyGenerators, IdleGenerator
<1>2. Typed => TypeOK
  BY DEF Typed
<1>3. Spec => [](Typed /\ SoleGenerator /\ GeneratesAlone /\ ManifestsTell)
  BY <1>1, <1>2, TypedInit, TypedStep, SoleGeneratorStep, GeneratesAloneStep,
     ManifestsTellStep, PTL DEF Spec
<1>4. Typed /\ SoleGenerator /\ GeneratesAlone /\ ManifestsTell => Published
  BY <1>2 DEF Published
<1> QED
  BY <1>3, <1>4, PTL

-------------------------------------------------------------------------------
(* What a data set is worth once its generator is through.                 *)

Finishes(g) ==
  gen[g].pc = "replace_manifest" /\ gen'[g].pc = "idle" /\ faults' = faults
    /\ gen[g].alone

FinishStep ==
  \A g \in Generators : Finishes(g) =>
    /\ Loadable' /\ manifest'.config = gen[g].config
    /\ \A f \in Files : file'[f] = gen[g].config

(* Only publishing the manifest ends a generator that has written one.     *)
LEMMA FinishesByPublishing ==
  ASSUME TypeOK, [Next]_vars, NEW g \in Generators, Finishes(g)
  PROVE  ReplaceManifest(g)
<1>1. gen'[g] # gen[g]
  BY DEF Finishes
<1>2. ASSUME NEW h \in Generators, Generate(h)
      PROVE  ReplaceManifest(g)
  <2>1. h = g
    BY <1>2, GenerateSteps DEF Finishes
  <2>2. ~RowsRaise(g) /\ ~ReplaceRaises(g)
    BY DEF RowsRaise, ReplaceRaises, Finishes
  <2> QED
    BY <1>2, <2>1, <2>2 DEF Generate, OpenTemporary, CloseTemporary, ReplaceFile,
       HashFile, WriteManifest, Finishes
<1>3. ASSUME NEW h \in Generators, NEW c \in Configs, StartGenerator(h, c)
      PROVE  FALSE
  <2>1. gen'[g].pc # "idle"
    BY <1>3, BusyAreTyped DEF StartGenerator, Finishes, Generator, BusyGenerators
  <2> QED
    BY <2>1 DEF Finishes
<1>4. ASSUME NEW h \in Generators, KillGenerator(h)
      PROVE  FALSE
  BY <1>4, BoundsAssumption DEF KillGenerator, Finishes, TypeOK
<1>5. ASSUME NEW t \in Trainers, StartTrainer(t) \/ Train(t) \/ KillTrainer(t)
      PROVE  gen' = gen
  BY <1>5, StartTrainerStep, TrainSteps, KillTrainerStep
<1> QED
  BY <1>1, <1>2, <1>3, <1>4, <1>5, WhoSteps DEF vars

(* FinishedIsLoadable (docs/simulator.md:20): a generator that ran alone   *)
(* to its end leaves a manifest of its configuration whose checksums are   *)
(* those of both files in place, whatever killed runs and overlapping ones *)
(* before it had left under the temporary and the final names.             *)
THEOREM FinishedIsLoadableHolds == Spec => FinishedIsLoadable
<1>1. Published /\ [Next]_vars => [FinishStep]_vars
  <2> SUFFICES ASSUME Published, [Next]_vars, NEW g \in Generators, Finishes(g)
               PROVE  /\ Loadable' /\ manifest'.config = gen[g].config
                      /\ \A f \in Files : file'[f] = gen[g].config
    BY DEF FinishStep
  <2>1. ReplaceManifest(g)
    BY FinishesByPublishing DEF Published
  <2>2. Own(g)
    BY DEF Published, GeneratesAlone, BusyGenerators, Finishes
  <2>3. /\ file' = file /\ manifest' = OwnRecord(g)
        /\ \A f \in Files : file[f] = gen[g].config
    BY <2>1, <2>2, OwnPublish DEF Published
  <2>4. /\ OwnRecord(g) # Absent /\ OwnRecord(g).config = gen[g].config
        /\ \A f \in Files : OwnRecord(g)[f] = gen[g].config
    BY OwnRecordIs DEF Published, Finishes
  <2> QED
    BY <2>3, <2>4 DEF Loadable
<1>2. Spec => [][FinishStep]_vars
  BY <1>1, PublishedAlways, PTL DEF Spec
<1>3. [FinishStep]_vars <=>
        [\A g \in Generators :
           gen[g].pc = "replace_manifest" /\ gen'[g].pc = "idle" /\ faults' = faults
             /\ gen[g].alone =>
             /\ Loadable' /\ manifest'.config = gen[g].config
             /\ \A f \in Files : file'[f] = gen[g].config]_vars
  BY DEF FinishStep, Finishes
<1> QED
  BY <1>2, <1>3, PTL DEF FinishedIsLoadable

RerunStep ==
  /\ Loadable /\ manifest.alone
  /\ \A g \in BusyGenerators : gen[g].alone /\ gen[g].config = manifest.config
  => Loadable'

(* RerunStaysLoadable (docs/simulator.md:22-23): while only generators of  *)
(* the configuration in place run, one at a time, no step of anybody       *)
(* makes the data set unloadable, not between two renames and not when the *)
(* generator dies there.                                                   *)
THEOREM RerunStaysLoadableHolds == Spec => RerunStaysLoadable
<1>1. Published /\ [Next]_vars => [RerunStep]_vars
  <2> SUFFICES ASSUME Published, [Next]_vars, Loadable, manifest.alone,
                      \A g \in BusyGenerators :
                        gen[g].alone /\ gen[g].config = manifest.config
               PROVE  Loadable'
    BY DEF RerunStep
  <2> DEFINE c == manifest.config
  <2>1. \A f \in Files : file[f] = c /\ manifest[f] = c
    BY DEF Published, ManifestsTell, OfItsConfig, Loadable, Files
  <2>2. file \in [Files -> Content] /\ manifest # Absent
    BY DEF Published, TypeOK, Loadable
  <2>3. ASSUME NEW g \in Generators, Generate(g)
        PROVE  Loadable'
    <3>1. gen[g].alone /\ gen[g].config = c
      BY <2>3, GenerateSteps DEF Published, BusyGenerators
    <3>2. \/ \E f \in Files : file' = [file EXCEPT ![f] = c]
          \/ file' = file
      BY <2>3, <3>1, AloneStep DEF Published
    <3>3. \A f \in Files : file'[f] = c
      BY <2>1, <2>2, <3>2
    <3>4. CASE manifest' = manifest
      BY <2>1, <2>2, <3>3, <3>4 DEF Loadable
    <3>5. CASE manifest' = OwnRecord(g)
      <4>1. OwnRecord(g) # Absent /\ \A f \in Files : OwnRecord(g)[f] = c
        BY <2>3, <3>1, GenerateSteps, OwnRecordIs DEF Published
      <4> QED
        BY <3>3, <3>5, <4>1 DEF Loadable
    <3> QED
      BY <2>3, <3>1, <3>4, <3>5, AloneStep DEF Published
  <2>4. ASSUME NEW g \in Generators,
               (\E d \in Configs : StartGenerator(g, d)) \/ KillGenerator(g)
        PROVE  dataset' = dataset
    BY <2>4 DEF StartGenerator, KillGenerator
  <2>5. ASSUME NEW t \in Trainers, StartTrainer(t) \/ Train(t) \/ KillTrainer(t)
        PROVE  dataset' = dataset
    BY <2>5, StartTrainerStep, TrainSteps, KillTrainerStep DEF Published
  <2>6. ASSUME dataset' = dataset
        PROVE  Loadable'
    BY <2>6 DEF dataset, Loadable
  <2> QED
    BY <2>3, <2>4, <2>5, <2>6, WhoSteps DEF vars
<1>2. Spec => [][RerunStep]_vars
  BY <1>1, PublishedAlways, PTL DEF Spec
<1>3. [RerunStep]_vars <=>
        [/\ Loadable /\ manifest.alone
         /\ \A g \in BusyGenerators : gen[g].alone /\ gen[g].config = manifest.config
         => Loadable']_vars
  BY DEF RerunStep
<1> QED
  BY <1>2, <1>3, PTL DEF RerunStaysLoadable

-------------------------------------------------------------------------------
(* What a model is fitted to.                                              *)

(* The manifest a trainer has read is one that was in place.               *)
ReadManifestsTell == \A t \in BusyTrainers : OfItsConfig(trainer[t].manifest)

LEMMA ReadManifestsTellStep ==
  ASSUME Typed, ManifestsTell, ReadManifestsTell, [Next]_vars
  PROVE  ReadManifestsTell'
<1> USE DEF Typed
<1>1. ASSUME trainer' = trainer
      PROVE  ReadManifestsTell'
  BY <1>1 DEF ReadManifestsTell, BusyTrainers, OfItsConfig
<1>2. ASSUME NEW t \in Trainers, StartTrainer(t)
      PROVE  ReadManifestsTell'
  <2>1. trainer'[t].manifest = Absent
    BY <1>2 DEF StartTrainer
  <2>2. ASSUME NEW v \in BusyTrainers', v # t
        PROVE  v \in BusyTrainers /\ trainer'[v].manifest = trainer[v].manifest
    BY <1>2, <2>2, StartTrainerStep DEF BusyTrainers
  <2> QED
    BY <2>1, <2>2 DEF ReadManifestsTell, OfItsConfig
<1>3. ASSUME NEW t \in Trainers, Train(t)
      PROVE  ReadManifestsTell'
  <2>1. ASSUME NEW v \in BusyTrainers', v # t
        PROVE  v \in BusyTrainers /\ trainer'[v].manifest = trainer[v].manifest
    BY <1>3, <2>1, TrainSteps DEF BusyTrainers
  <2>2. ASSUME trainer'[t].pc # "idle"
        PROVE  /\ t \in BusyTrainers
               /\ \/ trainer'[t].manifest = trainer[t].manifest
                  \/ trainer'[t].manifest = manifest
    BY <1>3, <2>2, TrainSteps DEF Progress, BusyTrainers
  <2> QED
    BY <2>1, <2>2 DEF ReadManifestsTell, ManifestsTell, OfItsConfig, BusyTrainers
<1>4. ASSUME NEW t \in Trainers, KillTrainer(t)
      PROVE  ReadManifestsTell'
  <2>1. \A v \in BusyTrainers' : v \in BusyTrainers /\ trainer'[v] = trainer[v]
    BY <1>4, KillTrainerStep DEF BusyTrainers
  <2> QED
    BY <2>1 DEF ReadManifestsTell, OfItsConfig
<1>5. ASSUME NEW g \in Generators,
             (\E c \in Configs : StartGenerator(g, c)) \/ Generate(g) \/ KillGenerator(g)
      PROVE  trainer' = trainer
  BY <1>5, GeneratorsLeave
<1> QED
  BY <1>1, <1>2, <1>3, <1>4, <1>5, WhoSteps DEF vars

(* FittedToPublished (docs/ml-model.md:28): what a generator that ran alone*)
(* publishes is whole and of its configuration, however many died before   *)
(* it; and a load that nobody disturbed takes over exactly that, so that   *)
(* the fit sees the data of the configuration in its manifest.             *)
THEOREM FittedToPublishedHolds == Spec => []FittedToPublished
<1>1. Init => LoadsChecked /\ ReadManifestsTell
  BY DEF Init, LoadsChecked, ReadManifestsTell, BusyTrainers, IdleTrainer
<1>2. Published => ManifestsTell
  BY DEF Published
<1>3. Spec => [](Typed /\ LoadsChecked /\ ReadManifestsTell)
  BY <1>1, <1>2, PublishedAlways, TypedInit, TypedStep, LoadsCheckedStep,
     ReadManifestsTellStep, PTL DEF Spec
<1>4. Typed /\ LoadsChecked /\ ReadManifestsTell => FittedToPublished
  <2> SUFFICES ASSUME Typed, LoadsChecked, ReadManifestsTell, NEW t \in BusyTrainers,
                      HasLoaded(t), t \notin disturbed, trainer[t].manifest.alone,
                      NEW f \in Files
               PROVE  trainer[t].rows[f] = trainer[t].manifest.config
    BY DEF FittedToPublished
  <2>1. trainer[t].rows[f] = trainer[t].manifest[f]
    BY DEF LoadsChecked, LoadsWhatItChecked
  <2>2. trainer[t].manifest # Absent
    BY AbsentAssumption DEF Typed, HaveManifest, BusyTrainers, HasLoaded
  <2>3. trainer[t].manifest[f] = trainer[t].manifest.config
    BY <2>2 DEF ReadManifestsTell, OfItsConfig, Files
  <2> QED
    BY <2>1, <2>3
<1> QED
  BY <1>3, <1>4, PTL
===============================================================================
