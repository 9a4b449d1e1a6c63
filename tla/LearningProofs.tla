--------------------------- MODULE LearningProofs ---------------------------
(***************************************************************************)
(* Proofs about how the ai-risk service learns, for any number of          *)
(* trainings, exports and restarts, overlapping and killed where they may  *)
(* be: the registry names a whole artifact, undisturbed trainings leave    *)
(* one model everywhere, and a model is fitted on what was reviewed.       *)
(***************************************************************************)
EXTENDS Learning, FiniteSetTheorems, SequenceTheorems, TLAPS

-----------------------------------------------------------------------------
(* The inductive invariant.                                                *)

Versions == ToSet(Artifacts)
Zones == {p.zone : p \in Payloads}
Levels == {p.level : p \in Payloads}
Scores == {p.score : p \in Payloads}
Labels == {LabelOf(r) : r \in Reviews}

Row == [id : Nat, zone : Zones, level : Levels, score : Labels]
LogRow == [zone : Zones, level : Levels, score : Scores, review : Reviews \cup {None}]
ReviewRow == [id : Nat, review : Reviews]
Run == [pc : {"open", "write", "done", "killed"}, at : 1..7, artifact : Versions,
        read : Seq(Nat), rows : SUBSET Row, held : SUBSET Row, as_of : Nat]

FilesTyped == files \in [FileNames -> [state : {"missing", "cut", "whole"}, model : Nat]]
RegistryTyped ==
  registry \in [state : {"cut", "whole"}, active : Versions \cup {Shipped}, history : Seq(Nat)]
ServiceTyped ==
  service \in [path : Versions \cup {Shipped, Configured}, model : {None, Heuristic} \cup Nat,
               starts : Nat, since : Int]

DataTyped ==
  /\ logs \in Seq(LogRow) /\ reviews \in Seq(ReviewRow)
  /\ dataset \in [state : {"missing", "cut", "whole"}, rows : SUBSET Row, as_of : Nat]
  /\ export \in [pc : {"done", "open", "write"}, rows : SUBSET Row, as_of : Nat, runs : Nat]

RunsTyped ==
  /\ trainings \in Seq(Run) /\ disturbed \in BOOLEAN /\ second \in Nat \ {0}
  /\ \A k \in DOMAIN trainings :
       /\ Training(k) => trainings[k].at <= 6
       /\ trainings[k].pc = "done" => trainings[k].at = 7
       /\ trainings[k].pc = "killed" => disturbed

\* A whole artifact was written by a training it is named after, and is still that
\* training's unless another one has taken the name.
Made(k, a, step) == k \in DOMAIN trainings /\ trainings[k].artifact = a /\ Past(k, step)

ArtifactsOwned ==
  /\ \A f \in FileNames : files[f].model <= Len(trainings)
  /\ \A a \in Versions : Readable(a) => Made(files[a].model, a, 3)
  /\ \A k \in DOMAIN trainings :
       Past(k, 3) /\ ~Collides(k) => files[trainings[k].artifact] = File("whole", k)

\* The registry names the artifact of the last training in its history.
RegistryNames ==
  /\ Len(registry.history) <= HistoryLimit
  /\ registry.history # <<>> => Made(Last(registry.history), registry.active, 5)
  /\ registry.history = <<>> => registry.active = Shipped

\* The service was told of a registered artifact, and what it serves was made under that name.
ServiceNames ==
  /\ service.path \in Versions => \E j \in DOMAIN trainings : Made(j, service.path, 5)
  /\ service.model \in Nat => service.model <= Len(trainings)
  /\ service.model \in Nat /\ service.path # Configured =>
       service.path \in Versions /\ Made(service.model, service.path, 3)

\* Numbers one after the other, up to n.
Chain(h, n) ==
  /\ h = <<>> <=> n = 0
  /\ n > 0 => h[Len(h)] = n
  /\ \A i \in 1..(Len(h) - 1) : h[i] + 1 = h[i + 1]

\* While nothing is disturbed all trainings but the last are done, and the files show how
\* far the last one is.
Written(k) ==
  LET t == trainings[k] IN
  /\ t.at > 1 => files["split"] = File("whole", k)
  /\ t.at > 3 => files[t.artifact] = File("whole", k)
  /\ t.at > 4 => files[Configured] = File("whole", k)
  /\ t.at > 5 => registry.active = t.artifact
  /\ t.at > 6 => files["metadata"] = File("whole", k)

Registering(k) == trainings[k].at = 5 /\ trainings[k].pc = "write"

History(n) ==
  IF n = 0 \/ trainings[n].at > 5 THEN Chain(registry.history, n)
  ELSE IF Registering(n) THEN Chain(trainings[n].read, n - 1)
  ELSE Chain(registry.history, n - 1)

Orderly ==
  LET n == Len(trainings) IN
    /\ \A k \in 1..n - 1 : trainings[k].pc = "done"
    /\ History(n)
    /\ n > 0 => Written(n)
    /\ n = 0 => files["metadata"] = File("whole", 0)
    /\ registry.state = "cut" => n > 0 /\ Registering(n)

\* A service started after that many trainings, none of them running, was told of the last.
Started ==
  LET n == Len(trainings) IN
    service.since = n =>
      IF n = 0 THEN service.path = Shipped /\ service.model \in {None, Heuristic}
      ELSE /\ trainings[n].at = 7 /\ service.path = trainings[n].artifact
           /\ service.model \in {None, n}

ModelsInv ==
  /\ FilesTyped /\ RegistryTyped /\ ServiceTyped /\ RunsTyped
  /\ ArtifactsOwned /\ RegistryNames /\ ServiceNames
  /\ service.since <= Len(trainings)
  /\ ~disturbed => Orderly /\ Started

\* What a prediction's row says of its reviews is what the last of them said.
LastReview(p, review) ==
  \E i \in DOMAIN reviews :
    /\ reviews[i].id = p /\ reviews[i].review = review
    /\ \A j \in DOMAIN reviews : j > i => reviews[j].id # p

ReviewsKept ==
  /\ \A i \in DOMAIN reviews : reviews[i].id \in DOMAIN logs
  /\ \A p \in DOMAIN logs :
       IF logs[p].review = None THEN \A i \in DOMAIN reviews : reviews[i].id # p
                                ELSE LastReview(p, logs[p].review)

\* Rows exported after n reviews.
RowsFit(rows, n) ==
  /\ n <= Len(reviews)
  /\ {<<r.id, r.score>> : r \in rows} = LabelsAfter(n)
  /\ \A r \in rows : /\ r.id \in DOMAIN logs
                     /\ r.zone = logs[r.id].zone /\ r.level = logs[r.id].level
  /\ Cardinality(rows) = Cardinality(LabelsAfter(n))

DataInv ==
  /\ ReviewsKept
  /\ RowsFit(export.rows, export.as_of)
  /\ RowsFit(dataset.rows, dataset.as_of)

\* What a training uses was there after n reviews.
Learnt(rows, held, n) ==
  rows # {} => /\ n \in Nat /\ n <= Len(reviews)
               /\ Represents(rows, held, LabelsAfter(n))
               /\ Cardinality(LabelsAfter(n)) >= MinRows

TrainedInv ==
  \A k \in DOMAIN trainings : Learnt(trainings[k].rows, trainings[k].held, trainings[k].as_of)

-----------------------------------------------------------------------------
(* Names and plans.                                                        *)

\* Artifacts, the configured file and the repository's artifact have names of their own.
LEMMA NamesApart ==
  /\ \A s \in 1..Len(Artifacts) : Artifacts[s] \in Versions
  /\ Head(Artifacts) \in Versions /\ Len(Artifacts) \in Nat
  /\ Versions \subseteq FileNames /\ {"split", "metadata", Configured} \subseteq FileNames
  /\ Versions \cap {"split", "fit", "registry", "metadata", Configured, Shipped} = {}
  /\ \A f \in FileNames : f \in Versions \cup {"split", "metadata", Configured}
  /\ "fit" \notin FileNames /\ "registry" \notin FileNames /\ Shipped \notin FileNames
  /\ Configured \notin {"split", "fit", "registry", "metadata"}
  /\ Shipped # Configured
<1>1. \A s \in 1..Len(Artifacts) : Artifacts[s] \in Versions
  BY NamesAssumption DEF Versions, ToSet
<1>2. Head(Artifacts) \in Versions /\ Len(Artifacts) \in Nat
  BY <1>1, NamesAssumption
<1>3. Versions \cap {"split", "fit", "registry", "metadata", Configured, Shipped} = {}
  BY NamesAssumption DEF Versions
<1> QED
  BY <1>1, <1>2, <1>3, NamesAssumption DEF FileNames, Versions

\* The file a running training writes next follows from how far it is.
LEMMA TargetOfStep ==
  ASSUME RunsTyped, NEW k \in DOMAIN trainings, Training(k)
  PROVE  /\ trainings[k].at \in 1..6 /\ trainings[k].artifact \in Versions
         /\ trainings[k].at = 1 => Target(k) = "split"
         /\ trainings[k].at = 2 => Target(k) = "fit"
         /\ trainings[k].at = 3 => Target(k) = trainings[k].artifact
         /\ trainings[k].at = 4 => Target(k) = Configured
         /\ trainings[k].at = 5 => Target(k) = "registry"
         /\ trainings[k].at = 6 => Target(k) = "metadata"
<1>1. trainings[k] \in Run
  BY DEF RunsTyped
<1>2. trainings[k].at <= 6
  BY DEF RunsTyped
<1> QED
  BY <1>1, <1>2 DEF Run, Target, Plan

\* Conversely the file it writes next tells how far a training is.
LEMMA StepOfTarget ==
  ASSUME RunsTyped, NEW k \in DOMAIN trainings, Training(k)
  PROVE  /\ Target(k) = "fit" => trainings[k].at = 2
         /\ Target(k) = "registry" => trainings[k].at = 5
         /\ Target(k) = "metadata" => trainings[k].at = 6
         /\ Target(k) \in FileNames => trainings[k].at \in {1, 3, 4, 6}
<1> HIDE DEF Target
<1>1. trainings[k].at \in {1, 2, 3, 4, 5, 6}
  BY TargetOfStep
<1>2. CASE trainings[k].at = 1
  BY <1>2, TargetOfStep, NamesApart
<1>3. CASE trainings[k].at = 2
  BY <1>3, TargetOfStep, NamesApart
<1>4. CASE trainings[k].at = 3
  <2>1. Target(k) \in Versions
    BY <1>4, TargetOfStep
  <2> QED
    BY <1>4, <2>1, NamesApart
<1>5. CASE trainings[k].at = 4
  BY <1>5, TargetOfStep, NamesApart
<1>6. CASE trainings[k].at = 5
  BY <1>6, TargetOfStep, NamesApart
<1>7. CASE trainings[k].at = 6
  BY <1>7, TargetOfStep, NamesApart
<1> QED
  BY <1>1, <1>2, <1>3, <1>4, <1>5, <1>6, <1>7

-----------------------------------------------------------------------------
(* The steps of trainings.                                                 *)

\* Trainings go on, and once an artifact is named it keeps its name.
Progress ==
  \A j \in DOMAIN trainings :
    /\ j \in DOMAIN trainings'
    /\ trainings'[j].at >= trainings[j].at
    /\ trainings[j].at > 2 => trainings'[j].artifact = trainings[j].artifact

\* Training k alone moves, to the point at', with the program counter pc'.
Moves(k, pc, at) ==
  /\ trainings' \in Seq(Run) /\ Len(trainings') = Len(trainings)
  /\ \A j \in DOMAIN trainings \ {k} : trainings'[j] = trainings[j]
  /\ trainings'[k].pc = pc /\ trainings'[k].at = at
  /\ trainings'[k].rows = trainings[k].rows /\ trainings'[k].held = trainings[k].held
  /\ trainings'[k].as_of = trainings[k].as_of

\* Replacing one run by a run.
LEMMA Replaced ==
  ASSUME NEW s \in Seq(Run), NEW k \in DOMAIN s, NEW r \in Run, NEW t, t = [s EXCEPT ![k] = r]
  PROVE  /\ t \in Seq(Run) /\ Len(t) = Len(s) /\ DOMAIN t = DOMAIN s /\ t[k] = r
         /\ \A j \in DOMAIN s : j # k => t[j] = s[j]
<1> HIDE DEF Run
<1> QED
  BY ExceptSeq

\* Fitting comes second, and gives a training its artifact.
LEMMA FitMoves ==
  ASSUME RunsTyped, NEW k \in DOMAIN trainings, Fit(k)
  PROVE  /\ trainings[k].at = 2 /\ Training(k) /\ Moves(k, trainings[k].pc, 3)
         /\ trainings'[k].artifact \in Versions /\ second' \in Nat \ {0}
<1>1. trainings[k].at = 2 /\ Training(k)
  BY StepOfTarget DEF Fit
<1>2. PICK s \in second..Len(Artifacts) :
         /\ second' = s
         /\ trainings' = [trainings EXCEPT ![k].artifact = Artifacts[s], ![k].at = @ + 1]
  BY DEF Fit
<1>3. s \in 1..Len(Artifacts)
  BY <1>2, NamesApart DEF RunsTyped
<1> DEFINE a == Artifacts[s]
           at == trainings[k].at + 1
           r == [trainings[k] EXCEPT !.artifact = a, !.at = at]
<1>4. a \in Versions /\ at \in 1..7 /\ at = 3
  BY <1>1, <1>3, NamesApart
<1>5. trainings[k] \in Run /\ trainings \in Seq(Run)
  BY DEF RunsTyped
<1>6. trainings' = [trainings EXCEPT ![k] = r]
  BY <1>2
<1> HIDE DEF a, at
<1>7. r \in Run
  BY <1>4, <1>5 DEF Run
<1>8. /\ r.pc = trainings[k].pc /\ r.at = at /\ r.rows = trainings[k].rows
      /\ r.held = trainings[k].held /\ r.as_of = trainings[k].as_of /\ r.artifact = a
  BY <1>5 DEF Run
<1> HIDE DEF r
<1>9. /\ trainings' \in Seq(Run) /\ Len(trainings') = Len(trainings) /\ trainings'[k] = r
      /\ \A j \in DOMAIN trainings : j # k => trainings'[j] = trainings[j]
  BY <1>5, <1>6, <1>7, Replaced
<1> QED
  BY <1>1, <1>2, <1>3, <1>4, <1>8, <1>9 DEF Moves

\* Opening a file moves the training from open to write.
LEMMA OpenFileMoves ==
  ASSUME RunsTyped, NEW k \in DOMAIN trainings, OpenFile(k)
  PROVE  /\ Training(k) /\ trainings[k].at \in {1, 3, 4, 6}
         /\ Moves(k, "write", trainings[k].at)
         /\ trainings'[k].artifact = trainings[k].artifact
<1>1. trainings[k].at \in {1, 3, 4, 6} /\ Training(k)
  BY StepOfTarget DEF OpenFile, Training
<1> DEFINE r == [trainings[k] EXCEPT !.pc = "write"]
<1>2. trainings[k] \in Run /\ trainings \in Seq(Run)
  BY DEF RunsTyped
<1>3. r \in Run
  BY <1>2 DEF Run
<1>4. /\ r.pc = "write" /\ r.at = trainings[k].at /\ r.rows = trainings[k].rows
      /\ r.held = trainings[k].held /\ r.as_of = trainings[k].as_of /\ r.artifact = trainings[k].artifact
  BY <1>2 DEF Run
<1>5. trainings' = [trainings EXCEPT ![k] = r]
  BY DEF OpenFile
<1> HIDE DEF r
<1>6. /\ trainings' \in Seq(Run) /\ Len(trainings') = Len(trainings) /\ trainings'[k] = r
      /\ \A j \in DOMAIN trainings : j # k => trainings'[j] = trainings[j]
  BY <1>2, <1>3, <1>5, Replaced
<1> QED
  BY <1>1, <1>4, <1>6 DEF Moves

\* Writing a file takes the training to its next step, and after the metadata it is done.
LEMMA WriteFileMoves ==
  ASSUME RunsTyped, NEW k \in DOMAIN trainings, WriteFile(k)
  PROVE  /\ Training(k) /\ trainings[k].at \in {1, 3, 4, 6}
         /\ Moves(k, IF trainings[k].at = 6 THEN "done" ELSE "open", trainings[k].at + 1)
         /\ trainings'[k].artifact = trainings[k].artifact
<1>1. trainings[k].at \in {1, 3, 4, 6} /\ Training(k)
  BY StepOfTarget DEF WriteFile, Training
<1>2. Target(k) = "metadata" <=> trainings[k].at = 6
  BY <1>1, StepOfTarget, TargetOfStep
<1> DEFINE pc == IF trainings[k].at = 6 THEN "done" ELSE "open"
           at == trainings[k].at + 1
           r == [trainings[k] EXCEPT !.at = at, !.pc = pc]
<1>3. trainings[k] \in Run /\ trainings \in Seq(Run)
  BY DEF RunsTyped
<1>4. at \in 1..7 /\ pc \in {"open", "write", "done", "killed"}
  BY <1>1
<1>5. trainings' = [trainings EXCEPT ![k] = r]
  BY <1>2 DEF WriteFile
<1> HIDE DEF at, pc
<1>6. r \in Run
  BY <1>3, <1>4 DEF Run
<1>7. /\ r.pc = pc /\ r.at = at /\ r.rows = trainings[k].rows
      /\ r.held = trainings[k].held /\ r.as_of = trainings[k].as_of /\ r.artifact = trainings[k].artifact
  BY <1>3 DEF Run
<1> HIDE DEF r
<1>8. /\ trainings' \in Seq(Run) /\ Len(trainings') = Len(trainings) /\ trainings'[k] = r
      /\ \A j \in DOMAIN trainings : j # k => trainings'[j] = trainings[j]
  BY <1>3, <1>5, <1>6, Replaced
<1>9. Moves(k, pc, at) /\ trainings'[k].artifact = trainings[k].artifact
  BY <1>7, <1>8 DEF Moves
<1> QED
  BY <1>1, <1>9 DEF pc, at

\* The registry is read fifth, and its history is kept for the write.
LEMMA ReadRegistryMoves ==
  ASSUME RunsTyped, RegistryTyped, NEW k \in DOMAIN trainings, ReadRegistry(k)
  PROVE  /\ Training(k) /\ trainings[k].at = 5 /\ trainings[k].pc = "open"
         /\ Moves(k, "write", 5)
         /\ trainings'[k].artifact = trainings[k].artifact
         /\ trainings'[k].read = IF registry.state = "whole" THEN registry.history ELSE <<>>
<1>1. trainings[k].at = 5 /\ Training(k) /\ trainings[k].pc = "open"
  BY StepOfTarget DEF ReadRegistry, Training
<1> DEFINE h == IF registry.state = "whole" THEN registry.history ELSE <<>>
           r == [trainings[k] EXCEPT !.pc = "write", !.read = h]
<1>2. trainings[k] \in Run /\ trainings \in Seq(Run)
  BY DEF RunsTyped
<1>3. h \in Seq(Nat)
  BY DEF RegistryTyped
<1>4. trainings' = [trainings EXCEPT ![k] = r]
  BY DEF ReadRegistry
<1> HIDE DEF h
<1>5. r \in Run
  BY <1>2, <1>3 DEF Run
<1>6. /\ r.pc = "write" /\ r.at = trainings[k].at /\ r.rows = trainings[k].rows /\ r.read = h
      /\ r.held = trainings[k].held /\ r.as_of = trainings[k].as_of /\ r.artifact = trainings[k].artifact
  BY <1>2 DEF Run
<1> HIDE DEF r
<1>7. /\ trainings' \in Seq(Run) /\ Len(trainings') = Len(trainings) /\ trainings'[k] = r
      /\ \A j \in DOMAIN trainings : j # k => trainings'[j] = trainings[j]
  BY <1>2, <1>4, <1>5, Replaced
<1>8. trainings'[k].read = IF registry.state = "whole" THEN registry.history ELSE <<>>
  BY <1>6, <1>7 DEF h
<1> QED
  BY <1>1, <1>6, <1>7, <1>8 DEF Moves

\* The registry is written with what was read, and the metadata is next.
LEMMA WriteRegistryMoves ==
  ASSUME RunsTyped, NEW k \in DOMAIN trainings, WriteRegistry(k)
  PROVE  /\ Training(k) /\ trainings[k].at = 5 /\ trainings[k].pc = "write"
         /\ Moves(k, "open", 6)
         /\ trainings'[k].artifact = trainings[k].artifact
<1>1. trainings[k].at = 5 /\ Training(k) /\ trainings[k].pc = "write"
  BY StepOfTarget DEF WriteRegistry, Training
<1> DEFINE at == trainings[k].at + 1
           r == [trainings[k] EXCEPT !.at = at, !.pc = "open"]
<1>2. trainings[k] \in Run /\ trainings \in Seq(Run) /\ at \in 1..7 /\ at = 6
  BY <1>1 DEF RunsTyped
<1>3. trainings' = [trainings EXCEPT ![k] = r]
  BY DEF WriteRegistry
<1> HIDE DEF at
<1>4. r \in Run
  BY <1>2 DEF Run
<1>5. /\ r.pc = "open" /\ r.at = at /\ r.rows = trainings[k].rows
      /\ r.held = trainings[k].held /\ r.as_of = trainings[k].as_of /\ r.artifact = trainings[k].artifact
  BY <1>2 DEF Run
<1> HIDE DEF r
<1>6. /\ trainings' \in Seq(Run) /\ Len(trainings') = Len(trainings) /\ trainings'[k] = r
      /\ \A j \in DOMAIN trainings : j # k => trainings'[j] = trainings[j]
  BY <1>2, <1>3, <1>4, Replaced
<1> QED
  BY <1>1, <1>2, <1>5, <1>6 DEF Moves

\* A training killed stays where it was.
LEMMA CutMoves ==
  ASSUME RunsTyped, NEW k \in DOMAIN trainings, TrainingCut(k)
  PROVE  /\ Training(k) /\ Moves(k, "killed", trainings[k].at)
         /\ trainings'[k].artifact = trainings[k].artifact
<1> DEFINE r == [trainings[k] EXCEPT !.pc = "killed"]
<1>2. trainings[k] \in Run /\ trainings \in Seq(Run)
  BY DEF RunsTyped
<1>3. r \in Run
  BY <1>2 DEF Run
<1>4. /\ r.pc = "killed" /\ r.at = trainings[k].at /\ r.rows = trainings[k].rows
      /\ r.held = trainings[k].held /\ r.as_of = trainings[k].as_of /\ r.artifact = trainings[k].artifact
  BY <1>2 DEF Run
<1>5. trainings' = [trainings EXCEPT ![k] = r] /\ Training(k)
  BY DEF TrainingCut
<1> HIDE DEF r
<1>6. /\ trainings' \in Seq(Run) /\ Len(trainings') = Len(trainings) /\ trainings'[k] = r
      /\ \A j \in DOMAIN trainings : j # k => trainings'[j] = trainings[j]
  BY <1>2, <1>3, <1>5, Replaced
<1> QED
  BY <1>4, <1>5, <1>6 DEF Moves

\* A training that moves forward leaves all runs well formed.
LEMMA MovesKeepRuns ==
  ASSUME RunsTyped, NEW k \in DOMAIN trainings, NEW pc, NEW at, Moves(k, pc, at),
         at >= trainings[k].at,
         pc \in {"open", "write"} => at <= 6, pc = "done" => at = 7, pc = "killed" => disturbed',
         disturbed => disturbed', disturbed' \in BOOLEAN, second' \in Nat \ {0},
         trainings[k].at > 2 => trainings'[k].artifact = trainings[k].artifact
  PROVE  RunsTyped' /\ Progress /\ DOMAIN trainings' = DOMAIN trainings
<1>1. DOMAIN trainings' = DOMAIN trainings
  BY LenProperties DEF Moves, RunsTyped
<1>2. ASSUME NEW j \in DOMAIN trainings'
      PROVE  /\ Training(j)' => trainings'[j].at <= 6
             /\ trainings'[j].pc = "done" => trainings'[j].at = 7
             /\ trainings'[j].pc = "killed" => disturbed'
  <2>1. CASE j = k
    BY <2>1 DEF Moves, Training
  <2>2. CASE j # k
    <3>1. j \in DOMAIN trainings /\ trainings'[j] = trainings[j]
      BY <1>1, <1>2, <2>2 DEF Moves
    <3> QED
      BY <3>1 DEF RunsTyped, Training
  <2> QED
    BY <2>1, <2>2
<1>3. trainings' \in Seq(Run)
  BY DEF Moves
<1>4. RunsTyped'
  BY <1>2, <1>3 DEF RunsTyped
<1>5. \A j \in DOMAIN trainings : trainings[j].at \in Int
  <2> SUFFICES ASSUME NEW j \in DOMAIN trainings
               PROVE  trainings[j].at \in Int
    OBVIOUS
  <2>1. trainings[j] \in Run
    BY DEF RunsTyped
  <2> QED
    BY <2>1 DEF Run
<1>6. Progress
  BY <1>1, <1>5 DEF Progress, Moves
<1> QED
  BY <1>1, <1>4, <1>6

\* A training that starts is one more, with the distinct rows of the dataset file.
LEMMA StartedRun ==
  ASSUME RunsTyped, DataTyped, TrainingStarts
  PROVE  LET n == Len(trainings) IN
         /\ trainings' \in Seq(Run) /\ Len(trainings') = n + 1
         /\ \A j \in DOMAIN trainings : trainings'[j] = trainings[j]
         /\ trainings'[n + 1].pc = "open" /\ trainings'[n + 1].at = 1
         /\ trainings'[n + 1].rows = Distinct(Feedback) /\ trainings'[n + 1].as_of = dataset.as_of
<1> DEFINE n == Len(trainings)
           rows == Distinct(Feedback)
<1>0. PICK held \in SUBSET rows :
        trainings' = Append(trainings,
          [pc |-> "open", at |-> 1, artifact |-> Head(Artifacts), read |-> <<>>,
           rows |-> rows, held |-> held, as_of |-> dataset.as_of])
  BY DEF TrainingStarts
<1> DEFINE r == [pc |-> "open", at |-> 1, artifact |-> Head(Artifacts), read |-> <<>>,
                 rows |-> rows, held |-> held, as_of |-> dataset.as_of]
<1>1. trainings \in Seq(Run) /\ trainings' = Append(trainings, r)
  BY <1>0 DEF RunsTyped
<1>2. rows \in SUBSET Row /\ held \in SUBSET Row /\ dataset.as_of \in Nat
  BY DEF DataTyped, Feedback, Distinct
<1> HIDE DEF rows
<1>3. r \in Run
  BY <1>2, NamesApart DEF Run
<1>4. r.pc = "open" /\ r.at = 1 /\ r.rows = rows /\ r.as_of = dataset.as_of
  OBVIOUS
<1> HIDE DEF r
<1>5. /\ trainings' \in Seq(Run) /\ Len(trainings') = n + 1 /\ trainings'[n + 1] = r
      /\ \A j \in 1..n : trainings'[j] = trainings[j]
  BY <1>1, <1>3, AppendProperties
<1>6. DOMAIN trainings = 1..n
  BY <1>1, LenProperties
<1> QED
  BY <1>4, <1>5, <1>6 DEF rows

\* Starting a training leaves all runs well formed.
LEMMA StartKeepsRuns ==
  ASSUME RunsTyped, DataTyped, TrainingStarts
  PROVE  /\ RunsTyped' /\ Progress
         /\ DOMAIN trainings' = DOMAIN trainings \cup {Len(trainings) + 1}
<1> DEFINE n == Len(trainings)
<1>1. /\ trainings' \in Seq(Run) /\ Len(trainings') = n + 1
      /\ \A j \in DOMAIN trainings : trainings'[j] = trainings[j]
      /\ trainings'[n + 1].pc = "open" /\ trainings'[n + 1].at = 1
  BY StartedRun
<1>2. DOMAIN trainings = 1..n /\ DOMAIN trainings' = 1..(n + 1) /\ n \in Nat
  BY <1>1, LenProperties DEF RunsTyped
<1>3. DOMAIN trainings' = DOMAIN trainings \cup {n + 1}
  BY <1>2
<1>4. (disturbed => disturbed') /\ disturbed' \in BOOLEAN /\ second' = second
  BY DEF TrainingStarts, RunsTyped
<1>5. ASSUME NEW j \in DOMAIN trainings'
      PROVE  /\ Training(j)' => trainings'[j].at <= 6
             /\ trainings'[j].pc = "done" => trainings'[j].at = 7
             /\ trainings'[j].pc = "killed" => disturbed'
  <2>1. CASE j = n + 1
    BY <1>1, <2>1
  <2>2. CASE j \in DOMAIN trainings
    <3>1. trainings'[j] = trainings[j]
      BY <1>1, <2>2
    <3> QED
      BY <1>4, <2>2, <3>1 DEF RunsTyped, Training
  <2> QED
    BY <1>3, <2>1, <2>2
<1>6. RunsTyped'
  <2>1. second' \in Nat \ {0}
    BY <1>4 DEF RunsTyped
  <2> QED
    BY <1>1, <1>4, <1>5, <2>1 DEF RunsTyped
<1>7. Progress
  <2> SUFFICES ASSUME NEW j \in DOMAIN trainings
               PROVE  /\ j \in DOMAIN trainings' /\ trainings'[j].at >= trainings[j].at
                      /\ trainings'[j].artifact = trainings[j].artifact
    BY DEF Progress
  <2>1. trainings[j] \in Run
    BY DEF RunsTyped
  <2> QED
    BY <1>1, <1>3, <2>1 DEF Run
<1> QED
  BY <1>3, <1>6, <1>7

\* What a training has made it has made for good.
LEMMA MadeStays ==
  ASSUME RunsTyped, RunsTyped', Progress, NEW k, NEW a, NEW step \in {3, 5}, Made(k, a, step)
  PROVE  Made(k, a, step)'
<1>1. k \in DOMAIN trainings /\ trainings[k].artifact = a /\ trainings[k].at > step
  BY DEF Made, Past
<1>2. k \in DOMAIN trainings'
  BY <1>1 DEF Progress
<1>3. trainings[k] \in Run /\ trainings'[k] \in Run
  BY <1>1, <1>2 DEF RunsTyped
<1>4. trainings[k].at \in Int /\ trainings'[k].at \in Int
  BY <1>3 DEF Run
<1>5. trainings[k].at > 2
  BY <1>1, <1>4
<1>6. trainings'[k].artifact = a /\ trainings'[k].at >= trainings[k].at
  BY <1>1, <1>5 DEF Progress
<1>7. trainings'[k].at > step
  BY <1>1, <1>4, <1>6
<1> QED
  BY <1>2, <1>6, <1>7 DEF Made, Past

\* Names once shared stay shared.
LEMMA StillCollides ==
  ASSUME RunsTyped, RunsTyped', Progress, NEW k \in DOMAIN trainings, Past(k, 2), Collides(k)
  PROVE  Collides(k)'
<1>1. PICK j \in DOMAIN trainings \ {k} : Past(j, 2) /\ trainings[j].artifact = trainings[k].artifact
  BY DEF Collides
<1>2. \A i \in DOMAIN trainings : trainings[i].at \in Int
  <2> SUFFICES ASSUME NEW i \in DOMAIN trainings
               PROVE  trainings[i].at \in Int
    OBVIOUS
  <2>1. trainings[i] \in Run
    BY DEF RunsTyped
  <2> QED
    BY <2>1 DEF Run
<1>3. \A i \in DOMAIN trainings' : trainings'[i].at \in Int
  <2> SUFFICES ASSUME NEW i \in DOMAIN trainings'
               PROVE  trainings'[i].at \in Int
    OBVIOUS
  <2>1. trainings'[i] \in Run
    BY DEF RunsTyped
  <2> QED
    BY <2>1 DEF Run
<1>4. j \in DOMAIN trainings' /\ trainings'[j].at > 2
  BY <1>1, <1>2, <1>3 DEF Progress, Past
<1>5. trainings'[j].artifact = trainings'[k].artifact
  BY <1>1 DEF Progress, Past
<1> QED
  BY <1>1, <1>4, <1>5 DEF Collides, Past

-----------------------------------------------------------------------------
(* Whole artifacts are those of the trainings they are named after.        *)

\* While files stay and no training comes past its artifact, whole artifacts stay those of
\* their trainings.
LEMMA OwnedWhileFilesStay ==
  ASSUME RunsTyped, RunsTyped', Progress, ArtifactsOwned, FilesTyped, files' = files,
         Len(trainings) <= Len(trainings'),
         \A j \in DOMAIN trainings' :
           trainings'[j].at > 3 => j \in DOMAIN trainings /\ trainings[j].at > 3
  PROVE  ArtifactsOwned' /\ FilesTyped'
<1>1. FilesTyped'
  BY DEF FilesTyped
<1>2. ASSUME NEW f \in FileNames
      PROVE  files'[f].model <= Len(trainings')
  <2>1. files[f].model \in Nat
    BY DEF FilesTyped
  <2>2. files[f].model <= Len(trainings)
    BY DEF ArtifactsOwned
  <2>3. Len(trainings) \in Nat /\ Len(trainings') \in Nat
    BY LenProperties DEF RunsTyped
  <2> QED
    BY <2>1, <2>2, <2>3
<1>3. ASSUME NEW a \in Versions, Readable(a)'
      PROVE  Made(files[a].model, a, 3)'
  <2>1. Made(files[a].model, a, 3)
    BY <1>3 DEF ArtifactsOwned, Readable
  <2> DEFINE m == files[a].model
  <2>2. m = m'
    OBVIOUS
  <2>3. m' \in DOMAIN trainings' /\ trainings'[m'].artifact = a /\ trainings'[m'].at > 3
    <3>1. m \in DOMAIN trainings /\ trainings[m].artifact = a /\ trainings[m].at > 3
      BY <2>1 DEF Made, Past
    <3>2. trainings[m] \in Run
      BY <3>1 DEF RunsTyped
    <3>3. trainings[m].at \in Int
      BY <3>2 DEF Run
    <3>4. m \in DOMAIN trainings' /\ trainings'[m].at >= trainings[m].at
          /\ (trainings[m].at > 2 => trainings'[m].artifact = trainings[m].artifact)
      BY <3>1 DEF Progress
    <3>5. trainings'[m] \in Run
      BY <3>4 DEF RunsTyped
    <3>6. trainings'[m].at \in Int
      BY <3>5 DEF Run
    <3> QED
      BY <2>2, <3>1, <3>3, <3>4, <3>6
  <2> QED
    BY <2>3 DEF Made, Past
<1>4. ASSUME NEW j \in DOMAIN trainings', Past(j, 3)', ~Collides(j)'
      PROVE  files'[trainings'[j].artifact] = File("whole", j)
  <2>1. j \in DOMAIN trainings /\ trainings[j].at > 3
    BY <1>4 DEF Past
  <2>2. trainings[j] \in Run
    BY <2>1 DEF RunsTyped
  <2>3. trainings[j].at > 2
    BY <2>1, <2>2 DEF Run
  <2>4. ~Collides(j)
    BY <1>4, <2>1, <2>3, StillCollides DEF Past
  <2>5. files[trainings[j].artifact] = File("whole", j)
    BY <2>1, <2>4 DEF ArtifactsOwned, Past
  <2>6. trainings'[j].artifact = trainings[j].artifact
    BY <2>1, <2>3 DEF Progress
  <2> QED
    BY <2>5, <2>6
<1> QED
  BY <1>1, <1>2, <1>3, <1>4 DEF ArtifactsOwned

\* A file of training k is cut, or it is whole and k is past it.
LEMMA OwnedWhenWritten ==
  ASSUME RunsTyped, RunsTyped', ArtifactsOwned, FilesTyped, Progress,
         NEW k \in DOMAIN trainings, Training(k), trainings[k].at \in {1, 3, 4, 6},
         NEW state \in {"cut", "whole"}, NEW model \in Nat,
         files' = [files EXCEPT ![Target(k)] = File(state, model)],
         \/ state = "cut" /\ model = 0 /\ trainings'[k].at = trainings[k].at
         \/ state = "whole" /\ model = k /\ trainings'[k].at = trainings[k].at + 1,
         \A j \in DOMAIN trainings : j # k => trainings'[j] = trainings[j],
         Len(trainings') = Len(trainings),
         trainings'[k].artifact = trainings[k].artifact
  PROVE  ArtifactsOwned' /\ FilesTyped'
<1> DEFINE t == Target(k)
           a0 == trainings[k].artifact
<1>1. a0 \in Versions /\ (t \in Versions <=> trainings[k].at = 3)
      /\ (trainings[k].at = 3 => t = a0) /\ t \in FileNames
  <2>1. CASE trainings[k].at = 3
    BY <2>1, TargetOfStep, NamesApart
  <2>2. CASE trainings[k].at \in {1, 4, 6}
    BY <2>2, TargetOfStep, NamesApart
  <2> QED
    BY <2>1, <2>2, TargetOfStep
<1> HIDE DEF t, a0
<1>2. files' = [files EXCEPT ![t] = File(state, model)]
  BY DEF t
<1>3. files \in [FileNames -> [state : {"missing", "cut", "whole"}, model : Nat]]
  BY DEF FilesTyped
<1>4. files'[t] = File(state, model) /\ \A f \in FileNames : f # t => files'[f] = files[f]
  BY <1>1, <1>2, <1>3
<1>5. FilesTyped'
  <2>1. File(state, model) \in [state : {"missing", "cut", "whole"}, model : Nat]
    BY DEF File
  <2> QED
    BY <1>2, <1>3, <2>1 DEF FilesTyped
<1>6. /\ DOMAIN trainings' = DOMAIN trainings /\ DOMAIN trainings = 1..Len(trainings)
      /\ Len(trainings) \in Nat
  BY LenProperties DEF RunsTyped
<1>7. \A j \in DOMAIN trainings : trainings[j].at \in 1..7 /\ trainings[j].artifact \in Versions
  <2> SUFFICES ASSUME NEW j \in DOMAIN trainings
               PROVE  trainings[j].at \in 1..7 /\ trainings[j].artifact \in Versions
    OBVIOUS
  <2>1. trainings[j] \in Run
    BY DEF RunsTyped
  <2> QED
    BY <2>1 DEF Run
<1>8. ASSUME NEW f \in FileNames
      PROVE  files'[f].model <= Len(trainings')
  <2>1. CASE f = t
    <3>1. files'[f].model = model
      BY <1>4, <2>1 DEF File
    <3>2. model = 0 \/ model = k
      OBVIOUS
    <3>3. model <= Len(trainings)
      BY <1>6, <3>2
    <3> QED
      BY <3>1, <3>3
  <2>2. CASE f # t
    BY <1>4, <2>2 DEF ArtifactsOwned
  <2> QED
    BY <2>1, <2>2
<1>9. ASSUME NEW a \in Versions, files'[a].state = "whole"
      PROVE  /\ files'[a].model \in DOMAIN trainings
             /\ trainings'[files'[a].model].artifact = a
             /\ trainings'[files'[a].model].at > 3
  <2>1. CASE a = t
    <3>1. state = "whole" /\ files'[a].model = k
      BY <1>4, <1>9, <2>1 DEF File
    <3>2. trainings[k].at = 3 /\ a = a0
      BY <1>1, <2>1
    <3> QED
      BY <3>1, <3>2 DEF a0
  <2>2. CASE a # t
    <3> DEFINE m == files[a].model
    <3>1. a \in FileNames
      BY NamesApart
    <3>2. files'[a] = files[a]
      BY <1>4, <2>2, <3>1
    <3>3. m \in DOMAIN trainings /\ trainings[m].artifact = a /\ trainings[m].at > 3
      BY <1>9, <3>2 DEF ArtifactsOwned, Readable, Made, Past
    <3> HIDE DEF m
    <3>4. trainings'[m].artifact = a /\ trainings'[m].at > 3
      BY <1>7, <3>3
    <3> QED
      BY <3>2, <3>3, <3>4 DEF m
  <2> QED
    BY <2>1, <2>2
<1>10. ASSUME NEW j \in DOMAIN trainings, trainings'[j].at > 3, ~Collides(j)'
       PROVE  files'[trainings'[j].artifact] = File("whole", j)
  <2> DEFINE b == trainings[j].artifact
  <2>1. trainings'[j].artifact = b /\ b \in Versions /\ b \in FileNames
    BY <1>7, NamesApart DEF a0
  <2>2. CASE j = k /\ trainings[k].at = 3
    <3>1. state = "whole" /\ model = k /\ b = t
      BY <1>1, <1>10, <2>2 DEF a0
    <3> QED
      BY <1>4, <2>1, <2>2, <3>1
  <2>3. CASE ~(j = k /\ trainings[k].at = 3)
    <3>1. trainings[j].at > 3
      BY <1>7, <1>10, <2>3
    <3>2. trainings[j].at > 2
      BY <1>7, <3>1
    <3>3. ~Collides(j)
      BY <1>10, <3>2, StillCollides DEF Past
    <3>4. files[b] = File("whole", j)
      BY <3>1, <3>3 DEF ArtifactsOwned, Past
    <3>5. b # t
      <4> SUFFICES ASSUME b = t PROVE FALSE
        OBVIOUS
      <4>1. trainings[k].at = 3 /\ t = a0
        BY <1>1, <2>1
      <4>2. k # j
        BY <3>1, <4>1
      <4>3. Collides(j)
        BY <4>1, <4>2 DEF Collides, Past, a0
      <4> QED
        BY <3>3, <4>3
    <3> QED
      BY <1>4, <2>1, <3>4, <3>5
  <2> QED
    BY <2>2, <2>3
<1> QED
  BY <1>5, <1>6, <1>8, <1>9, <1>10 DEF ArtifactsOwned, Readable, Made, Past

-----------------------------------------------------------------------------
(* The registry and the service.                                           *)

\* The newest entries of a history end with its last one, follow each other as they did,
\* and are within the limit.
LEMMA KeptHistory ==
  ASSUME NEW h \in Seq(Nat), h # <<>>, NEW g, g = IF Len(h) > HistoryLimit THEN Kept(h) ELSE h
  PROVE  /\ g \in Seq(Nat) /\ g # <<>> /\ Len(g) <= HistoryLimit /\ g[Len(g)] = h[Len(h)]
         /\ (\A i \in 1..(Len(h) - 1) : h[i] + 1 = h[i + 1]) =>
              \A i \in 1..(Len(g) - 1) : g[i] + 1 = g[i + 1]
<1>1. CASE Len(h) <= HistoryLimit
  <2>1. g = h
    BY <1>1, LenProperties, LearningAssumption
  <2> QED
    BY <1>1, <2>1
<1>2. CASE Len(h) > HistoryLimit
  <2> DEFINE m == Len(h) - HistoryLimit + 1
  <2>1. g = SubSeq(h, m, Len(h))
    BY <1>2 DEF Kept
  <2>2. m \in 1..Len(h) + 1 /\ Len(h) \in Nat /\ HistoryLimit \in Nat /\ HistoryLimit >= 1
    BY <1>2, LenProperties, LearningAssumption
  <2>3. Len(h) \in m - 1..Len(h)
    BY <2>2
  <2>4. /\ g \in Seq(Nat) /\ Len(g) = HistoryLimit
        /\ \A i \in 1..HistoryLimit : g[i] = h[m + i - 1]
    <3>1. Len(h) - m + 1 = HistoryLimit
      BY <2>2
    <3> HIDE DEF m
    <3>2. /\ SubSeq(h, m, Len(h)) \in Seq(Nat)
          /\ Len(SubSeq(h, m, Len(h))) = IF m <= Len(h) THEN Len(h) - m + 1 ELSE 0
          /\ \A i \in 1..Len(SubSeq(h, m, Len(h))) : SubSeq(h, m, Len(h))[i] = h[m + i - 1]
      BY <2>2, <2>3, SubSeqProperties
    <3>3. m <= Len(h)
      BY <2>2, <3>1
    <3> QED
      BY <2>1, <3>1, <3>2, <3>3
  <2>5. g[Len(g)] = h[Len(h)] /\ g # <<>>
    BY <2>2, <2>4
  <2>6. ASSUME \A i \in 1..(Len(h) - 1) : h[i] + 1 = h[i + 1],
               NEW i \in 1..(Len(g) - 1)
        PROVE  g[i] + 1 = g[i + 1]
    <3>1. i \in 1..HistoryLimit /\ i + 1 \in 1..HistoryLimit
      BY <2>2, <2>4, <2>6
    <3>2. g[i] = h[m + i - 1] /\ g[i + 1] = h[m + i]
      BY <2>2, <2>4, <3>1
    <3>3. m + i - 1 \in 1..(Len(h) - 1) /\ (m + i - 1) + 1 = m + i
      BY <2>2, <3>1
    <3> QED
      BY <2>6, <3>2, <3>3
  <2> QED
    BY <2>2, <2>4, <2>5, <2>6
<1>3. Len(h) \in Nat /\ HistoryLimit \in Nat
  BY LenProperties, LearningAssumption
<1>4. Len(h) <= HistoryLimit \/ Len(h) > HistoryLimit
  BY <1>3
<1> QED
  BY <1>1, <1>2, <1>4

\* What an unchanged registry names stays made.
LEMMA RegistryStays ==
  ASSUME RunsTyped, RunsTyped', Progress, RegistryTyped, RegistryNames, registry' = registry
  PROVE  RegistryTyped' /\ RegistryNames'
<1>1. RegistryTyped'
  BY DEF RegistryTyped
<1>2. ASSUME registry'.history # <<>>
      PROVE  Made(Last(registry.history), registry.active, 5)'
  <2> DEFINE l == Last(registry.history)
             a == registry.active
  <2>1. Made(l, a, 5)
    BY <1>2 DEF RegistryNames
  <2>2. l' = l /\ a' = a
    OBVIOUS
  <2> HIDE DEF l, a
  <2>3. /\ l \in DOMAIN trainings' /\ trainings'[l].artifact = a /\ trainings'[l].at > 5
    BY <2>1, MadeStays DEF Made, Past
  <2> QED
    BY <2>2, <2>3 DEF Made, Past, l, a
<1> QED
  BY <1>1, <1>2 DEF RegistryNames

\* A registry cut off names nothing of this machine.
LEMMA RegistryWhenRead ==
  ASSUME registry' = [state |-> "cut", active |-> Shipped, history |-> <<>>]
  PROVE  RegistryTyped' /\ RegistryNames'
<1>1. RegistryTyped'
  BY DEF RegistryTyped
<1>2. Len(<<>>) <= HistoryLimit
  BY LearningAssumption
<1> QED
  BY <1>1, <1>2 DEF RegistryNames

\* A registry written names the artifact of the training that wrote it.
LEMMA RegistryWhenWritten ==
  ASSUME RunsTyped, RunsTyped', NEW k \in DOMAIN trainings, k \in DOMAIN trainings',
         WriteRegistry(k), trainings'[k].at = 6, trainings'[k].artifact = trainings[k].artifact
  PROVE  /\ RegistryTyped' /\ RegistryNames'
         /\ registry'.state = "whole" /\ registry'.active = trainings[k].artifact
         /\ LET h == Append(trainings[k].read, k) IN
              registry'.history = IF Len(h) > HistoryLimit THEN Kept(h) ELSE h
<1> DEFINE h == Append(trainings[k].read, k)
           g == IF Len(h) > HistoryLimit THEN Kept(h) ELSE h
<1>1. trainings[k] \in Run /\ k \in Nat
  BY LenProperties DEF RunsTyped
<1>2. h \in Seq(Nat) /\ h # <<>> /\ Last(h) = k /\ h[Len(h)] = k
  <2>1. trainings[k].read \in Seq(Nat)
    BY <1>1 DEF Run
  <2> QED
    BY <1>1, <2>1, AppendProperties DEF Last
<1>3. registry' = [state |-> "whole", active |-> trainings[k].artifact, history |-> g]
  BY DEF WriteRegistry
<1> HIDE DEF h
<1>4. g \in Seq(Nat) /\ g # <<>> /\ Len(g) <= HistoryLimit /\ g[Len(g)] = k
  BY <1>2, KeptHistory
<1>5. registry'.history = IF Len(h) > HistoryLimit THEN Kept(h) ELSE h
  BY <1>3
<1> HIDE DEF g
<1>6. Last(g) = k
  BY <1>4 DEF Last
<1>7. trainings[k].artifact \in Versions
  BY <1>1 DEF Run
<1>8. RegistryTyped'
  BY <1>3, <1>4, <1>7 DEF RegistryTyped
<1>9. RegistryNames'
  BY <1>3, <1>4, <1>6 DEF RegistryNames, Made, Past
<1> QED
  BY <1>3, <1>5, <1>8, <1>9 DEF h

\* What an unchanged service serves stays made.
LEMMA ServiceStays ==
  ASSUME RunsTyped, RunsTyped', Progress, ServiceTyped, ServiceNames, service' = service,
         Len(trainings) <= Len(trainings')
  PROVE  ServiceTyped' /\ ServiceNames'
<1>1. ServiceTyped'
  BY DEF ServiceTyped
<1>2. ASSUME service'.path \in Versions
      PROVE  \E j \in DOMAIN trainings' : Made(j, service.path, 5)'
  <2>1. PICK j \in DOMAIN trainings : Made(j, service.path, 5)
    BY <1>2 DEF ServiceNames
  <2> DEFINE a == service.path
  <2>2. a' = a
    OBVIOUS
  <2>3. Made(j, a, 5)
    BY <2>1
  <2> HIDE DEF a
  <2>4. j \in DOMAIN trainings' /\ trainings'[j].artifact = a /\ trainings'[j].at > 5
    BY <2>3, MadeStays DEF Made, Past
  <2> QED
    BY <2>2, <2>4 DEF Made, Past, a
<1>3. service'.model \in Nat => service'.model <= Len(trainings')
  BY LenProperties DEF ServiceNames, RunsTyped
<1>4. ASSUME service'.model \in Nat, service'.path # Configured
      PROVE  service'.path \in Versions /\ Made(service.model, service.path, 3)'
  <2> DEFINE a == service.path
             m == service.model
  <2>1. a' = a /\ m' = m
    OBVIOUS
  <2>2. a \in Versions /\ Made(m, a, 3)
    BY <1>4 DEF ServiceNames
  <2> HIDE DEF a, m
  <2>3. m \in DOMAIN trainings' /\ trainings'[m].artifact = a /\ trainings'[m].at > 3
    BY <2>2, MadeStays DEF Made, Past
  <2> QED
    BY <2>1, <2>2, <2>3 DEF Made, Past, a, m
<1> QED
  BY <1>1, <1>2, <1>3, <1>4 DEF ServiceNames

\* A service that starts is told of an artifact a training has registered, if of any.
LEMMA ServiceWhenStarted ==
  ASSUME RunsTyped, RegistryTyped, RegistryNames, ServiceTyped, ServiceStarts
  PROVE  ServiceTyped' /\ ServiceNames' /\ trainings' = trainings
<1> DEFINE p == IF registry.state = "whole" THEN registry.active ELSE Configured
<1>1. /\ service' = [path |-> p, model |-> None, starts |-> service.starts + 1, since |-> TrainingsSeen]
      /\ trainings' = trainings
  BY DEF ServiceStarts, trainingVars
<1>2. p \in Versions \cup {Shipped, Configured}
  BY DEF RegistryTyped
<1>3. TrainingsSeen \in Int
  BY LenProperties DEF TrainingsSeen, RunsTyped
<1>4. ASSUME p \in Versions
      PROVE  \E j \in DOMAIN trainings : Made(j, p, 5)
  <2>1. registry.state = "whole" /\ p = registry.active
    BY <1>4, NamesApart
  <2>2. registry.history # <<>>
    BY <1>4, <2>1, NamesApart DEF RegistryNames
  <2>3. Made(Last(registry.history), p, 5)
    BY <2>1, <2>2 DEF RegistryNames
  <2> QED
    BY <2>3 DEF Made
<1> HIDE DEF p
<1>5. service'.path = p /\ service'.model = None /\ service'.model \notin Nat
  BY <1>1, ValuesAssumption
<1>6. ServiceTyped'
  <2>1. service.starts + 1 \in Nat
    BY DEF ServiceTyped
  <2> QED
    BY <1>1, <1>2, <1>3, <2>1 DEF ServiceTyped
<1>7. ServiceNames'
  BY <1>1, <1>4, <1>5 DEF ServiceNames, Made, Past
<1> QED
  BY <1>1, <1>6, <1>7

\* A service that loads its model loads one made under the name it was told.
LEMMA ServiceWhenLoaded ==
  ASSUME RunsTyped, FilesTyped, ArtifactsOwned, ServiceTyped, ServiceNames, ModelLoads
  PROVE  /\ ServiceTyped' /\ ServiceNames'
         /\ service'.since = service.since /\ service'.path = service.path
         /\ service'.model = IF Loadable(service.path) THEN files[service.path].model ELSE Heuristic
         /\ trainings' = trainings
<1> DEFINE m == IF Loadable(service.path) THEN files[service.path].model ELSE Heuristic
<1>1. service' = [service EXCEPT !.model = m] /\ trainings' = trainings
  BY DEF ModelLoads, trainingVars
<1>2. m \in {None, Heuristic} \cup Nat
  BY DEF FilesTyped, Loadable
<1>3. ASSUME m \in Nat
      PROVE  /\ m <= Len(trainings)
             /\ service.path # Configured => service.path \in Versions /\ Made(m, service.path, 3)
  <2>1. Loadable(service.path) /\ m = files[service.path].model
    BY <1>3, ValuesAssumption
  <2>2. service.path \in FileNames /\ Readable(service.path)
    BY <2>1 DEF Loadable, FilesTyped
  <2>3. m <= Len(trainings)
    BY <2>1, <2>2 DEF ArtifactsOwned
  <2>4. service.path # Configured => service.path \in Versions
    BY <2>2, NamesApart DEF ServiceTyped
  <2> QED
    BY <2>1, <2>2, <2>3, <2>4 DEF ArtifactsOwned
<1> HIDE DEF m
<1>4. /\ service'.model = m /\ service'.path = service.path /\ service'.since = service.since
      /\ ServiceTyped'
  BY <1>1, <1>2 DEF ServiceTyped
<1>5. ServiceNames'
  BY <1>1, <1>3, <1>4 DEF ServiceNames, Made, Past
<1> QED
  BY <1>1, <1>4, <1>5 DEF m

-----------------------------------------------------------------------------
(* While nothing is disturbed one training runs at a time.                 *)

\* A chain to n - 1 and n make a chain to n, and so do the newest of its entries.
LEMMA ChainGrows ==
  ASSUME NEW n \in Nat \ {0}, NEW r \in Seq(Nat), Chain(r, n - 1),
         NEW g, g = LET h == Append(r, n) IN IF Len(h) > HistoryLimit THEN Kept(h) ELSE h
  PROVE  Chain(g, n)
<1> DEFINE h == Append(r, n)
<1>1. /\ h \in Seq(Nat) /\ h # <<>> /\ Len(h) = Len(r) + 1 /\ h[Len(h)] = n
      /\ \A i \in 1..Len(r) : h[i] = r[i]
  BY AppendProperties
<1>2. ASSUME NEW i \in 1..(Len(h) - 1)
      PROVE  h[i] + 1 = h[i + 1]
  <2>1. Len(r) \in Nat /\ i \in 1..Len(r)
    BY <1>1, LenProperties
  <2>2. CASE i = Len(r)
    <3>1. r # <<>>
      BY <2>1
    <3>2. r[i] = n - 1
      BY <2>2, <3>1 DEF Chain
    <3> QED
      BY <1>1, <2>1, <2>2, <3>2
  <2>3. CASE i < Len(r)
    <3>1. i \in 1..(Len(r) - 1) /\ i + 1 \in 1..Len(r)
      BY <2>1, <2>3
    <3>2. r[i] + 1 = r[i + 1]
      BY <3>1 DEF Chain
    <3> QED
      BY <1>1, <2>1, <3>1, <3>2
  <2> QED
    BY <2>1, <2>2, <2>3
<1>3. g = IF Len(h) > HistoryLimit THEN Kept(h) ELSE h
  OBVIOUS
<1> HIDE DEF h
<1>4. /\ g # <<>> /\ g[Len(g)] = h[Len(h)]
      /\ \A i \in 1..(Len(g) - 1) : g[i] + 1 = g[i + 1]
  BY <1>1, <1>2, <1>3, KeptHistory
<1> QED
  BY <1>1, <1>4 DEF Chain

\* A running training is the last one.
LEMMA LastRuns ==
  ASSUME RunsTyped, Orderly, NEW k \in DOMAIN trainings, Training(k)
  PROVE  k = Len(trainings) /\ k \in Nat \ {0}
<1>1. k \in 1..Len(trainings) /\ Len(trainings) \in Nat
  BY LenProperties DEF RunsTyped
<1>2. k \notin 1..Len(trainings) - 1
  BY DEF Orderly, Training
<1> QED
  BY <1>1, <1>2

\* The steps of the last training.
LEMMA OthersDone ==
  ASSUME RunsTyped, Orderly, Started, NEW k \in DOMAIN trainings, Training(k),
         NEW pc, NEW at, Moves(k, pc, at)
  PROVE  /\ k = Len(trainings) /\ k \in Nat \ {0} /\ Len(trainings') = k
         /\ \A j \in 1..Len(trainings') - 1 : trainings'[j].pc = "done"
         /\ service.since # k
<1>1. k = Len(trainings) /\ k \in Nat \ {0}
  BY LastRuns
<1>2. Len(trainings') = k /\ \A j \in 1..k - 1 : trainings'[j] = trainings[j]
  BY <1>1, LenProperties DEF Moves, RunsTyped
<1>3. service.since # k
  BY <1>1, TargetOfStep DEF Started
<1> QED
  BY <1>1, <1>2, <1>3 DEF Orderly

\* Fitting keeps the order of an undisturbed system.
LEMMA OrderlyFit ==
  ASSUME RunsTyped, Orderly, Started, NEW k \in DOMAIN trainings, Fit(k)
  PROVE  Orderly' /\ Started'
<1>1. trainings[k].at = 2 /\ Training(k) /\ Moves(k, trainings[k].pc, 3)
  BY FitMoves
<1>2. /\ k = Len(trainings) /\ k \in Nat \ {0} /\ Len(trainings') = k
      /\ \A j \in 1..Len(trainings') - 1 : trainings'[j].pc = "done"
      /\ service.since # k
  BY <1>1, OthersDone
<1>3. files' = files /\ registry' = registry /\ service' = service
  BY DEF Fit
<1>4. trainings'[k].at = 3
  BY <1>1 DEF Moves
<1>5. Chain(registry.history, k - 1)
  BY <1>1, <1>2 DEF Orderly, History, Registering
<1>6. Chain(registry.history, k - 1)'
  BY <1>2, <1>3, <1>5 DEF Chain
<1>7. History(k)'
  BY <1>2, <1>3, <1>4, <1>5 DEF History, Registering, Chain
<1>8. Written(k)'
  BY <1>1, <1>2, <1>3, <1>4 DEF Orderly, Written, File
<1>9. registry'.state # "cut"
  BY <1>1, <1>2, <1>3 DEF Orderly, Registering
<1>10. Orderly'
  BY <1>2, <1>7, <1>8, <1>9 DEF Orderly
<1> QED
  BY <1>2, <1>3, <1>10 DEF Started

\* A file of the last training is cut, or it is whole and the training past it.
LEMMA OrderlyFile ==
  ASSUME RunsTyped, FilesTyped, Orderly, Started, NEW k \in DOMAIN trainings, Training(k),
         trainings[k].at \in {1, 3, 4, 6}, NEW pc, NEW at, Moves(k, pc, at),
         trainings'[k].artifact = trainings[k].artifact,
         registry' = registry, service' = service,
         \/ at = trainings[k].at /\ files' = [files EXCEPT ![Target(k)] = File("cut", 0)]
         \/ /\ at = trainings[k].at + 1 /\ pc # "write"
            /\ files' = [files EXCEPT ![Target(k)] = File("whole", k)]
  PROVE  Orderly' /\ Started'
<1> DEFINE t == Target(k)
           a == trainings[k].artifact
<1>1. /\ k = Len(trainings) /\ k \in Nat \ {0} /\ Len(trainings') = k
      /\ \A j \in 1..Len(trainings') - 1 : trainings'[j].pc = "done"
      /\ service.since # k
  BY OthersDone
<1>2. trainings'[k].at = at /\ trainings'[k].artifact = a
  BY DEF Moves
<1>3. /\ trainings[k].at = 1 => t = "split"
      /\ trainings[k].at = 3 => t = a
      /\ trainings[k].at = 4 => t = Configured
      /\ trainings[k].at = 6 => t = "metadata"
      /\ a \in Versions
  BY TargetOfStep
<1>4. /\ {"split", "metadata", Configured, a} \subseteq FileNames
      /\ a \notin {"split", "metadata", Configured} /\ Configured \notin {"split", "metadata"}
  BY <1>3, NamesApart
<1>5. Written(k)
  BY <1>1 DEF Orderly
<1> HIDE DEF t, a
<1>6. /\ at = trainings[k].at => \A f \in FileNames : f # t => files'[f] = files[f]
      /\ at = trainings[k].at + 1 =>
           files'[t] = File("whole", k) /\ \A f \in FileNames : f # t => files'[f] = files[f]
  <2>1. t \in FileNames
    BY <1>3, <1>4
  <2> QED
    BY <2>1 DEF FilesTyped, t
<1>7. /\ at > 1 => files'["split"] = File("whole", k)
      /\ at > 3 => files'[a] = File("whole", k)
      /\ at > 4 => files'[Configured] = File("whole", k)
      /\ at > 5 => registry'.active = a
      /\ at > 6 => files'["metadata"] = File("whole", k)
  <2>1. CASE trainings[k].at = 1
    BY <1>3, <1>4, <1>5, <1>6, <2>1 DEF Written
  <2>2. CASE trainings[k].at = 3
    BY <1>3, <1>4, <1>5, <1>6, <2>2 DEF Written, a
  <2>3. CASE trainings[k].at = 4
    BY <1>3, <1>4, <1>5, <1>6, <2>3 DEF Written, a
  <2>4. CASE trainings[k].at = 6
    BY <1>3, <1>4, <1>5, <1>6, <2>4 DEF Written, a
  <2> QED
    BY <2>1, <2>2, <2>3, <2>4
<1>8. Written(k)'
  BY <1>2, <1>7 DEF Written, File
<1>9. registry'.state # "cut"
  BY <1>1 DEF Orderly, Registering
<1>10. History(k)'
  <2>1. CASE trainings[k].at \in {1, 3, 4}
    <3>1. Chain(registry.history, k - 1)
      BY <1>1, <2>1 DEF Orderly, History, Registering
    <3>2. ~(at > 5) /\ (at = 5 => pc # "write")
      <4>1. at = 5 => at = trainings[k].at + 1
        BY <2>1
      <4> QED
        BY <2>1, <4>1
    <3> QED
      BY <1>1, <1>2, <3>1, <3>2 DEF History, Registering, Chain, Moves
  <2>2. CASE trainings[k].at = 6
    <3>1. Chain(registry.history, k)
      BY <1>1, <2>2 DEF Orderly, History
    <3>2. at > 5
      BY <2>2
    <3> QED
      BY <1>1, <1>2, <3>1, <3>2 DEF History, Chain
  <2> QED
    BY <2>1, <2>2
<1>11. Orderly'
  BY <1>1, <1>8, <1>9, <1>10 DEF Orderly
<1> QED
  BY <1>1, <1>11 DEF Started

\* The history read by the last training leads up to the one before it.
LEMMA OrderlyReadRegistry ==
  ASSUME RunsTyped, RegistryTyped, Orderly, Started,
         NEW k \in DOMAIN trainings, ReadRegistry(k)
  PROVE  Orderly' /\ Started'
<1>1. /\ Training(k) /\ trainings[k].at = 5 /\ trainings[k].pc = "open"
      /\ Moves(k, "write", 5) /\ trainings'[k].artifact = trainings[k].artifact
      /\ trainings'[k].read = IF registry.state = "whole" THEN registry.history ELSE <<>>
  BY ReadRegistryMoves
<1>2. /\ k = Len(trainings) /\ k \in Nat \ {0} /\ Len(trainings') = k
      /\ \A j \in 1..Len(trainings') - 1 : trainings'[j].pc = "done"
      /\ service.since # k
  BY <1>1, OthersDone
<1>3. files' = files /\ service' = service
  BY DEF ReadRegistry
<1>4. registry.state = "whole"
  BY <1>1, <1>2 DEF RegistryTyped, Orderly, Registering
<1>5. Chain(registry.history, k - 1)
  BY <1>1, <1>2 DEF Orderly, History, Registering
<1>6. Chain(trainings'[k].read, k - 1)
  BY <1>1, <1>4, <1>5
<1>7. trainings'[k].at = 5 /\ trainings'[k].pc = "write"
  BY <1>1 DEF Moves
<1>8. Registering(k)'
  BY <1>7 DEF Registering
<1>9. History(k)'
  <2>1. ~(k = 0 \/ trainings'[k].at > 5)
    BY <1>2, <1>7
  <2> QED
    BY <1>6, <1>8, <2>1 DEF History, Chain
<1>10. Written(k)'
  BY <1>1, <1>2, <1>3, <1>7 DEF Orderly, Written, File
<1>11. Orderly'
  BY <1>2, <1>8, <1>9, <1>10 DEF Orderly
<1> QED
  BY <1>2, <1>3, <1>11 DEF Started

\* The history written by the last training leads up to itself.
LEMMA OrderlyWriteRegistry ==
  ASSUME RunsTyped, RunsTyped', Orderly, Started,
         NEW k \in DOMAIN trainings, k \in DOMAIN trainings', WriteRegistry(k)
  PROVE  Orderly' /\ Started'
<1>1. /\ Training(k) /\ trainings[k].at = 5 /\ trainings[k].pc = "write"
      /\ Moves(k, "open", 6) /\ trainings'[k].artifact = trainings[k].artifact
  BY WriteRegistryMoves
<1>2. /\ k = Len(trainings) /\ k \in Nat \ {0} /\ Len(trainings') = k
      /\ \A j \in 1..Len(trainings') - 1 : trainings'[j].pc = "done"
      /\ service.since # k
  BY <1>1, OthersDone
<1>3. files' = files /\ service' = service
  BY DEF WriteRegistry
<1>4. trainings'[k].at = 6
  BY <1>1 DEF Moves
<1> DEFINE r == trainings[k].read
           h == Append(r, k)
<1>5. /\ registry'.state = "whole" /\ registry'.active = trainings[k].artifact
      /\ registry'.history = IF Len(h) > HistoryLimit THEN Kept(h) ELSE h
  BY <1>1, <1>4, RegistryWhenWritten
<1>6. r \in Seq(Nat)
  <2>1. trainings[k] \in Run
    BY DEF RunsTyped
  <2> QED
    BY <2>1 DEF Run
<1>7. Chain(r, k - 1)
  BY <1>1, <1>2 DEF Orderly, History, Registering
<1> HIDE DEF r
<1>8. Chain(registry'.history, k)
  BY <1>2, <1>5, <1>6, <1>7, ChainGrows
<1>9. History(k)'
  <2>1. trainings'[k].at > 5
    BY <1>4
  <2> QED
    BY <1>8, <2>1 DEF History, Chain
<1>10. Written(k)'
  <2>1. Written(k)
    BY <1>2 DEF Orderly
  <2> QED
    BY <1>1, <1>3, <1>4, <1>5, <2>1 DEF Written, File
<1>11. Orderly'
  BY <1>2, <1>5, <1>9, <1>10 DEF Orderly
<1> QED
  BY <1>2, <1>3, <1>11 DEF Started

\* A training that starts while none runs comes after trainings that are done.
LEMMA OrderlyStart ==
  ASSUME RunsTyped, DataTyped, Orderly, Started, service.since <= Len(trainings), ServiceTyped,
         TrainingStarts, ~disturbed'
  PROVE  Orderly' /\ Started'
<1> DEFINE n == Len(trainings)
<1> PICK m \in {n + 1} : TRUE
  OBVIOUS
<1>1. /\ trainings' \in Seq(Run) /\ Len(trainings') = m
      /\ \A j \in DOMAIN trainings : trainings'[j] = trainings[j]
      /\ trainings'[m].pc = "open" /\ trainings'[m].at = 1
  BY StartedRun
<1>2. DOMAIN trainings = 1..n /\ n \in Nat /\ m = n + 1 /\ m \in Nat \ {0}
  BY LenProperties DEF RunsTyped
<1>3. ~disturbed /\ \A j \in DOMAIN trainings : ~Training(j)
  BY DEF TrainingStarts
<1>4. files' = files /\ registry' = registry /\ service' = service
  BY DEF TrainingStarts
<1>5. ASSUME NEW j \in DOMAIN trainings
      PROVE  trainings[j].pc = "done" /\ trainings[j].at = 7
  <2>1. trainings[j] \in Run
    BY DEF RunsTyped
  <2>2. trainings[j].pc \in {"open", "write", "done", "killed"}
    BY <2>1 DEF Run
  <2>3. trainings[j].pc = "done"
    BY <1>3, <2>2 DEF RunsTyped, Training
  <2> QED
    BY <2>3 DEF RunsTyped
<1>6. Chain(registry.history, n)
  <2>1. n = 0 \/ n \in DOMAIN trainings
    BY <1>2
  <2>2. n = 0 \/ trainings[n].at > 5
    BY <1>5, <2>1
  <2> QED
    BY <2>2 DEF Orderly, History
<1>7. registry.state # "cut"
  <2> SUFFICES ASSUME registry.state = "cut" PROVE FALSE
    OBVIOUS
  <2>1. n > 0 /\ Registering(n)
    BY DEF Orderly
  <2>2. trainings[n].at = 5
    BY <2>1 DEF Registering
  <2> QED
    BY <1>2, <1>5, <2>1, <2>2
<1>8. History(m)'
  <2>1. ~(m = 0 \/ trainings'[m].at > 5) /\ ~Registering(m)'
    BY <1>1, <1>2 DEF Registering
  <2>2. Chain(registry'.history, m - 1)
    BY <1>2, <1>4, <1>6
  <2> QED
    BY <2>1, <2>2 DEF History, Chain
<1>9. Written(m)'
  BY <1>1 DEF Written
<1>10. \A j \in 1..m - 1 : trainings'[j].pc = "done"
  BY <1>1, <1>2, <1>5
<1>11. Orderly'
  BY <1>1, <1>2, <1>4, <1>7, <1>8, <1>9, <1>10 DEF Orderly
<1>12. service.since # m
  BY <1>2 DEF ServiceTyped
<1> QED
  BY <1>1, <1>4, <1>11, <1>12 DEF Started

\* Nothing of the files or trainings changes.
LEMMA OrderlyStays ==
  ASSUME Orderly, files' = files, registry' = registry, trainings' = trainings
  PROVE  Orderly'
<1>1. ASSUME NEW n \in {Len(trainings)}
      PROVE  (History(n) => History(n)') /\ (Written(n) => Written(n)')
             /\ (Registering(n) => Registering(n)')
  BY DEF History, Written, Registering, Chain, File
<1> QED
  BY <1>1 DEF Orderly, File

\* A service started while no training runs is told of the last one.
LEMMA StartedWhenStarts ==
  ASSUME RunsTyped, RegistryTyped, RegistryNames, Orderly, ~disturbed, ServiceStarts
  PROVE  Started' /\ service'.since <= Len(trainings)
<1> DEFINE p == IF registry.state = "whole" THEN registry.active ELSE Configured
           n == Len(trainings)
<1>1. /\ service'.path = p /\ service'.model = None /\ service'.since = TrainingsSeen
      /\ trainings' = trainings
  BY DEF ServiceStarts, trainingVars
<1>2. n \in Nat /\ DOMAIN trainings = 1..n
  BY LenProperties DEF RunsTyped
<1>3. TrainingsSeen \in {n, -1} /\ (TrainingsSeen = n => Idle)
  BY <1>2 DEF TrainingsSeen
<1>4. CASE n = 0
  <2>1. p = Shipped
    BY <1>4 DEF Orderly, History, Chain, RegistryNames, RegistryTyped
  <2> QED
    BY <1>1, <1>2, <1>3, <1>4, <2>1 DEF Started
<1>5. CASE n # 0
  <2>1. n \in DOMAIN trainings /\ n > 0
    BY <1>2, <1>5
  <2>2. ASSUME Idle
        PROVE  trainings[n].at = 7 /\ p = trainings[n].artifact
    <3>1. trainings[n] \in Run
      BY <2>1 DEF RunsTyped
    <3>2. trainings[n].pc = "done" /\ trainings[n].at = 7
      BY <2>1, <2>2, <3>1 DEF Run, Idle, Training, RunsTyped
    <3>3. registry.state = "whole"
      BY <2>1, <3>2 DEF Orderly, Registering, RegistryTyped
    <3> QED
      BY <2>1, <3>2, <3>3 DEF Orderly, Written
  <2>3. Started'
    BY <1>1, <1>3, <1>5, <2>2 DEF Started
  <2> QED
    BY <1>1, <1>2, <1>3, <2>3
<1> QED
  BY <1>4, <1>5

\* A service told of the last training loads that training's model.
LEMMA StartedWhenLoads ==
  ASSUME RunsTyped, FilesTyped, Orderly, Started, trainings' = trainings,
         service'.since = service.since, service'.path = service.path,
         service'.model = IF Loadable(service.path) THEN files[service.path].model ELSE Heuristic
  PROVE  Started'
<1> DEFINE n == Len(trainings)
<1>1. n \in Nat /\ DOMAIN trainings = 1..n
  BY LenProperties DEF RunsTyped
<1>2. CASE service.since = n /\ n = 0
  <2>1. service.path = Shipped
    BY <1>2 DEF Started
  <2>2. service.path \notin DOMAIN files
    BY <2>1, NamesApart DEF FilesTyped
  <2> QED
    BY <1>2, <2>1, <2>2 DEF Started, Loadable
<1>3. CASE service.since = n /\ n # 0
  <2> DEFINE a == trainings[n].artifact
  <2>1. trainings[n].at = 7 /\ service.path = a
    BY <1>3 DEF Started
  <2>2. files[a] = File("whole", n)
    BY <1>1, <1>3, <2>1 DEF Orderly, Written
  <2>3. a \in FileNames
    <3>1. trainings[n] \in Run
      BY <1>1, <1>3 DEF RunsTyped
    <3> QED
      BY <3>1, NamesApart DEF Run
  <2> HIDE DEF a
  <2>4. Loadable(a) /\ files[a].model = n
    BY <2>2, <2>3 DEF Loadable, Readable, File, FilesTyped
  <2> QED
    BY <1>3, <2>1, <2>4 DEF Started, a
<1>4. CASE service.since # n
  BY <1>4 DEF Started
<1> QED
  BY <1>2, <1>3, <1>4

-----------------------------------------------------------------------------
(* Every step keeps the invariant.                                         *)

ModelVars == <<files, registry, trainings, service, second, disturbed>>

\* Trainings that do not move make progress, trivially.
LEMMA SameTrainings ==
  ASSUME RunsTyped, UNCHANGED <<trainings, second, disturbed>>
  PROVE  /\ RunsTyped' /\ Progress /\ Len(trainings) <= Len(trainings')
         /\ \A j \in DOMAIN trainings' :
              trainings'[j].at > 3 => j \in DOMAIN trainings /\ trainings[j].at > 3
<1>1. RunsTyped'
  BY DEF RunsTyped, Training
<1>2. Len(trainings) <= Len(trainings')
  BY LenProperties DEF RunsTyped
<1>3. Progress
  <2> SUFFICES ASSUME NEW j \in DOMAIN trainings
               PROVE  trainings[j].at >= trainings[j].at
    BY DEF Progress
  <2>1. trainings[j] \in Run
    BY DEF RunsTyped
  <2> QED
    BY <2>1 DEF Run
<1> QED
  BY <1>1, <1>2, <1>3

\* Reviews and exports leave all of this alone.
LEMMA ModelsStay ==
  ASSUME ModelsInv, UNCHANGED ModelVars
  PROVE  ModelsInv'
<1>1. /\ RunsTyped' /\ Progress /\ Len(trainings) <= Len(trainings')
      /\ \A j \in DOMAIN trainings' :
           trainings'[j].at > 3 => j \in DOMAIN trainings /\ trainings[j].at > 3
  BY SameTrainings DEF ModelsInv, ModelVars
<1>2. ArtifactsOwned' /\ FilesTyped'
  BY <1>1, OwnedWhileFilesStay DEF ModelsInv, ModelVars
<1>3. RegistryTyped' /\ RegistryNames'
  BY <1>1, RegistryStays DEF ModelsInv, ModelVars
<1>4. ServiceTyped' /\ ServiceNames'
  BY <1>1, ServiceStays DEF ModelsInv, ModelVars
<1>5. ~disturbed' => Orderly' /\ Started'
  <2>1. Orderly => Orderly'
    BY OrderlyStays DEF ModelVars
  <2>2. Started => Started'
    BY DEF Started, ModelVars
  <2> QED
    BY <2>1, <2>2 DEF ModelsInv, ModelVars
<1>6. service'.since <= Len(trainings')
  BY DEF ModelsInv, ModelVars
<1> QED
  BY <1>1, <1>2, <1>3, <1>4, <1>5, <1>6 DEF ModelsInv

\* Starting a training keeps the invariant.
LEMMA StartKeepsModels ==
  ASSUME ModelsInv, DataTyped, TrainingStarts
  PROVE  ModelsInv'
<1>0. RunsTyped /\ FilesTyped /\ RegistryTyped /\ ServiceTyped
  BY DEF ModelsInv
<1>1. /\ RunsTyped' /\ Progress
      /\ DOMAIN trainings' = DOMAIN trainings \cup {Len(trainings) + 1}
  BY <1>0, StartKeepsRuns
<1>2. /\ Len(trainings') = Len(trainings) + 1 /\ Len(trainings) \in Nat
      /\ trainings'[Len(trainings) + 1].at = 1
      /\ \A j \in DOMAIN trainings : trainings'[j] = trainings[j]
  BY <1>0, StartedRun, LenProperties DEF RunsTyped
<1>3. /\ Len(trainings) <= Len(trainings')
      /\ \A j \in DOMAIN trainings' :
           trainings'[j].at > 3 => j \in DOMAIN trainings /\ trainings[j].at > 3
  BY <1>1, <1>2
<1>4. UNCHANGED <<files, registry, service>> /\ (disturbed => disturbed')
  BY DEF TrainingStarts
<1>5. ArtifactsOwned' /\ FilesTyped'
  BY <1>1, <1>3, <1>4, OwnedWhileFilesStay DEF ModelsInv
<1>6. RegistryTyped' /\ RegistryNames'
  BY <1>1, <1>4, RegistryStays DEF ModelsInv
<1>7. ServiceTyped' /\ ServiceNames'
  BY <1>1, <1>3, <1>4, ServiceStays DEF ModelsInv
<1>8. ~disturbed' => Orderly' /\ Started'
  BY <1>4, OrderlyStart DEF ModelsInv
<1>9. service'.since <= Len(trainings')
  <2>1. service.since \in Int /\ service.since <= Len(trainings)
    BY <1>0 DEF ModelsInv, ServiceTyped
  <2> QED
    BY <1>2, <1>4, <2>1
<1> QED
  BY <1>1, <1>5, <1>6, <1>7, <1>8, <1>9 DEF ModelsInv

\* A training that moves in place, and does not come past its artifact, leaves what was made.
LEMMA MovesKeepNames ==
  ASSUME ModelsInv, RunsTyped', Progress, NEW k \in DOMAIN trainings, NEW pc, NEW at,
         Moves(k, pc, at), at > 3 => trainings[k].at > 3,
         UNCHANGED <<files, service>>
  PROVE  /\ ArtifactsOwned' /\ FilesTyped' /\ ServiceTyped' /\ ServiceNames'
         /\ service'.since <= Len(trainings')
<1>1. DOMAIN trainings' = DOMAIN trainings /\ Len(trainings') = Len(trainings) /\ Len(trainings) \in Nat
  BY LenProperties DEF Moves, ModelsInv, RunsTyped
<1>2. \A j \in DOMAIN trainings' :
        trainings'[j].at > 3 => j \in DOMAIN trainings /\ trainings[j].at > 3
  BY <1>1 DEF Moves
<1>3. ArtifactsOwned' /\ FilesTyped'
  BY <1>1, <1>2, OwnedWhileFilesStay DEF ModelsInv
<1>4. ServiceTyped' /\ ServiceNames'
  BY <1>1, ServiceStays DEF ModelsInv
<1> QED
  BY <1>1, <1>3, <1>4 DEF ModelsInv

\* Fitting keeps it.
LEMMA FitKeepsModels ==
  ASSUME ModelsInv, NEW k \in DOMAIN trainings, Fit(k)
  PROVE  ModelsInv'
<1>1. /\ trainings[k].at = 2 /\ Training(k) /\ Moves(k, trainings[k].pc, 3)
      /\ second' \in Nat \ {0} /\ RunsTyped
  BY FitMoves DEF ModelsInv
<1>2. UNCHANGED <<files, registry, service, disturbed>>
  BY DEF Fit
<1>3. RunsTyped' /\ Progress /\ DOMAIN trainings' = DOMAIN trainings
  <2>1. disturbed' \in BOOLEAN /\ (disturbed => disturbed')
    BY <1>1, <1>2 DEF RunsTyped
  <2>2. trainings[k].pc \in {"open", "write"} /\ ~(trainings[k].at > 2) /\ 3 >= trainings[k].at
    BY <1>1 DEF Training
  <2> QED
    BY <1>1, <2>1, <2>2, MovesKeepRuns
<1>4. /\ ArtifactsOwned' /\ FilesTyped' /\ ServiceTyped' /\ ServiceNames'
      /\ service'.since <= Len(trainings')
  BY <1>1, <1>2, <1>3, MovesKeepNames
<1>5. RegistryTyped' /\ RegistryNames'
  BY <1>2, <1>3, RegistryStays DEF ModelsInv
<1>6. ~disturbed' => Orderly' /\ Started'
  BY <1>2, OrderlyFit DEF ModelsInv
<1> QED
  BY <1>3, <1>4, <1>5, <1>6 DEF ModelsInv

\* Opening or writing a file.
LEMMA FileKeepsModels ==
  ASSUME ModelsInv, NEW k \in DOMAIN trainings, OpenFile(k) \/ WriteFile(k)
  PROVE  ModelsInv'
<1>0. RunsTyped /\ FilesTyped /\ k \in Nat
  BY LenProperties DEF ModelsInv, RunsTyped
<1>1. PICK pc, at :
        /\ Training(k) /\ trainings[k].at \in {1, 3, 4, 6} /\ Moves(k, pc, at)
        /\ trainings'[k].artifact = trainings[k].artifact
        /\ pc \in {"open", "write"} => at <= 6
        /\ pc = "done" => at = 7
        /\ pc # "killed"
        /\ \/ at = trainings[k].at /\ files' = [files EXCEPT ![Target(k)] = File("cut", 0)]
           \/ /\ at = trainings[k].at + 1 /\ pc # "write"
              /\ files' = [files EXCEPT ![Target(k)] = File("whole", k)]
  <2>1. CASE OpenFile(k)
    <3>1. files' = [files EXCEPT ![Target(k)] = File("cut", 0)]
      BY <2>1 DEF OpenFile
    <3>2. /\ Training(k) /\ trainings[k].at \in {1, 3, 4, 6}
          /\ Moves(k, "write", trainings[k].at)
          /\ trainings'[k].artifact = trainings[k].artifact
      BY <1>0, <2>1, OpenFileMoves
    <3>3. trainings[k].at <= 6
      BY <3>2
    <3> QED
      BY <3>1, <3>2, <3>3
  <2>2. CASE WriteFile(k)
    <3> DEFINE pc == IF trainings[k].at = 6 THEN "done" ELSE "open"
               at == trainings[k].at + 1
    <3>1. files' = [files EXCEPT ![Target(k)] = File("whole", k)]
      BY <2>2 DEF WriteFile
    <3>2. /\ Training(k) /\ trainings[k].at \in {1, 3, 4, 6} /\ Moves(k, pc, at)
          /\ trainings'[k].artifact = trainings[k].artifact
      BY <1>0, <2>2, WriteFileMoves
    <3>3. /\ pc \in {"open", "write"} => at <= 6
          /\ pc = "done" => at = 7
          /\ pc # "killed" /\ pc # "write"
      BY <3>2
    <3> QED
      BY <3>1, <3>2, <3>3
  <2> QED
    BY <2>1, <2>2
<1>2. UNCHANGED <<registry, service, second, disturbed>>
  BY DEF OpenFile, WriteFile
<1>3. RunsTyped' /\ Progress /\ DOMAIN trainings' = DOMAIN trainings
  <2>1. /\ disturbed' \in BOOLEAN /\ (disturbed => disturbed') /\ second' \in Nat \ {0}
    BY <1>0, <1>2 DEF RunsTyped
  <2>2. at >= trainings[k].at
    BY <1>1
  <2> QED
    BY <1>0, <1>1, <2>1, <2>2, MovesKeepRuns
<1>4. /\ trainings'[k].at = at /\ Len(trainings') = Len(trainings)
      /\ \A j \in DOMAIN trainings : j # k => trainings'[j] = trainings[j]
  BY <1>1 DEF Moves
<1>5. ArtifactsOwned' /\ FilesTyped'
  <2>1. CASE at = trainings[k].at /\ files' = [files EXCEPT ![Target(k)] = File("cut", 0)]
    BY <1>0, <1>1, <1>3, <1>4, <2>1, OwnedWhenWritten DEF ModelsInv
  <2>2. CASE at = trainings[k].at + 1 /\ files' = [files EXCEPT ![Target(k)] = File("whole", k)]
    BY <1>0, <1>1, <1>3, <1>4, <2>2, OwnedWhenWritten DEF ModelsInv
  <2> QED
    BY <1>1, <2>1, <2>2
<1>6. RegistryTyped' /\ RegistryNames'
  BY <1>2, <1>3, RegistryStays DEF ModelsInv
<1>7. Len(trainings) <= Len(trainings')
  BY <1>4, LenProperties DEF ModelsInv, RunsTyped
<1>8. ServiceTyped' /\ ServiceNames' /\ service'.since <= Len(trainings')
  BY <1>2, <1>3, <1>4, <1>7, ServiceStays DEF ModelsInv
<1>9. ~disturbed' => Orderly' /\ Started'
  BY <1>1, <1>2, OrderlyFile DEF ModelsInv
<1> QED
  BY <1>3, <1>5, <1>6, <1>8, <1>9 DEF ModelsInv

\* Reading the registry keeps it.
LEMMA ReadKeepsModels ==
  ASSUME ModelsInv, NEW k \in DOMAIN trainings, ReadRegistry(k)
  PROVE  ModelsInv'
<1>0. RunsTyped /\ RegistryTyped
  BY DEF ModelsInv
<1>1. /\ Training(k) /\ trainings[k].at = 5 /\ Moves(k, "write", 5)
      /\ trainings'[k].artifact = trainings[k].artifact
  BY <1>0, ReadRegistryMoves
<1>2. /\ UNCHANGED <<files, service, second, disturbed>>
      /\ registry' = [state |-> "cut", active |-> Shipped, history |-> <<>>]
  BY DEF ReadRegistry
<1>3. RunsTyped' /\ Progress /\ DOMAIN trainings' = DOMAIN trainings
  <2>1. /\ disturbed' \in BOOLEAN /\ (disturbed => disturbed') /\ second' \in Nat \ {0}
    BY <1>0, <1>2 DEF RunsTyped
  <2>2. 5 >= trainings[k].at
    BY <1>1
  <2> QED
    BY <1>0, <1>1, <2>1, <2>2, MovesKeepRuns
<1>4. /\ ArtifactsOwned' /\ FilesTyped' /\ ServiceTyped' /\ ServiceNames'
      /\ service'.since <= Len(trainings')
  <2>1. trainings[k].at > 3
    BY <1>1
  <2> QED
    BY <1>1, <1>2, <1>3, <2>1, MovesKeepNames
<1>5. RegistryTyped' /\ RegistryNames'
  BY <1>2, RegistryWhenRead
<1>6. ~disturbed' => Orderly' /\ Started'
  BY <1>2, OrderlyReadRegistry DEF ModelsInv
<1> QED
  BY <1>3, <1>4, <1>5, <1>6 DEF ModelsInv

\* Writing the registry keeps it.
LEMMA WriteKeepsModels ==
  ASSUME ModelsInv, NEW k \in DOMAIN trainings, WriteRegistry(k)
  PROVE  ModelsInv'
<1>0. RunsTyped
  BY DEF ModelsInv
<1>1. /\ Training(k) /\ trainings[k].at = 5 /\ Moves(k, "open", 6)
      /\ trainings'[k].artifact = trainings[k].artifact /\ trainings'[k].at = 6
  BY <1>0, WriteRegistryMoves DEF Moves
<1>2. UNCHANGED <<files, service, second, disturbed>>
  BY DEF WriteRegistry
<1>3. RunsTyped' /\ Progress /\ DOMAIN trainings' = DOMAIN trainings
  <2>1. /\ disturbed' \in BOOLEAN /\ (disturbed => disturbed') /\ second' \in Nat \ {0}
    BY <1>0, <1>2 DEF RunsTyped
  <2>2. 6 >= trainings[k].at
    BY <1>1
  <2> QED
    BY <1>0, <1>1, <2>1, <2>2, MovesKeepRuns
<1>4. /\ ArtifactsOwned' /\ FilesTyped' /\ ServiceTyped' /\ ServiceNames'
      /\ service'.since <= Len(trainings')
  <2>1. trainings[k].at > 3
    BY <1>1
  <2> QED
    BY <1>1, <1>2, <1>3, <2>1, MovesKeepNames
<1>5. RegistryTyped' /\ RegistryNames'
  BY <1>0, <1>1, <1>3, RegistryWhenWritten
<1>6. ~disturbed' => Orderly' /\ Started'
  BY <1>2, <1>3, OrderlyWriteRegistry DEF ModelsInv
<1> QED
  BY <1>3, <1>4, <1>5, <1>6 DEF ModelsInv

\* Killing a training keeps it.
LEMMA CutKeepsModels ==
  ASSUME ModelsInv, NEW k \in DOMAIN trainings, TrainingCut(k)
  PROVE  ModelsInv'
<1>0. RunsTyped
  BY DEF ModelsInv
<1>1. /\ Training(k) /\ Moves(k, "killed", trainings[k].at)
      /\ trainings'[k].artifact = trainings[k].artifact
  BY <1>0, CutMoves
<1>2. UNCHANGED <<files, registry, service, second>> /\ disturbed' = TRUE
  BY DEF TrainingCut
<1>3. RunsTyped' /\ Progress /\ DOMAIN trainings' = DOMAIN trainings
  <2>1. second' \in Nat \ {0}
    BY <1>0, <1>2 DEF RunsTyped
  <2>2. trainings[k].at >= trainings[k].at
    BY <1>0, <1>1, TargetOfStep
  <2> QED
    BY <1>0, <1>1, <1>2, <2>1, <2>2, MovesKeepRuns
<1>4. /\ ArtifactsOwned' /\ FilesTyped' /\ ServiceTyped' /\ ServiceNames'
      /\ service'.since <= Len(trainings')
  BY <1>1, <1>2, <1>3, MovesKeepNames
<1>5. RegistryTyped' /\ RegistryNames'
  BY <1>2, <1>3, RegistryStays DEF ModelsInv
<1> QED
  BY <1>2, <1>3, <1>4, <1>5 DEF ModelsInv

\* A start of the service and the load of its model keep it.
LEMMA ServiceKeepsModels ==
  ASSUME ModelsInv, ServiceStarts \/ ModelLoads
  PROVE  ModelsInv'
<1>0. /\ RunsTyped /\ RegistryTyped /\ FilesTyped /\ ServiceTyped
      /\ ArtifactsOwned /\ RegistryNames /\ ServiceNames
  BY DEF ModelsInv
<1>1. UNCHANGED <<files, registry, trainings, second, disturbed>>
  BY DEF ServiceStarts, ModelLoads, trainingVars
<1>2. /\ RunsTyped' /\ Progress /\ Len(trainings) <= Len(trainings')
      /\ \A j \in DOMAIN trainings' :
           trainings'[j].at > 3 => j \in DOMAIN trainings /\ trainings[j].at > 3
  BY <1>0, <1>1, SameTrainings
<1>3. ArtifactsOwned' /\ FilesTyped'
  BY <1>0, <1>1, <1>2, OwnedWhileFilesStay
<1>4. RegistryTyped' /\ RegistryNames'
  BY <1>0, <1>1, <1>2, RegistryStays
<1>5. CASE ServiceStarts
  <2>1. ServiceTyped' /\ ServiceNames'
    BY <1>0, <1>5, ServiceWhenStarted
  <2>2. service'.since <= Len(trainings')
    <3>1. service'.since = TrainingsSeen
      BY <1>5 DEF ServiceStarts
    <3>2. TrainingsSeen <= Len(trainings)
      BY <1>0, LenProperties DEF TrainingsSeen, RunsTyped
    <3> QED
      BY <1>1, <3>1, <3>2
  <2>3. ~disturbed' => Orderly' /\ Started'
    BY <1>0, <1>1, <1>5, StartedWhenStarts, OrderlyStays DEF ModelsInv
  <2> QED
    BY <1>2, <1>3, <1>4, <2>1, <2>2, <2>3 DEF ModelsInv
<1>6. CASE ModelLoads
  <2>1. /\ ServiceTyped' /\ ServiceNames'
        /\ service'.since = service.since /\ service'.path = service.path
        /\ service'.model = IF Loadable(service.path) THEN files[service.path].model ELSE Heuristic
    BY <1>0, <1>6, ServiceWhenLoaded
  <2>2. service'.since <= Len(trainings')
    BY <1>1, <2>1 DEF ModelsInv
  <2>3. ~disturbed' => Orderly' /\ Started'
    BY <1>0, <1>1, <2>1, StartedWhenLoads, OrderlyStays DEF ModelsInv
  <2> QED
    BY <1>2, <1>3, <1>4, <2>1, <2>2, <2>3 DEF ModelsInv
<1> QED
  BY <1>5, <1>6

\* Rows to export are rows.
LEMMA RowsTyped ==
  ASSUME DataTyped
  PROVE  FeedbackRows \in SUBSET Row
<1> SUFFICES ASSUME NEW p \in DOMAIN logs, Labelled(logs[p])
             PROVE  [id |-> p, zone |-> logs[p].zone, level |-> logs[p].level,
                     score |-> LabelOf(logs[p].review)] \in Row
  BY DEF FeedbackRows
<1>1. logs[p] \in LogRow /\ p \in Nat
  BY LenProperties DEF DataTyped
<1>2. logs[p].review \in Reviews /\ logs[p].zone \in Zones /\ logs[p].level \in Levels
  BY <1>1 DEF LogRow, Labelled
<1>3. LabelOf(logs[p].review) \in Labels
  BY <1>2 DEF Labels
<1> QED
  BY <1>1, <1>2, <1>3 DEF Row

\* One review changes one row of the log.
LEMMA ReviewTyped ==
  ASSUME DataTyped, NEW p \in DOMAIN logs, NEW r \in Reviews, Review(p, r)
  PROVE  /\ logs' \in Seq(LogRow) /\ reviews' \in Seq(ReviewRow)
         /\ DOMAIN logs' = DOMAIN logs /\ logs'[p].review = r
         /\ logs'[p].zone = logs[p].zone /\ logs'[p].level = logs[p].level
         /\ \A q \in DOMAIN logs : q # p => logs'[q] = logs[q]
         /\ Len(reviews') = Len(reviews) + 1 /\ Len(reviews) \in Nat
         /\ reviews'[Len(reviews) + 1] = [id |-> p, review |-> r]
         /\ \A i \in 1..Len(reviews) : reviews'[i] = reviews[i]
         /\ UNCHANGED <<dataset, export, trainings>>
<1> DEFINE row == [logs[p] EXCEPT !.review = r]
           new == [id |-> p, review |-> r]
<1>1. /\ logs \in Seq(LogRow) /\ reviews \in Seq(ReviewRow) /\ logs[p] \in LogRow /\ p \in Nat
  BY LenProperties DEF DataTyped
<1>2. row \in LogRow /\ row.review = r /\ row.zone = logs[p].zone /\ row.level = logs[p].level
  BY <1>1 DEF LogRow
<1>3. logs' = [logs EXCEPT ![p] = row] /\ reviews' = Append(reviews, new)
  BY DEF Review
<1>4. new \in ReviewRow
  BY <1>1 DEF ReviewRow
<1> HIDE DEF row, new
<1>5. /\ logs' \in Seq(LogRow) /\ DOMAIN logs' = DOMAIN logs /\ logs'[p] = row
      /\ \A q \in DOMAIN logs : q # p => logs'[q] = logs[q]
  BY <1>1, <1>2, <1>3, ExceptSeq
<1>6. /\ reviews' \in Seq(ReviewRow) /\ Len(reviews') = Len(reviews) + 1 /\ Len(reviews) \in Nat
      /\ reviews'[Len(reviews) + 1] = new
      /\ \A i \in 1..Len(reviews) : reviews'[i] = reviews[i]
  BY <1>1, <1>3, <1>4, AppendProperties, LenProperties
<1>7. UNCHANGED <<dataset, export, trainings>>
  BY DEF Review, datasetVars, trainingVars
<1> QED
  BY <1>2, <1>5, <1>6, <1>7 DEF new

\* A prediction adds a row without a review.
LEMMA PredictionTyped ==
  ASSUME DataTyped, LogPrediction
  PROVE  /\ logs' \in Seq(LogRow) /\ DOMAIN logs' = DOMAIN logs \cup {Len(logs) + 1}
         /\ Len(logs) + 1 \notin DOMAIN logs
         /\ logs'[Len(logs) + 1].review = None
         /\ \A q \in DOMAIN logs : logs'[q] = logs[q]
         /\ UNCHANGED <<reviews, dataset, export, trainings>>
<1>1. PICK p \in Payloads :
        logs' = Append(logs, [zone |-> p.zone, level |-> p.level, score |-> p.score, review |-> None])
  BY DEF LogPrediction
<1> DEFINE row == [zone |-> p.zone, level |-> p.level, score |-> p.score, review |-> None]
<1>2. row \in LogRow /\ row.review = None
  BY DEF LogRow, Zones, Levels, Scores
<1>3. logs \in Seq(LogRow) /\ logs' = Append(logs, row)
  BY <1>1 DEF DataTyped
<1> HIDE DEF row
<1>4. /\ logs' \in Seq(LogRow) /\ Len(logs') = Len(logs) + 1 /\ logs'[Len(logs) + 1] = row
      /\ \A q \in 1..Len(logs) : logs'[q] = logs[q]
  BY <1>2, <1>3, AppendProperties
<1>5. DOMAIN logs = 1..Len(logs) /\ DOMAIN logs' = 1..Len(logs') /\ Len(logs) \in Nat
  BY <1>3, <1>4, LenProperties
<1>6. UNCHANGED <<reviews, dataset, export, trainings>>
  BY DEF LogPrediction, datasetVars, trainingVars
<1> QED
  BY <1>2, <1>4, <1>5, <1>6

\* Every step keeps logs, reviews and datasets well formed.
LEMMA DataStaysTyped ==
  ASSUME DataTyped, [LearningNext]_learningVars
  PROVE  DataTyped'
<1>1. CASE LogPrediction
  BY <1>1, PredictionTyped DEF DataTyped
<1>2. CASE \E p \in DOMAIN logs : SubmitFeedback(p)
  <2>1. PICK p \in DOMAIN logs, r \in Reviews : Review(p, r)
    BY <1>2 DEF SubmitFeedback
  <2> QED
    BY <2>1, ReviewTyped DEF DataTyped
<1>3. CASE ReadFeedback
  <2> DEFINE rows == FeedbackRows
  <2>1. rows \in SUBSET Row /\ Len(reviews) \in Nat
    BY RowsTyped, LenProperties DEF DataTyped
  <2>2. /\ UNCHANGED <<logs, reviews, dataset>>
        /\ export' = [pc |-> IF rows = {} THEN "done" ELSE "open", rows |-> rows,
                      as_of |-> Len(reviews), runs |-> export.runs + 1]
    BY <1>3 DEF ReadFeedback
  <2> HIDE DEF rows
  <2>3. export.runs + 1 \in Nat
    BY DEF DataTyped
  <2> QED
    BY <2>1, <2>2, <2>3 DEF DataTyped
<1>4. CASE OpenDataset
  BY <1>4 DEF OpenDataset, DataTyped
<1>5. CASE WriteDataset
  BY <1>5 DEF WriteDataset, DataTyped
<1>6. ASSUME UNCHANGED <<logs, reviews, dataset, export>>
      PROVE  DataTyped'
  BY <1>6 DEF DataTyped
<1>7. CASE TrainingStarts
  BY <1>6, <1>7 DEF TrainingStarts, datasetVars
<1>8. CASE \E k \in DOMAIN trainings : TrainingStep(k)
  BY <1>6, <1>8 DEF TrainingStep, Fit, OpenFile, WriteFile, ReadRegistry, WriteRegistry,
                     TrainingCut, datasetVars
<1>9. CASE ServiceStarts \/ ModelLoads
  BY <1>6, <1>9 DEF ServiceStarts, ModelLoads, datasetVars
<1>10. CASE UNCHANGED learningVars
  BY <1>6, <1>10 DEF learningVars, datasetVars
<1> QED
  BY <1>1, <1>2, <1>3, <1>4, <1>5, <1>7, <1>8, <1>9, <1>10 DEF LearningNext

\* The names and models of files, registry and service fit the trainings at all times: the
\* inductive invariant.
THEOREM LearningInductive == LearningSpec => [](DataTyped /\ ModelsInv)
<1>1. LearningInit => DataTyped /\ ModelsInv
  <2> SUFFICES ASSUME LearningInit PROVE DataTyped /\ ModelsInv
    OBVIOUS
  <2>1. DataTyped
    BY DEF LearningInit, DataTyped
  <2>2. RunsTyped
    <3>1. trainings = <<>> /\ second = 1
      BY DEF LearningInit
    <3>2. trainings \in Seq(Run) /\ Len(trainings) = 0
      BY <3>1, EmptySeq
    <3>3. DOMAIN trainings = {}
      BY <3>2, LenProperties
    <3>4. second \in Nat \ {0}
      BY <3>1
    <3>5. disturbed \in BOOLEAN
      BY DEF LearningInit
    <3>6. \A k \in DOMAIN trainings : FALSE
      BY <3>3
    <3> QED
      BY <3>2, <3>4, <3>5, <3>6, Zenon DEF RunsTyped
  <2>3. files = [f \in FileNames |-> File(IF f \in Versions THEN "missing" ELSE "whole", 0)]
    BY DEF LearningInit, Versions
  <2>4. FilesTyped
    BY <2>3 DEF FilesTyped, File
  <2>5. RegistryTyped /\ RegistryNames
    BY LearningAssumption DEF LearningInit, RegistryTyped, RegistryNames
  <2>6. service = [path |-> Shipped, model |-> None, starts |-> 0, since |-> 0]
    BY DEF LearningInit
  <2>7. ServiceTyped /\ service.since <= Len(trainings)
    BY <2>6 DEF LearningInit, ServiceTyped
  <2>8. ServiceNames
    BY <2>6, NamesApart, ValuesAssumption DEF ServiceNames
  <2>9. ArtifactsOwned
    <3>1. \A f \in FileNames : files[f].model = 0
      BY <2>3 DEF File
    <3>2. \A a \in Versions : files[a].state = "missing"
      BY <2>3, NamesApart DEF File
    <3> QED
      BY <3>1, <3>2 DEF ArtifactsOwned, Readable, LearningInit
  <2>10. Orderly
    <3>1. files["metadata"] = File("whole", 0)
      BY <2>3, NamesApart
    <3>2. Len(trainings) = 0 /\ registry.history = <<>> /\ registry.state = "whole"
      BY DEF LearningInit
    <3>3. Chain(registry.history, 0)
      BY <3>2 DEF Chain
    <3> QED
      BY <3>1, <3>2, <3>3 DEF Orderly, History
  <2>11. Started
    BY <2>6 DEF LearningInit, Started
  <2> QED
    BY <2>1, <2>2, <2>4, <2>5, <2>7, <2>8, <2>9, <2>10, <2>11 DEF ModelsInv
<1>2. DataTyped /\ ModelsInv /\ [LearningNext]_learningVars => DataTyped' /\ ModelsInv'
  <2> SUFFICES ASSUME DataTyped, ModelsInv, [LearningNext]_learningVars
               PROVE  ModelsInv'
    BY DataStaysTyped
  <2>1. CASE \/ LogPrediction \/ \E p \in DOMAIN logs : SubmitFeedback(p)
             \/ ReadFeedback \/ OpenDataset \/ WriteDataset \/ UNCHANGED learningVars
    BY <2>1, ModelsStay
       DEF LogPrediction, SubmitFeedback, Review, ReadFeedback, OpenDataset, WriteDataset,
           learningVars, trainingVars, ModelVars
  <2>2. CASE TrainingStarts
    BY <2>2, StartKeepsModels
  <2>3. CASE \E k \in DOMAIN trainings : TrainingStep(k)
    BY <2>3, FitKeepsModels, FileKeepsModels, ReadKeepsModels, WriteKeepsModels, CutKeepsModels
       DEF TrainingStep
  <2>4. CASE ServiceStarts \/ ModelLoads
    BY <2>4, ServiceKeepsModels
  <2> QED
    BY <2>1, <2>2, <2>3, <2>4 DEF LearningNext
<1> QED
  BY <1>1, <1>2, PTL DEF LearningSpec

-----------------------------------------------------------------------------
(* What the invariant says of models.                                      *)

\* The drift report has three answers.
LEMMA StatusIsOne ==
  ASSUME NEW b
  PROVE  DriftStatus(b) \in {"unknown", "stable", "drift_detected"}
BY DEF DriftStatus

\* Types.
LEMMA InvTypes ==
  ASSUME ModelsInv
  PROVE  LearningTypeOK
<1>1. FilesTyped /\ RegistryTyped /\ ServiceTyped /\ RunsTyped /\ Len(trainings) \in Nat
  BY LenProperties DEF ModelsInv, RunsTyped
<1>2. ASSUME NEW f \in FileNames
      PROVE  files[f].state \in {"missing", "cut", "whole"} /\ files[f].model \in 0..Len(trainings)
  <2>1. files[f].model \in Nat /\ files[f].state \in {"missing", "cut", "whole"}
    BY <1>1 DEF FilesTyped
  <2>2. files[f].model <= Len(trainings)
    BY DEF ModelsInv, ArtifactsOwned
  <2> QED
    BY <1>1, <2>1, <2>2
<1>3. ASSUME NEW k \in DOMAIN trainings
      PROVE  trainings[k].at \in 1..7
  <2>1. trainings[k] \in Run
    BY <1>1 DEF RunsTyped
  <2> QED
    BY <2>1 DEF Run
<1>4. service.model \in {None, Heuristic} \cup 0..Len(trainings)
  <2>1. service.model \in {None, Heuristic} \cup Nat
    BY <1>1 DEF ServiceTyped
  <2>2. service.model \in Nat => service.model <= Len(trainings)
    BY DEF ModelsInv, ServiceNames
  <2> QED
    BY <1>1, <2>1, <2>2
<1>5. Health.status \in {"unknown", "stable", "drift_detected"}
  <2>1. \A b : DriftStatus(b) \in {"unknown", "stable", "drift_detected"}
    BY StatusIsOne
  <2> QED
    BY <2>1 DEF Health
<1>6. registry.state \in {"cut", "whole"} /\ Len(registry.history) <= HistoryLimit
  BY <1>1 DEF RegistryTyped, ModelsInv, RegistryNames
<1>7. DOMAIN files = FileNames
  BY <1>1 DEF FilesTyped
<1> QED
  BY <1>2, <1>3, <1>4, <1>5, <1>6, <1>7 DEF LearningTypeOK

\* What the registry names can be loaded.
LEMMA InvRegistryHolds ==
  ASSUME ModelsInv
  PROVE  RegistryHolds
<1> SUFFICES ASSUME NEW k \in DOMAIN trainings, ~Collides(k)
             PROVE  /\ registry.history # <<>> /\ Last(registry.history) = k =>
                         Readable(registry.active) /\ files[registry.active].model = k
                    /\ service.model = k /\ service.path # Configured => Past(k, 5)
  BY DEF RegistryHolds
<1>1. \A j \in DOMAIN trainings : trainings[j].at \in Int
  <2> SUFFICES ASSUME NEW j \in DOMAIN trainings PROVE trainings[j].at \in Int
    OBVIOUS
  <2>1. trainings[j] \in Run
    BY DEF ModelsInv, RunsTyped
  <2> QED
    BY <2>1 DEF Run
<1>2. ASSUME registry.history # <<>>, Last(registry.history) = k
      PROVE  Readable(registry.active) /\ files[registry.active].model = k
  <2>1. trainings[k].artifact = registry.active /\ trainings[k].at > 5
    BY <1>2 DEF ModelsInv, RegistryNames, Made, Past
  <2>2. trainings[k].at > 3
    BY <1>1, <2>1
  <2>3. files[registry.active] = File("whole", k)
    BY <2>1, <2>2 DEF ModelsInv, ArtifactsOwned, Past
  <2> QED
    BY <2>3 DEF Readable, File
<1>3. ASSUME service.model = k, service.path # Configured
      PROVE  Past(k, 5)
  <2>1. k \in Nat
    BY LenProperties DEF ModelsInv, RunsTyped
  <2>2. service.path \in Versions /\ Made(k, service.path, 3)
    BY <1>3, <2>1 DEF ModelsInv, ServiceNames
  <2>3. PICK j \in DOMAIN trainings : Made(j, service.path, 5)
    BY <2>2 DEF ModelsInv, ServiceNames
  <2>4. Past(j, 2) /\ trainings[j].artifact = trainings[k].artifact
    BY <1>1, <2>2, <2>3 DEF Made, Past
  <2>5. j = k
    BY <2>4 DEF Collides
  <2> QED
    BY <2>3, <2>5 DEF Made
<1> QED
  BY <1>2, <1>3

\* While nothing was disturbed and no training runs, the last one is done.
LEMMA LastIsDone ==
  ASSUME ModelsInv, ~disturbed, Idle, NEW n, n = Len(trainings), n > 0
  PROVE  /\ n \in DOMAIN trainings /\ n \in Nat /\ trainings[n].at = 7
         /\ trainings[n].artifact \in Versions
         /\ Written(n) /\ Chain(registry.history, n)
<1>1. n \in DOMAIN trainings /\ n \in Nat
  BY LenProperties DEF ModelsInv, RunsTyped
<1>2. trainings[n] \in Run
  BY <1>1 DEF ModelsInv, RunsTyped
<1>3. trainings[n].at = 7
  BY <1>1, <1>2 DEF Run, Idle, Training, ModelsInv, RunsTyped
<1>4. Written(n) /\ Chain(registry.history, n)
  BY <1>3 DEF ModelsInv, Orderly, History
<1> QED
  BY <1>1, <1>2, <1>3, <1>4 DEF Run

\* After undisturbed trainings every file is of the last one.
LEMMA InvFilesAgree ==
  ASSUME ModelsInv
  PROVE  FilesAgree
<1> DEFINE n == Len(trainings)
<1> SUFFICES ASSUME ~disturbed, Idle, n > 0
             PROVE  /\ Evaluable /\ Evaluated = [model |-> n, split |-> n]
                    /\ files["metadata"] = File("whole", n) /\ files[registry.active] = File("whole", n)
                    /\ Len(registry.history) > 0 /\ Last(registry.history) = n
                    /\ \A i \in 1..(Len(registry.history) - 1) :
                         registry.history[i] + 1 = registry.history[i + 1]
  BY DEF FilesAgree
<1>1. /\ n \in DOMAIN trainings /\ n \in Nat /\ trainings[n].at = 7
      /\ Written(n) /\ Chain(registry.history, n)
  BY LastIsDone
<1>2. /\ files["split"] = File("whole", n) /\ files[Configured] = File("whole", n)
      /\ files[trainings[n].artifact] = File("whole", n)
      /\ registry.active = trainings[n].artifact /\ files["metadata"] = File("whole", n)
  BY <1>1 DEF Written
<1>3. registry.history \in Seq(Nat)
  BY DEF ModelsInv, RegistryTyped
<1>4. registry.history # <<>> /\ registry.history[Len(registry.history)] = n
  BY <1>1 DEF Chain
<1>5. Len(registry.history) > 0
  BY <1>3, <1>4, LenProperties, EmptySeq
<1>6. Evaluable /\ Evaluated = [model |-> n, split |-> n]
  BY <1>2 DEF Evaluable, Evaluated, Readable, File
<1> QED
  BY <1>1, <1>2, <1>4, <1>5, <1>6 DEF Chain, Last

\* A service started since serves the last one.
LEMMA InvServedAgrees ==
  ASSUME ModelsInv
  PROVE  ServedAgrees
<1> DEFINE n == Len(trainings)
<1> SUFFICES ASSUME ~disturbed, Idle, service.since = n, service.model # None
             PROVE  service.model = (IF n = 0 THEN Heuristic ELSE n) /\ Health.baseline = n
  BY DEF ServedAgrees
<1>1. service.model = (IF n = 0 THEN Heuristic ELSE n)
  BY DEF ModelsInv, Started
<1>2. files["metadata"] = File("whole", n)
  <2>1. n \in Nat
    BY LenProperties DEF ModelsInv, RunsTyped
  <2>2. CASE n = 0
    BY <2>2 DEF ModelsInv, Orderly
  <2>3. CASE n > 0
    <3>1. trainings[n].at = 7 /\ Written(n)
      BY <2>3, LastIsDone
    <3> QED
      BY <3>1 DEF Written
  <2> QED
    BY <2>1, <2>2, <2>3
<1>3. Health.baseline = n
  BY <1>2 DEF Health, Readable, File
<1> QED
  BY <1>1, <1>3

\* What the registry names can be loaded, trainings that neither overlap nor die leave one
\* model everywhere, and a service started since serves it.
THEOREM ModelsDoAgree == LearningSpec => []ModelsAgree
<1>1. ModelsInv => ModelsAgree
  BY InvTypes, InvRegistryHolds, InvFilesAgree, InvServedAgrees DEF ModelsAgree
<1> QED
  BY <1>1, LearningInductive, PTL

-----------------------------------------------------------------------------
(* What a model is fitted on.                                              *)

LastOf(p, n) == Max({i \in 1..n : reviews[i].id = p})

\* The last review of a prediction is the one no later one follows.
LEMMA LastIsLatest ==
  ASSUME NEW n \in Nat, NEW p, NEW i \in 1..n, reviews[i].id = p,
         \A j \in 1..n : j > i => reviews[j].id # p
  PROVE  LastOf(p, n) = i
<1> DEFINE S == {j \in 1..n : reviews[j].id = p}
<1>1. i \in S /\ \A j \in S : i >= j
  OBVIOUS
<1>2. \A x \in S : (\A j \in S : x >= j) => x = i
  <2> SUFFICES ASSUME NEW x \in S, \A j \in S : x >= j
               PROVE  x = i
    OBVIOUS
  <2>1. x >= i /\ i >= x /\ x \in Int /\ i \in Int
    BY <1>1
  <2> QED
    BY <2>1
<1> HIDE DEF S
<1>3. Max(S) = i
  BY <1>1, <1>2 DEF Max
<1> QED
  BY <1>3 DEF LastOf, S

\* Every prediction that was reviewed has a last review.
LEMMA LastExists ==
  ASSUME NEW n \in Nat, NEW p, NEW i \in 1..n, reviews[i].id = p
  PROVE  LastOf(p, n) \in 1..n /\ reviews[LastOf(p, n)].id = p
<1> DEFINE S == {j \in 1..n : reviews[j].id = p}
           later == {j \in 0..n : \E x \in S : x = n - j}
           R == OpToRel(<, Nat)
<1>1. later # {} /\ later \subseteq Nat
  <2>1. n - i \in later
    OBVIOUS
  <2> QED
    BY <2>1
<1>2. IsWellFoundedOn(R, Nat)
  BY NatLessThanWellFounded
<1>3. \A a, b \in Nat : a < b => <<a, b>> \in R
  BY DEF OpToRel
<1> HIDE DEF R, later
<1>4. PICK m \in later : \A j \in later : ~(<<j, m>> \in R)
  BY <1>1, <1>2, WFMin
<1>5. n - m \in S /\ \A j \in S : n - m >= j
  <2>1. PICK x \in S : x = n - m /\ m \in Nat
    BY <1>1 DEF later
  <2>2. ASSUME NEW j \in S
        PROVE  x >= j
    <3>1. n - j \in later /\ n - j \in Nat
      BY DEF later
    <3>2. ~(n - j < m)
      BY <1>3, <1>4, <2>1, <3>1
    <3> QED
      BY <2>1, <3>2
  <2> QED
    BY <2>1, <2>2
<1> HIDE DEF S
<1>6. Max(S) \in S
  BY <1>5 DEF Max
<1> QED
  BY <1>6 DEF LastOf, S

\* The labels, spelled out.
LEMMA LabelsMembers ==
  ASSUME NEW n
  PROVE  LabelsAfter(n) =
           {<<p, LabelOf(reviews[LastOf(p, n)].review)>> :
              p \in {q \in {reviews[i].id : i \in 1..n} :
                       \/ reviews[LastOf(q, n)].review.outcome # None
                       \/ reviews[LastOf(q, n)].review.label # None}}
BY DEF LabelsAfter, LastOf

\* Later reviews do not change what earlier ones said.
LEMMA LabelsKept ==
  ASSUME NEW n \in Nat, \A i \in 1..n : reviews'[i] = reviews[i]
  PROVE  LabelsAfter(n)' = LabelsAfter(n)
<1>1. ASSUME NEW p
      PROVE  LastOf(p, n)' = LastOf(p, n)
  <2>1. {i \in 1..n : reviews'[i].id = p} = {i \in 1..n : reviews[i].id = p}
    OBVIOUS
  <2> QED
    BY <2>1 DEF LastOf
<1> DEFINE ids == {reviews[i].id : i \in 1..n}
<1>2. {reviews'[i].id : i \in 1..n} = ids
  OBVIOUS
<1>3. ASSUME NEW p \in ids
      PROVE  reviews'[LastOf(p, n)'] = reviews[LastOf(p, n)]
  BY <1>1, LastExists
<1> HIDE DEF ids
<1>4. LabelsAfter(n) =
        {<<p, LabelOf(reviews[LastOf(p, n)].review)>> :
           p \in {q \in ids :
                    \/ reviews[LastOf(q, n)].review.outcome # None
                    \/ reviews[LastOf(q, n)].review.label # None}}
  BY LabelsMembers DEF ids
<1>5. LabelsAfter(n)' =
        {<<p, LabelOf(reviews'[LastOf(p, n)'].review)>> :
           p \in {q \in {reviews'[i].id : i \in 1..n} :
                    \/ reviews'[LastOf(q, n)'].review.outcome # None
                    \/ reviews'[LastOf(q, n)'].review.label # None}}
  BY DEF LabelsAfter, LastOf, LabelOf
<1> QED
  BY <1>2, <1>3, <1>4, <1>5

\* An export reads, of every prediction that was reviewed, what its last reviewer said.
LEMMA RowsAreLabels ==
  ASSUME DataTyped, ReviewsKept
  PROVE  RowsFit(FeedbackRows, Len(reviews))
<1> DEFINE n == Len(reviews)
           rows == FeedbackRows
           row(p) == [id |-> p, zone |-> logs[p].zone, level |-> logs[p].level,
                      score |-> LabelOf(logs[p].review)]
           ids == {q \in DOMAIN logs : Labelled(logs[q])}
<1>1. n \in Nat /\ DOMAIN reviews = 1..n /\ rows = {row(p) : p \in ids}
  BY LenProperties DEF DataTyped, FeedbackRows
<1>2. ASSUME NEW p \in DOMAIN logs, logs[p].review # None
      PROVE  /\ p \in {reviews[i].id : i \in 1..n}
             /\ reviews[LastOf(p, n)].review = logs[p].review
  <2>1. LastReview(p, logs[p].review)
    BY <1>2 DEF ReviewsKept
  <2>2. PICK i \in 1..n : /\ reviews[i].id = p /\ reviews[i].review = logs[p].review
                          /\ \A j \in 1..n : j > i => reviews[j].id # p
    BY <1>1, <2>1 DEF LastReview
  <2>3. LastOf(p, n) = i
    BY <1>1, <2>2, LastIsLatest
  <2> QED
    BY <2>2, <2>3
<1>3. ASSUME NEW p \in {reviews[i].id : i \in 1..n}
      PROVE  p \in DOMAIN logs /\ logs[p].review # None
  BY <1>1 DEF ReviewsKept
<1> DEFINE labelled == {q \in {reviews[i].id : i \in 1..n} :
                          \/ reviews[LastOf(q, n)].review.outcome # None
                          \/ reviews[LastOf(q, n)].review.label # None}
<1>4. ids = labelled
  BY <1>2, <1>3 DEF Labelled
<1>5. \A p \in ids : LabelOf(logs[p].review) = LabelOf(reviews[LastOf(p, n)].review)
  BY <1>2 DEF Labelled
<1>6. LabelsAfter(n) = {<<p, LabelOf(reviews[LastOf(p, n)].review)>> : p \in labelled}
  BY LabelsMembers
<1> HIDE DEF labelled, ids, rows, n
<1>7. {<<r.id, r.score>> : r \in rows} = {<<p, LabelOf(logs[p].review)>> : p \in ids}
  <2>1. \A r \in rows : \E p \in ids : <<r.id, r.score>> = <<p, LabelOf(logs[p].review)>>
    BY <1>1
  <2>2. ASSUME NEW p \in ids
        PROVE  \E r \in rows : <<r.id, r.score>> = <<p, LabelOf(logs[p].review)>>
    <3>1. row(p) \in rows
      BY <1>1
    <3> QED
      BY <3>1
  <2> QED
    BY <2>1, <2>2
<1>8. {<<r.id, r.score>> : r \in rows} = LabelsAfter(n)
  BY <1>4, <1>5, <1>6, <1>7
<1>9. Cardinality(rows) = Cardinality(LabelsAfter(n))
  <2>1. IsFiniteSet(DOMAIN logs)
    <3>1. DOMAIN logs = 1..Len(logs) /\ Len(logs) \in Int
      BY LenProperties DEF DataTyped
    <3> QED
      BY <3>1, FS_Interval
  <2>2. IsFiniteSet(ids)
    <3>1. ids \in SUBSET DOMAIN logs
      BY DEF ids
    <3> QED
      BY <2>1, <3>1, FS_Subset
  <2> DEFINE f == [p \in ids |-> row(p)]
             g == [p \in ids |-> <<p, LabelOf(logs[p].review)>>]
             labels == {<<p, LabelOf(logs[p].review)>> : p \in ids}
  <2>3. f \in Bijection(ids, rows)
    <3>1. f \in [ids -> rows]
      BY <1>1
    <3>2. \A p, q \in ids : f[p] = f[q] => p = q
      OBVIOUS
    <3>3. \A r \in rows : \E p \in ids : f[p] = r
      BY <1>1
    <3> HIDE DEF f
    <3> QED
      BY <3>1, <3>2, <3>3 DEF Bijection, Injection, Surjection, IsInjective
  <2>4. g \in Bijection(ids, labels)
    <3>1. g \in [ids -> labels]
      OBVIOUS
    <3>2. \A p, q \in ids : g[p] = g[q] => p = q
      OBVIOUS
    <3>3. \A l \in labels : \E p \in ids : g[p] = l
      OBVIOUS
    <3> HIDE DEF g, labels
    <3> QED
      BY <3>1, <3>2, <3>3 DEF Bijection, Injection, Surjection, IsInjective
  <2>5. ExistsBijection(ids, rows) /\ ExistsBijection(ids, labels)
    BY <2>3, <2>4 DEF ExistsBijection
  <2> HIDE DEF f, g, labels
  <2>6. Cardinality(rows) = Cardinality(ids) /\ Cardinality(labels) = Cardinality(ids)
    BY <2>2, <2>5, FS_Bijection
  <2>7. labels = LabelsAfter(n)
    BY <1>7, <1>8 DEF labels
  <2> QED
    BY <2>6, <2>7
<1>10. \A r \in rows : /\ r.id \in DOMAIN logs
                       /\ r.zone = logs[r.id].zone /\ r.level = logs[r.id].level
  BY <1>1 DEF ids
<1>11. n <= Len(reviews)
  BY <1>1 DEF n
<1> QED
  BY <1>8, <1>9, <1>10, <1>11 DEF RowsFit, rows, n

\* No rows fit any reviews before the first.
LEMMA NoRowsFit == ASSUME DataTyped PROVE RowsFit({}, 0)
<1>1. LabelsAfter(0) = {}
  BY LabelsMembers
<1>2. Len(reviews) \in Nat /\ 0 <= Len(reviews)
  BY LenProperties DEF DataTyped
<1> DEFINE rows == {}
<1>3. {<<r.id, r.score>> : r \in rows} = {} /\ rows = {} /\ \A r \in rows : FALSE
  OBVIOUS
<1> HIDE DEF rows
<1>4. RowsFit(rows, 0)
  BY <1>1, <1>2, <1>3 DEF RowsFit
<1> QED
  BY <1>4 DEF rows

\* The zone and the level of a prediction stay what they were.
LogsGrow ==
  \A p \in DOMAIN logs : /\ p \in DOMAIN logs'
                         /\ logs'[p].zone = logs[p].zone /\ logs'[p].level = logs[p].level

\* No step changes what was predicted.
LEMMA LogsOnlyGrow ==
  ASSUME DataTyped, [LearningNext]_learningVars
  PROVE  LogsGrow
<1>1. CASE \E p \in DOMAIN logs : SubmitFeedback(p)
  <2>1. PICK p \in DOMAIN logs, r \in Reviews : Review(p, r)
    BY <1>1 DEF SubmitFeedback
  <2>2. /\ DOMAIN logs' = DOMAIN logs
        /\ logs'[p].zone = logs[p].zone /\ logs'[p].level = logs[p].level
        /\ \A q \in DOMAIN logs : q # p => logs'[q] = logs[q]
    BY <2>1, ReviewTyped
  <2> QED
    BY <2>2 DEF LogsGrow
<1>2. CASE LogPrediction
  BY <1>2, PredictionTyped DEF LogsGrow
<1>3. ASSUME UNCHANGED logs
      PROVE  LogsGrow
  BY <1>3 DEF LogsGrow
<1>4. CASE ReadFeedback \/ OpenDataset \/ WriteDataset \/ TrainingStarts
  BY <1>3, <1>4 DEF ReadFeedback, OpenDataset, WriteDataset, TrainingStarts
<1>5. CASE \E k \in DOMAIN trainings : TrainingStep(k)
  BY <1>3, <1>5 DEF TrainingStep, Fit, OpenFile, WriteFile, ReadRegistry, WriteRegistry, TrainingCut
<1>6. CASE ServiceStarts \/ ModelLoads \/ UNCHANGED learningVars
  BY <1>3, <1>6 DEF ServiceStarts, ModelLoads, learningVars
<1> QED
  BY <1>1, <1>2, <1>4, <1>5, <1>6 DEF LearningNext

\* More reviews leave exported rows as they were.
LEMMA RowsStillFit ==
  ASSUME DataTyped, NEW n \in Nat, NEW rows, RowsFit(rows, n), DataTyped',
         Len(reviews) <= Len(reviews'), \A i \in 1..Len(reviews) : reviews'[i] = reviews[i],
         LogsGrow
  PROVE  RowsFit(rows, n)'
<1>1. Len(reviews) \in Nat /\ Len(reviews') \in Nat /\ n <= Len(reviews)
  BY LenProperties DEF DataTyped, RowsFit
<1>2. \A i \in 1..n : reviews'[i] = reviews[i]
  BY <1>1
<1>3. LabelsAfter(n)' = LabelsAfter(n)
  BY <1>2, LabelsKept
<1>4. n <= Len(reviews')
  BY <1>1
<1>5. \A r \in rows : /\ r.id \in DOMAIN logs'
                      /\ r.zone = logs'[r.id].zone /\ r.level = logs'[r.id].level
  BY DEF RowsFit, LogsGrow
<1> QED
  BY <1>3, <1>4, <1>5 DEF RowsFit

\* One more review of one prediction.
LEMMA ReviewKept ==
  ASSUME DataTyped, DataTyped', ReviewsKept, NEW p \in DOMAIN logs, NEW r \in Reviews, Review(p, r)
  PROVE  ReviewsKept'
<1> PICK n \in {Len(reviews)} : TRUE
  OBVIOUS
<1>1. /\ DOMAIN logs' = DOMAIN logs /\ logs'[p].review = r
      /\ \A q \in DOMAIN logs : q # p => logs'[q] = logs[q]
      /\ Len(reviews') = n + 1 /\ n \in Nat /\ n = Len(reviews)
      /\ reviews'[n + 1].id = p /\ reviews'[n + 1].review = r
      /\ \A i \in 1..n : reviews'[i] = reviews[i]
  <2>1. /\ DOMAIN logs' = DOMAIN logs /\ logs'[p].review = r
        /\ \A q \in DOMAIN logs : q # p => logs'[q] = logs[q]
    BY ReviewTyped
  <2>2. /\ Len(reviews') = Len(reviews) + 1 /\ Len(reviews) \in Nat
        /\ reviews'[Len(reviews) + 1] = [id |-> p, review |-> r]
        /\ \A i \in 1..Len(reviews) : reviews'[i] = reviews[i]
    BY ReviewTyped
  <2> QED
    BY <2>1, <2>2
<1>2. DOMAIN reviews = 1..n /\ DOMAIN reviews' = 1..(n + 1)
  BY <1>1, LenProperties DEF DataTyped
<1>3. \A i \in DOMAIN reviews' : i = n + 1 \/ i \in 1..n
  BY <1>1, <1>2
<1>4. \A i \in DOMAIN reviews' : reviews'[i].id \in DOMAIN logs'
  BY <1>1, <1>2, <1>3 DEF ReviewsKept
<1>5. ASSUME NEW q \in DOMAIN logs
      PROVE  IF logs'[q].review = None THEN \A i \in DOMAIN reviews' : reviews'[i].id # q
                                       ELSE LastReview(q, logs[q].review)'
  <2>1. CASE q = p
    <3>1. r # None
      BY ValuesAssumption
    <3>2. \A j \in DOMAIN reviews' : ~(j > n + 1)
      BY <1>1, <1>2
    <3>3. n + 1 \in DOMAIN reviews'
      BY <1>1, <1>2
    <3> QED
      BY <1>1, <2>1, <3>1, <3>2, <3>3 DEF LastReview
  <2>2. CASE q # p
    <3>1. logs'[q] = logs[q]
      BY <1>1, <2>2
    <3>2. CASE logs[q].review = None
      <4>1. \A i \in 1..n : reviews[i].id # q
        BY <1>2, <3>2 DEF ReviewsKept
      <4> QED
        BY <1>1, <1>3, <2>2, <3>1, <3>2, <4>1
    <3>3. CASE logs[q].review # None
      <4>1. PICK i \in 1..n : /\ reviews[i].id = q /\ reviews[i].review = logs[q].review
                              /\ \A j \in 1..n : j > i => reviews[j].id # q
        BY <1>2, <3>3 DEF ReviewsKept, LastReview
      <4>2. reviews'[i].id = q /\ reviews'[i].review = logs'[q].review /\ i \in DOMAIN reviews'
        BY <1>1, <1>2, <3>1, <4>1
      <4>3. \A j \in DOMAIN reviews' : j > i => reviews'[j].id # q
        BY <1>1, <1>3, <2>2, <4>1
      <4> QED
        BY <3>1, <3>3, <4>2, <4>3 DEF LastReview
    <3> QED
      BY <3>2, <3>3
  <2> QED
    BY <2>1, <2>2
<1> QED
  BY <1>1, <1>4, <1>5 DEF ReviewsKept

\* A new prediction has no reviews yet.
LEMMA PredictionKept ==
  ASSUME DataTyped, ReviewsKept, LogPrediction
  PROVE  ReviewsKept'
<1> PICK n \in {Len(logs) + 1} : TRUE
  OBVIOUS
<1>1. /\ DOMAIN logs' = DOMAIN logs \cup {n} /\ n \notin DOMAIN logs /\ logs'[n].review = None
      /\ \A q \in DOMAIN logs : logs'[q] = logs[q]
      /\ reviews' = reviews
  BY PredictionTyped
<1>2. \A q \in DOMAIN logs : LastReview(q, logs[q].review) => LastReview(q, logs[q].review)'
  BY <1>1 DEF LastReview
<1>3. \A i \in DOMAIN reviews : reviews[i].id # n
  BY <1>1 DEF ReviewsKept
<1>4. ASSUME NEW q \in DOMAIN logs'
      PROVE  IF logs'[q].review = None THEN \A i \in DOMAIN reviews : reviews[i].id # q
                                       ELSE LastReview(q, logs[q].review)'
  <2>1. CASE q = n
    BY <1>1, <1>3, <2>1
  <2>2. CASE q \in DOMAIN logs
    BY <1>1, <1>2, <2>2 DEF ReviewsKept
  <2> QED
    BY <1>1, <2>1, <2>2
<1> QED
  BY <1>1, <1>4 DEF ReviewsKept

\* Reviews are given and never taken back.
ReviewsGrow ==
  /\ Len(reviews) <= Len(reviews') /\ Len(reviews) \in Nat /\ Len(reviews') \in Nat
  /\ \A i \in 1..Len(reviews) : reviews'[i] = reviews[i]

\* No step takes a review back.
LEMMA ReviewsOnlyGrow ==
  ASSUME DataTyped, [LearningNext]_learningVars
  PROVE  ReviewsGrow
<1>1. CASE \E p \in DOMAIN logs : SubmitFeedback(p)
  <2>1. PICK p \in DOMAIN logs, r \in Reviews : Review(p, r)
    BY <1>1 DEF SubmitFeedback
  <2>2. /\ Len(reviews') = Len(reviews) + 1 /\ Len(reviews) \in Nat
        /\ \A i \in 1..Len(reviews) : reviews'[i] = reviews[i]
    BY <2>1, ReviewTyped
  <2> QED
    BY <2>2 DEF ReviewsGrow
<1>2. ASSUME UNCHANGED reviews
      PROVE  ReviewsGrow
  BY <1>2, LenProperties DEF ReviewsGrow, DataTyped
<1>3. CASE LogPrediction \/ ReadFeedback \/ OpenDataset \/ WriteDataset \/ TrainingStarts
  BY <1>2, <1>3 DEF LogPrediction, ReadFeedback, OpenDataset, WriteDataset, TrainingStarts
<1>4. CASE \E k \in DOMAIN trainings : TrainingStep(k)
  BY <1>2, <1>4 DEF TrainingStep, Fit, OpenFile, WriteFile, ReadRegistry, WriteRegistry, TrainingCut
<1>5. CASE ServiceStarts \/ ModelLoads \/ UNCHANGED learningVars
  BY <1>2, <1>5 DEF ServiceStarts, ModelLoads, learningVars
<1> QED
  BY <1>1, <1>3, <1>4, <1>5 DEF LearningNext

\* Every step keeps rows and last reviews together.
LEMMA ReviewsStayKept ==
  ASSUME DataTyped, DataTyped', ReviewsKept, [LearningNext]_learningVars
  PROVE  ReviewsKept'
<1>1. CASE LogPrediction
  BY <1>1, PredictionKept
<1>2. CASE \E p \in DOMAIN logs : SubmitFeedback(p)
  <2>1. PICK p \in DOMAIN logs, r \in Reviews : Review(p, r)
    BY <1>2 DEF SubmitFeedback
  <2> QED
    BY <2>1, ReviewKept
<1>3. ASSUME UNCHANGED <<logs, reviews>>
      PROVE  ReviewsKept'
  BY <1>3 DEF ReviewsKept, LastReview
<1>4. CASE ReadFeedback \/ OpenDataset \/ WriteDataset \/ TrainingStarts
  BY <1>3, <1>4 DEF ReadFeedback, OpenDataset, WriteDataset, TrainingStarts
<1>5. CASE \E k \in DOMAIN trainings : TrainingStep(k)
  BY <1>3, <1>5 DEF TrainingStep, Fit, OpenFile, WriteFile, ReadRegistry, WriteRegistry, TrainingCut
<1>6. CASE ServiceStarts \/ ModelLoads \/ UNCHANGED learningVars
  BY <1>3, <1>6 DEF ServiceStarts, ModelLoads, learningVars
<1> QED
  BY <1>1, <1>2, <1>4, <1>5, <1>6 DEF LearningNext

\* What was exported, and the file made of it, fit the reviews of its time.
LEMMA ExportsStayFit ==
  ASSUME DataTyped, DataTyped', DataInv, [LearningNext]_learningVars
  PROVE  DataInv'
<1>1. ReviewsGrow /\ LogsGrow /\ ReviewsKept'
  BY ReviewsOnlyGrow, LogsOnlyGrow, ReviewsStayKept DEF DataInv
<1>2. ASSUME NEW rows, NEW n \in Nat, RowsFit(rows, n)
      PROVE  RowsFit(rows, n)'
  BY <1>1, <1>2, RowsStillFit DEF ReviewsGrow
<1> PICK rows \in {export.rows}, n \in {export.as_of} : TRUE
  OBVIOUS
<1> PICK drows \in {dataset.rows}, dn \in {dataset.as_of} : TRUE
  OBVIOUS
<1>3. /\ n \in Nat /\ dn \in Nat /\ rows = export.rows /\ n = export.as_of
      /\ drows = dataset.rows /\ dn = dataset.as_of
  BY DEF DataTyped
<1>4. RowsFit(rows, n)' /\ RowsFit(drows, dn)'
  BY <1>2, <1>3 DEF DataInv
<1>5. ASSUME UNCHANGED <<export, dataset>>
      PROVE  DataInv'
  BY <1>1, <1>3, <1>4, <1>5 DEF DataInv, RowsFit
<1>6. CASE LogPrediction \/ TrainingStarts \/ ServiceStarts \/ ModelLoads \/ UNCHANGED learningVars
  BY <1>5, <1>6 DEF LogPrediction, TrainingStarts, ServiceStarts, ModelLoads, learningVars, datasetVars
<1>7. CASE \E p \in DOMAIN logs : SubmitFeedback(p)
  BY <1>5, <1>7 DEF SubmitFeedback, Review, datasetVars
<1>8. CASE \E k \in DOMAIN trainings : TrainingStep(k)
  BY <1>5, <1>8 DEF TrainingStep, Fit, OpenFile, WriteFile, ReadRegistry, WriteRegistry,
                    TrainingCut, datasetVars
<1>9. CASE ReadFeedback
  <2> PICK new \in {FeedbackRows}, m \in {Len(reviews)} : TRUE
    OBVIOUS
  <2>1. export'.rows = new /\ export'.as_of = m /\ UNCHANGED <<reviews, dataset>> /\ m \in Nat
    BY <1>1, <1>9 DEF ReadFeedback, ReviewsGrow
  <2>2. RowsFit(new, m)
    BY RowsAreLabels DEF DataInv
  <2>3. RowsFit(new, m)'
    BY <1>2, <2>1, <2>2
  <2> QED
    BY <1>1, <1>3, <1>4, <2>1, <2>3 DEF DataInv, RowsFit
<1>10. CASE OpenDataset
  <2> DEFINE none == {}
  <2>1. dataset'.rows = none /\ dataset'.as_of = 0 /\ UNCHANGED reviews
        /\ export'.rows = rows /\ export'.as_of = n
    BY <1>3, <1>10 DEF OpenDataset, DataTyped
  <2> HIDE DEF none
  <2>2. RowsFit(none, 0)'
    BY <1>2, NoRowsFit DEF none
  <2> QED
    BY <1>1, <1>4, <2>1, <2>2 DEF DataInv, RowsFit
<1>11. CASE WriteDataset
  <2>1. dataset'.rows = rows /\ dataset'.as_of = n /\ UNCHANGED reviews
        /\ export'.rows = rows /\ export'.as_of = n
    BY <1>3, <1>11 DEF WriteDataset, DataTyped
  <2> QED
    BY <1>1, <1>4, <2>1 DEF DataInv, RowsFit
<1> QED
  BY <1>6, <1>7, <1>8, <1>9, <1>10, <1>11 DEF LearningNext

\* Labels are of predictions that were logged.
LEMMA LabelsLogged ==
  ASSUME DataTyped, ReviewsKept, NEW n \in Nat, n <= Len(reviews)
  PROVE  \A l \in LabelsAfter(n) : l[1] \in DOMAIN logs
<1>1. \A i \in 1..n : reviews[i].id \in DOMAIN logs
  <2>1. DOMAIN reviews = 1..Len(reviews) /\ Len(reviews) \in Nat
    BY LenProperties DEF DataTyped
  <2> QED
    BY <2>1 DEF ReviewsKept
<1> QED
  BY <1>1, LabelsMembers

\* Of rows that are the same, the first is left.
LEMMA DistinctCovers ==
  ASSUME NEW rows \in SUBSET Row, NEW r \in rows
  PROVE  \E q \in Distinct(rows) : SameRow(q, r)
<1> DEFINE same == {q \in rows : SameRow(q, r)}
           ids == {q.id : q \in same}
           R == OpToRel(<, Nat)
<1>1. ids # {} /\ ids \subseteq Nat
  <2>1. r \in same
    BY DEF SameRow
  <2> QED
    BY <2>1 DEF Row
<1>2. IsWellFoundedOn(R, Nat)
  BY NatLessThanWellFounded
<1>3. \A a, b \in Nat : a < b => <<a, b>> \in R
  BY DEF OpToRel
<1> HIDE DEF R, ids
<1>4. PICK m \in ids : \A j \in ids : ~(<<j, m>> \in R)
  BY <1>1, <1>2, WFMin
<1>5. PICK q \in same : q.id = m
  BY <1>4 DEF ids
<1>6. ASSUME NEW t \in rows, SameRow(q, t)
      PROVE  q.id <= t.id
  <2>1. t \in same
    BY <1>6 DEF SameRow
  <2>2. t.id \in ids /\ t.id \in Nat /\ m \in Nat
    BY <1>1, <1>4, <2>1 DEF ids
  <2>3. ~(t.id < m)
    BY <1>3, <1>4, <2>2
  <2> QED
    BY <1>5, <2>2, <2>3
<1> QED
  BY <1>5, <1>6 DEF Distinct

\* What is left of rows that fit represents the labels.
LEMMA DistinctRepresents ==
  ASSUME NEW n \in Nat, NEW rows \in SUBSET Row, NEW held, RowsFit(rows, n)
  PROVE  Represents(Distinct(rows), held, LabelsAfter(n))
<1> PICK labels \in {LabelsAfter(n)} : TRUE
  OBVIOUS
<1>1. /\ {<<r.id, r.score>> : r \in rows} = labels /\ labels = LabelsAfter(n)
      /\ \A r \in rows : r.zone = logs[r.id].zone /\ r.level = logs[r.id].level
  BY DEF RowsFit
<1>2. Distinct(rows) \subseteq rows
  BY DEF Distinct
<1>3. \A r \in Distinct(rows) : /\ <<r.id, r.score>> \in labels
                                /\ r.zone = logs[r.id].zone /\ r.level = logs[r.id].level
  BY <1>1, <1>2
<1>4. ASSUME NEW l \in labels
      PROVE  \E r \in Distinct(rows) :
               r.score = l[2] /\ r.zone = logs[l[1]].zone /\ r.level = logs[l[1]].level
  <2>1. PICK t \in rows : l = <<t.id, t.score>>
    BY <1>1
  <2>2. PICK r \in Distinct(rows) : SameRow(r, t)
    BY DistinctCovers
  <2>3. l[1] = t.id /\ l[2] = t.score
    BY <2>1
  <2> QED
    BY <1>1, <2>2, <2>3 DEF SameRow
<1>5. ASSUME NEW r \in Distinct(rows), NEW q \in Distinct(rows), SameRow(r, q)
      PROVE  r = q
  <2>1. r \in Row /\ q \in Row
    BY <1>2
  <2>2. r.id <= q.id /\ q.id <= r.id
    BY <1>2, <1>5 DEF Distinct, SameRow
  <2>3. r.id = q.id
    BY <2>1, <2>2 DEF Row
  <2> QED
    BY <1>5, <2>1, <2>3 DEF Row, SameRow
<1>6. \A r \in Distinct(rows) \ held : \A q \in Distinct(rows) \ {r} :
        r.level = q.level /\ r.score = q.score => r.zone # q.zone
  BY <1>5 DEF SameRow
<1> QED
  BY <1>1, <1>3, <1>4, <1>6 DEF Represents

\* Rows go on representing labels.
LEMMA StillRepresents ==
  ASSUME LogsGrow, NEW rows, NEW held, NEW labels, \A l \in labels : l[1] \in DOMAIN logs,
         Represents(rows, held, labels)
  PROVE  Represents(rows, held, labels)'
<1>1. \A r \in rows : r.id \in DOMAIN logs
  <2> SUFFICES ASSUME NEW r \in rows PROVE r.id \in DOMAIN logs
    OBVIOUS
  <2>1. <<r.id, r.score>> \in labels
    BY DEF Represents
  <2>2. <<r.id, r.score>>[1] \in DOMAIN logs
    BY <2>1
  <2> QED
    BY <2>2
<1>2. \A r \in rows : /\ <<r.id, r.score>> \in labels
                      /\ r.zone = logs'[r.id].zone /\ r.level = logs'[r.id].level
  BY <1>1 DEF Represents, LogsGrow
<1>3. \A l \in labels : \E r \in rows :
        r.score = l[2] /\ r.zone = logs'[l[1]].zone /\ r.level = logs'[l[1]].level
  BY DEF Represents, LogsGrow
<1>4. \A r \in rows \ held : \A q \in rows \ {r} :
        r.level = q.level /\ r.score = q.score => r.zone # q.zone
  BY DEF Represents
<1> QED
  BY <1>2, <1>3, <1>4 DEF Represents

\* The rows of a training are those it was started with: all or none of the dataset's.
LEMMA TrainedStays ==
  ASSUME DataTyped, DataTyped', DataInv, ModelsInv, TrainedInv, [LearningNext]_learningVars
  PROVE  TrainedInv'
<1>1. RunsTyped /\ RegistryTyped
  BY DEF ModelsInv
<1>2. ReviewsGrow /\ LogsGrow
  BY ReviewsOnlyGrow, LogsOnlyGrow
<1>3. ASSUME NEW rows, NEW held, NEW n, Learnt(rows, held, n)
      PROVE  Learnt(rows, held, n)'
  <2> SUFFICES ASSUME rows # {} PROVE Learnt(rows, held, n)'
    BY DEF Learnt
  <2> PICK labels \in {LabelsAfter(n)} : TRUE
    OBVIOUS
  <2>1. /\ n \in Nat /\ n <= Len(reviews) /\ labels = LabelsAfter(n)
        /\ Represents(rows, held, labels) /\ Cardinality(labels) >= MinRows
    BY <1>3 DEF Learnt
  <2>2. n <= Len(reviews') /\ \A i \in 1..n : reviews'[i] = reviews[i]
    BY <1>2, <2>1 DEF ReviewsGrow
  <2>3. LabelsAfter(n)' = labels
    BY <2>1, <2>2, LabelsKept
  <2>4. \A l \in labels : l[1] \in DOMAIN logs
    BY <2>1, LabelsLogged DEF DataInv
  <2>5. Represents(rows, held, labels)'
    BY <1>2, <2>1, <2>4, StillRepresents
  <2>6. Represents(rows, held, LabelsAfter(n))'
    BY <2>3, <2>5 DEF Represents
  <2> QED
    BY <2>1, <2>2, <2>3, <2>6 DEF Learnt
<1>4. \A k \in DOMAIN trainings' :
        \/ k \in DOMAIN trainings /\ trainings'[k].rows = trainings[k].rows
                                  /\ trainings'[k].held = trainings[k].held
                                  /\ trainings'[k].as_of = trainings[k].as_of
        \/ trainings'[k].rows = Distinct(Feedback) /\ trainings'[k].as_of = dataset.as_of
  <2>1. CASE LogPrediction \/ ReadFeedback \/ OpenDataset \/ WriteDataset \/ ServiceStarts
             \/ ModelLoads \/ UNCHANGED learningVars
    BY <2>1 DEF LogPrediction, ReadFeedback, OpenDataset, WriteDataset, ServiceStarts, ModelLoads,
                learningVars, trainingVars
  <2>2. CASE \E p \in DOMAIN logs : SubmitFeedback(p)
    BY <2>2 DEF SubmitFeedback, Review, trainingVars
  <2>3. CASE TrainingStarts
    <3>1. /\ trainings' \in Seq(Run) /\ Len(trainings') = Len(trainings) + 1
          /\ \A j \in DOMAIN trainings : trainings'[j] = trainings[j]
          /\ trainings'[Len(trainings) + 1].rows = Distinct(Feedback)
          /\ trainings'[Len(trainings) + 1].as_of = dataset.as_of
      BY <1>1, <2>3, StartedRun
    <3>2. DOMAIN trainings' = DOMAIN trainings \cup {Len(trainings) + 1}
      BY <1>1, <2>3, StartKeepsRuns
    <3> QED
      BY <3>1, <3>2
  <2>4. CASE \E k \in DOMAIN trainings : TrainingStep(k)
    <3>1. PICK k \in DOMAIN trainings : TrainingStep(k)
      BY <2>4
    <3>2. \E pc, at : Moves(k, pc, at)
      BY <1>1, <3>1, FitMoves, OpenFileMoves, WriteFileMoves, ReadRegistryMoves,
         WriteRegistryMoves, CutMoves DEF TrainingStep
    <3>3. DOMAIN trainings' = DOMAIN trainings
      BY <1>1, <3>2, LenProperties DEF Moves, RunsTyped
    <3> QED
      BY <3>2, <3>3 DEF Moves
  <2> QED
    BY <2>1, <2>2, <2>3, <2>4 DEF LearningNext
<1>5. ASSUME NEW held
      PROVE  Learnt(Distinct(Feedback), held, dataset.as_of)
  <2> SUFFICES ASSUME Distinct(Feedback) # {}
               PROVE  Learnt(Distinct(Feedback), held, dataset.as_of)
    BY DEF Learnt
  <2>1. Feedback # {}
    BY DEF Distinct
  <2>2. Feedback = dataset.rows /\ Cardinality(dataset.rows) >= MinRows
    BY <2>1 DEF Feedback
  <2>3. /\ dataset.as_of \in Nat /\ dataset.rows \in SUBSET Row
        /\ RowsFit(dataset.rows, dataset.as_of)
    BY DEF DataTyped, DataInv
  <2>4. /\ dataset.as_of <= Len(reviews)
        /\ Cardinality(LabelsAfter(dataset.as_of)) >= MinRows
    BY <2>2, <2>3 DEF RowsFit
  <2>5. Represents(Distinct(Feedback), held, LabelsAfter(dataset.as_of))
    BY <2>2, <2>3, DistinctRepresents
  <2> QED
    BY <2>3, <2>4, <2>5 DEF Learnt
<1>6. ASSUME NEW k \in DOMAIN trainings'
      PROVE  Learnt(trainings[k].rows, trainings[k].held, trainings[k].as_of)'
  <2> PICK rows \in {trainings'[k].rows}, held \in {trainings'[k].held},
           n \in {trainings'[k].as_of} : TRUE
    OBVIOUS
  <2>1. rows = trainings'[k].rows /\ held = trainings'[k].held /\ n = trainings'[k].as_of
    OBVIOUS
  <2>2. Learnt(rows, held, n)
    BY <1>4, <1>5, <2>1 DEF TrainedInv
  <2>3. Learnt(rows, held, n)'
    BY <1>3, <2>2
  <2> QED
    BY <2>1, <2>3 DEF Learnt
<1> QED
  BY <1>6 DEF TrainedInv

\* A training that uses the feedback has a row for every label and for nothing else, as the
\* last reviewers had put it when the dataset was exported, and has it once; there were enough.
THEOREM TrainedAsReviewed == LearningSpec => []TrainedOnReviews
<1>1. LearningInit /\ DataTyped => DataInv /\ TrainedInv
  <2> SUFFICES ASSUME LearningInit, DataTyped PROVE DataInv /\ TrainedInv
    OBVIOUS
  <2> DEFINE none == {}
  <2>1. /\ export.rows = none /\ export.as_of = 0 /\ dataset.rows = none /\ dataset.as_of = 0
    BY DEF LearningInit
  <2>2. RowsFit(none, 0)
    BY NoRowsFit
  <2> HIDE DEF none
  <2>3. logs = <<>> /\ reviews = <<>> /\ trainings = <<>>
    BY DEF LearningInit
  <2>4. Len(logs) = 0 /\ Len(reviews) = 0 /\ Len(trainings) = 0 /\ trainings \in Seq(Run)
    BY <2>3
  <2>5. DOMAIN logs = {} /\ DOMAIN reviews = {} /\ DOMAIN trainings = {}
    BY <2>4, LenProperties DEF DataTyped
  <2>6. ReviewsKept
    BY <2>5 DEF ReviewsKept
  <2>7. TrainedInv
    BY <2>5 DEF TrainedInv
  <2> QED
    BY <2>1, <2>2, <2>6, <2>7 DEF DataInv
<1>2. /\ DataTyped /\ ModelsInv /\ DataTyped' /\ DataInv /\ TrainedInv
      /\ [LearningNext]_learningVars
      => DataInv' /\ TrainedInv'
  BY ExportsStayFit, TrainedStays
<1>3. TrainedInv => TrainedOnReviews
  BY DEF TrainedInv, TrainedOnReviews, Learnt
<1> QED
  BY <1>1, <1>2, <1>3, LearningInductive, PTL DEF LearningSpec
=============================================================================
