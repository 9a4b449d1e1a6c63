------------------------------ MODULE Learning ------------------------------
(***************************************************************************)
(* How the ai-risk service learns: predictions are reviewed, the reviews   *)
(* exported as a dataset, a model trained on it and registered, and the    *)
(* service serves what the registry named when it started.  Export,        *)
(* training and service are separate processes that share files and take   *)
(* no lock; a file is cut off when it is opened and whole once it is       *)
(* written.  Risk models how a score is made of a model.                   *)
(*                                                                         *)
(* Levels and scores are percentages.  A model is the number of the        *)
(* training that made it; 0 made the files of the repository.  Level stands *)
(* for all the features of a prediction.                                   *)
(***************************************************************************)
EXTENDS Integers, Sequences, FiniteSets, FiniteSetsExt, SequencesExt

CONSTANTS
  None,          \* no outcome, no label, no feedback
  Heuristic,     \* the model served when no artifact can be read
  Shipped,       \* the artifact the repository's registry names: no file of this machine
  Configured,    \* settings.model_path and MODEL_BUNDLE_PATH
  Artifacts,     \* names of versioned artifacts, in the order of the clock's seconds
  Payloads,      \* the zone, the level and the score of a prediction
  Reviews,       \* the outcome and the label of a review
  Baselines,     \* mean and deviation of levels and of scores in a training's data
  MinRows,       \* feedback.min_rows
  HistoryLimit,  \* entries the registry keeps
  SampleSize,    \* predictions the drift report looks at
  MaxTrainings, MaxLogs, MaxReviews, MaxExports, MaxStarts, MaxCuts,  \* bounds
  MaxTurns       \* bound on reviews and trainings together

ASSUME LearningAssumption ==
  /\ {MinRows, MaxTrainings, MaxLogs, MaxReviews, MaxExports, MaxStarts, MaxCuts, MaxTurns} \subseteq Nat
  /\ HistoryLimit \in Nat \ {0} /\ SampleSize \in Nat \ {0}
  /\ DOMAIN Baselines = 0..MaxTrainings

\* The artifacts of trainings are named after a second; no other file has such a name.
ASSUME NamesAssumption ==
  /\ Artifacts \in Seq(STRING) /\ Artifacts # <<>>
  /\ ToSet(Artifacts) \cap {"split", "fit", "registry", "metadata", Configured, Shipped} = {}
  /\ Configured \notin {"split", "fit", "registry", "metadata"}
  /\ Shipped \notin {"split", "fit", "registry", "metadata", Configured}

ASSUME ValuesAssumption == None \notin Nat \cup Reviews /\ Heuristic \notin Nat

VARIABLES
  logs,        \* prediction_logs
  reviews,     \* every review given, in order
  dataset,     \* the feedback CSV; as_of tells how many reviews its export saw
  files,       \* which training wrote each file of models, splits and metadata
  registry,
  export,      \* the export running, or the last one
  trainings,
  service,     \* the ai-risk service: path resolved at its start, model in memory
  second,      \* the clock
  cuts,        \* processes killed
  disturbed    \* whether a training overlapped another or was killed

datasetVars == <<dataset, export>>
trainingVars == <<files, registry, trainings, second, cuts, disturbed>>
learningVars == <<logs, reviews, datasetVars, trainingVars, service>>

-----------------------------------------------------------------------------
(* Reviews and the dataset made of them.                                   *)

LabelScore == [LOW |-> 20, MEDIUM |-> 50, HIGH |-> 80]

\* Review is the last one: a second review replaces the whole of the first.
Labelled(row) == row.review # None /\ (row.review.outcome # None \/ row.review.label # None)

LabelOf(review) == IF review.outcome # None THEN review.outcome ELSE LabelScore[review.label]

FeedbackRows ==
  {[id |-> p, zone |-> logs[p].zone, level |-> logs[p].level, score |-> LabelOf(logs[p].review)] :
     p \in {q \in DOMAIN logs : Labelled(logs[q])}}

LogPrediction ==
  /\ Len(logs) < MaxLogs /\ service.model # None
  /\ \E p \in Payloads :
       logs' = Append(logs, [zone |-> p.zone, level |-> p.level, score |-> p.score, review |-> None])
  /\ UNCHANGED <<reviews, datasetVars, trainingVars, service>>

Turns == Len(reviews) + Len(trainings)

Review(p, review) ==
  /\ Len(reviews) < MaxReviews /\ Turns < MaxTurns
  /\ logs' = [logs EXCEPT ![p].review = review]
  /\ reviews' = Append(reviews, [id |-> p, review |-> review])
  /\ UNCHANGED <<datasetVars, trainingVars, service>>

\* A mistake in the place of SubmitFeedback: a label leaves an earlier outcome in place.
SubmitLabelOnly(p) ==
  \E r \in Reviews :
    /\ Len(reviews) < MaxReviews /\ Turns < MaxTurns
    /\ reviews' = Append(reviews, [id |-> p, review |-> r])
    /\ logs' = [logs EXCEPT ![p].review =
                  IF @ # None /\ r.outcome = None THEN [r EXCEPT !.outcome = logs[p].review.outcome] ELSE r]
    /\ UNCHANGED <<datasetVars, trainingVars, service>>

SubmitFeedback(p) == \E r \in Reviews : Review(p, r)

\* build_feedback_dataset: one query, then the file.  Without rows no file is written,
\* and an older one stays.
ReadFeedback ==
  /\ export.pc = "done" /\ export.runs < MaxExports
  /\ export' = [pc |-> IF FeedbackRows = {} THEN "done" ELSE "open", rows |-> FeedbackRows,
                as_of |-> Len(reviews), runs |-> export.runs + 1]
  /\ UNCHANGED <<logs, reviews, dataset, trainingVars, service>>

OpenDataset ==
  /\ export.pc = "open" /\ export' = [export EXCEPT !.pc = "write"]
  /\ dataset' = [state |-> "cut", rows |-> {}, as_of |-> 0]
  /\ UNCHANGED <<logs, reviews, trainingVars, service>>

WriteDataset ==
  /\ export.pc = "write" /\ export' = [export EXCEPT !.pc = "done"]
  /\ dataset' = [state |-> "whole", rows |-> export.rows, as_of |-> export.as_of]
  /\ UNCHANGED <<logs, reviews, trainingVars, service>>

-----------------------------------------------------------------------------
(* Training.                                                               *)

FileNames == {"split", "metadata", Configured} \cup ToSet(Artifacts)
File(state, model) == [state |-> state, model |-> model]
Readable(f) == files[f].state = "whole"

\* A mistake in the place of Plan: the artifact is registered before it is written.
PlanRegistersFirst(k) ==
  <<"split", "fit", "registry", trainings[k].artifact, Configured, "metadata">>

\* What a training writes, in order: the two files of the split, taken as one, the
\* artifact twice, the registry, which is read first, and the metadata.
Plan(k) == <<"split", "fit", trainings[k].artifact, Configured, "registry", "metadata">>
Target(k) == Plan(k)[trainings[k].at]
Training(k) == trainings[k].pc \in {"open", "write"}
Past(k, step) == trainings[k].at > step
Idle == \A k \in DOMAIN trainings : ~Training(k)
TrainingsSeen == IF Idle THEN Len(trainings) ELSE -1

\* Too few labelled rows are left out.
Feedback == IF dataset.state = "whole" /\ Cardinality(dataset.rows) >= MinRows THEN dataset.rows ELSE {}

\* preprocess_dataset: the file has no column for the prediction a row is of, so that
\* predictions of one zone, with one level and one score, are one row.  The first stays.
SameRow(r, q) == r.zone = q.zone /\ r.level = q.level /\ r.score = q.score
Distinct(rows) == {r \in rows : \A q \in rows : SameRow(r, q) => r.id <= q.id}

\* An empty file is no CSV: the script ends before it has written anything.  Some of the
\* rows are held out, to test with; the others are fitted on.
TrainingStarts ==
  /\ Len(trainings) < MaxTrainings /\ Turns < MaxTurns /\ dataset.state # "cut"
  /\ \E held \in SUBSET Distinct(Feedback) :
       trainings' = Append(trainings,
         [pc |-> "open", at |-> 1, artifact |-> Head(Artifacts), read |-> <<>>,
          rows |-> Distinct(Feedback), held |-> held, as_of |-> dataset.as_of])
  /\ disturbed' = (disturbed \/ \E j \in DOMAIN trainings : Training(j))
  /\ UNCHANGED <<logs, reviews, datasetVars, files, registry, service, second, cuts>>

\* The forest is fitted and the artifact named after the second this ends in.  How well
\* it fits is written down and decides nothing.
Fit(k) ==
  /\ Training(k) /\ Target(k) = "fit"
  /\ \E s \in second..Len(Artifacts) :
       /\ second' = s
       /\ trainings' = [trainings EXCEPT ![k].artifact = Artifacts[s], ![k].at = @ + 1]
  /\ UNCHANGED <<logs, reviews, datasetVars, files, registry, service, cuts, disturbed>>

OpenFile(k) ==
  /\ trainings[k].pc = "open" /\ Target(k) \in FileNames
  /\ files' = [files EXCEPT ![Target(k)] = File("cut", 0)]
  /\ trainings' = [trainings EXCEPT ![k].pc = "write"]
  /\ UNCHANGED <<logs, reviews, datasetVars, registry, service, second, cuts, disturbed>>

WriteFile(k) ==
  /\ trainings[k].pc = "write" /\ Target(k) \in FileNames
  /\ files' = [files EXCEPT ![Target(k)] = File("whole", k)]
  /\ trainings' = [trainings EXCEPT ![k].at = @ + 1, ![k].pc = IF Target(k) = "metadata" THEN "done" ELSE "open"]
  /\ UNCHANGED <<logs, reviews, datasetVars, registry, service, second, cuts, disturbed>>

\* register_artifact: a registry that is no JSON counts as an empty one.
ReadRegistry(k) ==
  /\ trainings[k].pc = "open" /\ Target(k) = "registry"
  /\ trainings' = [trainings EXCEPT ![k].pc = "write",
                                    ![k].read = IF registry.state = "whole" THEN registry.history ELSE <<>>]
  /\ registry' = [state |-> "cut", active |-> Shipped, history |-> <<>>]
  /\ UNCHANGED <<logs, reviews, datasetVars, files, service, second, cuts, disturbed>>

Kept(history) == SubSeq(history, Len(history) - HistoryLimit + 1, Len(history))

WriteRegistry(k) ==
  /\ trainings[k].pc = "write" /\ Target(k) = "registry"
  /\ registry' = [state |-> "whole", active |-> trainings[k].artifact,
                  history |-> LET h == Append(trainings[k].read, k) IN
                              IF Len(h) > HistoryLimit THEN Kept(h) ELSE h]
  /\ trainings' = [trainings EXCEPT ![k].at = @ + 1, ![k].pc = "open"]
  /\ UNCHANGED <<logs, reviews, datasetVars, files, service, second, cuts, disturbed>>

TrainingCut(k) ==
  /\ Training(k) /\ cuts < MaxCuts /\ cuts' = cuts + 1
  /\ trainings' = [trainings EXCEPT ![k].pc = "killed"]
  /\ disturbed' = TRUE
  /\ UNCHANGED <<logs, reviews, datasetVars, files, registry, service, second>>

TrainingStep(k) ==
  Fit(k) \/ OpenFile(k) \/ WriteFile(k) \/ ReadRegistry(k) \/ WriteRegistry(k) \/ TrainingCut(k)

-----------------------------------------------------------------------------
(* Evaluation: the configured artifact is tested with the split on file, if both can be *)
(* read.                                                                   *)

Evaluable == Readable(Configured) /\ Readable("split")
Evaluated == [model |-> files[Configured].model, split |-> files["split"].model]

-----------------------------------------------------------------------------
(* The service.                                                            *)

\* _resolve_model_path, at the start: a registry that cannot be read is passed over.
ServiceStarts ==
  /\ service.starts < MaxStarts
  /\ service' = [path |-> IF registry.state = "whole" THEN registry.active ELSE Configured,
                 model |-> None, starts |-> service.starts + 1, since |-> TrainingsSeen]
  /\ UNCHANGED <<logs, reviews, datasetVars, trainingVars>>

Loadable(path) == path \in DOMAIN files /\ Readable(path)

\* _load_or_fallback, at the first request.
ModelLoads ==
  /\ service.starts > 0 /\ service.model = None
  /\ service' = [service EXCEPT !.model = IF Loadable(service.path) THEN files[service.path].model ELSE Heuristic]
  /\ UNCHANGED <<logs, reviews, datasetVars, trainingVars>>

Recent == SubSeq(logs, Len(logs) - SampleSize + 1, Len(logs))
Sample == IF Len(logs) > SampleSize THEN Recent ELSE logs

\* |mean of the values - mean| / deviation >= 2.5
Drifted(values, stats) ==
  LET gap == MapThenSumSet(LAMBDA i : values[i], DOMAIN values) - Len(values) * stats.mean
      distance == IF gap < 0 THEN -gap ELSE gap
  IN  distance > 0 /\ 2 * distance >= 5 * Len(values) * stats.deviation

DriftStatus(baseline) ==
  LET levels == [i \in DOMAIN Sample |-> Sample[i].level]
      scores == [i \in DOMAIN Sample |-> Sample[i].score]
  IN  CASE logs = <<>> -> "unknown"
        [] logs # <<>> /\ (Drifted(levels, baseline.level) \/ Drifted(scores, baseline.score)) -> "drift_detected"
        [] OTHER -> "stable"

\* What health and drift_report answer: the metadata is read at every call, the model
\* was long ago.
Health ==
  LET b == files["metadata"].model IN
    [model |-> service.model,
     baseline |-> IF Readable("metadata") THEN b ELSE None,
     status |-> IF Readable("metadata") THEN DriftStatus(Baselines[b]) ELSE "unknown"]

-----------------------------------------------------------------------------

LearningInit ==
  /\ logs = <<>> /\ reviews = <<>> /\ trainings = <<>>
  /\ dataset = [state |-> "missing", rows |-> {}, as_of |-> 0]
  /\ export = [pc |-> "done", rows |-> {}, as_of |-> 0, runs |-> 0]
  /\ files = [f \in FileNames |-> File(IF f \in ToSet(Artifacts) THEN "missing" ELSE "whole", 0)]
  /\ registry = [state |-> "whole", active |-> Shipped, history |-> <<>>]
  /\ service = [path |-> Shipped, model |-> None, starts |-> 0, since |-> 0]
  /\ second = 1 /\ cuts = 0 /\ disturbed = FALSE

LearningNext ==
  \/ LogPrediction \/ \E p \in DOMAIN logs : SubmitFeedback(p)
  \/ ReadFeedback \/ OpenDataset \/ WriteDataset
  \/ TrainingStarts \/ \E k \in DOMAIN trainings : TrainingStep(k)
  \/ ServiceStarts \/ ModelLoads

LearningSpec == LearningInit /\ [][LearningNext]_learningVars

-----------------------------------------------------------------------------
(* Properties.                                                             *)

LearningTypeOK ==
  /\ DOMAIN files = FileNames
  /\ \A f \in FileNames : files[f].state \in {"missing", "cut", "whole"} /\ files[f].model \in 0..Len(trainings)
  /\ registry.state \in {"cut", "whole"} /\ Len(registry.history) <= HistoryLimit
  /\ \A k \in DOMAIN trainings : trainings[k].at \in 1..7
  /\ service.model \in {None, Heuristic} \cup 0..Len(trainings)
  /\ Health.status \in {"unknown", "stable", "drift_detected"}

\* A training the artifact of which another training, too, has named after the same second.
Collides(k) == \E j \in DOMAIN trainings \ {k} : Past(j, 2) /\ trainings[j].artifact = trainings[k].artifact

\* What the registry names can be loaded, whatever was killed or overlapped, unless two
\* trainings named their artifacts after one second; and only models that were
\* registered are served from it.
RegistryHolds ==
  \A k \in DOMAIN trainings :
    /\ registry.state = "whole" /\ registry.history # <<>> /\ Last(registry.history) = k /\ ~Collides(k) =>
         Readable(registry.active) /\ files[registry.active].model = k
    /\ service.model = k /\ service.path # Configured /\ ~Collides(k) => Past(k, 5)

\* Trainings that neither overlap nor die leave one model everywhere: in the registry and
\* its history, in the configured artifact local predictions use, in the metadata and in
\* the data to evaluate with.
FilesAgree ==
  LET n == Len(trainings) IN
    ~disturbed /\ Idle /\ n > 0 =>
      /\ Evaluable /\ Evaluated = [model |-> n, split |-> n]
      /\ files["metadata"] = File("whole", n) /\ files[registry.active] = File("whole", n)
      /\ Len(registry.history) > 0 /\ Last(registry.history) = n
      /\ \A i \in 1..(Len(registry.history) - 1) : registry.history[i] + 1 = registry.history[i + 1]

\* A service started since serves that model and watches for drift against its data.  With
\* the repository's own files it serves the heuristic, and watches for drift against the
\* model it cannot find.
ServedAgrees ==
  LET n == Len(trainings) IN
    ~disturbed /\ Idle /\ service.since = n /\ service.model # None =>
      service.model = (IF n = 0 THEN Heuristic ELSE n) /\ Health.baseline = n

\* The labels given to the predictions by the first n reviews.
LabelsAfter(n) ==
  LET last(p) == Max({i \in 1..n : reviews[i].id = p})
      labelled == {p \in {reviews[i].id : i \in 1..n} :
                     LET r == reviews[last(p)].review IN r.outcome # None \/ r.label # None}
  IN  {<<p, LabelOf(reviews[last(p)].review)>> : p \in labelled}

\* Rows that say of every label whose it is, by zone and level, and of nothing else; what
\* is fitted on is there once, and nothing of it is tested with unless the zone differs,
\* which the features leave out.
Represents(rows, held, labels) ==
  /\ \A r \in rows : /\ <<r.id, r.score>> \in labels
                     /\ r.zone = logs[r.id].zone /\ r.level = logs[r.id].level
  /\ \A l \in labels : \E r \in rows :
       r.score = l[2] /\ r.zone = logs[l[1]].zone /\ r.level = logs[l[1]].level
  /\ \A r \in rows \ held : \A q \in rows \ {r} : r.level = q.level /\ r.score = q.score => r.zone # q.zone

\* A training that uses the feedback has all of it, as the last reviewers had put it when
\* the dataset was exported and no other way, however reviews, exports and trainings
\* interleave; and there were enough of these labels, though fewer rows may be left.
TrainedOnReviews ==
  \A k \in DOMAIN trainings :
    LET t == trainings[k] IN
      t.rows # {} => /\ Represents(t.rows, t.held, LabelsAfter(t.as_of))
                     /\ Cardinality(LabelsAfter(t.as_of)) >= MinRows

ModelsAgree == LearningTypeOK /\ RegistryHolds /\ FilesAgree /\ ServedAgrees
=============================================================================
