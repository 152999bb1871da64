------------------------------ MODULE Features ------------------------------
(***************************************************************************)
(* From an account's data to scores and recommendations: the computations  *)
(* of the churn and of the recommendation worker in the order in which a   *)
(* training and, some time later, its completion run them.  What a worker  *)
(* is given at either time is any of a set of inputs; what the training    *)
(* image makes of the files is any model that looks at one feature (churn) *)
(* or knows the taste of the profiles and items of its rows                *)
(* (recommendation).                                                       *)
(***************************************************************************)
EXTENDS ChurnFeatures, Recommender, TLC

LOCAL INSTANCE SequencesExt

CONSTANTS ChurnInputs, Sweeps, Margins,   \* a sweep is its inertias and the start of the clustering
          RecInputs, LaterInputs, Taste,
          FileSizes, Limits            \* sizes of files, and the limits of an upload

VARIABLES churn,   \* a churn training and its completion
          rec      \* a recommendation training and its completion
vars == <<churn, rec>>

Nothing == <<>>
Init ==
    /\ churn = [stage |-> "none", in |-> Nothing, collected |-> Broken, frame |-> Broken, cached |-> <<>>,
                asked |-> Nothing, limit |-> 0, scores |-> Broken, labels |-> Broken]
    /\ rec = [stage |-> "none", in |-> Nothing, data |-> Nothing, mappings |-> <<>>, later |-> Nothing,
              out |-> Nothing]

\* The dataset is built; its file keeps the order of the columns, the cache
\* for the scores does not.
Built(in, collected, f) ==
    [churn EXCEPT !.stage = IF f.ok THEN "trained" ELSE "refused", !.in = in, !.collected = collected,
                  !.frame = f, !.cached = IF f.ok THEN CacheDataset(f) ELSE <<>>]
BuiltFrom(in, w, collected) ==
    Built(in, collected, BuildTrainingDataset(in, collected, w.inertias, w.start))
TrainChurn ==
    /\ churn.stage = "none" /\ rec.stage = "none"
    /\ \E in \in ChurnInputs, w \in Sweeps : churn' = BuiltFrom(in, w, Collected(in))
    /\ UNCHANGED rec

\* A model of one tree that asks whether a column is below a limit.
Stump(position, limit) ==
    [left |-> (0 :> 1 @@ 1 :> -1 @@ 2 :> -1), right |-> (0 :> 2 @@ 1 :> -1 @@ 2 :> -1),
     split |-> (0 :> position - 1 @@ 1 :> 0 @@ 2 :> 0), cond |-> (0 :> limit @@ 1 :> 1 @@ 2 :> 2),
     default_left |-> (0 :> TRUE @@ 1 :> TRUE @@ 2 :> TRUE)]

ScoreChurn ==
    /\ churn.stage = "trained" /\ churn.cached # <<>>
    /\ \E p \in DOMAIN FeatureCols(churn.frame) :
          churn' = [churn EXCEPT !.stage = "scored", !.asked = FeatureCols(churn.frame)[p], !.limit = 1,
                                 !.scores = PredictChurnScores(churn.cached, <<Stump(p, 1)>>)]
    /\ UNCHANGED rec

\* The scores of any model, clustered and published.
AssignChurn ==
    /\ churn.stage = "trained"
    /\ \E m \in [DOMAIN churn.cached -> Margins], w \in Sweeps :
          /\ \A i, j \in DOMAIN w.start : i # j /\ {w.start[i], w.start[j]} \subseteq DOMAIN m
                                           => m[w.start[i]] # m[w.start[j]]
          /\ LET f == NewFrame(<<Id, <<"churn_prob">>>>,
                               [i \in DOMAIN churn.cached |-> <<churn.cached[i][Id], Num(m[i])>>])
                 g == AssignChurnScores(f, w.inertias, w.start)
             IN  churn' = [churn EXCEPT !.stage = IF g.ok THEN "assigned" ELSE "unassigned",
                                        !.scores = f, !.labels = g]
    /\ UNCHANGED rec

Prepare(in, d) == [rec EXCEPT !.stage = IF d.ok THEN "built" ELSE "refused", !.in = in, !.data = d]
TrainRec ==
    /\ rec.stage = "none" /\ churn.stage = "none"
    /\ \E in \in RecInputs : rec' = Prepare(in, RecDatasets(in))
    /\ UNCHANGED churn

\* The files are uploaded one by one; one whose size does not fit ends the
\* training.  What each row stands for is kept when all are uploaded.
UploadRec ==
    /\ rec.stage = "built"
    /\ \E size \in [{"profiles", "items", "events"} -> FileSizes] :
          rec' = IF \E file \in DOMAIN size : UploadPlan(size[file], Limits) = "refused"
                 THEN [rec EXCEPT !.stage = "refused"]
                 ELSE [rec EXCEPT !.stage = "trained", !.mappings = LfmIdxs(rec.data.profiles, rec.data.items)]
    /\ UNCHANGED churn

\* One embedding per row of the files the image was given.
Embeddings(f, n) == [i \in DOMAIN f.rows |-> Taste[At(f, i, n)[2]]]

PredictRec ==
    /\ rec.stage = "trained"
    /\ \E in \in LaterInputs :
          rec' = [rec EXCEPT !.stage = "predicted", !.later = in,
                             !.out = MakePredictions(in, rec.mappings,
                                        [users |-> Embeddings(rec.data.profiles, ProfileId),
                                         items |-> Embeddings(rec.data.items, <<"item_id">>)])]
    /\ UNCHANGED churn

Done == /\ churn.stage \in {"refused", "scored", "assigned", "unassigned"} \/ rec.stage \in {"refused", "predicted"}
        /\ UNCHANGED vars

Next == TrainChurn \/ ScoreChurn \/ AssignChurn \/ TrainRec \/ UploadRec \/ PredictRec \/ Done
Spec == Init /\ [][Next]_vars

-----------------------------------------------------------------------------
(* Properties *)

Status(in, i) == (in.active \o in.churned)[i][<<"status">>]
ProfilesOf(in) == in.active \o in.churned
Told(in, i, n) == LET r == ProfilesOf(in)[i] IN n \in DOMAIN r[<<"profile_data">>][2]
Missing(in, n) == Cardinality({ i \in DOMAIN ProfilesOf(in) : ~Told(in, i, n) })
Features(in) == { n \in in.features : Missing(in, n) * 100 <= AllowedNullPercent * Len(ProfilesOf(in)) }
Complete(in) == { i \in DOMAIN ProfilesOf(in) : \A n \in Features(in) : Told(in, i, n) }
Of(events, id) == SelectSeq(events, LAMBDA e : e[Id] = id)
PriceOf(in, e) ==
    LET named == SelectSeq(in.items, LAMBDA r : r[<<"item_id">>] = e[<<"event_properties">>][2][<<"item_id">>])
    IN  IF named = <<>> THEN 0 ELSE Head(named)[<<"item_price">>][2]
Spent(in, id) == FoldLeft(LAMBDA s, e : s + PriceOf(in, e), 0, Of(in.charged, id))

\* The joins of the dataset neither lose nor repeat anybody: before encoding
\* it has exactly one row for each profile with all the features that enough
\* profiles have, and the row tells what that profile bought, for how much, how
\* often it complained, and whether it churned.
DatasetIsTheProfiles ==
    churn.stage = "trained" =>
        LET in == churn.in
            f == churn.collected
            row(i) == { r \in DOMAIN f.rows : At(f, r, Id) = ProfilesOf(in)[i][Id] }
        IN  /\ Height(f) = Cardinality(Complete(in))
            /\ \A i \in Complete(in) : LET id == ProfilesOf(in)[i][Id] IN
                 \E r \in row(i) :
                    /\ At(f, r, <<"number_charges">>) = Num(Len(Of(in.charged, id)))
                    /\ At(f, r, <<"number_complaints">>) = Num(Len(Of(in.complaints, id)))
                    /\ At(f, r, <<"total_purchase_value">>) = Num(Spent(in, id))
                    /\ At(f, r, Churn) = Bool(Status(in, i) = Str("churned"))

\* The label a profile is given follows its score: of two profiles the one with
\* the lower probability of churn never has the higher label, and as many
\* labels are used as the knee says.
RankOf(label) == CHOOSE r \in 1..5 : <<2, 3, 4, 1, 5>>[r] = label
LabelsFollowScores ==
    churn.stage = "assigned" =>
        \A i, j \in DOMAIN churn.labels.rows :
            churn.scores.rows[i][2][2] < churn.scores.rows[j][2][2] =>
                RankOf(churn.labels.rows[i][2][2]) <= RankOf(churn.labels.rows[j][2][2])

\* frame.rs:212-215: the order of the columns "never affects correctness":
\* everything downstream, the scorer too, selects them by name.  So a model that
\* learnt to ask for a column is answered from that column.
ScoredByName ==
    churn.stage = "scored" =>
        \A i \in DOMAIN churn.cached :
            churn.scores.rows[i][2] =
                Num(IF AsNumber(churn.cached[i][churn.asked]) < churn.limit THEN 1 ELSE 2)

\* The recommendations of a profile come from its own row and the items' own
\* rows, whatever became of the profiles and of the items since the training:
\* they are active items that it does not have in its stop list, and no better
\* one is left out.
Liking(p, i) == Taste[p[2]].e * Taste[i[2]].e + Taste[p[2]].bias + Taste[i[2]].bias
Stopped(in, p) ==
    in.stop \cup (IF in.interacted THEN {}
                  ELSE { Of(in.events, p)[k][<<"event_properties">>][2][in.identifier] :
                         k \in DOMAIN Of(in.events, p) })
RecommendationsAreTheirOwn ==
    rec.stage = "predicted" /\ rec.out.ok =>
        LET trained == ToSet(ColCells(rec.data.items, <<"item_id">>))
        IN  \A k \in DOMAIN rec.out.made :
                LET p == rec.out.made[k].profile_id
                    got == rec.out.made[k].items
                    fit == (trained \cap rec.later.active) \ Stopped(rec.later, p)
                IN  /\ p \in ToSet(ColCells(rec.data.profiles, ProfileId)) \cap ToSet(rec.later.ids)
                    /\ ToSet(got) \subseteq fit
                    /\ Len(got) = (IF Cardinality(fit) < NumRec THEN Cardinality(fit) ELSE NumRec)
                    /\ \A x \in DOMAIN got : \A i \in fit \ { got[y] : y \in 1..x } :
                          Liking(p, i) <= Liking(p, got[x])
=============================================================================
