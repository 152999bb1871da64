--------------------------- MODULE ChurnFeatures ---------------------------
(***************************************************************************)
(* The features of the churn worker (workers/churn-prediction/src/         *)
(* pipeline_training.rs, encode.rs, kmeans.rs, knee.rs) and the scores it  *)
(* computes from the trained trees (pipeline_complete.rs, xgb.rs), as pure *)
(* operators on frames.  The training image is external: of a trained      *)
(* model only the trees are known, which name a feature by its position    *)
(* among the columns of the file they were trained on.  The start of a     *)
(* clustering, which the code draws from a fixed pseudo-random sequence,   *)
(* and the inertias of its sweep are arguments here.                       *)
(***************************************************************************)
EXTENDS Frames

LOCAL INSTANCE SequencesExt

CONSTANTS MinItems, MinProfiles, MinCharged, MinComplaints, MinRows,
          AllowedNullPercent,
          ClusterRows,    \* 30 in the code
          ManyValues,     \* 10 in the code
          Plain           \* a base name with its illegal characters replaced

Id == <<"profile_id">>
Churn == <<"churn">>
Cols(S) == { <<s>> : s \in S }
AtLeast(f, n) == IF Height(f) < n THEN Broken ELSE f

GetItemsData(items) ==
    AtLeast(DropCols(FromRecords(items), Cols({"item_category", "item_name", "item_description",
                                               "status", "created_at", "updated_at"})), MinItems)

\* The active profiles are read first, the churned ones by a second request.
GetProfilesData(active, churned) ==
    LET f == FromRecords(active \o churned)
        Churned(i) == Bool(At(f, i, <<"status">>) = Str("churned"))
    IN  IF ~Has(f, Cols({"status"})) THEN Broken
        ELSE AtLeast(DropCols(AddCol(f, Churn, [i \in DOMAIN f.rows |-> Churned(i)]),
                              Cols({"customer_id", "rfm_score", "rfm_segment_desc", "churn_probability",
                                    "status", "created_at", "updated_at"})), MinProfiles)

\* Each of the keys of a column of JSON objects that Wanted holds as a column.
Expand(f, n, Wanted(_)) ==
    IF ~Has(f, {n}) THEN Broken
    ELSE FoldLeft(LAMBDA g, k : IF Wanted(k) THEN AddCol(g, k, DictValues(g, n, k)) ELSE g, f, DictKeys(f, n))

ApplyProfileDictFeatures(f, features) ==
    FoldLeft(LAMBDA g, n : Expand(g, n, LAMBDA k : k \in features), f, <<<<"platform_info">>, <<"profile_data">>>>)

Required == Cols({"rfm_score", "has_charged", "segment_tags", "profile_id", "churn"})

DynamicNullDrop(f, features) ==
    LET MostlyNull(n) == 100 * NullCount(f, n) > AllowedNullPercent * (IF Height(f) = 0 THEN 1 ELSE Height(f))
        dropped == { n \in ToSet(f.cols) : MostlyNull(n) \/ n \notin features \cup Required }
    IN  IF f.ok THEN DropNaAny(DropCols(f, dropped)) ELSE Broken

\* One column per tag that some profile holds.
TagColumn(t) == <<t, "SEGMENT">>
TagsOf(f) == UNION { At(f, i, <<"segment_tags">>)[2] :
                     i \in { j \in DOMAIN f.rows : Kind(At(f, j, <<"segment_tags">>)) = "list" } }
Holds(c, t) == Kind(c) = "list" /\ t \in c[2]
ApplySegmentTags(f) ==
    LET AddTag(g, n) ==
            AddCol(g, TagColumn(n[1]),
                   [i \in DOMAIN g.rows |-> Num(TruthNum(Holds(At(g, i, <<"segment_tags">>), n[1])))])
    IN  IF ~Has(f, Cols({"segment_tags"})) THEN Broken
        ELSE DropCols(FoldLeft(AddTag, f, InOrder(Cols(TagsOf(f)))), Cols({"segment_tags"}))

\* The events of one type of the profiles that are left, their properties as columns.
GetEventsData(events, ids, min) ==
    LET of == SelectSeq(events, LAMBDA e : e[Id] \in ids)
    IN  IF Len(of) < min THEN Broken
        ELSE DropCols(FromRecords(of), Cols({"account_id", "event_type_id", "created_at", "event_id"}))
ExpandEventProperties(f) ==
    LET n == <<"event_properties">> IN DropCols(Expand(f, n, LAMBDA k : TRUE), {n})

ApplyTotalInner(training, charged, items) ==   \* a profile without a purchase is lost
    LET purchased == Merge(charged, items, <<"item_id">>, "inner")
        total == RenameCol(GroupBySum(purchased, Id, <<"item_price">>), <<"item_price">>, <<"total_purchase_value">>)
    IN  Merge(training, total, Id, "inner")
ApplyTotalPurchaseValue(training, charged, items) ==
    LET purchased == Merge(charged, items, <<"item_id">>, "inner")
        total == RenameCol(GroupBySum(purchased, Id, <<"item_price">>), <<"item_price">>, <<"total_purchase_value">>)
    IN  FillNa(Merge(training, total, Id, "outer"), <<"total_purchase_value">>, Num(0))

NotSpecified == Str(9)
GetProfileMostFrequent(training, events, drop, keep) ==
    FillNa(Merge(training, DropCols(GroupByMostFrequent(events, Id), drop), Id, "outer"), keep, NotSpecified)

\* The columns that are left are renamed by position: an event with a property
\* more than expected breaks the training.
GetProfileEventCount(training, events, drop, count) ==
    LET counted == RenameAll(DropCols(GroupByCount(events, Id), drop), <<Id, count>>)
    IN  CastColInt(FillNa(Merge(training, counted, Id, "outer"), count, Num(0)), count)

\* The numeric columns to cluster and to bin; the tags and has_charged are left out.
IdentifyDropInvalidNumericalColumns(f, tags) ==
    LET stop == { TagColumn(t) : t \in tags } \cup Cols({"has_charged"})
        nums == SelectSeq(NumericCols(f), LAMBDA n : n \notin stop)
    IN  [cluster |-> SelectSeq(nums, LAMBDA n : UniqueLenWithNull(f, n) >= ManyValues),
         bin |-> SelectSeq(nums, LAMBDA n : UniqueLenWithNull(f, n) \in 2..(ManyValues - 1))]

-----------------------------------------------------------------------------
(* One-dimensional clustering: a centre is a sum of values and their number. *)

Abs(x) == IF x < 0 THEN -x ELSE x
Nearer(x, a, b) == Abs(x * a[2] - a[1]) * b[2] < Abs(x * b[2] - b[1]) * a[2]
Nearest(x, centres) == CHOOSE c \in DOMAIN centres :
                          /\ \A d \in DOMAIN centres : ~Nearer(x, centres[d], centres[c])
                          /\ \A d \in 1..(c - 1) : Nearer(x, centres[c], centres[d])
Members(labels, c) == SelectSeq([i \in DOMAIN labels |-> i], LAMBDA i : labels[i] = c)
SumOf(data, idxs) == FoldLeft(LAMBDA s, i : s + data[i], 0, idxs)

\* An empty cluster is given the point that is farthest from its own centre.
Farthest(data, labels, centres) ==
    LET far(i) == <<Abs(data[i] * centres[labels[i]][2] - centres[labels[i]][1]), centres[labels[i]][2]>>
        Beyond(i, j) == far(i)[1] * far(j)[2] > far(j)[1] * far(i)[2]
    IN  CHOOSE i \in DOMAIN data : /\ \A j \in DOMAIN data : ~Beyond(j, i)
                                   /\ \A j \in DOMAIN data : j > i => Beyond(i, j)

LloydStep(data, st) ==
    LET labels == Tuple([i \in DOMAIN data |-> Nearest(data[i], st.centres)])
        Move(centres, c) ==
            LET ms == Members(labels, c)
            IN  [centres EXCEPT ![c] = IF ms # <<>> THEN <<SumOf(data, ms), Len(ms)>>
                                       ELSE <<data[Farthest(data, labels, centres)], 1>>]
        empty == \E c \in DOMAIN st.centres : Members(labels, c) = <<>>
    IN  [labels |-> labels,
         centres |-> FoldLeft(Move, st.centres, [c \in DOMAIN st.centres |-> c]),
         changed |-> labels # st.labels \/ empty]

\* From the values at the given indexes, until no label changes or for so many rounds.
Kmeans(data, start, rounds) ==
    LET first == [labels |-> Tuple([i \in DOMAIN data |-> 1]),
                  centres |-> Tuple([c \in DOMAIN start |-> <<data[start[c]], 1>>]), changed |-> TRUE]
        Round(st, r) == IF st.changed THEN LloydStep(data, st) ELSE st
    IN  FoldLeft(Round, first, [r \in 1..rounds |-> r]).labels

\* The elbow of a decreasing curve over 1, 2, ...: 0 when there is none.  The
\* curve is scaled so that every comparison is between integers.
FindKnee(y) ==
    LET n == Len(y)
        top == CHOOSE v \in ToSet(y) : \A w \in ToSet(y) : w <= v
        low == CHOOSE v \in ToSet(y) : \A w \in ToSet(y) : v <= w
        diff == [i \in 1..n |-> (top - y[i]) * (n - 1) - (i - 1) * (top - low)]
        maxima == { i \in 2..(n - 1) : diff[i] >= diff[i - 1] /\ diff[i] >= diff[i + 1] }
        minima == { i \in 2..(n - 1) : diff[i] <= diff[i - 1] /\ diff[i] <= diff[i + 1] }
        first == CHOOSE i \in maxima : \A j \in maxima : i <= j
        \* the last maximum up to i, and the threshold the curve must fall below after i
        Peak(i) == CHOOSE j \in maxima : j <= i /\ \A k \in maxima : k <= i => k <= j
        Threshold(i) == IF \E k \in minima : k >= Peak(i) /\ k <= i THEN 0
                        ELSE diff[Peak(i)] - (top - low)
        found == { i \in first..(n - 1) : diff[i + 1] < Threshold(i) }
    IN  IF n < 3 \/ top = low \/ maxima = {} \/ found = {} THEN 0
        ELSE Peak(CHOOSE i \in found : \A j \in found : i <= j)

\* The texts low, mid, mid-high, high and top-high by their places in the alphabet.
LabelMap == [knee \in 2..5 |-> CASE knee = 2 -> <<2, 1>>
                                 [] knee = 3 -> <<2, 3, 1>>
                                 [] knee = 4 -> <<2, 3, 4, 1>>
                                 [] knee = 5 -> <<2, 3, 4, 1, 5>>]

\* The rank of each cluster by the mean of its values.
RankInOrder(data, labels, k) == [c \in 1..k |-> c]   \* the clusters as they were numbered
RankByMean(data, labels, k) ==
    LET mean(c) == <<SumOf(data, Members(labels, c)), Len(Members(labels, c))>>
        Before(c, d) == LET a == mean(c)
                            b == mean(d)
                        IN  a[1] * b[2] < b[1] * a[2] \/ (a[1] * b[2] = b[1] * a[2] /\ c < d)
    IN  [c \in 1..k |-> 1 + Cardinality({ d \in 1..k : Before(d, c) })]

ClusterLabels(data, k, start) ==
    LET labels == Kmeans(data, start, 20)
        rank == RankByMean(data, labels, k)
    IN  [i \in DOMAIN data |-> Str(LabelMap[k][rank[labels[i]]])]

NumericalClusterEncoding(f, n, inertias, start) ==
    LET cells == ColCells(f, n)
        data == Tuple([i \in DOMAIN cells |-> AsNumber(cells[i])])
        found == FindKnee(inertias)
        knee == IF found > 5 THEN 5 ELSE found
    IN  CASE ~Has(f, {n}) -> Broken
          [] Height(f) < ClusterRows -> f
          [] NotANumber \in ToSet(data) \/ knee \notin 2..5 -> Broken
          [] OTHER -> AddCol(DropCols(f, {n}), n \o <<"cluster">>,
                             ClusterLabels(data, knee, SubSeq(start, 1, knee)))

\* Three intervals of the same width; the first one holds the least value too.
NumericalBinEncoding(f, n) ==
    LET vals == Tuple([i \in DOMAIN f.rows |-> AsNumber(At(f, i, n))])
        least == CHOOSE v \in ToSet(vals) : \A w \in ToSet(vals) : v <= w
        most == CHOOSE v \in ToSet(vals) : \A w \in ToSet(vals) : w <= v
        Within(v, b) == IF least = most THEN b = 1
                        ELSE (b = 0 \/ 3 * (v - least) > (most - least) * b)
                             /\ 3 * (v - least) <= (most - least) * (b + 1)
        AddBin(g, b) == AddCol(g, n \o <<"bin", b>>, [i \in DOMAIN vals |-> Num(TruthNum(Within(vals[i], b)))])
    IN  IF Height(f) = 0 THEN Broken ELSE FoldLeft(AddBin, DropCols(f, {n}), <<0, 1, 2>>)

\* A column of objects becomes one column per value it holds.
CategoricalEncoding(f) ==
    LET OfColumn(g, n) ==
            LET cells == ColCells(g, n)
                keys == SortedKeys({ Key(cells[i]) : i \in { j \in DOMAIN cells : ~IsNull(cells[j]) } })
                Dummy(h, k) == AddCol(h, n \o <<"is", 10 * k[1] + k[2]>>,
                                      [i \in DOMAIN cells |-> Num(TruthNum(Key(cells[i]) = k))])
            IN  FoldLeft(Dummy, DropCols(g, {n}), keys)
    IN  FoldLeft(OfColumn, f, SelectSeq(f.cols, LAMBDA n : n # Id /\ Dtype(f, n) = "object"))

FormatColumnNames(f) ==
    IF f.ok THEN NewFrame([c \in DOMAIN f.cols |-> [f.cols[c] EXCEPT ![1] = Plain[@]]], f.rows) ELSE f

-----------------------------------------------------------------------------
(* The training dataset of an account's data *)

Prepared(in) == ApplySegmentTags(DynamicNullDrop(ApplyProfileDictFeatures(
                    GetProfilesData(in.active, in.churned), in.features), in.features))

\* What the events tell of the profiles, joined one after the other.
JoinEvents(profiles, items, charged, complaints) ==
    GetProfileEventCount(
        GetProfileEventCount(
            GetProfileMostFrequent(
                GetProfileMostFrequent(
                    ApplyTotalPurchaseValue(profiles, charged, items),
                    charged, Cols({"item_id", "event_type"}), <<"payment_method">>),
                complaints, Cols({"event_type"}), <<"channel">>),
            charged, Cols({"item_id", "payment_method"}), <<"number_charges">>),
        complaints, Cols({"channel"}), <<"number_complaints">>)

EventsOf(events, profiles, min) ==
    LET ids == IF Has(profiles, {Id}) THEN ToSet(ColCells(profiles, Id)) ELSE {}
    IN  ExpandEventProperties(GetEventsData(events, ids, min))
Gather(profiles, items, charged, complaints) ==
    IF ~items.ok \/ ~profiles.ok \/ ~charged.ok \/ ~complaints.ok THEN Broken
    ELSE JoinEvents(profiles, items, charged, complaints)

\* The frame before its columns are encoded.
CollectedFor(in, profiles) ==
    Gather(profiles, GetItemsData(in.items), EventsOf(in.charged, profiles, MinCharged),
           EventsOf(in.complaints, profiles, MinComplaints))
Collected(in) == CollectedFor(in, Prepared(in))

EncodeColumns(f, tags, inertias, start) ==
    LET by == IdentifyDropInvalidNumericalColumns(f, tags)
        clustered == FoldLeft(LAMBDA g, n : NumericalClusterEncoding(g, n, inertias, start), f, by.cluster)
    IN  CategoricalEncoding(FoldLeft(NumericalBinEncoding, clustered, by.bin))

\* The tags become columns after the nulls are dropped; those columns are not
\* taken for numbers to encode.
KnownTags(in) == TagsOf(DynamicNullDrop(ApplyProfileDictFeatures(
                     GetProfilesData(in.active, in.churned), in.features), in.features))

\* The dataset made of the collected frame.
BuildTrainingDataset(in, collected, inertias, start) ==
    IF ~collected.ok THEN Broken
    ELSE FormatColumnNames(AtLeast(EncodeColumns(collected, KnownTags(in), inertias, start), MinRows))

FeatureCols(f) == SelectSeq(f.cols, LAMBDA n : n \notin {Churn, Id})

\* What is kept of the dataset for the scores: the rows of profiles that have
\* not churned, each as a JSON object.
CacheDataset(f) == SelectSeq(ToJsonIndex(f), LAMBDA r : r[Churn] # Bool(TRUE))

-----------------------------------------------------------------------------
(* Scores *)

\* A tree lists for each node its children, the position of the feature it
\* asks for, the limit (or the value of a leaf) and the way of a missing value.
LeafValue(tree, x) ==
    LET Asked(node) == LET p == tree.split[node] + 1 IN IF p \in DOMAIN x THEN x[p] ELSE NotANumber
        GoLeft(node) == IF Asked(node) = NotANumber THEN tree.default_left[node]
                        ELSE Asked(node) < tree.cond[node]
        value[node \in DOMAIN tree.left] ==
            IF tree.left[node] = -1 THEN tree.cond[node]
            ELSE value[IF GoLeft(node) THEN tree.left[node] ELSE tree.right[node]]
    IN  value[0]
Margin(trees, x) == FoldLeft(LAMBDA s, t : s + LeafValue(t, x), 0, trees)

\* The profiles and their margins.
PredictChurnScores(rows, trees) ==
    LET cached == FromRecords(rows)
        xPredCols == FeatureCols(cached)
        prob == [i \in DOMAIN cached.rows |-> Num(Margin(trees, RowAsNumbers(cached, i, xPredCols)))]
    IN  Select(AddCol(cached, <<"churn_prob">>, prob), <<Id, <<"churn_prob">>>>)

\* What is published of the scores: nothing when there were too few to cluster.
AssignChurnScores(predictions, inertias, start) ==
    LET f == NumericalClusterEncoding(predictions, <<"churn_prob">>, inertias, start)
    IN  IF Has(f, {Id, <<"churn_prob", "cluster">>}) THEN Select(f, <<Id, <<"churn_prob", "cluster">>>>) ELSE Broken
=============================================================================
