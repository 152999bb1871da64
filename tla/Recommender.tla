---------------------------- MODULE Recommender ----------------------------
(***************************************************************************)
(* What the recommendation worker computes (workers/recommendation):       *)
(* the three frames a training reads (services/training.rs, frame.rs), the *)
(* reference that remembers which row stands for whom                      *)
(* (repos/recommendation.rs), and the recommendations made from the        *)
(* embeddings a training returns (services/prediction.rs).  The training   *)
(* image is external: of its result only the embeddings are known, one per *)
(* row of the profiles and of the items it was given.                      *)
(***************************************************************************)
EXTENDS Frames

LOCAL INSTANCE SequencesExt

CONSTANTS MinRecProfiles, MinRecEvents, MinRecItems,
          EventsCols, ItemsCols,   \* EVENTS_DATAFRAME_COLS and ITEMS_DATAFRAME_COLS
          NumRec                   \* recommendations kept per profile

ProfileId == <<"profile_id">>
Field(r, n, default) == IF n \in DOMAIN r THEN r[n] ELSE default

FromRecordsWithColumns(records, cols) ==
    NewFrame(cols, [i \in DOMAIN records |-> [c \in DOMAIN cols |-> Field(records[i], cols[c], Null)]])

InsertRangeIndex(f, n) ==
    NewFrame(<<n>> \o f.cols, [i \in DOMAIN f.rows |-> <<Num(i - 1)>> \o f.rows[i]])

\* Every row of the left frame stays, once per row of the right frame with its
\* key, or once with nulls.  Columns that both have are told apart by a suffix.
MergeLeft(l, r, leftOn, rightOn) ==
    IF ~Has(l, {leftOn}) \/ ~Has(r, {rightOn}) THEN Broken
    ELSE
    LET keep == Indexes(r, LAMBDA i : leftOn # rightOn \/ i # ColIndex(r, rightOn))
        rcols == [c \in DOMAIN keep |-> r.cols[keep[c]]]
        both == ToSet(l.cols) \cap ToSet(rcols)
        Suffixed(cols, s) == [c \in DOMAIN cols |-> IF cols[c] \in both THEN cols[c] \o <<s>> ELSE cols[c]]
        Of(row) == SelectSeq(r.rows, LAMBDA q : ~IsNull(row[ColIndex(l, leftOn)])
                                                /\ q[ColIndex(r, rightOn)] = row[ColIndex(l, leftOn)])
        Joined(row) == LET qs == Of(row)
                       IN  IF qs = <<>> THEN <<row \o [c \in DOMAIN keep |-> Null]>>
                           ELSE [x \in DOMAIN qs |-> row \o [c \in DOMAIN keep |-> qs[x][keep[c]]]]
    IN  NewFrame(Suffixed(l.cols, "x") \o Suffixed(rcols, "y"),
                 FlattenSeq([i \in DOMAIN l.rows |-> Joined(l.rows[i])]))

-----------------------------------------------------------------------------
(* Training *)

LowestRfm == Num(111)
EmptyText == Str(0)
DictOf(r, n) == LET c == Field(r, n, Null) IN IF Kind(c) = "dict" THEN c[2] ELSE <<>>
TagsIn(r) == LET c == Field(r, <<"segment_tags">>, Null) IN IF Kind(c) = "list" THEN c[2] ELSE {}

\* What is kept of a profile: its data over its platform's, of the features
\* that are asked for, and one mark per segment.
ProfileDict(r, features, segments) ==
    LET data == DictOf(r, <<"profile_data">>)
        info == DictOf(r, <<"platform_info">>)
        rfm == Field(r, <<"rfm_score">>, Null)
        kept == (DOMAIN data \cup DOMAIN info) \cap features
        marks == { <<s, "SEGMENT">> : s \in segments }
    IN  [n \in {ProfileId, <<"has_charged">>, <<"rfm_score">>} \cup kept \cup marks |->
            CASE n \in marks -> Num(TruthNum(n[1] \in TagsIn(r)))
              [] n \in kept \ marks -> IF n \in DOMAIN data THEN data[n] ELSE info[n]
              [] n = <<"rfm_score">> -> IF rfm \in {Null, EmptyText} THEN LowestRfm ELSE rfm
              [] OTHER -> Field(r, n, Null)]

\* The rows are numbered after the incomplete ones are gone: the number of a
\* row is its position in the file.
BuildProfilesDataset(profiles, features, segments) ==
    LET f == FromRecords([i \in DOMAIN profiles |-> ProfileDict(profiles[i], features, segments)])
        dropped == DropCols(DropNaAny(f), {<<"segment_tags">>})
    IN  IF Len(profiles) < MinRecProfiles \/ ~dropped.ok THEN Broken
        ELSE InsertRangeIndex(dropped, <<"profile_LFM_IDX">>)

BuildItemsDataset(items) ==
    LET f == DropCols(FromRecords(items), {<<"status">>, <<"created_at">>, <<"updated_at">>})
        renamed == RenameAll(f, ItemsCols)
    IN  IF Len(items) < MinRecItems \/ ~renamed.ok THEN Broken
        ELSE InsertRangeIndex(renamed, <<"item_LFM_IDX">>)

\* Of each event with properties, the item it names.
BuildEventsDataset(events, ids, identifier) ==
    LET of == SelectSeq(events, LAMBDA e : e[ProfileId] \in ids)
        told == SelectSeq(of, LAMBDA e : Kind(e[<<"event_properties">>]) = "dict")
        Row(e) == [n \in {ProfileId, <<"variable_value">>} |->
                      IF n = ProfileId THEN e[ProfileId]
                      ELSE Field(e[<<"event_properties">>][2], identifier, Null)]
    IN  IF Len(of) < MinRecEvents THEN Broken
        ELSE FromRecordsWithColumns([i \in DOMAIN told |-> Row(told[i])], EventsCols)

FeatureEngineering(profiles, events, items) ==
    DropNaAny(MergeLeft(MergeLeft(events, profiles, ProfileId, ProfileId), items,
                        <<"variable_value">>, <<"item_id">>))

\* Everything one training is built from: profiles first, then items, then
\* events, which are asked for the profiles that are left.
Datasets(profiles, items, events, merged) ==
    [ok |-> profiles.ok /\ items.ok /\ events.ok /\ merged.ok,
     profiles |-> profiles, items |-> items, events |-> merged]
Engineered(profiles, items, events) ==
    Datasets(profiles, items, events, FeatureEngineering(profiles, events, items))
EventsFor(in, profiles) ==
    BuildEventsDataset(in.events, IF Has(profiles, {ProfileId}) THEN ToSet(ColCells(profiles, ProfileId)) ELSE {},
                       in.identifier)
DatasetsWith(in, profiles) == Engineered(profiles, BuildItemsDataset(in.items), EventsFor(in, profiles))
RecDatasets(in) == DatasetsWith(in, BuildProfilesDataset(in.profiles, in.features, in.segments))

\* A file is uploaded whole if it is small, in parts if it is not, and refused
\* if it is too large, makes a single part, or has the least size itself.
PlanChunks(size, l) ==
    LET count == (size + l.minChunk - 1) \div l.minChunk
    IN  IF count \in 2..l.maxParts THEN "parts" ELSE "refused"
UploadPlan(size, l) ==
    CASE size < l.minFile -> "whole"
      [] size > l.minFile /\ size < l.maxFile -> PlanChunks(size, l)
      [] OTHER -> "refused"

\* The reference: which row stands for which profile and for which item.
LfmIdxsInOne(profiles, items) ==   \* the items are counted on from the profiles
    LET all == ColCells(profiles, ProfileId) \o ColCells(items, <<"item_id">>)
    IN  [i \in DOMAIN all |-> [lfm_idx |-> i - 1, res_id |-> all[i],
                               type_ |-> IF i <= Height(profiles) THEN "profiles" ELSE "items"]]
LfmIdxs(profiles, items) ==
    LET Mapped(cells, type) ==
            [i \in DOMAIN cells |-> [lfm_idx |-> i - 1, type_ |-> type, res_id |-> cells[i]]]
    IN  Mapped(ColCells(profiles, ProfileId), "profiles") \o Mapped(ColCells(items, <<"item_id">>), "items")

-----------------------------------------------------------------------------
(* Predictions *)

FilterByType(mappings, type) == SelectSeq(mappings, LAMBDA e : e.type_ = type)
FilterById(mappings, id) == SelectSeq(mappings, LAMBDA e : e.res_id = id)

BuildStopList(base, interacted, identifier, events, id) ==
    base \cup (IF interacted THEN {}
               ELSE { Field(e[<<"event_properties">>][2], identifier, Null) :
                      e \in { d \in ToSet(events) : d[ProfileId] = id
                                                    /\ Kind(d[<<"event_properties">>]) = "dict" } } \ {Null})

\* A row that the model does not have weighs nothing.
EmbeddingOf(vectors, i) == IF i + 1 \in DOMAIN vectors THEN vectors[i + 1] ELSE [e |-> 0, bias |-> 0]
Score(model, user, item) ==
    LET u == EmbeddingOf(model.users, user)
        i == EmbeddingOf(model.items, item)
    IN  u.e * i.e + u.bias + i.bias

\* The best items of a profile: of equal scores the one that was mapped first.
Recommend(model, mappings, user, stop, active) ==
    LET seen == FilterByType(mappings, "items")
        idx == [i \in DOMAIN seen |-> i]
        Before(i, j) == LET a == Score(model, user, seen[i].lfm_idx)
                            b == Score(model, user, seen[j].lfm_idx)
                        IN  a > b \/ (a = b /\ i < j)
        best == SelectSeq(SortedBy(ToSet(idx), Before),
                          LAMBDA i : seen[i].res_id \notin stop /\ seen[i].res_id \in active)
    IN  [x \in 1..(IF Len(best) < NumRec THEN Len(best) ELSE NumRec) |-> seen[best[x]].res_id]

\* The recommendations of every profile that the training knew, or an error
\* where the account has no active item, no profile or no event.
MakePredictions(in, mappings, model) ==
    LET known == SelectSeq(in.ids, LAMBDA p : FilterById(mappings, p) # <<>>)
        events == SelectSeq(in.events, LAMBDA e : e[ProfileId] \in ToSet(in.ids))
        Prediction(p) ==
            [profile_id |-> p,
             items |-> Recommend(model, mappings, Head(FilterById(mappings, p)).lfm_idx,
                                 BuildStopList(in.stop, in.interacted, in.identifier, events, p), in.active)]
    IN  IF in.active = {} \/ known = <<>> \/ (~in.interacted /\ events = <<>>) THEN [ok |-> FALSE, made |-> <<>>]
        ELSE [ok |-> TRUE, made |-> [i \in DOMAIN known |-> Prediction(known[i])]]
=============================================================================
