----------------------------- MODULE MCFeatures -----------------------------
\* Four profiles, two or three items, a handful of events.
EXTENDS Features

LOCAL INSTANCE SequencesExt

MCAlphabet == <<"account_id", "age", "channel", "churn", "churn_prob", "churn_probability", "city",
                "created_at", "customer_id", "event_id", "event_properties", "event_type",
                "event_type_id", "has_charged", "item_LFM_IDX", "item_category", "item_description",
                "item_id", "item_name", "item_price", "loyal", "number_charges", "number_complaints",
                "payment_method", "platform_info", "profile_LFM_IDX", "profile_data", "profile_id",
                "rfm_score", "rfm_segment_desc", "segment_tags", "status", "total_purchase_value",
                "updated_at", "variable_value">>
MCPlain == [n \in { MCAlphabet[i] : i \in DOMAIN MCAlphabet } |-> n]

\* A record of the model with the names of its columns.
Record(f) == [n \in { <<s>> : s \in DOMAIN f } |-> f[n[1]]]
Dict(f) == <<"dict", Record(f)>>
Old == Num(0)

ItemRecord(i) ==
    Record([item_id |-> Str(10 + i), item_category |-> Str(1), item_name |-> Str(2), item_description |-> Str(3),
            item_price |-> Num(4 * i + 1), status |-> Str("active"), created_at |-> Old, updated_at |-> Old])

\* Everybody has a tag but the third; age and city are features, the others are not asked for.
ProfileRecord(p, data, state) ==
    Record([profile_id |-> Str(p), customer_id |-> Str(p), rfm_score |-> Null, rfm_segment_desc |-> Null,
            churn_probability |-> Null, status |-> state, created_at |-> Old, updated_at |-> Old,
            has_charged |-> Bool(p < 3), segment_tags |-> <<"list", IF p = 3 THEN {} ELSE {"loyal"}>>,
            platform_info |-> Dict([city |-> Str(20 + (p % 2))]), profile_data |-> data])

AgeOf(p, without) == IF p \in without THEN <<"dict", [n \in {} |-> Null]>> ELSE Dict([age |-> Num(20 + 2 * p)])

Event(p, props) ==
    Record([account_id |-> Str(1), event_type_id |-> Str(1), created_at |-> Old, event_id |-> Str(1),
            event_type |-> Str(1), profile_id |-> Str(p), event_properties |-> props])
Charged(p, i, m) == Event(p, Dict([item_id |-> Str(10 + i), payment_method |-> Str(m)]))
Complaint(p, c) == Event(p, Dict([channel |-> Str(c)]))

Buyers == { <<1, 2, 4, 4>>, <<3, 3, 2, 3>>, <<2, 4, 2, 1>> }
MCChurnInputs ==
    { [items |-> <<ItemRecord(1), ItemRecord(2)>>,
       active |-> [i \in 1..(4 - Cardinality(gone)) |->
                     LET p == SetToSeq((1..4) \ gone)[i] IN ProfileRecord(p, AgeOf(p, without), Str("active"))],
       churned |-> [i \in 1..Cardinality(gone) |->
                     LET p == SetToSeq(gone)[i] IN ProfileRecord(p, AgeOf(p, without), Str("churned"))],
       charged |-> [k \in 1..4 |-> Charged(buyers[k], 1 + (k % 2), IF k = 3 THEN 1 ELSE 2)],
       complaints |-> <<Complaint(buyers[2], 1), Complaint(2, 2)>>,
       features |-> Cols({"age", "city"})] :
      gone \in {{}, {4}, {1, 3}}, without \in {{}, {2}, {2, 3}, {1, 2, 3}}, buyers \in Buyers }

\* Sweeps with an elbow at two, at three, and none.
MCSweeps == { [inertias |-> <<100, 20, 10, 5, 2>>, start |-> <<1, 2, 3>>],
              [inertias |-> <<100, 60, 12, 10, 8, 6>>, start |-> <<4, 1, 2>>],
              [inertias |-> <<5, 5, 5, 5>>, start |-> <<1, 2, 3>>] }

RecProfile(p, without, tagged) ==
    ProfileRecord(p, IF p \in without THEN <<"dict", [n \in {} |-> Null]>>
                     ELSE IF tagged THEN Dict([age |-> Num(p), segment_tags |-> Str(1)])
                     ELSE Dict([age |-> Num(p)]), Str("active"))
ItemEvent(p, i) == Charged(p, i, 1)
MCRecInputs ==
    { [profiles |-> [p \in 1..3 |-> RecProfile(p, without, tagged)],
       features |-> Cols({"age"} \cup extra), segments |-> {"loyal"},
       items |-> [i \in 1..n |-> ItemRecord(i)],
       events |-> <<ItemEvent(1, 1), ItemEvent(2, 2), ItemEvent(3, 1), ItemEvent(buyer, 1)>>,
       identifier |-> <<"item_id">>] :
      without \in SUBSET {1, 2}, tagged \in BOOLEAN, extra \in {{}, {"segment_tags"}}, n \in 2..3, buyer \in 1..3 }

Ids(s) == [i \in DOMAIN s |-> Str(s[i])]
MCLaterInputs ==
    { [ids |-> ids, active |-> active, stop |-> stop, interacted |-> interacted,
       identifier |-> <<"item_id">>, events |-> <<ItemEvent(1, 1), ItemEvent(3, 2), ItemEvent(4, 1)>>] :
      ids \in {Ids(<<1, 2, 3>>), Ids(<<3, 2, 4>>), Ids(<<4>>)},
      active \in {{}, {Str(11), Str(12)}, {Str(12), Str(13), Str(11)}},
      stop \in {{}, {Str(11)}}, interacted \in BOOLEAN }

MCTaste == [x \in 0..20 |-> CASE x = 1 -> [e |-> 3, bias |-> 0] [] x = 2 -> [e |-> -2, bias |-> 1]
                              [] x = 3 -> [e |-> 1, bias |-> 0] [] x = 11 -> [e |-> 1, bias |-> 2]
                              [] x = 12 -> [e |-> 2, bias |-> 0] [] x = 13 -> [e |-> -1, bias |-> 1]
                              [] OTHER -> [e |-> 0, bias |-> 0]]

\* Below, at and above the least size, in one part, in two, in too many, and too large.
MCLimits == [minFile |-> 2, maxFile |-> 40, minChunk |-> 5, maxParts |-> 3]

MCEventsCols == <<<<"profile_id">>, <<"variable_value">>>>
MCItemsCols == <<<<"item_category">>, <<"item_description">>, <<"item_id">>, <<"item_name">>, <<"item_price">>>>
=============================================================================
