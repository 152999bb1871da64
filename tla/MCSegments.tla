------------------------------- MODULE MCSegments -------------------------------
(* Three instances for TLC: in "rules" a client sends one of many create requests, *)
(* good and bad; in "past" a past segment is created, run as events arrive and      *)
(* expire, and deleted; in "live" events meet a segment of a single action and one  *)
(* that waits for an inaction, whose events name properties or types alone.         *)
EXTENDS Segmentation
CONSTANTS p1, p2, s1, s2
VARIABLE part
V(json, n) == [json |-> json, n |-> n]
One == 1 :> V("int", 1)
Two == 1 :> V("int", 2)
Text == 2 :> V("digits", 1)
MCSystemTypes == "charged" :> (1 :> "int" @@ 2 :> "str")
MCCustomTypes == "viewed" :> {1, 2} @@ "left" :> {1}
MCProfileData == p1 :> (1 :> V("whole", 1)) @@ p2 :> (1 :> V("digits", 1))

Props(json, map) == [json |-> json, map |-> map]
Event(type, mode, exp, props) == [exp |-> exp, mode |-> mode, type |-> type, props |-> props]
NotGiven == Props("missing", NoProps)
EventBodies ==
  {Event(t, m, V("int", x), Props("dict", ps)) : t \in {"charged", "viewed"}, m \in {"action", "inaction"},
     x \in {0, 3}, ps \in {One, Two, NoProps}}
  \cup {Event("viewed", "inaction", V("digits", 0), Props("dict", Text)),
        Event("left", "inaction", Missing, NotGiven), Event("left", "pause", V("int", 0), NotGiven),
        Event("missing", "action", V("int", 0), NotGiven), Event("left", "inaction", V("frac", 0), NotGiven),
        Event("charged", "action", V("bool", 0), Props("dict", 1 :> V("str", 1))),
        Event("left", "action", V("int", 0), Props("list", NoProps)),
        Event("left", "inaction", V("int", -1), Props("null", NoProps))}
Body(type, sub, frame, events, pname, pvalue) ==
  [name |-> V("str", 4), illegal |-> FALSE, type |-> type, sub |-> V("int", sub), frame |-> V("int", frame),
   events |-> [json |-> "list", seq |-> events], pname |-> pname, pvalue |-> pvalue]
Plain(type, sub, frame, events) == Body(type, sub, frame, events, Missing, Missing)
View(mode, exp) == Event("viewed", mode, V("int", exp), Props("dict", One))
Left(exp) == Event("left", "inaction", V("int", exp), Props("dict", One))
Oddities ==
  LET good == Plain("past", 1, 30, <<View("action", 0)>>) IN
  {[good EXCEPT !.name = V("str", 61)], [good EXCEPT !.name = V("null", 4)], [good EXCEPT !.illegal = TRUE],
   [good EXCEPT !.type = "missing"], [good EXCEPT !.type = "other"], [good EXCEPT !.sub = V("str", 1)],
   [good EXCEPT !.frame = V("digits", 366)], [good EXCEPT !.frame = V("int", 1)],
   [good EXCEPT !.events.json = "dict"], [good EXCEPT !.pvalue = V("null", 0)], [good EXCEPT !.pname = V("list", 0)]}
  \cup {Body(t, sub, IF t = "past" THEN 30 ELSE 0, <<View("action", 0)>>, n, v) : t \in {"past", "live"},
          sub \in 0 .. 5, n \in {Missing, V("int", 1)}, v \in {Missing, V("digits", 1), V("str", 7)}}
Sequences == {<<>>, <<View("action", 3), Left(0), Left(0), Left(0)>>}
  \cup {<<e>> : e \in EventBodies} \cup {<<e, f>> : e, f \in EventBodies}
  \cup {<<View("action", x), e, Left(0)>> : x \in {0, 3}, e \in EventBodies}
Bodies == Oddities \cup {Plain("past", sub, 30, q) : sub \in {1, 2}, q \in Sequences}
                   \cup {Plain("live", sub, 0, q) : sub \in {1, 2}, q \in Sequences}
Stay == UNCHANGED <<part, pastRuns>>
Happened(type, props) == [pid |-> p1, type |-> type, props |-> props, age |-> 0]
MCPool == {Happened("charged", One), Happened("charged", Two), Happened("viewed", One), Happened("left", One)}

PastBody == Body("past", 4, 30, <<View("action", 0), Left(0)>>, V("int", 1), V("digits", 1))
\* A sequence may name event types alone.
Maybe(bare, e) == IF bare THEN [e EXCEPT !.props = NotGiven] ELSE e
LiveDef(sub, bare) ==
  CreateSegmentFrom([Plain("live", sub, 0, IF sub = 1 THEN <<View("action", 0)>>
                       ELSE <<View("action", 2), Maybe(bare, Left(0))>>) EXCEPT !.name = V("str", sub)])
PastDef == CreateSegmentFrom(PastBody)
\* Bounds that a part does not need are spent.
Bounds(requests, posts, ticks) ==
  [requests |-> requests, posts |-> posts, ticks |-> ticks, faults |-> MaxSegmentFaults]
MCInit ==
  /\ SegmentsInit /\ pastRuns = 0
  /\ \/ part = "rules" /\ segs = [s \in Segs |-> NoSegment] /\ jobs = {} /\ budget = Bounds(2, 0, 0)
     \/ part = "past" /\ segs = (s1 :> [def |-> PastDef, profiles |-> {}] @@ s2 :> NoSegment)
        /\ jobs = {Job("past", s1, <<>>, 0)} /\ budget = Bounds(1, 2, 2)
     \/ \E bare \in BOOLEAN : part = "live" /\ jobs = {}
        /\ \/ budget = Bounds(0, 2, 0)
              /\ segs = (s1 :> [def |-> LiveDef(1, FALSE), profiles |-> {}] @@ s2 :> [def |-> LiveDef(2, bare), profiles |-> {}])
           \/ budget = Bounds(1, 1, 1)
              /\ segs = (s1 :> NoSegment @@ s2 :> [def |-> LiveDef(2, bare), profiles |-> {}])
Posts == IF part = "past" THEN {<<p1, "viewed", One>>, <<p1, "left", One>>} ELSE
         IF part = "live" THEN {<<p1, "viewed", One>>, <<p2, "left", One>>} ELSE {}
Client ==
  \/ part = "rules" /\ budget = Bounds(2, 0, 0) /\ \E b \in Bodies : CreateSegments(s1, b) /\ Stay
  \/ part = "rules" /\ CreateSegments(s2, PastBody) /\ Stay
  \/ part = "past" /\ DeleteSegments({s1}) /\ Stay
  \/ part = "live" /\ DeleteSegments({s2}) /\ Stay
Post == (\E x \in Posts : PostEvent(x[1], x[2], x[3])) /\ Stay
Tick == part # "rules" /\ TimePasses /\ Stay
Service == SegmentRequest /\ Stay
Consume == ApplyOperation /\ Stay
ConsumeTags == ConsumeTagCommand /\ Stay
MCNext == Client \/ Post \/ Tick \/ (SegmentationStep /\ UNCHANGED part)
mcVars == <<segmentationVars, part>>
MCSpec ==
  /\ MCInit /\ [][MCNext]_mcVars
  /\ WF_mcVars(Consume) /\ WF_mcVars(ConsumeTags) /\ WF_mcVars(Service)
  /\ WF_mcVars(Start("live") /\ UNCHANGED part) /\ \A q \in Queues : WF_mcVars(WorkerStep(q) /\ UNCHANGED part)
===============================================================================
