------------------------------ MODULE SegmentRules ------------------------------
(***************************************************************************)
(* What a segment definition may say and what it means: the parsing and the *)
(* validation of a create request, and the worker's matching of events      *)
(* against the event sequence of a definition.  A JSON value is a kind and  *)
(* a number: the number it is, that its text reads as, or that tells it     *)
(* from other texts.  A property map is a function on keys, which are       *)
(* numbered in their alphabetical order; the empty map stands for none.     *)
(***************************************************************************)
EXTENDS Integers, Sequences, FiniteSets

CONSTANTS
  SystemTypes,   \* SystemTypes[t]: the properties of a system event type and their kinds
  CustomTypes,   \* CustomTypes[t]: the property keys of an event type of the account
  MaxSequence,   \* EVENT_SEQUENCE_LIMIT
  PastInterval   \* PAST_SEGMENT_INTERVALS, days

NoProps == <<>>
Missing == [json |-> "missing", n |-> 0]
Numbers == {"int", "whole", "bool"}   \* whole: a float without a fraction
Texts == {"str", "digits", "truth"}   \* digits: a text that reads as a number
Given(v) == v.json \notin {"missing", "null"}
-------------------------------------------------------------------------------
(* Parsing. *)

CoerceStr(v) == v.json \in Texts \cup Numbers \cup {"frac"}
CoerceInt(v) == v.json \in Numbers \cup {"digits"}

ParsedEvent(e) ==
  /\ CoerceInt(e.exp) /\ e.mode \in {"action", "inaction"} /\ e.type # "missing"
  /\ e.props.json \in {"missing", "null", "dict"}
EventSequenceEvent(e) ==
  [exp |-> e.exp.n, mode |-> e.mode, type |-> e.type,
   props |-> IF e.props.json = "dict" THEN e.props.map ELSE NoProps]

\* A name is text of 1 to 60 characters, none of them , " ' . or a space; the value of
\* the profile property may be left out but not given as null.
ParsedSegment(b) ==
  /\ CoerceStr(b.name) /\ b.name.n \in 1 .. 60 /\ ~b.illegal
  /\ b.type # "missing" /\ CoerceInt(b.sub) /\ CoerceInt(b.frame)
  /\ b.events.json = "list" /\ \A i \in DOMAIN b.events.seq : ParsedEvent(b.events.seq[i])
  /\ Given(b.pname) => CoerceStr(b.pname)
  /\ b.pvalue.json \in {"missing", "frac"} \cup Texts \cup Numbers

CreateSegmentFrom(b) ==
  [name |-> b.name, type |-> b.type, sub |-> b.sub.n, frame |-> b.frame.n,
   seq |-> [i \in DOMAIN b.events.seq |-> EventSequenceEvent(b.events.seq[i])],
   pname |-> b.pname, pvalue |-> b.pvalue]
-------------------------------------------------------------------------------
(* Validation: the checks in the order they are made; each is "ok", a refusal of  *)
(* the client ("400") or a crash ("500").                                         *)

Check(ok) == IF ok THEN "ok" ELSE "400"
Modes(d, mode) == {i \in DOMAIN d.seq : d.seq[i].mode = mode}
LastOf(d) == d.seq[Len(d.seq)]

VSegmentType(d) == Check(d.type \in {"live", "past"})
VNumOfEvents(d) == Check(Len(d.seq) <= MaxSequence)

VPastSubtype(d) == Check(d.sub \in 1 .. 4)
VPastTimeframe(d) == Check(d.frame \in PastInterval .. 365)
VPastProfileProperties(d) ==
  Check(/\ Given(d.pname) <=> Given(d.pvalue)
        /\ Given(d.pname) <=> d.sub \in {3, 4})
FirstEvent(d) == IF d.seq = <<>> THEN "500" ELSE Check(d.seq[1].mode = "action")
VPastEventSequence(d) ==
  Check(IF d.sub \in {2, 4}
        THEN LastOf(d).mode = "inaction" /\ Cardinality(Modes(d, "inaction")) <= 1
        ELSE Modes(d, "inaction") = {})
VPastEventTimeframes(d) == Check(\A i \in DOMAIN d.seq : d.seq[i].exp = 0)

VLiveSubtype(d) == Check(d.sub \in {1, 2})
VLiveTimeframe(d) == Check(d.frame = 0)
VLiveProfileProperties(d) == Check(~Given(d.pname) /\ ~Given(d.pvalue))
VLiveEventSequence(d) ==
  Check(/\ Cardinality(Modes(d, "action")) <= 1
        /\ IF d.sub = 2 THEN LastOf(d).mode = "inaction" ELSE Modes(d, "inaction") = {})
VLiveEventTimeframes(d) ==
  Check(/\ \A i \in 1 .. Len(d.seq) - 1 : d.seq[i].exp >= 2
        /\ LastOf(d).exp <= 0)

PyTypeName(v) ==
  IF v.json \in Texts THEN "str" ELSE IF v.json \in {"whole", "frac"} THEN "float" ELSE v.json
KnownEvent(e) ==
  IF e.type \in DOMAIN SystemTypes
  THEN \A k \in DOMAIN e.props :
         k \in DOMAIN SystemTypes[e.type] /\ PyTypeName(e.props[k]) = SystemTypes[e.type][k]
  ELSE e.type \in DOMAIN CustomTypes /\ DOMAIN e.props \subseteq CustomTypes[e.type]
VEventTypes(d) == Check(\A i \in DOMAIN d.seq : KnownEvent(d.seq[i]))

\* An event type that occurs more than once may do so once without properties; the
\* values of the properties are pooled over all such types, and only those of the key
\* that was looked at last must differ.
VEventSequenceDuplicates(d) ==
  LET again == {i \in DOMAIN d.seq : \E j \in DOMAIN d.seq \ {i} : d.seq[j].type = d.seq[i].type}
      bare == {i \in again : d.seq[i].props = NoProps}
      full == again \ bare
      keys(i) == DOMAIN d.seq[i].props
      last == CHOOSE i \in full : \A j \in full : j <= i
      key == CHOOSE k \in keys(last) : \A l \in keys(last) : l <= k
  IN IF again = {} THEN "ok"
     ELSE IF \E i, j \in bare : i # j /\ d.seq[i].type = d.seq[j].type THEN "400"
     ELSE IF full = {} THEN "500"
     ELSE Check(\A i, j \in {x \in full : key \in keys(x)} :
                  i # j => d.seq[i].props[key] # d.seq[j].props[key])

Checks(d) ==
  <<VSegmentType(d), VNumOfEvents(d)>> \o
  IF d.type = "past"
  THEN <<VPastSubtype(d), VPastTimeframe(d), VPastProfileProperties(d), FirstEvent(d)>> \o
       (IF d.seq = <<>> THEN <<>>
        ELSE <<VPastEventSequence(d), VEventTypes(d), VEventSequenceDuplicates(d),
               VPastEventTimeframes(d)>>)
  ELSE <<VLiveSubtype(d), VLiveTimeframe(d), VLiveProfileProperties(d), FirstEvent(d)>> \o
       (IF d.seq = <<>> THEN <<>>
        ELSE <<VLiveEventSequence(d), VEventTypes(d), VEventSequenceDuplicates(d),
               VLiveEventTimeframes(d)>>)
Validate(d) ==
  LET checks == Checks(d)
      bad == {i \in DOMAIN checks : checks[i] # "ok"}
  IN IF bad = {} THEN "ok" ELSE checks[CHOOSE i \in bad : \A j \in bad : i <= j]

\* Another definition that says the same, or has the same name.
SameSegment(d, e) ==
  \/ d.name = e.name
  \/ /\ d.type = e.type /\ d.sub = e.sub /\ d.frame = e.frame /\ d.seq = e.seq
     /\ Given(d.pname) = Given(e.pname) /\ Given(d.pvalue) = Given(e.pvalue)
     /\ Given(d.pname) => d.pname = e.pname /\ d.pvalue = e.pvalue
-------------------------------------------------------------------------------
(* Matching. *)

JsonEq(v, w) == IF {v.json, w.json} \subseteq Numbers THEN v.n = w.n ELSE v = w
\* The value of a definition is read as a number or a truth value when its text is one.
StrconvConvert(v) ==
  IF v.json = "digits" THEN [v EXCEPT !.json = "int"]
  ELSE IF v.json = "truth" THEN [v EXCEPT !.json = "bool"] ELSE v

EventPropertiesMatch(required, actual) ==
  \A k \in DOMAIN required : k \in DOMAIN actual /\ JsonEq(actual[k], required[k])
Matches(e, event) == event.type = e.type /\ EventPropertiesMatch(e.props, event.props)

\* One entry of the map for each event type, with the mode of its first occurrence.
EventSequenceAnalysis(seq, events, inactionOnly) ==
  LET used == {i \in DOMAIN seq : inactionOnly => seq[i].mode = "inaction"}
      found == {i \in used : \E e \in events : Matches(seq[i], e)}
      first(t) == CHOOSE i \in used : seq[i].type = t /\ \A j \in used : seq[j].type = t => i <= j
  IN [map |-> [t \in {seq[i].type : i \in used} |->
                 [mode |-> seq[first(t)].mode, found |-> \E i \in found : seq[i].type = t]],
      invalid |-> found = {}]

\* Mutant: an inaction that was found does not count.
InactionForgotten(map) == \A t \in DOMAIN map : map[t].mode = "action" => map[t].found
EventMapAnalysis(map) ==
  \A t \in DOMAIN map : map[t].found <=> map[t].mode = "action"

\* profile_data[name] must be what the definition asks.
PropertyEvaluation(data, d) ==
  /\ Given(d.pname) /\ Given(d.pvalue) /\ d.pname.n \in DOMAIN data
  /\ JsonEq(data[d.pname.n], StrconvConvert(d.pvalue))

\* What a past run makes of a profile and its events.
MeetsCriteria(d, events, data) ==
  LET analysis == EventSequenceAnalysis(d.seq, events, FALSE) IN
  /\ ~analysis.invalid /\ EventMapAnalysis(analysis.map)
  /\ d.sub \in {3, 4} => PropertyEvaluation(data, d)

\* What a live run makes of one event: a single action, or the action that starts the
\* wait for an inaction.
MeetsLive(d, event) == d.sub = 1 /\ \A i \in DOMAIN d.seq : Matches(d.seq[i], event)
StartsWait(d, event) ==
  d.sub = 2 /\ \E i \in DOMAIN d.seq : d.seq[i].mode = "action" /\ Matches(d.seq[i], event)
-------------------------------------------------------------------------------
\* What a definition says: every action happened and no inaction did.
Says(d, events, data) ==
  /\ \A i \in DOMAIN d.seq :
       (\E e \in events : Matches(d.seq[i], e)) <=> d.seq[i].mode = "action"
  /\ d.sub \in {3, 4} => PropertyEvaluation(data, d)
===============================================================================
