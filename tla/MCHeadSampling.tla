---------------------------- MODULE MCHeadSampling ----------------------------
(* Two callers.  One workload is of spans, in two batches and three scopes; *)
(* the others are of log records, each with a configuration.                *)
EXTENDS HeadSampling, TLC

\* Spans 1 and 2 are of one trace and in one scope.
MCTraceBatches == {<< <<"s1", "s2">>, <<"s3">> >>, << <<"s4">> >>}
MCTraceOf == [s \in {"s1", "s2", "s3", "s4"} |-> IF s \in {"s1", "s2"} THEN "t1" ELSE "t2"]

\* Field 1 is the message, the others are attributes.  A value is a sequence
\* of tokens; a and b agree on the attributes, c has fewer.
MCLogBatches == {<< <<"a", "b">>, <<"c">> >>, << <<"d">> >>}
MCFieldsOf ==
  [r \in {"a", "b", "c", "d"} |->
     CASE r = "a" -> 1 :> <<"error", "x">> @@ 2 :> <<"u">> @@ 3 :> <<"v">>
       [] r = "b" -> 1 :> <<"x">> @@ 2 :> <<"u">> @@ 3 :> <<"v">>
       [] r = "c" -> 1 :> <<"error", Newline, "x">> @@ 2 :> Missing @@ 3 :> <<"u">>
       [] r = "d" -> 1 :> <<"x">> @@ 4 :> <<"w">>]

Field(f, w, required, default) ==
  [field |-> f, weight |-> w, required |-> required, default |-> default]
Pattern(f, p) == [field |-> f, pattern |-> p]
Filter(f, p, action, q) ==
  [field |-> f, pattern |-> p, action |-> action, probability |-> q]

Error == <<"*", "error", "*">>

\* Equal weights and an optional field, no filters.
Plain ==
  [critical |-> << >>, filters |-> << >>,
   fields |-> <<Field(2, 1, FALSE, Missing), Field(3, 1, FALSE, Missing),
                Field(4, 1, FALSE, Missing)>>]
\* Unequal weights, a required field with a default, a critical pattern.
Weighted ==
  [critical |-> <<Pattern(1, Error)>>, filters |-> << >>,
   fields |-> <<Field(2, 1, TRUE, <<"d">>), Field(3, 2, FALSE, <<"e">>)>>]
\* Filters of every action, of which one excludes what is critical.
Filtered ==
  [critical |-> <<Pattern(1, Error)>>,
   filters |-> <<Filter(4, <<"*">>, "include", 0), Filter(2, <<"u">>, "exclude", 0),
                 Filter(3, <<"*", "u">>, "weighted", 1), Filter(1, <<"*">>, "include", 0)>>,
   fields |-> <<Field(2, 1, FALSE, Missing), Field(3, 1, FALSE, <<"d">>)>>]

MCWorkloads ==
  {[config |-> Plain, batches |-> [k \in Signals |-> IF k = Traces THEN MCTraceBatches ELSE {}]]}
  \cup {[config |-> c, batches |-> [k \in Signals |-> IF k = Logs THEN MCLogBatches ELSE {}]]
        : c \in {Plain, Weighted, Filtered}}
=============================================================================
