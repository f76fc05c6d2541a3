------------------------------ MODULE Grapher ------------------------------
(***************************************************************************)
(* The graph page of the scheduler (grapher.js): it polls the server for   *)
(* the metrics of the expressions of a query and plots their values.       *)
(* Operators, constants and values are left out: a plotted point records,  *)
(* for each metric it needs, the column it was read from.  Samples are     *)
(* numbered 1, 2, ... .  GraphView adds the parser.                        *)
(***************************************************************************)
EXTENDS Integers, Sequences, SequencesExt

CONSTANTS Queries,      \* the queries a user may enter, sequences of distinct lines
          Parsed(_, _), \* the lines of a query that parse, and whether one does not
          maxPoints,    \* points kept per plot
          MaxSamples,   \* bound: samples the server takes
          MaxQueries,   \* bound: queries applied
          MaxErrors,    \* bound: requests that fail
          MaxClicks     \* bound: clicks on realTime

ASSUME maxPointsAssumption == maxPoints \in Nat \ {0}

(* Are the two global regular expressions of parser.js at 0? *)
Regexes == [call : BOOLEAN, paren : BOOLEAN]

(* Whatever the regular expressions are at, an expression is made of a line  *)
(* of the query.                                                             *)
ASSUME ParsedAssumption ==
  \A q \in Queries, re \in Regexes :
    /\ Parsed(q, re).re \in Regexes
    /\ Parsed(q, re).wrong \in BOOLEAN
    /\ \A i \in DOMAIN Parsed(q, re).exprs : Contains(q, Parsed(q, re).exprs[i].line)

VARIABLES
  awaitingResponse, realTime, errors, expressions, metrics, rawData,
  evaluatedData, lastTimestamp,
  lastIndex,   \* of parser.js' two global regular expressions
  request,     \* the request in flight, or none
  samples,     \* samples the server has
  query,       \* the text of the query applied last
  queries, failed, clicks,
  crossed,     \* history: the query was applied while data was on its way
  garbled      \* history: a request failed without an answer in JSON

graphVars == <<awaitingResponse, realTime, errors, expressions, metrics, rawData,
               evaluatedData, lastTimestamp, lastIndex, request, samples, query,
               queries, failed, clicks, crossed, garbled>>

NoRequest == [kind |-> "none"]

-----------------------------------------------------------------------------
(* A regular expression with the flag g starts where its last match ended:   *)
(* anchored at the start of the text, it fails there, and begins anew.       *)
Rewound == [call |-> TRUE, paren |-> TRUE]

Wanted(exprs) == \* the metrics to ask for, in the order of their first use
  FoldLeft(LAMBDA seen, m : IF Contains(seen, m) THEN seen ELSE Append(seen, m),
           <<>>, FlattenSeq([i \in DOMAIN exprs |-> exprs[i].vars]))

\* Mutation: the flag is set before the page knows whether it asks.
sendQueryFlagFirst(r) ==
  /\ awaitingResponse' = TRUE
  /\ request' = IF awaitingResponse \/ ~realTime THEN request ELSE r

\* Mutation: the flag is not set.
sendQueryUnflagged(r) ==
  /\ request' = IF awaitingResponse \/ ~realTime THEN request ELSE r
  /\ UNCHANGED awaitingResponse

sendQuery(r) ==
  IF awaitingResponse \/ ~realTime
  THEN UNCHANGED <<request, awaitingResponse>>
  ELSE request' = r /\ awaitingResponse' = TRUE

DataRequest(exprs, since) ==
  [kind |-> "data", names |-> Wanted(exprs), since |-> since, asked |-> samples]

fetchData(exprs, wrong, since) ==
  IF ~wrong /\ Wanted(exprs) # <<>>
  THEN sendQuery(DataRequest(exprs, since))
  ELSE UNCHANGED <<request, awaitingResponse>>

Tick ==
  /\ fetchData(expressions, errors, lastTimestamp)
  /\ UNCHANGED <<realTime, errors, expressions, metrics, rawData, evaluatedData,
                 lastTimestamp, lastIndex, samples, query, queries, failed, clicks,
                 crossed, garbled>>

(* applyQuery(): parse every line, forget the data, fetch.                   *)
\* Mutation: the data of the query before is kept.
applyQueryToOldData(q) ==
  LET p == Parsed(q, lastIndex)
  IN  /\ queries < MaxQueries
      /\ queries' = queries + 1
      /\ query' = q /\ lastIndex' = p.re /\ expressions' = p.exprs /\ errors' = p.wrong
      /\ evaluatedData' = <<>> /\ lastTimestamp' = -1
      /\ crossed' = (request.kind = "data")
      /\ fetchData(p.exprs, p.wrong, -1)
      /\ UNCHANGED <<rawData, metrics, realTime, samples, failed, clicks, garbled>>

applyQuery(q) ==
  LET p == Parsed(q, lastIndex)
  IN  /\ queries < MaxQueries
      /\ queries' = queries + 1
      /\ query' = q
      /\ lastIndex' = p.re
      /\ expressions' = p.exprs
      /\ errors' = p.wrong
      /\ rawData' = FALSE /\ evaluatedData' = <<>> /\ metrics' = <<>>
      /\ lastTimestamp' = -1
      /\ crossed' = (request.kind = "data")
      /\ fetchData(p.exprs, p.wrong, -1)
      /\ UNCHANGED <<realTime, samples, failed, clicks, garbled>>

(* handleDataResponse(): the first table fixes the columns.  The rows of the *)
(* table stand in columns `names`; evaluate() looks a metric up in           *)
(* `metrics`, and may find a column that is another metric's, or none.       *)
ReadFrom(m, cols, names) ==
  LET at == CHOOSE i \in DOMAIN cols : cols[i] = m
  IN  IF m \in ToSet(cols) /\ at \in DOMAIN names THEN names[at] ELSE "undefined"

Point(t, cols, names) ==
  [t |-> t, read |-> [m \in ToSet(Wanted(expressions)) |-> ReadFrom(m, cols, names)]]

Evict(data) == SubSeq(data, Len(data) - maxPoints + 1, Len(data))

handleDataResponse(r, upTo) ==
  LET cols  == IF rawData THEN metrics ELSE r.names
      since == IF r.since < 0 THEN 0 ELSE r.since
      times == [i \in 1..(upTo - since) |-> since + i]
      grown == evaluatedData \o [i \in DOMAIN times |-> Point(times[i], cols, r.names)]
  IN  IF times = <<>>
      THEN UNCHANGED <<rawData, metrics, evaluatedData, lastTimestamp>>
      ELSE /\ rawData' = TRUE
           /\ metrics' = cols
           /\ IF \A i \in DOMAIN expressions : expressions[i].evaluates
              THEN /\ evaluatedData' = IF Len(grown) > maxPoints THEN Evict(grown) ELSE grown
                   /\ lastTimestamp' = upTo
              ELSE UNCHANGED <<evaluatedData, lastTimestamp>>

Answer ==
  /\ request.kind # "none"
  /\ awaitingResponse' = FALSE
  /\ request' = NoRequest
  /\ \/ /\ request.kind = "list"
        /\ UNCHANGED <<rawData, metrics, evaluatedData, lastTimestamp>>
     \/ /\ request.kind = "data"
        /\ \E upTo \in request.asked..samples : handleDataResponse(request, upTo)
  /\ UNCHANGED <<realTime, errors, expressions, lastIndex, samples, query, queries,
                 failed, clicks, crossed, garbled>>

(* The error callback of sendQuery throws when the answer is not JSON, and   *)
(* then never says that no response is awaited.                              *)
QueryFails(json) ==
  /\ request.kind # "none"
  /\ failed < MaxErrors
  /\ failed' = failed + 1
  /\ request' = NoRequest
  /\ errors' = (errors \/ json)
  /\ awaitingResponse' = ~json
  /\ garbled' = (garbled \/ ~json)
  /\ UNCHANGED <<realTime, expressions, metrics, rawData, evaluatedData, lastTimestamp,
                 lastIndex, samples, query, queries, clicks, crossed>>

ToggleRealTime ==
  /\ clicks < MaxClicks
  /\ clicks' = clicks + 1
  /\ realTime' = ~realTime
  /\ UNCHANGED <<awaitingResponse, errors, expressions, metrics, rawData, evaluatedData,
                 lastTimestamp, lastIndex, request, samples, query, queries, failed,
                 crossed, garbled>>

Sample ==
  /\ samples < MaxSamples
  /\ samples' = samples + 1
  /\ UNCHANGED <<awaitingResponse, realTime, errors, expressions, metrics, rawData,
                 evaluatedData, lastTimestamp, lastIndex, request, query, queries, failed,
                 clicks, crossed, garbled>>

(* The page asks for the names of the metrics when it is ready. *)
GraphInit ==
  /\ awaitingResponse = TRUE /\ realTime = TRUE /\ errors = FALSE
  /\ expressions = <<>> /\ metrics = <<>> /\ rawData = FALSE /\ evaluatedData = <<>>
  /\ lastTimestamp = -1 /\ lastIndex = Rewound
  /\ request = [kind |-> "list"]
  /\ samples = 1 /\ query = <<>>
  /\ queries = 0 /\ failed = 0 /\ clicks = 0 /\ crossed = FALSE /\ garbled = FALSE

GraphNext ==
  \/ Tick \/ Answer \/ ToggleRealTime \/ Sample
  \/ \E q \in Queries : applyQuery(q)
  \/ \E json \in BOOLEAN : QueryFails(json)

(* While the page is open the interval timer runs and requests are answered. *)
GraphFairness == WF_graphVars(Tick) /\ WF_graphVars(Answer)

GraphSpec == GraphInit /\ [][GraphNext]_graphVars /\ GraphFairness

-----------------------------------------------------------------------------
(* The page's variables have their types, and at most one request is on its  *)
(* way, which is what awaitingResponse is for.                               *)
GraphTypeOK ==
  /\ {awaitingResponse, realTime, errors, rawData} \subseteq BOOLEAN
  /\ lastIndex \in Regexes
  /\ \A i \in DOMAIN expressions : Contains(query, expressions[i].line)
  /\ request.kind # "none" => awaitingResponse
  /\ lastTimestamp \in -1..samples
  /\ Len(evaluatedData) <= maxPoints

(* The points plotted are the most recent samples, each once and in order;   *)
(* none is missing unless the query was applied while the data of the one    *)
(* before it was on its way.  Each is then computed from the columns of the  *)
(* metrics its expressions name.                                             *)
PointsInOrder ==
  LET n == Len(evaluatedData)
  IN  /\ \A i \in 1..n :
           /\ evaluatedData[i].t = lastTimestamp - n + i
           /\ ~crossed => \A m \in DOMAIN evaluatedData[i].read : evaluatedData[i].read[m] = m
      /\ n > 0 /\ ~crossed => n = IF lastTimestamp < maxPoints THEN lastTimestamp
                                                                ELSE maxPoints

(* A page left in real time, with a query it can evaluate, no error shown    *)
(* and no answer garbled, plots the latest sample in the end.                *)
Plots == /\ expressions # <<>>
         /\ \A i \in DOMAIN expressions : expressions[i].evaluates

PollingGoesOn ==
  <>[](realTime /\ ~errors /\ Plots /\ ~garbled) => []<>(lastTimestamp = samples)

-----------------------------------------------------------------------------
=============================================================================
