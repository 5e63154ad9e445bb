----------------------------- MODULE SixDegrees -----------------------------
(***************************************************************************)
(* The graph the site answers "how are these two people connected" from    *)
(* (graph/six_degrees.py): how rows become edges, how the edges of one     *)
(* pair are merged, and the search for a shortest path inside a window of  *)
(* dates.  Beside the translation stand reference definitions that speak   *)
(* of the rows only, whatever the order in which the database returned     *)
(* them.  Nodes are names, a date is a natural number and NoDate is none.  *)
(***************************************************************************)
EXTENDS Integers, Sequences, FiniteSets, SequencesExt

NoDate == 0
NoWords == ""
NoPath == <<>>
NoWindow == [start |-> NoDate, end |-> NoDate]

LeastOf(dates) == IF dates = {} THEN NoDate ELSE CHOOSE d \in dates : \A e \in dates : d <= e
LatestOf(dates) == IF dates = {} THEN NoDate ELSE CHOOSE d \in dates : \A e \in dates : e <= d

\* The entries of a sequence that are in a set, in their order.
Filtered(s, T) ==
    LET upTo[n \in 0..Len(s)] ==
            IF n = 0 THEN <<>>
            ELSE IF s[n] \in T THEN Append(upTo[n - 1], s[n]) ELSE upTo[n - 1]
    IN  upTo[Len(s)]

-----------------------------------------------------------------------------
(* Edges.                                                                  *)

Edge(left, right, kind, date) ==
    [left |-> left, right |-> right, kind |-> kind, date |-> date,
     dates |-> {}, activeStart |-> NoDate, activeEnd |-> NoDate]

EventDates(edge) == (edge.dates \cup {edge.date}) \ {NoDate}

\* Mutant: the later edge of a pair replaces the earlier one's role and dates.
MergedLast(existing, edge) == [edge EXCEPT !.left = existing.left, !.right = existing.right]

\* Two edges of one pair: a host stays a host, a guest keeps every date, a
\* host the range that all dates span.
Merged(existing, edge) ==
    LET kind   == IF "host" \in {existing.kind, edge.kind} THEN "host" ELSE edge.kind
        events == EventDates(existing) \cup EventDates(edge)
        active == ({existing.activeStart, existing.activeEnd, edge.activeStart, edge.activeEnd}
                    \cup (IF kind = "host" THEN events ELSE {})) \ {NoDate}
    IN  [left |-> existing.left, right |-> existing.right, kind |-> kind, date |-> NoDate,
         dates |-> IF kind = "guest" THEN events ELSE {},
         activeStart |-> LeastOf(active), activeEnd |-> LatestOf(active)]

SamePair(e, f) == {e.left, e.right} = {f.left, f.right}

AddEdge(merged, edge) ==
    IF \E i \in 1..Len(merged) : SamePair(merged[i], edge)
    THEN [i \in 1..Len(merged) |->
            IF SamePair(merged[i], edge) THEN Merged(merged[i], edge) ELSE merged[i]]
    ELSE Append(merged, edge)

\* The merged edges, in the order in which their pairs first came.
MergeEdges(edges) ==
    LET merged[n \in 0..Len(edges)] ==
            IF n = 0 THEN <<>> ELSE AddEdge(merged[n - 1], edges[n])
    IN  merged[Len(edges)]

-----------------------------------------------------------------------------
(* Windows.                                                                *)

MatchingDates(dates, window) ==
    {d \in dates : /\ window.start = NoDate \/ d >= window.start
                   /\ window.end = NoDate \/ d <= window.end}

DateRangesOverlap(first, last, window) ==
    /\ window.end = NoDate \/ first <= window.end
    /\ window.start = NoDate \/ last >= window.start

\* A host counts for the whole time from the first to the last date known.
EdgeMatchesWindow(edge, window) ==
    LET start  == IF edge.activeStart # NoDate THEN edge.activeStart
                  ELSE LeastOf(EventDates(edge))
        end    == IF edge.activeEnd # NoDate THEN edge.activeEnd
                  ELSE LatestOf(EventDates(edge))
    IN  \/ window = NoWindow
        \/ edge.kind = "host" /\ start # NoDate /\ DateRangesOverlap(start, end, window)
        \/ edge.kind # "host" /\ MatchingDates(EventDates(edge), window) # {}

\* The date shown on a hop of a path.
EdgeDateForWindow(edge, window) ==
    IF edge.kind # "guest" THEN NoDate ELSE LatestOf(MatchingDates(EventDates(edge), window))

-----------------------------------------------------------------------------
(* The search.  A graph is [edges, names]: merged edges and person names.  *)

SixDegreesGraph(edges, names) == [edges |-> MergeEdges(edges), names |-> names]

Joins(edge, node) == node \in {edge.left, edge.right}
OtherEnd(edge, node) == IF edge.left = node THEN edge.right ELSE edge.left

\* The neighbours of a node inside the window, in the order of the edges; from
\* the source the podcasts it hosts come first.
OrderedNeighbors(graph, node, isSource, window) ==
    LET near  == Filtered(graph.edges, {e \in ToSet(graph.edges) :
                                            Joins(e, node) /\ EdgeMatchesWindow(e, window)})
        hosts == Filtered(near, {e \in ToSet(near) : e.kind = "host"})
        rest  == Filtered(near, {e \in ToSet(near) : e.kind # "host"})
        order == IF isSource /\ node \in graph.names THEN hosts \o rest ELSE near
    IN  [i \in 1..Len(order) |-> OtherEnd(order[i], node)]

\* One round takes a path off the queue and extends it by the neighbours of its
\* end that were not seen yet (no neighbour comes twice: they are the keys of a
\* dict), unless the target is one of them.
SearchRound(graph, source, target, window, search) ==
    LET path  == Head(search.queue)
        near  == OrderedNeighbors(graph, Last(path), Last(path) = source, window)
        fresh == Filtered(near, ToSet(near) \ search.seen)
    IN  IF search.answer # NoPath \/ search.queue = <<>> THEN search
        ELSE IF target \in ToSet(fresh)
        THEN [search EXCEPT !.answer = Append(path, target)]
        ELSE [search EXCEPT
                !.seen = @ \cup ToSet(fresh),
                !.queue = Tail(@) \o [i \in 1..Len(fresh) |-> Append(path, fresh[i])]]

\* Breadth first, until an answer is found or the queue is empty: no round is
\* left to do after one per node.
ShortestPath(graph, source, target, window) ==
    LET search[n \in 0..(2 * Len(graph.edges) + 1)] ==
            IF n = 0 THEN [seen |-> {source}, queue |-> << <<source>> >>, answer |-> NoPath]
            ELSE SearchRound(graph, source, target, window, search[n - 1])
    IN  IF source = target THEN <<source>> ELSE search[2 * Len(graph.edges) + 1].answer

-----------------------------------------------------------------------------
(* What a visitor typed is a text.                                         *)

\* The name a text stands for: itself, or the first name (of the sorted ones)
\* that is the same once case, accents and punctuation are dropped, and that
\* leave something.
ResolveName(graph, text, sortedNames, normal) ==
    LET alike == Filtered(sortedNames, {n \in graph.names : /\ normal[n] = normal[text]
                                                           /\ normal[n] # NoWords})
    IN  IF text \in graph.names THEN {text}
        ELSE IF alike = <<>> THEN {} ELSE {Head(alike)}

\* The answer to one query: the name that is missing, no connection, or a path.
\* Of no names at all none can be suggested instead, and the query ends in an error.
Explain(graph, query, sortedNames, normal) ==
    LET source == ResolveName(graph, query.source, sortedNames, normal)
        target == ResolveName(graph, query.target, sortedNames, normal)
        path   == IF source = {} \/ target = {} THEN NoPath
                  ELSE LET s == CHOOSE n \in source : TRUE
                           t == CHOOSE n \in target : TRUE
                       IN  ShortestPath(graph, s, t, query.window)
    IN  [missing |-> IF graph.names = {} THEN "every name"
                     ELSE IF source = {} THEN "source" ELSE IF target = {} THEN "target"
                     ELSE "none",
         found |-> path # NoPath, path |-> path]

-----------------------------------------------------------------------------
(* References, over a set of rows [person, podcast, role, date].           *)

Together(rows, a, b) == {r \in rows : {r.person, r.podcast} = {a, b}}
DatesOf(rows) == {r.date : r \in rows} \ {NoDate}
Hosts(rows) == \E r \in rows : r.role = "host"

\* Two names are one hop apart when rows of the two say so within the window.
OneHop(rows, a, b, window) ==
    LET both == Together(rows, a, b)
    IN  /\ both # {}
        /\ \/ window = NoWindow
           \/ /\ ~Hosts(both)
              /\ MatchingDates(DatesOf(both), window) # {}
           \/ /\ Hosts(both) /\ DatesOf(both) # {}
              /\ DateRangesOverlap(LeastOf(DatesOf(both)), LatestOf(DatesOf(both)), window)

NodesOf(rows) == {r.person : r \in rows} \cup {r.podcast : r \in rows}

\* The names at most n hops from one, for every n.
Within(rows, from, window) ==
    LET nodes == NodesOf(rows) \cup {from}
        reach[n \in 0..Cardinality(nodes)] ==
            IF n = 0 THEN {from}
            ELSE LET inner == reach[n - 1]
                 IN  inner \cup {b \in nodes : \E a \in inner : OneHop(rows, a, b, window)}
    IN  reach

\* A path is right when it is one of the shortest, and starts at a podcast its
\* source hosts if any of the shortest does.
RightPath(rows, source, target, window, path) ==
    LET reach   == Within(rows, source, window)
        back    == Within(rows, target, window)
        far     == CHOOSE n \in DOMAIN reach :
                        target \in reach[n] /\ (n = 0 \/ target \notin reach[n - 1])
        onward(p) == OneHop(rows, source, p, window) /\ p \in back[far - 1]
        hosted(p) == Hosts(Together(rows, source, p))
    IN  IF \A n \in DOMAIN reach : target \notin reach[n] THEN path = NoPath
        ELSE /\ Len(path) = far + 1
             /\ path[1] = source /\ path[Len(path)] = target
             /\ \A i \in 1..far : OneHop(rows, path[i], path[i + 1], window)
             /\ (far > 0 /\ \E p \in NodesOf(rows) : onward(p) /\ hosted(p)) => hosted(path[2])

=============================================================================
