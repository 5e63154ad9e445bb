----------------------------- MODULE GraphCache -----------------------------
(***************************************************************************)
(* How the site gets the graph it answers path queries from                *)
(* (web/explorer/graph_service.py).  A command builds the graph from the   *)
(* database and uploads it as an artifact; every worker process of the web *)
(* server keeps one graph for a while, and a thread that finds it too old  *)
(* takes the worker's lock, downloads the artifact over the one file that  *)
(* the workers share, reads it, and builds from the database itself when   *)
(* either fails.  The database goes through versions, each a sequence of   *)
(* rows (the queries name no order).                                       *)
(***************************************************************************)
EXTENDS SixDegrees

CONSTANTS Worker,         \* the processes of the web server
          Thread,         \* the threads of all of them
          WorkerOf,       \* the worker a thread belongs to
          Versions,       \* per version of the database: [rows, episodes, orders they come in]
          CohostEpisodes, \* COHOST_EPISODE_THRESHOLD
          CohostShare,    \* one over COHOST_EPISODE_SHARE
          TTL,            \* DATABASE_GRAPH_CACHE_TTL_SECONDS, in ticks
          SortedNames, Normal, \* the names in order, and what each is normalised to
          Query,          \* the queries visitors send
          Uploads,        \* bound: the versions that an uploaded graph was read from
          MaxTime, MaxFaults, \* bounds
          None

VARIABLES db,        \* the version the database is at
          now,       \* the clock
          bucket,    \* the artifact in the bucket
          file,      \* the shared file: what its bytes may be, and who writes it
          cache,     \* per worker: the graph it keeps, since when
          lock,      \* per worker: the thread that holds its lock
          thread,    \* per thread: where it is and what it has read
          faults     \* counter of the bound

vars == <<db, now, bucket, file, cache, lock, thread, faults>>

ASSUME GraphCacheAssumption ==
    /\ WorkerOf \in [Thread -> Worker]
    /\ TTL \in Nat \ {0}
    /\ None \notin Thread \cup [linksAt : Nat, episodesAt : Nat, guestsAt : Nat, rows : Nat]
    /\ {CohostEpisodes, CohostShare, MaxTime, MaxFaults} \subseteq Nat

\* Every order of a version has just its rows, and every name is among the
\* sorted ones.
ASSUME DatabaseAssumption ==
    /\ Len(Versions) \in Nat \ {0} /\ DOMAIN Versions = 1..Len(Versions)
    /\ SortedNames \in Seq(ToSet(SortedNames))
    /\ \A v \in DOMAIN Versions :
          /\ \A r \in Versions[v].rows :
                /\ r.role \in {"host", "guest"} /\ r.date \in Nat /\ r.english \in BOOLEAN
                /\ r.person \in ToSet(SortedNames)
                /\ r.link \in ToSet(SortedNames) \cup {None}
          /\ \A order \in Versions[v].orders :
                order \in Seq(Versions[v].rows) /\ ToSet(order) = Versions[v].rows
    /\ \A query \in Query : query.window \in [start : Nat, end : Nat]

\* A graph is remembered by the versions it was read from.
Built(linksAt, episodesAt, guestsAt, rows) ==
    [linksAt |-> linksAt, episodesAt |-> episodesAt, guestsAt |-> guestsAt, rows |-> rows]

Idle == [pc |-> "idle", began |-> 0, read |-> Built(0, 0, 0, 0), graph |-> None,
         bytes |-> {}, whole |-> FALSE, floor |-> 0]

-----------------------------------------------------------------------------
(* Building the graph: four reads of the database, each of its own.        *)

UseCanonicalLinks(v) == \E r \in Versions[v].rows : r.link # None

\* The rows of a graph build, once names are linked only the linked ones.
GraphRows(v, canonical) ==
    IF canonical THEN {r \in Versions[v].rows : r.link # None} ELSE Versions[v].rows
EntityId(row, canonical) == IF canonical THEN row.link ELSE row.person

\* A podcast that was not there when the episodes were counted has none.
EpisodeCount(v, podcast) ==
    IF podcast \in DOMAIN Versions[v].episodes THEN Versions[v].episodes[podcast] ELSE 0

IsCohostCount(guestEpisodes, episodes) ==
    guestEpisodes > CohostEpisodes \/ guestEpisodes * CohostShare > episodes

\* The guests that appear so often that they count as hosts.
FrequentGuestCohostKeys(episodesAt, guestsAt, canonical) ==
    LET guests == {r \in GraphRows(guestsAt, canonical) : r.role = "guest"}
        key(r) == <<EntityId(r, canonical), r.podcast>>
    IN  {k \in {key(r) : r \in guests} :
            IsCohostCount(Cardinality({r.episode : r \in {g \in guests : key(g) = k}}),
                          EpisodeCount(episodesAt, k[2]))}

PromotedRole(row, canonical, keys) ==
    IF <<EntityId(row, canonical), row.podcast>> \in keys THEN "host" ELSE row.role

Canonical(built) == UseCanonicalLinks(built.linksAt)
KeysOf(built) == FrequentGuestCohostKeys(built.episodesAt, built.guestsAt, Canonical(built))

\* The rows a graph holds, as the build names them, whatever their order.
RowsIn(built) ==
    {[person |-> EntityId(r, Canonical(built)), podcast |-> r.podcast, date |-> r.date,
      role |-> PromotedRole(r, Canonical(built), KeysOf(built))] :
        r \in {s \in GraphRows(built.rows, Canonical(built)) : s.english}}

BuildDatabaseSixDegreesGraph(built, order) ==
    LET read  == Filtered(order, {r \in GraphRows(built.rows, Canonical(built)) : r.english})
        edges == [i \in 1..Len(read) |->
                    Edge(EntityId(read[i], Canonical(built)), read[i].podcast,
                         PromotedRole(read[i], Canonical(built), KeysOf(built)), read[i].date)]
    IN  SixDegreesGraph(edges, {EntityId(r, Canonical(built)) : r \in ToSet(read)})

-----------------------------------------------------------------------------
Init ==
    /\ db = 1 /\ now = 0
    /\ bucket \in {None, Built(1, 1, 1, 1)}
    /\ file = [bytes |-> {}, writers |-> {}, torn |-> FALSE]
    /\ cache = [w \in Worker |-> None]
    /\ lock = [w \in Worker |-> None]
    /\ thread = [t \in Thread |-> Idle]
    /\ faults = 0

\* The weekly pipeline brings the database to its next version.
DatabaseGrows ==
    /\ db < Len(Versions)
    /\ db' = db + 1
    /\ UNCHANGED <<now, bucket, file, cache, lock, thread, faults>>

Tick ==
    /\ now < MaxTime
    /\ now' = now + 1
    /\ UNCHANGED <<db, bucket, file, cache, lock, thread, faults>>

\* What the reads of a build can have found, one after the other and up to now.
ReadSoFar == {b \in [linksAt : 1..db, episodesAt : 1..db, guestsAt : 1..db, rows : 1..db] :
                b.linksAt <= b.episodesAt /\ b.episodesAt <= b.guestsAt /\ b.guestsAt <= b.rows}

Fetching == {"downloading", "load"}

\* build_six_degrees_graph_artifact read the database some time ago and uploads
\* now.  Any number of these commands are on their way, each as slow as it likes,
\* so that an older graph can land on a newer one; the upload replaces the object
\* in the bucket as a whole.  A load that is under way promises no more than that.
PublishGraphArtifact ==
    /\ \E built \in ReadSoFar \cap Uploads :
          /\ bucket' = built
          /\ thread' = [u \in Thread |->
                IF thread[u].pc \in Fetching /\ built.rows < thread[u].floor
                THEN [thread[u] EXCEPT !.floor = built.rows] ELSE thread[u]]
    /\ UNCHANGED <<db, now, file, cache, lock, faults>>

-----------------------------------------------------------------------------
(* A thread of the web server answers a path query.                        *)

CacheIsFresh(w) == cache[w] # None /\ now - cache[w].stamp < TTL

Goto(t, pc) == thread' = [thread EXCEPT ![t].pc = pc]

\* A request whose first look, without the lock, finds nothing or too old a graph.
\* One that finds a fresh graph answers with what the worker keeps and writes nothing.
Request(t) ==
    /\ thread[t].pc = "idle"
    /\ ~CacheIsFresh(WorkerOf[t])
    /\ Goto(t, "wait")
    /\ UNCHANGED <<db, now, bucket, file, cache, lock, faults>>

Release(t) == lock' = [lock EXCEPT ![WorkerOf[t]] = None]

\* Mutant: the lock is taken and the cache is not looked at again.
AcquireLockAndLoad(t) ==
    /\ thread[t].pc = "wait" /\ lock[WorkerOf[t]] = None
    /\ lock' = [lock EXCEPT ![WorkerOf[t]] = t]
    /\ thread' = [thread EXCEPT ![t].pc = "download", ![t].began = now]
    /\ UNCHANGED <<db, now, bucket, file, cache, faults>>

\* The second look, under the lock: only its holder writes the cache.
AcquireLock(t) ==
    /\ thread[t].pc = "wait" /\ lock[WorkerOf[t]] = None
    /\ \/ /\ CacheIsFresh(WorkerOf[t])
          /\ Goto(t, "idle")
          /\ UNCHANGED lock
       \/ /\ ~CacheIsFresh(WorkerOf[t])
          /\ lock' = [lock EXCEPT ![WorkerOf[t]] = t]
          /\ thread' = [thread EXCEPT ![t].pc = "download", ![t].began = now]
    /\ UNCHANGED <<db, now, bucket, file, cache, faults>>

-----------------------------------------------------------------------------
(* The artifact.                                                           *)

Downloads == {thread[u].graph : u \in file.writers}

\* The graph in the bucket when a download begins, or an older one that another
\* worker is still writing over the same file: no load promises more.
FloorOf(built) ==
    LET rows == {b.rows : b \in Downloads \cup {built}}
    IN  CHOOSE n \in rows : \A m \in rows : n <= m

\* The graph is kept from now on, not from when it was asked for, and answers.
StoreInCache(t, built) ==
    /\ cache' = [cache EXCEPT ![WorkerOf[t]] =
                    [stamp |-> now, graph |-> built]]
    /\ Release(t)
    /\ thread' = [thread EXCEPT ![t] = Idle]

\* Mutant: a file that is there is not downloaded again.
BeginDownloadOnce(t) ==
    /\ thread[t].pc = "download" /\ bucket # None
    /\ file' = IF file.bytes # {} THEN file
               ELSE [bytes |-> {bucket}, writers |-> file.writers \cup {t}, torn |-> FALSE]
    /\ thread' = [thread EXCEPT ![t].pc = "downloading", ![t].graph = bucket,
                                ![t].floor = FloorOf(bucket)]
    /\ UNCHANGED <<db, now, bucket, cache, lock, faults>>

\* The download opens the shared file for writing: whatever was in it is gone,
\* also for a worker that is reading it; who still writes to it goes on where it was.
BeginDownload(t) ==
    /\ thread[t].pc = "download" /\ bucket # None
    /\ file' = [bytes |-> Downloads \cup {bucket}, writers |-> file.writers \cup {t},
                torn |-> FALSE]
    /\ thread' = [u \in Thread |->
                    IF u = t THEN [thread[t] EXCEPT !.pc = "downloading", !.graph = bucket,
                                                    !.floor = FloorOf(bucket)]
                    ELSE IF thread[u].pc = "load"
                    THEN [thread[u] EXCEPT !.bytes = @ \cup {bucket}, !.whole = FALSE]
                    ELSE thread[u]]
    /\ UNCHANGED <<db, now, bucket, cache, lock, faults>>

\* The file is whole when one artifact was written to it and by nobody who is
\* still writing or broke off.
EndDownload(t) ==
    /\ thread[t].pc = "downloading"
    /\ file' = [file EXCEPT !.writers = @ \ {t}]
    /\ thread' = [thread EXCEPT ![t].pc = "load", ![t].graph = None, ![t].bytes = file.bytes,
                    ![t].whole = /\ file.writers \subseteq {t} /\ ~file.torn
                                 /\ Cardinality(file.bytes) = 1]
    /\ UNCHANGED <<db, now, bucket, cache, lock, faults>>

\* The writers that break off leave a hole for the others to write around.
BreakOff(writers) ==
    LET others == file.writers \ writers
    IN  file' = [bytes |-> IF file.writers # {} /\ others = {} THEN {} ELSE file.bytes,
                 writers |-> others,
                 torn |-> others # {} /\ (file.torn \/ others # file.writers)]

\* No artifact, or no connection: the file is left as it is and not read.
DownloadFails(t) ==
    /\ \/ thread[t].pc = "download" /\ (bucket = None \/ faults < MaxFaults)
       \/ thread[t].pc = "downloading" /\ faults < MaxFaults
    /\ faults' = IF thread[t].pc = "download" /\ bucket = None THEN faults ELSE faults + 1
    /\ BreakOff({t})
    /\ thread' = [thread EXCEPT ![t].pc = "links", ![t].graph = None, ![t].floor = 0]
    /\ UNCHANGED <<db, now, bucket, cache, lock>>

\* What is read is one of the artifacts written to the file meanwhile.  That the
\* bytes of two of them mixed, or of one with a hole, never read as a graph is
\* assumed: the load stops at the end of the pickle, before the file's checksum.
LoadGraphArtifact(t) ==
    /\ thread[t].pc = "load"
    /\ \E built \in thread[t].bytes : StoreInCache(t, built)
    /\ UNCHANGED <<db, now, bucket, file, faults>>

LoadFails(t) ==
    /\ thread[t].pc = "load" /\ ~thread[t].whole
    /\ thread' = [thread EXCEPT ![t].pc = "links", ![t].bytes = {}, ![t].floor = 0]
    /\ UNCHANGED <<db, now, bucket, file, cache, lock, faults>>

-----------------------------------------------------------------------------
(* The database, when there is no artifact to read.                        *)

ReadNext(t, pc, next, read) ==
    /\ thread[t].pc = pc
    /\ thread' = [thread EXCEPT ![t].pc = next, ![t].read = read]
    /\ UNCHANGED <<db, now, bucket, file, cache, lock, faults>>

\* Whether any name is linked to an entity, the episodes of every podcast, and
\* the episodes of every guest
ReadLinks(t) == ReadNext(t, "links", "episodes", [thread[t].read EXCEPT !.linksAt = db])
ReadEpisodes(t) == ReadNext(t, "episodes", "guests", [thread[t].read EXCEPT !.episodesAt = db])
ReadGuests(t) == ReadNext(t, "guests", "rows", [thread[t].read EXCEPT !.guestsAt = db])

ReadGraphRows(t) ==
    /\ thread[t].pc = "rows"
    /\ StoreInCache(t, [thread[t].read EXCEPT !.rows = db])
    /\ UNCHANGED <<db, now, bucket, file, faults>>

Reading == {"links", "episodes", "guests", "rows"}

\* Mutant: an error of the database leaves the lock taken.
BuildFailsLocked(t) ==
    /\ thread[t].pc \in Reading /\ faults < MaxFaults
    /\ faults' = faults + 1
    /\ thread' = [thread EXCEPT ![t] = Idle]
    /\ UNCHANGED <<db, now, bucket, file, cache, lock>>

\* An error of the database: the request fails and the lock is released.
BuildFails(t) ==
    /\ thread[t].pc \in Reading /\ faults < MaxFaults
    /\ faults' = faults + 1
    /\ thread' = [thread EXCEPT ![t] = Idle]
    /\ Release(t)
    /\ UNCHANGED <<db, now, bucket, file, cache>>

\* A worker is killed and started again: its requests, its lock and its graph
\* are gone, the file stays as far as it was written.
RestartWorker(w) ==
    /\ faults < MaxFaults
    /\ faults' = faults + 1
    /\ LET own == {t \in Thread : WorkerOf[t] = w}
       IN  /\ thread' = [t \in Thread |-> IF t \in own THEN Idle ELSE thread[t]]
           /\ BreakOff(own)
    /\ cache' = [cache EXCEPT ![w] = None]
    /\ lock' = [lock EXCEPT ![w] = None]
    /\ UNCHANGED <<db, now, bucket>>

-----------------------------------------------------------------------------
Step(t) ==
    \/ AcquireLock(t)
    \/ BeginDownload(t) \/ EndDownload(t) \/ DownloadFails(t)
    \/ LoadGraphArtifact(t) \/ LoadFails(t)
    \/ ReadLinks(t) \/ ReadEpisodes(t) \/ ReadGuests(t) \/ ReadGraphRows(t)
    \/ BuildFails(t)

Next ==
    \/ DatabaseGrows \/ Tick \/ PublishGraphArtifact
    \/ \E t \in Thread : Request(t) \/ Step(t)
    \/ \E w \in Worker : RestartWorker(w)

Spec == Init /\ [][Next]_vars

\* The threads of a worker that is up are run by the operating system, and the
\* clients of the bucket and of the database come back, with an error if need be.
FairSpec == Spec /\ \A t \in Thread : WF_vars(Step(t))

-----------------------------------------------------------------------------
(* Properties.                                                             *)

PossibleGraphs ==
    {Built(j, k, m, n) : j \in DOMAIN Versions, k \in DOMAIN Versions,
                         m \in DOMAIN Versions, n \in DOMAIN Versions}

Names(built) == {r.person : r \in RowsIn(built)}

\* Who a visitor may have meant: the name as typed, or one that reads the same
\* and does read as something.
Meant(built, text) ==
    IF text \in Names(built) THEN {text}
    ELSE {n \in Names(built) : Normal[n] = Normal[text] /\ Normal[n] # NoWords}

\* What is shown of a query holds of the rows the graph was built from.
AnswerHolds(built, query, edges, rows, answer) ==
    LET shown(i) == EdgeDateForWindow(
            CHOOSE e \in edges : {e.left, e.right} = {answer.path[i], answer.path[i + 1]},
            query.window)
    IN  CASE Names(built) = {} -> answer.missing = "every name" /\ ~answer.found
          [] Names(built) # {} /\ Meant(built, query.source) = {} ->
                answer.missing = "source" /\ ~answer.found
          [] /\ Names(built) # {} /\ Meant(built, query.source) # {}
             /\ Meant(built, query.target) = {} ->
                answer.missing = "target" /\ ~answer.found
          [] OTHER ->
                /\ answer.missing = "none"
                /\ \E a \in Meant(built, query.source), b \in Meant(built, query.target) :
                      RightPath(rows, a, b, query.window, answer.path)
                /\ \A i \in 1..(Len(answer.path) - 1) :
                      LET both == Together(rows, answer.path[i], answer.path[i + 1])
                      IN  shown(i) = IF Hosts(both) THEN NoDate
                                     ELSE LatestOf(MatchingDates(DatesOf(both), query.window))

RightAnswer(built, order, query) ==
    LET graph == BuildDatabaseSixDegreesGraph(built, order)
    IN  AnswerHolds(built, query, ToSet(graph.edges), RowsIn(built),
                    Explain(graph, query, SortedNames, Normal))

\* Per graph, the queries it answers wrongly if its rows came in some order.
WrongAnswers ==
    [built \in PossibleGraphs |->
        {q \in Query : \E order \in Versions[built.rows].orders : ~RightAnswer(built, order, q)}]

\* Whatever the order in which the database returned the rows, from whichever
\* of its versions the co-hosts and the rows were read (a co-host is a host of
\* the rows then), and by whichever way
\* the graph came to the worker: a path that is shown is a shortest one through
\* appearances inside the window, it is shown whenever there is one, and it
\* sets out from a podcast the source hosts if a shortest one can.
\* (SixDegreesGraph.explain, merge_edges, edge_matches_window)
AnswersArePaths ==
    \A w \in Worker : cache[w] # None => WrongAnswers[cache[w].graph] = {}

\* A graph that a worker gets to keep is no older than every artifact the bucket has
\* held since the download began that brought it, and every one another worker had
\* then begun and not finished to write over the same file, whatever was uploaded
\* meanwhile: what an earlier download left in the file never comes back.
\* (configured_six_degrees_graph_artifact, download_gcs_to_path)
AnswersAreRecent ==
    [][\A t \in Thread :
          LET kept == cache[WorkerOf[t]]' IN
          lock[WorkerOf[t]] = t /\ kept \notin {cache[WorkerOf[t]], None} =>
              kept.graph.rows >= thread[t].floor]_vars

\* Threads that find the graph too old together load it once: nobody loads
\* while what the worker keeps was fresh when it decided to, and two threads of
\* a worker never load at a time. (database_six_degrees_graph)
Loading == {"download"} \cup Fetching \cup Reading
OneLoadAtATime ==
    \A t \in Thread : thread[t].pc \in Loading =>
        LET kept == cache[WorkerOf[t]]
        IN  /\ kept = None \/ thread[t].began - kept.stamp >= TTL
            /\ \A u \in Thread \ {t} :
                  WorkerOf[u] = WorkerOf[t] => thread[u].pc \notin Loading

\* Every request comes to an end, with an answer or an error, whatever fails
\* while another thread of the worker holds the lock.
EveryRequestIsAnswered == \A t \in Thread : thread[t].pc # "idle" ~> thread[t].pc = "idle"

=============================================================================
