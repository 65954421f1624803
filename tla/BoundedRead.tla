---------------------------- MODULE BoundedRead -----------------------------
(***************************************************************************)
(* One bounded read: at most max_items items within max_bytes, and a mark  *)
(* that says whether there were more.  The methods of the adapters differ  *)
(* in how they get the items of a listing out of a server:                 *)
(*   rows      come one by one until the client stops;                     *)
(*   scans     are Redis cursors, which may return an item twice;          *)
(*   pages     go by page number (RabbitMQ) or by offset (JetStream);      *)
(*   catalogs  come in one answer, of which n + 1 items are looked at;     *)
(*   schemas   come in two answers, the columns and then the indexes;      *)
(* details, hits, single values, Kafka's lag and time series come in one   *)
(* answer; watermarks come partition by partition, the lag of Redis groups *)
(* stream by stream after a scan of them;                                  *)
(* subscriptions collect messages that nobody acknowledges; an export reads*)
(* the keys of a scan one by one.  Meanwhile other clients add and remove  *)
(* items.                                                                  *)
(*                                                                         *)
(* A method that limits the items only has a budget of MaxUsize bytes.  The*)
(* order of a list is left out: some are sorted before the last of n + 1   *)
(* items is dropped, others afterwards.                                    *)
(***************************************************************************)
EXTENDS FiniteSets, Limiters, HttpAnswer, SequencesExt

CONSTANTS
  Names,         \* what is listed: rows, keys, queues, ...
  Hidden,        \* what some methods pass over: keyspaces of the system, streams and
                 \* partitions without the group that is asked for
  SizeOf,        \* the bytes of each
  ReadBudgets,   \* what callers ask for
  MaxMessage,    \* max_message_bytes of a consumer
  PageMax,       \* how many items a page holds at most
  MaxCursor,     \* the cursors a Redis server uses, a bound
  MaxGroups,     \* the consumer groups of a stream, a bound
  MaxEdits,      \* additions and removals during one read, a bound
  SeriesAnswers, \* answers to a range query
  SeriesBudgets  \* [max_series, max_samples, max_bytes]

ASSUME BoundedReadAssumption ==
  /\ IsFiniteSet(Names) /\ SizeOf \in [Names -> Nat] /\ Hidden \subseteq Names
  /\ Cardinality(Names) < MaxUsize  \* what fits into memory
  /\ \A b \in ReadBudgets : b.max_items \in Nat /\ b.max_bytes \in Nat
  /\ SeriesAnswers \subseteq Seq([bytes : Nat, samples : Seq([bytes : Nat])])
  /\ \A b \in SeriesBudgets : b.max_series \in Nat /\ b.max_samples \in Nat /\ b.max_bytes \in Nat
  /\ MaxMessage \in Nat /\ PageMax \in Nat \ {0} /\ MaxCursor \in Nat
  /\ MaxGroups \in Nat /\ MaxEdits \in Nat

VARIABLES
  how,       \* how the method gets its items
  budget,    \* what it was asked for
  phase,     \* idle, reading, closing the connection, exporting what was listed,
             \* inspecting it, over
  listing,   \* what the server has, in its order
  unread,    \* what the server has still to send for this query, or the export or the
             \* inspection to read
  socket,    \* a pooled connection or temporary consumer: "pool", "held", "retired"
  tally,     \* the ReadLimiter
  kept,      \* the items in front of the probe
  cursor,    \* the cursor, page number or offset of the next request, or how many
             \* streams and groups were inspected
  cursors,   \* the cursors a scan has seen, the totals of a paged catalog
  returned,  \* what the server has returned so far
  always,    \* history variables: what was there all the time since the read
  ever,      \*   began, what was there at some time,
  shrunk,    \*   whether something was removed,
  edits,     \*   and how often the listing was changed
  series,    \* the answer to a range query
  table,     \* the series shown
  result     \* what the caller gets

readVars == <<how, budget, phase, listing, unread, socket, tally, kept, cursor, cursors,
              returned, always, ever, shrunk, edits, series, table, result>>
asked_for == <<how, budget>>
history   == <<listing, always, ever, shrunk, edits>>
traversal == <<cursor, cursors, returned>>
ranges    == <<series, table>>

\* A method: what it reads by; whether it holds a pooled connection or a consumer of
\* its own; when the names of columns are charged; at which ends it closes the
\* connection; whether rows are fixed page by page; whether it passes over Hidden; the
\* HTTP client, if it has one; whether it knows no limits at all.
By(kind) == [by |-> kind, holds |-> FALSE, header |-> "none", closes |-> {}, live |-> FALSE,
             hides |-> FALSE, http |-> "none", whole |-> FALSE]
Methods  == [by : {"rows", "keys", "topics", "export", "queues", "streams", "stream_lag",
                   "catalog", "schema", "partition_lag", "group_lag", "detail", "watermarks",
                   "hits", "value", "messages", "series"},
             holds : BOOLEAN, header : {"none", "row", "answer"},
             closes : SUBSET {"probe", "end"}, live : BOOLEAN, hides : BOOLEAN,
             http : Clients \cup {"none"}, whole : BOOLEAN]
Scans    == {"keys", "topics", "export"}
Pages    == {"queues", "streams", "stream_lag"}
Changing == Scans \cup Pages \cup {"schema", "group_lag"}  \* takes more than one request
Working  == {"reading", "exporting", "inspecting"}

Listings == SetToAllKPermutations(Names)
\* The names of a list that are in a set.
Among(names, set) ==
  LET among[i \in 0..Len(names)] ==
        IF i = 0 THEN <<>>
        ELSE IF names[i] \in set THEN Append(among[i - 1], names[i]) ELSE among[i - 1]
  IN among[Len(names)]

Rows(names) == [i \in DOMAIN names |-> [name |-> names[i], bytes |-> SizeOf[names[i]]]]
Visible(names) == IF how.hides THEN names \ Hidden ELSE names
NoResult    == [kind |-> "none", items |-> <<>>, truncated |-> FALSE]
Failed      == [NoResult EXCEPT !.kind = "Failed"]
Dropped     == [NoResult EXCEPT !.kind = "Dropped"]
Unlimited   == [max_items |-> 1, max_bytes |-> MaxUsize]

ReadInit ==
  /\ how = By("catalog") /\ budget = Unlimited /\ phase = "idle"
  /\ listing = <<>> /\ unread = <<>> /\ socket = "pool"
  /\ tally = ReadLimiter /\ kept = <<>>
  /\ cursor = 0 /\ cursors = {} /\ returned = {}
  /\ always = {} /\ ever = {} /\ shrunk = FALSE /\ edits = 0
  /\ series = <<>> /\ table = <<>> /\ result = NoResult
-----------------------------------------------------------------------------
(* What all methods share *)

\* Most methods exist twice, with a limit of items and with a limit of bytes as well.
Budgeted(b)  == b.max_bytes # MaxUsize
Limited(b)   == IF Budgeted(b) THEN ValidReadBudget(b) ELSE ProbeLimit(b.max_items)

\* An invalid limit costs no connection.
Read(method, b) ==
  /\ phase = "idle"
  /\ how' = method /\ budget' = b
  /\ listing' \in Listings
  /\ always' = Range(listing') /\ ever' = Range(listing')
  /\ LET starts == method.whole \/ Limited(b) IN
     /\ IF starts THEN phase' = "reading" /\ result' = result
                  ELSE phase' = "over" /\ result' = Failed
     /\ unread' = IF starts /\ method.by \in {"rows", "messages", "schema", "watermarks"}
                  THEN listing' ELSE <<>>
     /\ socket' = IF starts /\ method.holds THEN "held" ELSE socket
  /\ cursor' = IF method.by = "queues" THEN 1 ELSE 0
  /\ UNCHANGED <<tally, kept, cursors, returned, shrunk, edits, ranges>>

\* The older methods without any limit return all there is.
Boundless         == [max_items |-> MaxUsize, max_bytes |-> MaxUsize]
ReadWhole(method) == Read([method EXCEPT !.whole = TRUE], Boundless)

\* ReadLimiter::finish: the list with its mark, or an error.
Finished(limiter, names) ==
  IF Finishes(limiter, budget, Rows(names))
  THEN [kind |-> "List", items |-> names, truncated |-> limiter.truncated]
  ELSE Failed

EndWith(answer) ==
  /\ phase' = "over" /\ result' = answer
  /\ UNCHANGED <<asked_for, history, unread, socket, tally, kept, traversal, ranges>>

\* ResponseBodyLimit: a budget of the caller limits the body of a search answer.
SearchLimit == AtMost(budget.max_bytes, BodyLimit)

\* request_json, request_json_budgeted, get_json: what comes instead of a value of
\* this size.
Transport(bytes) ==
  CASE how.http = "none"   -> {"whole"}
    [] how.http = "search" -> Answers("search", SearchLimit, 200, bytes)
    [] OTHER               -> Answers(how.http, BodyLimit, 200, bytes)

\* Any request can fail.
ReadFails ==
  /\ phase \in Working /\ how.by # "rows" /\ ~how.holds
  /\ EndWith(Failed)

\* FlowControl drops the call; an unread stream goes back to its pool as it is.
ReadDropped ==
  /\ phase \in Working \cup {"closing"}
  /\ phase' = "over" /\ result' = Dropped
  /\ socket' = IF socket = "held" /\ how.by = "rows" THEN "pool" ELSE socket
  /\ UNCHANGED <<asked_for, history, unread, tally, kept, traversal, ranges>>
-----------------------------------------------------------------------------
(* Rows and documents *)

Query(header, closes) == [By("rows") EXCEPT !.header = header, !.closes = closes]
PooledQuery           == [Query("row", {"probe"}) EXCEPT !.holds = TRUE]
Paged(header)         == [Query(header, {}) EXCEPT !.live = TRUE]

SqliteQuery(b)          == Read(Query("row", {}), b)
MySqlQuery(b)           == Read(PooledQuery, b)
PostgresQuery(b)        == Read(PooledQuery, b)
\* A connection of its own for every query, closed at either end.
SqlServerQuery(b)       == Read(Query("answer", {"probe", "end"}), b)
\* A blocking worker with a connection of its own.
Db2QueryBounded(b)      == ~Budgeted(b) /\ Read(Query("none", {}), b)
Db2QueryBudgeted(b)     == Budgeted(b) /\ Read(Query("answer", {}), b)
CassandraRowsBounded(b) == ~Budgeted(b) /\ Read(Paged("none"), b)
CassandraQuery(b)       == Budgeted(b) /\ Read(Paged("answer"), b)
MongoFind(b)            == Budgeted(b) /\ Read(Paged("none"), b)
MongoAggregate(b)       == Budgeted(b) /\ Read(Paged("none"), b)
MongoCollections(b)     == Read(Paged("none"), b)
CassandraKeyspaces(b)   == Read(Paged("none"), b)
\* Without a keyspace of its own, a connection shows no tables of the system.
CassandraTables(b)      == Read([Paged("none") EXCEPT !.hides = TRUE], b)

\* The names of the columns are charged once, before the first row.
Charged(limiter) ==
  IF Budgeted(budget) /\ limiter.observed = 0 /\ how.header # "none"
  THEN ObserveHeader(limiter, budget, Overhead) ELSE limiter

\* close_on_drop: an error leaves the rest of the rows unread.
Retired == IF socket = "held" THEN "retired" ELSE socket

\* The next row is charged and kept, or it is the probe, and the client stops.
FetchRow ==
  /\ phase = "reading" /\ how.by = "rows" /\ unread # <<>>
  /\ LET row  == Head(unread)
         next == IF row \notin Visible({row}) THEN tally
                 ELSE ObserveItem(Charged(tally), budget, SizeOf[row])
         shown == kept \o IF row \notin Visible({row}) \/ next.failed \/ next.truncated
                          THEN <<>> ELSE <<row>>
     IN /\ tally' = next /\ unread' = Tail(unread) /\ kept' = shown
        /\ \/ ~next.failed /\ ~next.truncated
              /\ UNCHANGED <<phase, result, socket>>
           \/ next.failed
              /\ phase' = "over" /\ result' = Failed /\ socket' = Retired
           \/ next.truncated /\ ~next.failed /\ "probe" \in how.closes
              /\ phase' = "closing" /\ UNCHANGED <<result, socket>>
           \/ next.truncated /\ ~next.failed /\ "probe" \notin how.closes
              /\ phase' = "over" /\ result' = Finished(next, shown) /\ UNCHANGED socket
  /\ UNCHANGED <<asked_for, history, traversal, ranges>>

\* A protocol error or a value that cannot be decoded.
FetchFails ==
  /\ phase = "reading" /\ how.by = "rows"
  /\ phase' = "over" /\ result' = Failed /\ socket' = Retired
  /\ UNCHANGED <<asked_for, history, unread, tally, kept, traversal, ranges>>

\* The last row was read: the connection can be used again.
FetchEnds ==
  /\ phase = "reading" /\ how.by = "rows" /\ unread = <<>>
  /\ tally' = IF how.header = "answer" THEN Charged(tally) ELSE tally
  /\ IF "end" \in how.closes THEN phase' = "closing" /\ result' = result
     ELSE phase' = "over" /\ result' = Finished(tally', kept)
  /\ socket' = IF socket = "held" THEN "pool" ELSE socket
  /\ UNCHANGED <<asked_for, history, unread, kept, traversal, ranges>>

\* Faulty variant: the connection goes back to its pool after the probe.
CloseStreamByDrop ==
  /\ phase = "closing" /\ how.by = "rows"
  /\ phase' = "over" /\ result' = Finished(tally, kept)
  /\ socket' = IF socket = "held" THEN "pool" ELSE socket
  /\ UNCHANGED <<asked_for, history, unread, tally, kept, traversal, ranges>>

\* The connection is closed; to fail there loses the list.
CloseStream ==
  /\ phase = "closing" /\ how.by = "rows"
  /\ phase' = "over" /\ result' \in {Finished(tally, kept), Failed}
  /\ socket' = Retired
  /\ UNCHANGED <<asked_for, history, unread, tally, kept, traversal, ranges>>
-----------------------------------------------------------------------------
(* Subscriptions, and reads of messages that keep no place at the broker *)

RedisPubSub(b)   == Read(By("messages"), b)
NatsCore(b)      == Read(By("messages"), b)
RskafkaFetch(b)  == Read(By("messages"), b)
RdkafkaAssign(b) == Read(By("messages"), b)
RedisStream(b)   == Read(By("messages"), b)
\* The read creates a consumer for itself.
NatsStateless(b) == Read([By("messages") EXCEPT !.holds = TRUE], b)

Messages(limiter, names) ==
  IF limiter.failed THEN Failed
  ELSE [Finished(limiter, names) EXCEPT !.kind = IF @ = "List" THEN "Messages" ELSE @]

\* A temporary consumer is deleted before the caller hears of anything.
Leave(limiter, names) ==
  IF how.holds THEN phase' = "closing" /\ result' = result
               ELSE phase' = "over" /\ result' = Messages(limiter, names)

\* MessageReadLimiter::observe: the message alone, then the batch.  One that does
\* not fit fails the call, with the messages in front of it.
Receive ==
  /\ phase = "reading" /\ how.by = "messages"
  /\ unread # <<>> /\ Len(kept) < budget.max_items
  /\ LET bytes == SizeOf[Head(unread)]
         next  == IF Measured(bytes, MaxMessage) THEN ObserveItem(tally, budget, bytes)
                                                 ELSE Refused(tally)
     IN /\ tally' = next /\ unread' = Tail(unread)
        /\ kept' = IF next.failed THEN kept ELSE Append(kept, Head(unread))
        /\ IF next.failed THEN Leave(next, kept) ELSE phase' = phase /\ result' = result
  /\ UNCHANGED <<asked_for, history, socket, traversal, ranges>>

\* There are enough messages, or the time is over.
ReceiveEnds ==
  /\ phase = "reading" /\ how.by = "messages"
  /\ Leave(tally, kept)
  /\ UNCHANGED <<asked_for, history, unread, socket, tally, kept, traversal, ranges>>

\* A pull that fails leaves its consumer to be deleted.
PullFails ==
  /\ phase = "reading" /\ how.by = "messages" /\ how.holds
  /\ tally' = Refused(tally) /\ Leave(tally', kept)
  /\ UNCHANGED <<asked_for, history, unread, socket, kept, traversal, ranges>>

\* finish_temporary_consumer: messages and a consumer that stays are an error.
DeleteConsumer ==
  /\ phase = "closing" /\ how.by = "messages"
  /\ phase' = "over"
  /\ \/ socket' = socket /\ result' = Failed
     \/ socket' = "retired" /\ result' = Messages(tally, kept)
  /\ UNCHANGED <<asked_for, history, unread, tally, kept, traversal, ranges>>
-----------------------------------------------------------------------------
(* Scans *)

RedisScan(b)   == Budgeted(b) /\ Read(By("keys"), b)
RedisTopics(b) == Read(By("topics"), b)
\* run_export of keys: a scan, and then every key for itself.
KvExport(b)    == Budgeted(b) /\ Read(By("export"), b)

\* The new items of a page are observed in their order, up to the probe.
Observed(page) ==
  LET read[i \in 0..Len(page)] ==
        IF i = 0 THEN [tally |-> tally, kept |-> kept]
        ELSE LET before == read[i - 1]
                 next   == ObserveItem(before.tally, budget, SizeOf[page[i]])
             IN IF \/ before.tally.failed \/ before.tally.truncated
                   \/ page[i] \in Range(before.kept)
                THEN before
                ELSE [tally |-> next,
                      kept |-> IF next.failed \/ next.truncated THEN before.kept
                               ELSE Append(before.kept, page[i])]
  IN read[Len(page)]

\* The list is complete; an export starts to read the keys in it.
Listed(limiter, names) ==
  /\ result' = Finished(limiter, names)
  /\ IF how.by = "export" /\ result' # Failed
     THEN phase' = "exporting" /\ unread' = names /\ tally' = ReadLimiter /\ kept' = <<>>
     ELSE phase' = "over" /\ unread' = unread /\ tally' = limiter /\ kept' = names

\* The traversal goes on at `next`, ends, or fails.
Traverse(page, fails, ends, next) ==
  LET read == Observed(page) IN
  /\ \/ /\ read.tally.failed \/ fails
        /\ phase' = "over" /\ result' = Failed
        /\ UNCHANGED <<unread, tally, kept>>
     \/ /\ ~read.tally.failed /\ ~fails /\ (read.tally.truncated \/ ends)
        /\ Listed(read.tally, read.kept)
     \/ /\ ~read.tally.failed /\ ~fails /\ ~read.tally.truncated /\ ~ends
        /\ tally' = read.tally /\ kept' = read.kept
        /\ UNCHANGED <<phase, result, unread>>
  /\ cursor' = next
  /\ UNCHANGED <<asked_for, history, socket, ranges>>

\* The server may return anything that is there, again and in any order, and a
\* cursor it has used; it says 0 only after everything that was there all the time.
ScanPages == UNION {SetToSeqs(p) : p \in {q \in SUBSET Range(listing) : Cardinality(q) <= PageMax}}
Completes(page, next) ==
  next = 0 => always \subseteq returned \cup Range(page)

\* Faulty variant: a repeated cursor is followed.
ScanPageForever ==
  /\ phase = "reading" /\ how.by \in Scans
  /\ \E page \in ScanPages, next \in 0..MaxCursor :
       /\ Completes(page, next)
       /\ Traverse(page, FALSE, next = 0, next)
       /\ cursors' = cursors \cup {next} /\ returned' = returned \cup Range(page)

\* A page of keys that was cut off is an error unless the probe is in it; so are a
\* repeated cursor and an envelope without a byte left.
KeyPageFails(read, next, overflow) ==
  /\ ~read.truncated
  /\ overflow \/ (next # 0 /\ (next \in cursors \/ read.bytes = budget.max_bytes))

\* The script of the streams returns whole pages or an error.
TopicPageFails(read, next, overflow) ==
  overflow \/ (~read.truncated /\ next # 0 /\ next \in cursors)

ScanPage ==
  /\ phase = "reading" /\ how.by \in Scans
  /\ \E page \in ScanPages, next \in 0..MaxCursor, overflow \in BOOLEAN :
       /\ overflow \/ Completes(page, next)
       /\ LET read == Observed(page).tally IN
          Traverse(page,
                   IF how.by = "topics" THEN TopicPageFails(read, next, overflow)
                                        ELSE KeyPageFails(read, next, overflow),
                   next = 0, next)
       /\ cursors' = cursors \cup {next} /\ returned' = returned \cup Range(page)

\* The next key of the list is read, unless it is gone.
ExportEntry ==
  /\ phase = "exporting" /\ unread # <<>> /\ unread' = Tail(unread)
  /\ LET entry == Among(<<Head(unread)>>, Range(listing))
         read  == ReadAll(tally, budget, Rows(entry))
     IN IF read.limiter.failed \/ ~FinishesScalar([budget EXCEPT !.max_items = 1], Rows(entry))
        THEN phase' = "over" /\ result' = Failed /\ UNCHANGED <<tally, kept>>
        ELSE tally' = read.limiter /\ kept' = kept \o entry /\ UNCHANGED <<phase, result>>
  /\ UNCHANGED <<asked_for, history, socket, traversal, ranges>>

\* artifact_integrity: complete unless the scan was truncated or a key is gone.
ExportEnds ==
  /\ phase = "exporting" /\ unread = <<>>
  /\ EndWith(IF Finishes(tally, budget, Rows(kept))
             THEN [kind |-> "Artifact", items |-> kept,
                   truncated |-> result.truncated \/ Len(kept) # Len(result.items)]
             ELSE Failed)
-----------------------------------------------------------------------------
(* The lag of a group: a scan of the streams, then the groups of each *)

GroupLag           == [By("group_lag") EXCEPT !.hides = TRUE]
RedisLag(b)        == Budgeted(b) /\ Read(GroupLag, b)
RedisLagUnbounded  == ReadWhole(GroupLag)

Exact(names) == [kind |-> "Exact", items |-> names, truncated |-> FALSE]

\* metadata_work_probe; without a limit, there is no probe.
WorkProbe == IF how.whole THEN budget.max_items ELSE Probe(budget.max_items)

\* scan_stream_topics: names without a limit of bytes, up to the probe.
GroupLagPage ==
  /\ phase = "reading" /\ how.by = "group_lag"
  /\ \E page \in ScanPages, next \in 0..MaxCursor, overflow \in BOOLEAN :
       /\ overflow \/ Completes(page, next)
       /\ LET new   == Among(page, Names \ Range(kept))
              names == kept \o SubSeq(new, 1, AtMost(WorkProbe - Len(kept), Len(new)))
              ends  == next = 0 \/ Len(names) = WorkProbe
          IN \/ /\ overflow \/ (~ends /\ next \in cursors)
                /\ phase' = "over" /\ result' = Failed /\ UNCHANGED <<unread, kept, cursor>>
             \/ /\ ~overflow /\ ~ends /\ next \notin cursors
                /\ kept' = names /\ cursor' = next /\ UNCHANGED <<phase, result, unread>>
             \/ /\ ~overflow /\ ends
                /\ phase' = "inspecting" /\ unread' = names /\ kept' = <<>> /\ cursor' = 0
                /\ UNCHANGED result
       /\ cursors' = cursors \cup {next} /\ returned' = returned \cup Range(page)
  /\ UNCHANGED <<asked_for, history, socket, tally, ranges>>

\* A script looks at the groups of a stream up to the one that is asked for, or to
\* the probe, which it reports with the status -1.
GroupScans(has, probe) ==
  {[status |-> IF n >= probe THEN -1 ELSE Cardinality(has), inspected |-> AtMost(n, probe)] :
     n \in Cardinality(has)..MaxGroups}

\* observe_metadata_work
WorkFits(work) == work <= budget.max_items

\* Every stream and every group that is looked at counts as work.  A stream that is
\* gone is an error.
GroupLagStream ==
  /\ phase = "inspecting" /\ unread # <<>>
  /\ \E scan \in GroupScans(Visible({Head(unread)}), budget.max_items - cursor) :
       LET lags  == kept \o IF scan.status = 1 THEN <<Head(unread)>> ELSE <<>>
           work  == cursor + 1 + scan.inspected
           fails == \/ Head(unread) \notin Range(listing) \/ ~WorkFits(work) \/ scan.status = -1
                    \/ BytesOf(Rows(lags)) > budget.max_bytes
       IN IF fails THEN phase' = "over" /\ result' = Failed /\ UNCHANGED <<unread, kept, cursor>>
          ELSE /\ unread' = Tail(unread) /\ kept' = lags /\ cursor' = work
               /\ UNCHANGED <<phase, result>>
  /\ UNCHANGED <<asked_for, history, socket, tally, cursors, returned, ranges>>

GroupLagEnds ==
  /\ phase = "inspecting" /\ unread = <<>>
  /\ EndWith(IF MetadataFits(budget, Rows(kept)) THEN Exact(kept) ELSE Failed)
-----------------------------------------------------------------------------
(* Pages *)

ManagementQueues(b) == Read([By("queues") EXCEPT !.http = "management"], b)
NatsStreams(b)      == Read(By("streams"), b)
NatsLag(b)          == Budgeted(b) /\ Read([By("stream_lag") EXCEPT !.hides = TRUE], b)

\* The page size stays what it was on the first page.
PageSize  == AtMost(Probe(budget.max_items), PageMax)
PageCount == (Len(listing) + PageSize - 1) \div PageSize
From(offset, size) == SubSeq(listing, offset + 1, AtMost(offset + size, Len(listing)))
Repeats(page, names) == Range(page) \cap names # {}

\* parse_queue_page: what cannot be the page that was asked for.
NotThePage(page) ==
  \/ PageCount # 0 /\ cursor > PageCount
  \/ cursor < PageCount /\ Len(page) # PageSize

\* A queue that comes again, because one was created before it, is an error: the
\* listing has moved.
ManagementPage ==
  /\ phase = "reading" /\ how.by = "queues"
  /\ LET page   == From((cursor - 1) * PageSize, PageSize)
         taken  == SubSeq(page, 1, AtMost(Probe(budget.max_items) - tally.observed, Len(page)))
     IN \E answer \in Transport(WholeOf(Rows(page))) :
        Traverse(taken,
                 ~Value(answer) \/ NotThePage(page) \/ Repeats(taken, Range(kept)),
                 cursor >= PageCount, cursor + 1)
  /\ UNCHANGED <<cursors, returned>>

\* The client library asks for the next offset until it has the reported total.
NatsPage ==
  /\ phase = "reading" /\ how.by = "streams"
  /\ LET page  == From(cursor, PageMax)
         taken == SubSeq(page, 1, AtMost(Probe(budget.max_items) - tally.observed, Len(page)))
     IN Traverse(taken, Repeats(taken, Range(kept)),
                 cursor + Len(page) >= Len(listing), cursor + Len(page))
  /\ UNCHANGED <<cursors, returned>>

\* The lag of a group: all pages must report the same total, and every stream counts
\* as work whether the group is there or not.
NatsLagPage ==
  /\ phase = "reading" /\ how.by = "stream_lag"
  /\ LET page  == From(cursor, PageMax)
         known == Among(page, Visible(Names))
         lags  == kept \o known
         ends  == cursor >= Len(listing)
         fails == \/ cursors # {} /\ Len(listing) \notin cursors
                  \/ Repeats(page, returned)
                  \/ Cardinality(returned) + Len(page) > budget.max_items
                  \/ BytesOf(Rows(lags)) > budget.max_bytes
                  \/ ends /\ ~MetadataFits(budget, Rows(lags))
     IN /\ kept' = lags /\ cursor' = cursor + Len(page)
        /\ cursors' = cursors \cup {Len(listing)} /\ returned' = returned \cup Range(page)
        /\ phase' = IF fails \/ ends THEN "over" ELSE phase
        /\ result' = IF fails THEN Failed
                     ELSE IF ends THEN Exact(lags)
                     ELSE result
  /\ UNCHANGED <<asked_for, history, unread, socket, tally, ranges>>
-----------------------------------------------------------------------------
(* One answer *)

SqliteSchemas(b)    == Read(By("catalog"), b)
SqliteTables(b)     == Read(By("catalog"), b)
MySqlSchemas(b)     == Read(By("catalog"), b)
MySqlTables(b)      == Read(By("catalog"), b)
PostgresSchemas(b)  == Read(By("catalog"), b)
PostgresTables(b)   == Read(By("catalog"), b)
RedshiftTables(b)   == ~Budgeted(b) /\ Read(By("catalog"), b)
SqlServerSchemas(b) == Read(By("catalog"), b)
SqlServerTables(b)  == Read(By("catalog"), b)
Db2Schemas(b)       == Read(By("catalog"), b)
Db2Tables(b)        == Read(By("catalog"), b)
Db2Sequences(b)     == Read(By("catalog"), b)
Db2Routines(b)      == Read(By("catalog"), b)
Db2Tablespaces(b)   == Read(By("catalog"), b)
RdkafkaTopics(b)    == Read(By("catalog"), b)
RskafkaTopics(b)    == Read(By("catalog"), b)
PrometheusNames(b)  == Read([By("catalog") EXCEPT !.http = "prometheus"], b)
SearchIndices(b)    == Read([By("catalog") EXCEPT !.http = "search"], b)

Taken(all) == SubSeq(all, 1, AtMost(Probe(budget.max_items), Len(all)))

\* Search sends the names of all indices, the others no more than n + 1.
Listing == IF how.http = "search" THEN listing ELSE Taken(listing)

\* LIMIT n + 1, ?limit=n+1 or the whole catalog: n + 1 items are looked at.
CatalogAnswer ==
  /\ phase = "reading" /\ how.by = "catalog" /\ Budgeted(budget)
  /\ \E answer \in Transport(WholeOf(Rows(Listing))) :
       LET read  == ReadAll(ReadLimiter, budget, Rows(Taken(listing)))
           names == [i \in DOMAIN read.kept |-> read.kept[i].name]
       IN EndWith(IF Value(answer) THEN Finished(read.limiter, names) ELSE Failed)

\* The same without a limit of bytes: ListLimiter.
CatalogList ==
  /\ phase = "reading" /\ how.by = "catalog" /\ ~Budgeted(budget)
  /\ \E answer \in Transport(WholeOf(Rows(Listing))) :
       LET list == FinishList(Taken(listing), budget.max_items) IN
       EndWith(IF Value(answer)
               THEN [kind |-> "List", items |-> list.items, truncated |-> list.truncated]
               ELSE Failed)

SearchQuery(b) == Budgeted(b) /\ Read([By("hits") EXCEPT !.http = "search"], b)

\* The server is asked for max_items hits and may return more all the same.
SearchAnswer ==
  /\ phase = "reading" /\ how.by = "hits"
  /\ \E hits \in {SubSeq(listing, 1, n) : n \in 0..Len(listing)} :
       \E answer \in Transport(WholeOf(Rows(hits))) :
         EndWith(IF Value(answer) /\ SearchApplies(budget, Rows(hits))
                 THEN [kind |-> "Hits", items |-> hits, truncated |-> FALSE] ELSE Failed)

RedisGet(b)           == Budgeted(b) /\ Read(By("value"), b)
RedisGetWithExpiry(b) == Budgeted(b) /\ Read(By("value"), b)
SearchGet(b)          == Budgeted(b) /\ Read([By("value") EXCEPT !.http = "search"], b)

\* A script returns a sentinel instead of a value beyond max_bytes.
ValueAnswer ==
  /\ phase = "reading" /\ how.by = "value" /\ how.http = "none"
  /\ LET value == SubSeq(listing, 1, AtMost(1, Len(listing)))
         sent  == \A i \in DOMAIN value : SizeOf[value[i]] <= budget.max_bytes
     IN EndWith(IF sent /\ FinishesScalar(budget, Rows(value))
                THEN [kind |-> "Value", items |-> value, truncated |-> FALSE] ELSE Failed)

\* request_json_optional_budgeted: no document is an answer, nothing is not.
DocumentAnswer ==
  /\ phase = "reading" /\ how.by = "value" /\ how.http = "search"
  /\ LET found  == SubSeq(listing, 1, AtMost(1, Len(listing)))
         status == IF found = <<>> THEN 404 ELSE 200
     IN \E answer \in Answers("search", SearchLimit, status, WholeOf(Rows(found))) :
          EndWith(IF (answer = "absent" \/ Value(answer)) /\ FinishesScalar(budget, Rows(found))
                  THEN [kind |-> "Value", items |-> found, truncated |-> FALSE] ELSE Failed)

PartitionLag      == [By("partition_lag") EXCEPT !.hides = TRUE]
KafkaLag(b)       == Budgeted(b) /\ Read(PartitionLag, b)
KafkaLagUnbounded == ReadWhole(PartitionLag)

\* Every partition counts as work, those with a committed offset are shown.
PartitionLags ==
  /\ phase = "reading" /\ how.by = "partition_lag"
  /\ LET lags == Among(listing, Visible(Names)) IN
     EndWith(IF Len(listing) <= budget.max_items /\ MetadataFits(budget, Rows(lags))
             THEN Exact(lags) ELSE Failed)

\* A detail is a list of settings, subjects and watermarks.
Managed                == [By("detail") EXCEPT !.http = "management"]
RedisStreamDetail(b)   == Budgeted(b) /\ Read(By("detail"), b)
RedisPubSubDetail(b)   == Budgeted(b) /\ Read(By("detail"), b)
NatsDetail(b)          == Budgeted(b) /\ Read(By("detail"), b)
AmqpDetail(b)          == Budgeted(b) /\ Read(By("detail"), b)
ManagementDetail(b)    == Budgeted(b) /\ Read(Managed, b)
StreamDetailUnbounded  == ReadWhole(By("detail"))
NatsDetailUnbounded    == ReadWhole(By("detail"))
AmqpDetailUnbounded    == ReadWhole(By("detail"))
ManagementDetailUnbounded == ReadWhole(Managed)

\* What is not there, or is no stream, has no detail.
Inspectable == listing # <<>>

\* enforce_topic_detail_budget: a detail is shown as a whole or not at all.
DetailAnswer ==
  /\ phase = "reading" /\ how.by = "detail"
  /\ \E answer \in Transport(WholeOf(Rows(listing))) :
       EndWith(IF Inspectable /\ Value(answer) /\ MetadataFits(budget, Rows(listing))
               THEN Exact(listing) ELSE Failed)

RdkafkaDetail(b)       == Budgeted(b) /\ Read(By("watermarks"), b)
RskafkaDetail(b)       == Budgeted(b) /\ Read(By("watermarks"), b)
RdkafkaDetailUnbounded == ReadWhole(By("watermarks"))
RskafkaDetailUnbounded == ReadWhole(By("watermarks"))

\* The metadata tell the partitions of a topic; too many cost no further request.
FetchWatermark ==
  /\ phase = "reading" /\ how.by = "watermarks" /\ unread # <<>>
  /\ LET shown == Append(kept, Head(unread)) IN
     IF Len(kept) + Len(unread) > budget.max_items \/ BytesOf(Rows(shown)) > budget.max_bytes
     THEN phase' = "over" /\ result' = Failed /\ UNCHANGED <<unread, kept>>
     ELSE unread' = Tail(unread) /\ kept' = shown /\ UNCHANGED <<phase, result>>
  /\ UNCHANGED <<asked_for, history, socket, tally, traversal, ranges>>

WatermarksEnd ==
  /\ phase = "reading" /\ how.by = "watermarks" /\ unread = <<>>
  /\ EndWith(IF Inspectable /\ MetadataFits(budget, Rows(kept)) THEN Exact(kept) ELSE Failed)

\* query_range_bounded: the limits are checked before the request.
RangeAnswer(all, b) ==
  LET read == ReadSeries(b, all) IN
  /\ phase = "idle" /\ phase' = "over" /\ how' = [By("series") EXCEPT !.http = "prometheus"] /\ budget' = b
  /\ series' = all
  /\ \E answer \in Answers("prometheus", BodyLimit, 200, Overhead + SeriesBytes(all)) :
     IF ValidSeriesBudget(b) /\ Value(answer) /\ FinishesSeries(read.limiter, b, read.kept)
     THEN /\ table' = read.kept
          /\ result' = [kind |-> "Table", items |-> <<>>, truncated |-> read.limiter.truncated]
     ELSE table' = <<>> /\ result' = Failed
  /\ UNCHANGED <<history, unread, socket, tally, kept, traversal>>
-----------------------------------------------------------------------------
(* Schemas: the columns of a table, then its indexes *)

SqliteSchema(b)    == Budgeted(b) /\ Read(By("schema"), b)
MySqlSchema(b)     == Budgeted(b) /\ Read(By("schema"), b)
PostgresSchema(b)  == Budgeted(b) /\ Read(By("schema"), b)
RedshiftSchema(b)  == Budgeted(b) /\ Read(By("schema"), b)
SqlServerSchema(b) == Budgeted(b) /\ Read(By("schema"), b)
CassandraSchema(b) == Budgeted(b) /\ Read(By("schema"), b)
Db2Schema(b)       == Budgeted(b) /\ Read(By("schema"), b)

\* Both queries ask for one more than may still be shown, which is an error.
Described(rows, ends) ==
  LET taken == SubSeq(rows, 1, AtMost(MetadataProbe(budget, Len(kept)), Len(rows)))
      all   == kept \o taken
      fits  == IF ends THEN MetadataFits(budget, Rows(all))
               ELSE Len(all) <= budget.max_items /\ BytesOf(Rows(all)) <= budget.max_bytes
  IN /\ kept' = all
     /\ phase' = IF fits /\ ~ends THEN phase ELSE "over"
     /\ result' = CASE ~fits -> Failed
                    [] fits /\ ends -> Exact(all)
                    [] OTHER -> result
     /\ cursor' = cursor + 1
     /\ UNCHANGED <<asked_for, history, socket, tally, cursors, returned, ranges>>

\* A table without columns is an error.
DescribeColumns ==
  /\ phase = "reading" /\ how.by = "schema" /\ cursor = 0 /\ unread # <<>>
  /\ \E n \in 1..Len(unread) :
       Described(SubSeq(unread, 1, n), FALSE) /\ unread' = SubSeq(unread, n + 1, Len(unread))

DescribeIndexes ==
  /\ phase = "reading" /\ how.by = "schema" /\ cursor = 1
  /\ Described(unread, TRUE) /\ unread' = <<>>
-----------------------------------------------------------------------------
(* Other clients *)

Live == how.live \/ how.by = "schema"
Added(names, name) == {InsertAt(names, i, name) : i \in 1..(Len(names) + 1)}

\* The rows of a query are fixed, except where pages are fetched later.
OthersAdd ==
  /\ phase \in Working /\ (Live \/ how.by \in Changing) /\ edits < MaxEdits
  /\ \E name \in Names \ Range(listing) :
       /\ listing' \in Added(listing, name)
       /\ unread' \in {unread} \cup IF Live /\ name \notin ever THEN Added(unread, name) ELSE {}
       /\ ever' = ever \cup {name}
  /\ edits' = edits + 1
  /\ UNCHANGED <<asked_for, phase, socket, tally, kept, traversal, always, shrunk, ranges, result>>

OthersRemove ==
  /\ phase \in Working /\ (Live \/ how.by \in Changing) /\ edits < MaxEdits
  /\ \E name \in Range(listing) :
       /\ listing' = Among(listing, Names \ {name})
       /\ unread' \in {unread} \cup IF Live THEN {Among(unread, Names \ {name})} ELSE {}
       /\ always' = always \ {name}
  /\ edits' = edits + 1 /\ shrunk' = TRUE
  /\ UNCHANGED <<asked_for, phase, socket, tally, kept, traversal, ever, ranges, result>>
-----------------------------------------------------------------------------
\* Every request is answered or fails: what a method does on its own.
ReadStep ==
  \/ ReadFails \/ FetchFails \/ FetchEnds \/ FetchRow \/ CloseStream
  \/ PullFails \/ ReceiveEnds \/ Receive \/ DeleteConsumer
  \/ ScanPage \/ ExportEntry \/ ExportEnds
  \/ GroupLagPage \/ GroupLagStream \/ GroupLagEnds
  \/ ManagementPage \/ NatsPage \/ NatsLagPage
  \/ CatalogAnswer \/ CatalogList \/ SearchAnswer \/ ValueAnswer \/ DocumentAnswer
  \/ PartitionLags \/ DetailAnswer \/ FetchWatermark \/ WatermarksEnd
  \/ DescribeColumns \/ DescribeIndexes

StartRead(b) ==
  \/ SqliteQuery(b) \/ MySqlQuery(b) \/ PostgresQuery(b) \/ SqlServerQuery(b)
  \/ Db2QueryBounded(b) \/ Db2QueryBudgeted(b) \/ CassandraRowsBounded(b) \/ CassandraQuery(b)
  \/ MongoFind(b) \/ MongoAggregate(b) \/ MongoCollections(b)
  \/ CassandraKeyspaces(b) \/ CassandraTables(b)
  \/ RedisPubSub(b) \/ NatsCore(b) \/ RskafkaFetch(b) \/ NatsStateless(b)
  \/ RdkafkaAssign(b) \/ RedisStream(b)
  \/ RedisScan(b) \/ RedisTopics(b) \/ KvExport(b)
  \/ ManagementQueues(b) \/ NatsStreams(b) \/ NatsLag(b)
  \/ SqliteSchemas(b) \/ SqliteTables(b) \/ MySqlSchemas(b) \/ MySqlTables(b)
  \/ PostgresSchemas(b) \/ PostgresTables(b) \/ RedshiftTables(b)
  \/ SqlServerSchemas(b) \/ SqlServerTables(b)
  \/ Db2Schemas(b) \/ Db2Tables(b) \/ Db2Sequences(b) \/ Db2Routines(b) \/ Db2Tablespaces(b)
  \/ RdkafkaTopics(b) \/ RskafkaTopics(b) \/ PrometheusNames(b) \/ SearchIndices(b)
  \/ SearchQuery(b) \/ RedisGet(b) \/ RedisGetWithExpiry(b) \/ SearchGet(b) \/ KafkaLag(b)
  \/ SqliteSchema(b) \/ MySqlSchema(b) \/ PostgresSchema(b) \/ RedshiftSchema(b)
  \/ SqlServerSchema(b) \/ CassandraSchema(b) \/ Db2Schema(b)
  \/ RedisLag(b) \/ RedisStreamDetail(b) \/ RedisPubSubDetail(b) \/ NatsDetail(b)
  \/ AmqpDetail(b) \/ ManagementDetail(b) \/ RdkafkaDetail(b) \/ RskafkaDetail(b)

StartWhole ==
  \/ RedisLagUnbounded \/ KafkaLagUnbounded
  \/ StreamDetailUnbounded \/ NatsDetailUnbounded \/ AmqpDetailUnbounded
  \/ ManagementDetailUnbounded
  \/ RdkafkaDetailUnbounded \/ RskafkaDetailUnbounded

ReadNext ==
  \/ /\ phase = "idle"
     /\ \/ \E b \in ReadBudgets : StartRead(b)
        \/ StartWhole
        \/ \E all \in SeriesAnswers, b \in SeriesBudgets : RangeAnswer(all, b)
  \/ ReadStep \/ ReadDropped \/ OthersAdd \/ OthersRemove

ReadSpec == ReadInit /\ [][ReadNext]_readVars /\ WF_readVars(ReadStep)
-----------------------------------------------------------------------------
(* Properties *)

ReadTypeOK ==
  /\ how \in Methods /\ phase \in Working \cup {"idle", "closing", "over"}
  /\ listing \in Listings /\ Range(unread) \subseteq Names /\ Range(kept) \subseteq Names
  /\ socket \in {"pool", "held", "retired"}
  /\ cursors \subseteq 0..(MaxCursor + Cardinality(Names)) /\ returned \subseteq Names
  /\ always \subseteq ever /\ ever \subseteq Names /\ edits \in 0..MaxEdits
  /\ result.kind \in {"none", "Failed", "Dropped", "List", "Hits", "Value", "Exact", "Messages",
                      "Artifact", "Table"}

\* A list is what it says.  Called complete, it has everything that was there from
\* the beginning to the end of the read; called truncated, it is full and there was
\* something else.  Nothing comes twice and nothing was never there.  Paging by
\* offset can miss something only when something else is removed meanwhile.
TruncationIsHonest ==
  /\ result.kind \in {"List", "Exact", "Artifact"} =>
       /\ IsInjective(result.items) /\ Range(result.items) \subseteq Visible(ever)
       /\ ~result.truncated => \/ Visible(always) \subseteq Range(result.items)
                               \/ how.by \in Pages /\ shrunk
  /\ result.kind = "List" /\ result.truncated =>
       Len(result.items) = budget.max_items /\ ever \ Range(result.items) # {}
  /\ result.kind = "Table" =>
       /\ result.truncated <=> \/ Len(series) > budget.max_series
                               \/ SampleCount(series) > budget.max_samples
       /\ ~result.truncated => table = series

\* Whatever the server sends, a method never holds more than it was allowed to, and
\* what it shows fits together with the probe, for all series of a table as well.
\* ListLimiter alone counts no bytes.
BudgetKept ==
  /\ result.kind \in {"List", "Hits", "Value", "Exact", "Messages", "Artifact"} =>
       /\ Len(result.items) <= budget.max_items
       /\ (how.by = "catalog" /\ ~Budgeted(budget)) \/ WholeOf(Rows(result.items)) <= budget.max_bytes
  /\ ~tally.failed => tally.bytes <= budget.max_bytes
  /\ result.kind = "Table" =>
       /\ Len(table) <= budget.max_series /\ SampleCount(table) <= budget.max_samples
       /\ Overhead + SeriesBytes(table) <= budget.max_bytes

\* A connection with rows that nobody has read does not go back to its pool, where
\* its next user would have to drain them, and messages are never shown while the
\* consumer that was made for them stays behind.  Only a dropped call leaves either.
NothingIsLeftOpen ==
  /\ socket = "pool" /\ how.holds /\ how.by = "rows" => unread = <<>> \/ result.kind = "Dropped"
  /\ result.kind = "Messages" => socket # "held"

\* Every read ends, whatever cursors and pages a server returns.
ReadsEnd == phase \in Working \cup {"closing"} ~> phase = "over"
=============================================================================
