--------------------------- MODULE MCDataCommand ----------------------------
(***************************************************************************)
(* One connection name, two DSNs and one request of every shape for TLC.   *)
(***************************************************************************)
EXTENDS DataCommand

CONSTANTS a, d1, d2

Insert         == [node |-> "statement", is |-> "insert"]
Updating(w)    == [node |-> "statement", is |-> "update", where |-> w]
Deleting(w)    == [node |-> "statement", is |-> "delete", where |-> w]
Stating(is)    == [node |-> "statement", is |-> is]
AsQuery(q)     == [node |-> "statement", is |-> "query", query |-> q]
Explain(x, s)  == [node |-> "statement", is |-> "explain", analyze |-> x, option |-> FALSE, of |-> s]
Optioned(s)    == [Explain(FALSE, s) EXCEPT !.option = TRUE]
Select(into)   == [node |-> "set expression", is |-> "select", into |-> into, calls |-> FALSE]
Union(l, r)    == [node |-> "set expression", is |-> "set operation", left |-> l, right |-> r]
Inserting(s)   == [node |-> "set expression", is |-> "insert", statement |-> s]
Query(with, b) == [node |-> "query", locks |-> FALSE, with |-> with, body |-> b]
Text(parts)    == [parsed |-> TRUE, parts |-> parts, statements |-> <<Len(parts)>>]
Unread(w, i, c) ==
  [parsed |-> FALSE, keyword |-> w, into |-> i, where |-> FALSE, changes |-> c]

WithInsert == <<Insert, Inserting(1), Query(<<>>, 2), Select(FALSE), Query(<<3>>, 4), AsQuery(5)>>
MCTexts ==
  [select       |-> Text(<<Select(FALSE), Query(<<>>, 1), AsQuery(2)>>),
   union        |-> Text(<<Select(FALSE), Select(TRUE), Union(1, 2), Query(<<>>, 3), AsQuery(4)>>),
   locks        |-> Text(<<Select(FALSE), [Query(<<>>, 1) EXCEPT !.locks = TRUE], AsQuery(2)>>),
   with_insert  |-> Text(WithInsert),
   explain      |-> Text(<<Deleting(TRUE), Explain(FALSE, 1)>>),
   explain_opt  |-> Text(<<Deleting(TRUE), Optioned(1)>>),
   opt_and_more |-> [Text(<<Deleting(TRUE), Optioned(1), Deleting(FALSE)>>) EXCEPT !.statements = <<2, 3>>],
   function     |-> Text(<<[Select(FALSE) EXCEPT !.calls = TRUE], Query(<<>>, 1), AsQuery(2)>>),
   analyze      |-> Text(Append(WithInsert, Explain(TRUE, 6))),
   two          |-> [Text(<<Stating("show"), Deleting(FALSE)>>) EXCEPT !.statements = <<1, 2>>],
   delete_where |-> Text(<<Deleting(TRUE)>>),
   update_all   |-> Text(<<Updating(FALSE)>>),
   drop         |-> Text(<<Stating("drop")>>),
   call         |-> Text(<<Stating("call")>>),
   keyword_into |-> Unread("SELECT", TRUE, TRUE),
   keyword_with |-> Unread("WITH", FALSE, TRUE),
   keyword_explain |-> Unread("EXPLAIN", FALSE, TRUE),
   keyword_show |-> Unread("SHOW", FALSE, FALSE)]

Raw(name, args, modifier, from, to) ==
  [name |-> name, args |-> args, modifier |-> modifier, from |-> from, to |-> to,
   bytes |-> "within"]
MCRawArgs ==
  [get     |-> Raw("GET", 2, "none", 0, 0),          time      |-> Raw("TIME", 1, "none", 0, 0),
   mget    |-> Raw("MGET", 3, "none", 0, 0),         mgets     |-> Raw("MGET", 4, "none", 0, 0),
   lrange  |-> Raw("LRANGE", 4, "none", 1, 2),       tail      |-> Raw("LRANGE", 4, "none", 0, -1),
   zrange  |-> Raw("ZRANGE", 5, "WITHSCORES", 0, 1), zrev      |-> Raw("ZREVRANGE", 5, "BYSCORE", 0, 1),
   members |-> Raw("SRANDMEMBER", 3, "none", -2, 0), xrange    |-> Raw("XRANGE", 6, "COUNT", 2, 0),
   keys    |-> Raw("KEYS", 2, "none", 0, 0),         flush     |-> Raw("FLUSHALL", 1, "none", 0, 0),
   pop     |-> Raw("LPOP", 2, "none", 0, 0),         set       |-> Raw("SET", 3, "none", 0, 0),
   set_get |-> Raw("SET", 4, "GET", 0, 0),           del       |-> Raw("UNLINK", 3, "none", 0, 0),
   expire  |-> Raw("EXPIRE", 4, "GT", 0, 0),         push      |-> Raw("RPUSH", 4, "none", 0, 0),
   long    |-> [Raw("SET", 3, "none", 0, 0) EXCEPT !.bytes = "word"],
   echo    |-> Raw("ECHO", 2, "none", 0, 0),         hset    |-> Raw("HSET", 6, "none", 0, 0),
   lindex  |-> Raw("LINDEX", 3, "none", -1, 0),      hmget   |-> Raw("HMGET", 4, "none", 0, 0),
   incr    |-> Raw("INCRBY", 3, "none", 0, 0),       score   |-> Raw("ZADD", 6, "none", 1, 0),
   trim    |-> Raw("LTRIM", 4, "none", 0, 1),        zadd      |-> Raw("ZADD", 4, "none", NotANumber, 0)]

\* Every command the words of which are counted, over small numbers: at the same
\* limit the adapter admits what the command line admits, on the path it takes.
AllNames == Forbidden \cup ValueReturning \cup WriteCommands \cup AdapterForbidden
              \cup ReadsOfOneWord \cup ReadsOfOneKey \cup ReadsOfOneMember
              \cup {"PING", "ECHO", "LINDEX", "MGET", "EXISTS", "HMGET", "LRANGE", "ZRANGE",
                    "ZREVRANGE", "SRANDMEMBER", "XRANGE", "XREVRANGE", "KEYS"}
ASSUME PoliciesAgree ==
  \A name \in AllNames, args \in 1..7, from \in -4..4 \cup {NotANumber}, to \in -1..3,
     modifier \in {"none", "WITHSCORES", "COUNT", "GET", "NX"} :
    LET c == Raw(name, args, modifier, from, to) IN
      /\ ClassifyRawCommand(c, RawAdapterItemLimit) <=> ValidateRawCommand(c)
      /\ RawCommand(c, Answer(c, 0, 0)) <=> ValidateRawCommand(c)
      /\ ValidateRawCommand(c) =>
           IF IsRawMutation(name) THEN ValidateRawMutationInput(c) ELSE ValidateBoundedRawCommand(c)

Out(target)  == [op |-> "$out", target |-> target, timeseries |-> {}]
Merge(when)  == [op |-> "$merge", target |-> "name", on |-> "field", let |-> "none",
                 whenMatched |-> when, whenNotMatched |-> "insert", unknownField |-> FALSE]
MCPipelines ==
  [match      |-> <<{}>>,
   out        |-> <<{}, {Out("name")}>>,
   out_series |-> <<{[Out("db and coll") EXCEPT !.timeseries =
                        {[timeField |-> "text", metaField |-> "none", granularity |-> "known",
                          maxSpan |-> "none", rounding |-> "none", unknownField |-> FALSE]}]}>>,
   out_bad    |-> <<{Out("more fields")}>>,
   merge      |-> <<{Merge("replace")}, {}>>,
   merge_bad  |-> <<{Merge("sometimes")}>>,
   twice      |-> <<{Out("name"), Merge("merge")}>>]

Consume(group, consumer, durable, ack, cursor) ==
  [max |-> 1, timeout |-> 1, bytes |-> "within", partition |-> {}, offset |-> {},
   cursor |-> cursor, group |-> group, consumer |-> consumer, durable |-> durable,
   name |-> "plain", ack |-> ack, channel |-> FALSE]
Peek == Consume(FALSE, FALSE, FALSE, "unset", NoCursor)
MCConsumes ==
  [peek    |-> [Peek EXCEPT !.cursor = StreamCursor(<<1, 0>>)],
   offset  |-> [Peek EXCEPT !.partition = {0}, !.offset = {1}],
   channel |-> [Peek EXCEPT !.channel = TRUE],
   take    |-> Consume(FALSE, FALSE, FALSE, "on-success", NoCursor),
   group   |-> Consume(TRUE, TRUE, FALSE, "none", NoCursor),
   shared  |-> Consume(TRUE, FALSE, FALSE, "on-success", NoCursor),
   grouped |-> Consume(TRUE, FALSE, FALSE, "unset", NoCursor),
   durable |-> Consume(FALSE, FALSE, TRUE, "on-success", NoCursor),
   unnamed |-> [Consume(FALSE, FALSE, TRUE, "none", NoCursor) EXCEPT !.name = "blank"],
   both    |-> Consume(TRUE, FALSE, TRUE, "none", NoCursor),
   member  |-> Consume(FALSE, TRUE, FALSE, "none", NoCursor)]

\* A cursor of a message, given back, reads that message again and all that follow
\* it, and nothing in front of it, up to both ends of the numbers (message.rs).
Ids == {id \in (0..MaxU64) \X (0..MaxU64) : ValidStreamId(id)}
ASSUME CursorsAreInclusive ==
  /\ \A id \in Ids : LET o == [Peek EXCEPT !.cursor = StreamCursor(id)] IN
       /\ ConsumePath(o, "redis") = "stream"
       /\ \A other \in Ids : StreamReads(o, other) <=> ~Before(other, id)
  /\ \A p, n \in 0..MaxU64 : LET o == [Peek EXCEPT !.cursor = KafkaCursor(p, n)] IN
       /\ ConsumePath(o, "kafka") = "assign" /\ ConsumePath(o, "kafka-pure") = "fetch"
       /\ \A q, k \in 0..MaxU64 : KafkaReads(o, q, k) <=> q = p /\ n <= k
  /\ \A n \in 1..MaxU64 : LET o == [Peek EXCEPT !.cursor = JetStreamCursor(n)] IN
       /\ ConsumePath(o, "nats") = "ephemeral"
       /\ \A k \in 1..MaxU64 : JetStreamReads(o, k) <=> n <= k

MCInfo(answered, lines, plain, major) ==
  [answered |-> answered, lines |-> lines, plain |-> plain, major |-> major]
MCServerInfos ==
  {MCInfo(TRUE, 1, TRUE, 7), MCInfo(TRUE, 1, TRUE, 6), MCInfo(TRUE, 2, TRUE, 7),
   MCInfo(FALSE, 0, FALSE, 0)}

Request(cmd, arg, content) == [cmd |-> cmd, arg |-> arg, content |-> content, params |-> 1]
MCAsked ==
  {Request(c, arg, 1) : c \in {"sql query", "sql exec"}, arg \in DOMAIN MCTexts}
    \cup {Request(c, arg, 1) : c \in {"export sql", "cql query", "cql exec"},
                              arg \in {"select", "with_insert", "drop", "keyword_with"}}
    \cup {Request("sql exec", "drop", 2), [Request("sql exec", "update_all", 1) EXCEPT !.params = 2]}
    \cup {Request("kv raw", arg, 1) : arg \in DOMAIN MCRawArgs}
    \cup {Request("doc aggregate", arg, 1) : arg \in DOMAIN MCPipelines}
    \cup {Request("mq consume", arg, 1) : arg \in DOMAIN MCConsumes}
    \cup {Request(c, "plain", 1) : c \in (PlainReads \ {"ts query"}) \cup Imports \cup SearchWrites \cup
            {"ping", "caps", "kv set", "kv del", "doc insert", "ts write", "search delete-index"}}
    \cup {Request(c, arg, 1) : c \in OneOrMany, arg \in {"plain", "empty filter"}}
    \cup {Request("doc drop", "plain", n) : n \in 1..2}
    \cup {Request(c, arg, 1) : c \in {"mq delete", "mq produce", "ts query"}, arg \in {"plain", "malformed"}}

\* The requests about statements: those the documents promise something of, without
\* calls of functions, of whose effects they promise nothing.
MCStatements ==
  {r \in MCAsked : r.cmd \in {"sql query", "sql exec"} /\ r.arg # "function"}
=============================================================================
