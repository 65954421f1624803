----------------------------- MODULE RawCommands -----------------------------
(***************************************************************************)
(* The two policies a `kv raw` command passes: the one of the command line *)
(* (cmd/kv.rs, bounded by --limit) and the one of the Redis adapter        *)
(* (validate_raw_command, with a limit of its own).  A command is          *)
(*                                                                         *)
(*   [name, args, modifier, from, to, bytes]                               *)
(*                                                                         *)
(* its upper-cased name, the number of its words, the class of the word    *)
(* that modifies it, its two numbers where it has some (-1 stands for a    *)
(* negative index, NotANumber for a word that is no integer), and whether  *)
(* its words are within 1 MiB each and 8 MiB together: "within", "word",   *)
(* "request".                                                              *)
(***************************************************************************)
EXTENDS Integers

CONSTANTS
  RawAdapterItemLimit,  \* RAW_ADAPTER_ITEM_LIMIT, the adapter's own limit
  RawNodeLimit,         \* RAW_BOUNDED_NODE_LIMIT, for the values in an answer
  NotANumber

ASSUME RawAssumption ==
  RawAdapterItemLimit \in Nat \ {0} /\ RawNodeLimit \in Nat \ {0} /\ NotANumber \notin Int

\* A command as the command line splits it
RawTyped(c) ==
  /\ c.args \in Nat /\ {c.from, c.to} \subseteq Int \cup {NotANumber}
  /\ c.bytes \in {"within", "word", "request"}

\* Names with a fixed number of words, by what that number is.
ReadsOfOneWord   == {"DBSIZE", "TIME", "LASTSAVE"}
ReadsOfOneKey    == {"GET", "TTL", "PTTL", "TYPE", "STRLEN", "HLEN", "LLEN", "SCARD", "ZCARD", "XLEN"}
ReadsOfOneMember == {"HGET", "HEXISTS", "SISMEMBER", "ZSCORE"}
Counters         == {"APPEND", "INCRBY", "INCRBYFLOAT", "DECRBY"}
Expiries         == {"EXPIRE", "PEXPIRE", "EXPIREAT", "PEXPIREAT"}
MemberLists      == {"HDEL", "SADD", "SREM", "LPUSH", "RPUSH", "LPUSHX", "RPUSHX", "ZREM", "XDEL"}
MemberUpdates    == {"HINCRBY", "HINCRBYFLOAT", "LSET", "ZINCRBY"}

\* These change the data and answer with what was there: the answer could be
\* too large when it is too late to refuse.
ValueReturning == {"GETDEL", "LPOP", "RPOP", "SPOP"}

Forbidden ==
  {"ACL", "ASKING", "AUTH", "BGREWRITEAOF", "BGSAVE", "CLIENT", "CLUSTER", "COMMAND", "CONFIG",
   "DEBUG", "DISCARD", "DUMP", "EVAL", "EVALSHA", "EVAL_RO", "EVALSHA_RO", "EXEC", "FAILOVER",
   "FCALL", "FCALL_RO", "FLUSHALL", "FLUSHDB", "FUNCTION", "INFO", "LATENCY", "MEMORY", "MIGRATE",
   "MODULE", "MONITOR", "MOVE", "MULTI", "PSUBSCRIBE", "PSYNC", "PUBLISH", "PUBSUB",
   "PUNSUBSCRIBE", "READONLY", "READWRITE", "REPLICAOF", "RESTORE", "ROLE", "SAVE", "SCRIPT",
   "SELECT", "SHUTDOWN", "SLOWLOG", "SLAVEOF", "SSUBSCRIBE", "SUBSCRIBE", "SUNSUBSCRIBE",
   "SWAPDB", "SYNC", "UNSUBSCRIBE", "UNWATCH", "WATCH"}

\* validate_raw_request_size: no word and not all words together are too long.
RequestFits(c) == c.bytes \notin {"word", "request"}

Items(n, limit) == n \in 1..limit

\* An index range is bounded only if neither end counts from the tail.
IndexRange(c, limit) ==
  /\ c.from \in Nat /\ c.to \in Nat
  /\ c.to < c.from \/ Items(c.to - c.from + 1, limit)

\* Pairs that follow the command and the key.
Pairs(c, limit) == c.args >= 4 /\ c.args % 2 = 0 /\ Items((c.args - 2) \div 2, limit)

Magnitude(n) == IF n < 0 THEN -n ELSE n

AllowedRead(c, limit) ==
  \/ c.name = "PING" /\ c.args \in {1, 2}
  \/ c.name \in ReadsOfOneKey \cup {"ECHO"} /\ c.args = 2
  \/ c.name \in ReadsOfOneWord /\ c.args = 1
  \/ c.name \in ReadsOfOneMember /\ c.args = 3
  \/ c.name = "LINDEX" /\ c.args = 3 /\ c.from # NotANumber
  \/ c.name \in {"MGET", "EXISTS"} /\ Items(c.args - 1, limit)
  \/ c.name = "HMGET" /\ Items(c.args - 2, limit)
  \/ c.name = "LRANGE" /\ c.args = 4 /\ IndexRange(c, limit)
  \/ /\ c.name \in {"ZRANGE", "ZREVRANGE"} /\ IndexRange(c, limit)
     /\ c.args = 4 \/ (c.args = 5 /\ c.modifier = "WITHSCORES")
  \/ c.name = "SRANDMEMBER" /\ c.args = 2
  \/ /\ c.name = "SRANDMEMBER" /\ c.args = 3
     /\ c.from # NotANumber /\ Items(Magnitude(c.from), limit)
  \/ /\ c.name \in {"XRANGE", "XREVRANGE"} /\ c.args = 6 /\ c.modifier = "COUNT"
     /\ c.from # NotANumber /\ Items(c.from, limit)

AllowedMutation(c, limit) ==
  \/ c.name = "SET" /\ c.args >= 3 /\ c.modifier # "GET"
  \/ c.name \in {"DEL", "UNLINK"} /\ Items(c.args - 1, limit)
  \/ c.name \in {"INCR", "DECR", "PERSIST"} /\ c.args = 2
  \/ c.name \in Counters \cup {"RENAME", "RENAMENX"} /\ c.args = 3
  \/ /\ c.name \in Expiries
     /\ c.args = 3 \/ (c.args = 4 /\ c.modifier \in {"NX", "XX", "GT", "LT"})
  \/ c.name = "HSET" /\ Pairs(c, limit)
  \/ c.name \in MemberLists /\ Items(c.args - 2, limit)
  \/ c.name \in MemberUpdates /\ c.args = 4
  \/ c.name = "LTRIM" /\ c.args = 4 /\ IndexRange(c, limit)
  \/ c.name = "ZADD" /\ Pairs(c, limit) /\ c.from # NotANumber

\* classify_raw_command.  What is in neither list is refused, like the
\* forbidden names and those that return what they remove.
ClassifyRawCommand(c, limit) ==
  /\ limit > 0 /\ RequestFits(c)
  /\ c.name \notin Forbidden \cup ValueReturning
  /\ AllowedRead(c, limit) \/ AllowedMutation(c, limit)

IsRawMutation(name) ==
  name \in {"SET", "DEL", "UNLINK", "INCR", "DECR", "PERSIST", "RENAME", "RENAMENX", "HSET",
            "LTRIM", "ZADD"}
             \cup Counters \cup Expiries \cup MemberLists \cup MemberUpdates \cup ValueReturning
-----------------------------------------------------------------------------
(* The adapter repeats the policy with its own limit and lists: those of the *)
(* command line are not used here, so that the two can disagree.            *)

\* is_forbidden_raw_command
AdapterForbidden ==
  UNION {{"SUBSCRIBE", "PSUBSCRIBE", "SSUBSCRIBE", "UNSUBSCRIBE", "PUNSUBSCRIBE", "SUNSUBSCRIBE",
          "PUBLISH", "PUBSUB", "MONITOR"},
         {"EVAL", "EVALSHA", "EVAL_RO", "EVALSHA_RO", "SCRIPT", "FCALL", "FCALL_RO", "FUNCTION"},
         {"MULTI", "EXEC", "DISCARD", "WATCH", "UNWATCH"},
         {"AUTH", "ACL", "ASKING", "CLIENT", "SELECT", "SWAPDB", "READONLY", "READWRITE"},
         {"BGREWRITEAOF", "BGSAVE", "SAVE", "SHUTDOWN", "FLUSHALL", "FLUSHDB", "CONFIG", "DEBUG",
          "COMMAND", "MODULE", "INFO", "LATENCY", "MEMORY", "SLOWLOG", "ROLE"},
         {"CLUSTER", "FAILOVER", "MIGRATE", "MOVE", "DUMP", "RESTORE", "PSYNC", "SYNC",
          "REPLICAOF", "SLAVEOF"}}

\* How many words a command has, where their number is fixed.
AdapterWords(name) ==
  CASE name \in {"DBSIZE", "TIME", "LASTSAVE"} -> {1}
    [] name = "PING" -> {1, 2}
    [] name \in {"ECHO", "GET", "TTL", "PTTL", "TYPE", "STRLEN", "HLEN", "LLEN", "SCARD", "ZCARD",
                 "XLEN", "INCR", "DECR", "PERSIST"} -> {2}
    [] name = "SRANDMEMBER" -> {2, 3}
    [] name \in {"HGET", "HEXISTS", "SISMEMBER", "ZSCORE", "LINDEX", "APPEND", "INCRBY",
                 "INCRBYFLOAT", "DECRBY", "RENAME", "RENAMENX"} -> {3}
    [] name \in {"EXPIRE", "PEXPIRE", "EXPIREAT", "PEXPIREAT"} -> {3, 4}
    [] name \in {"LRANGE", "LTRIM", "HINCRBY", "HINCRBYFLOAT", "LSET", "ZINCRBY"} -> {4}
    [] name \in {"ZRANGE", "ZREVRANGE"} -> {4, 5}
    [] name \in {"XRANGE", "XREVRANGE"} -> {6}
    [] OTHER -> {}

AdapterModifiers(name) ==
  CASE name \in {"EXPIRE", "PEXPIRE", "EXPIREAT", "PEXPIREAT"} -> {"NX", "XX", "GT", "LT"}
    [] name \in {"ZRANGE", "ZREVRANGE"} -> {"WITHSCORES"}
    [] OTHER -> {}

\* check_raw_item_budget
AdapterItems(n) == n > 0 /\ n <= RawAdapterItemLimit

\* check_raw_index_range
AdapterIndexRange(c) ==
  /\ NotANumber \notin {c.from, c.to} /\ c.from >= 0 /\ c.to >= 0
  /\ c.to >= c.from => AdapterItems(1 + c.to - c.from)

\* validate_raw_simple_zadd
AdapterScores(c) == c.args > 3 /\ c.args % 2 = 0 /\ c.from # NotANumber /\ AdapterItems(c.args \div 2 - 1)

\* How many items the commands that take any number of words read or write.
AdapterCount(c) ==
  CASE c.name \in {"MGET", "EXISTS", "DEL", "UNLINK"} -> c.args - 1
    [] c.name \in {"HMGET", "HDEL", "SADD", "SREM", "LPUSH", "RPUSH", "LPUSHX", "RPUSHX", "ZREM",
                   "XDEL"} -> c.args - 2
    [] c.name = "HSET" /\ c.args % 2 = 0 -> c.args \div 2 - 1
    [] OTHER -> 0

\* The words that tell how large the answer may get
AdapterBounds(c) ==
  CASE c.name \in {"LRANGE", "ZRANGE", "ZREVRANGE", "LTRIM"} -> AdapterIndexRange(c)
    [] c.name = "SRANDMEMBER" /\ c.args = 3 ->
         c.from # NotANumber /\ AdapterItems(IF c.from < 0 THEN -c.from ELSE c.from)
    [] c.name \in {"XRANGE", "XREVRANGE"} ->
         c.modifier = "COUNT" /\ c.from # NotANumber /\ AdapterItems(c.from)
    [] c.name = "LINDEX" -> c.from # NotANumber
    [] OTHER -> TRUE

ValidateRawCommand(c) ==
  /\ c.bytes = "within"
  /\ c.name \notin AdapterForbidden \cup {"GETDEL", "LPOP", "RPOP", "SPOP"}
  /\ \/ /\ c.args \in AdapterWords(c.name) /\ AdapterBounds(c)
        /\ AdapterModifiers(c.name) # {} /\ c.args \in {n + 1 : n \in AdapterWords(c.name)} =>
             c.modifier \in AdapterModifiers(c.name)
     \/ AdapterItems(AdapterCount(c))
     \/ c.name = "SET" /\ c.args >= 3 /\ c.modifier # "GET"
     \/ c.name = "ZADD" /\ AdapterScores(c)

IsAllowedRawMutation(name) ==
  name \in {"SET", "DEL", "UNLINK", "RENAME", "RENAMENX", "PERSIST", "EXPIRE", "PEXPIRE",
            "EXPIREAT", "PEXPIREAT", "APPEND", "INCR", "DECR", "INCRBY", "INCRBYFLOAT", "DECRBY",
            "HSET", "HDEL", "HINCRBY", "HINCRBYFLOAT", "SADD", "SREM", "LPUSH", "RPUSH", "LPUSHX",
            "RPUSHX", "LSET", "LTRIM", "ZADD", "ZREM", "ZINCRBY", "XDEL"}

\* validate_bounded_raw_command: the bounded path serves reads only.
ValidateBoundedRawCommand(c) ==
  /\ ValidateRawCommand(c)
  /\ c.name \in {"PING", "ECHO", "GET", "TTL", "PTTL", "TYPE", "STRLEN", "HLEN", "LLEN", "SCARD",
                 "ZCARD", "XLEN", "DBSIZE", "TIME", "LASTSAVE", "HGET", "HEXISTS", "SISMEMBER",
                 "ZSCORE", "LINDEX", "MGET", "EXISTS", "HMGET", "LRANGE", "ZRANGE", "ZREVRANGE",
                 "SRANDMEMBER", "XRANGE", "XREVRANGE"}

\* bounded_raw_script_keys: which words of a command its script declares as keys.
ScriptKeys(c) ==
  CASE c.name \in {"PING", "ECHO", "DBSIZE", "TIME", "LASTSAVE"} -> {}
    [] c.name \in {"MGET", "EXISTS"} -> 2..c.args
    [] c.name \in {"GET", "TTL", "PTTL", "TYPE", "STRLEN", "HLEN", "LLEN", "SCARD", "ZCARD",
                   "XLEN", "HGET", "HEXISTS", "SISMEMBER", "ZSCORE", "LINDEX", "HMGET", "LRANGE",
                   "ZRANGE", "ZREVRANGE", "SRANDMEMBER", "XRANGE", "XREVRANGE"} -> {2}
    [] OTHER -> {0}  \* an internal error

\* validate_redis_raw_mutation_input: the other path serves mutations only.
ValidateRawMutationInput(c) == ValidateRawCommand(c) /\ IsAllowedRawMutation(c.name)

\* validate_raw_response_budget: the answer of a mutation is measured when it is there.
ResponseFits(nodes) == nodes <= RawAdapterItemLimit

\* validate_bounded_raw_core_response: how many items the answer has.
AnswerItems(c, elements) ==
  CASE c.name \in {"MGET", "HMGET", "LRANGE", "XRANGE", "XREVRANGE"} -> elements
    [] c.name \in {"ZRANGE", "ZREVRANGE"} ->
         IF c.modifier = "WITHSCORES" THEN elements \div 2 ELSE elements
    [] c.name = "SRANDMEMBER" /\ c.args = 3 -> elements
    [] OTHER -> 1

\* count_core_value_nodes: an array and its elements; an entry of a stream is an array
\* of its own with an ID and an array of one field and its value.
Nodes(c, elements) == 1 + elements * (IF c.name \in {"XRANGE", "XREVRANGE"} THEN 5 ELSE 1)

\* RAW_COMMAND_BOUNDED_SCRIPT counts the items as well, before it returns anything:
\* 1 for too many items, 3 for too many values, 2 for too many bytes, 0 for an answer.
\* Which of the last two comes first depends on where the values are large.
ScriptItems(c, elements) ==
  IF c.name \in {"ZRANGE", "ZREVRANGE"} /\ c.modifier = "WITHSCORES" THEN elements \div 2
  ELSE IF \/ c.name \in {"ZRANGE", "ZREVRANGE", "MGET", "HMGET", "LRANGE", "XRANGE", "XREVRANGE"}
          \/ c.name = "SRANDMEMBER" /\ c.args = 3
       THEN elements
  ELSE 1

ScriptStatuses(c, answer, budget) ==
  IF \/ ScriptItems(c, answer.elements) > budget.max_items
     \/ ScriptItems(c, answer.elements) > RawAdapterItemLimit THEN {1}
  ELSE LET refusals == (IF answer.nodes > RawNodeLimit THEN {3} ELSE {})
                         \cup (IF answer.bytes > budget.max_bytes THEN {2} ELSE {})
       IN IF refusals = {} THEN {0} ELSE refusals

\* raw_command_bounded: the adapter counts items and values again.
RawCommandBounded(c, answer, budget) ==
  /\ ScriptStatuses(c, answer, budget) = {0}
  /\ AnswerItems(c, answer.elements) <= budget.max_items
  /\ answer.nodes <= RawNodeLimit

\* raw_command, without a budget: mutations as above, and reads the answer of which
\* is measured by the client alone.
RawCommand(c, answer) ==
  IF IsAllowedRawMutation(c.name) THEN ValidateRawMutationInput(c)
  ELSE ValidateRawCommand(c) /\ ResponseFits(answer.nodes)
-----------------------------------------------------------------------------
(* What Redis does, told from its commands and not from the code.           *)

\* The commands that change keys.
WriteCommands ==
  {"APPEND", "DECR", "DECRBY", "DEL", "EVAL", "EVALSHA", "EXEC", "EXPIRE", "EXPIREAT", "FCALL",
   "FLUSHALL", "FLUSHDB", "GETDEL", "GETEX", "HDEL", "HINCRBY", "HINCRBYFLOAT", "HSET", "INCR",
   "INCRBY", "INCRBYFLOAT", "LPOP", "LPUSH", "LPUSHX", "LSET", "LTRIM", "MOVE", "PERSIST",
   "PEXPIRE", "PEXPIREAT", "RENAME", "RENAMENX", "RESTORE", "RPOP", "RPUSH", "RPUSHX", "SADD",
   "SET", "SPOP", "SREM", "SWAPDB", "UNLINK", "XADD", "XDEL", "XREADGROUP", "ZADD", "ZINCRBY",
   "ZREM"}

\* A mutation answers with one status or number, unless it returns what it removes.
MutationNodes(c) == IF c.name \in {"LPOP", "RPOP", "SPOP"} /\ c.args = 3 THEN 1 + c.from ELSE 1
ReturnsValues(c) == c.name \in {"GETDEL", "LPOP", "RPOP", "SPOP"} \/ (c.name = "SET" /\ c.modifier = "GET")

\* The elements of the answer to an admitted reading of a collection that has
\* `there` elements.
Answer(c, elements, bytes) ==
  [elements |-> elements, bytes |-> bytes, nodes |-> Nodes(c, elements)]

LeastOf(a, b) == IF a < b THEN a ELSE b
AnswerElements(c, there) ==
  CASE c.name = "MGET" -> c.args - 1
    [] c.name = "HMGET" -> c.args - 2
    [] c.name \in {"LRANGE", "ZRANGE", "ZREVRANGE"} ->
         (IF c.to < c.from \/ there <= c.from THEN 0 ELSE LeastOf(there, c.to + 1) - c.from)
           * (IF c.name # "LRANGE" /\ c.modifier = "WITHSCORES" THEN 2 ELSE 1)
    [] c.name = "SRANDMEMBER" /\ c.args = 3 ->
         IF there = 0 THEN 0 ELSE IF c.from < 0 THEN -c.from ELSE LeastOf(there, c.from)
    [] c.name \in {"XRANGE", "XREVRANGE"} -> LeastOf(there, c.from)
    [] OTHER -> 0
=============================================================================
