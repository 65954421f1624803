# dbtool: a TLA+ verification project

dbtool is a Rust command-line client, with a terminal user interface, for relational
databases, key-value and document stores, search and time-series engines and message
brokers. The modules of this directory model the parts of it whose correctness depends on
the *order* of things (what happens when calls overlap, time out, are killed or lose their
answer) and the policies by which it decides what may run, what an answer was worth and
whether a list is complete. Paths such as `throttle.rs` are short for files under `src/crates/*/src/`;
`PROJECT.json` maps every definition to its lines.

    tlc -workers 2 -config FlowControl.cfg FlowControl     # one of the twelve runs
    tlapm FlowControlProofs.tla                                    # the proofs of one component

## 1. Inventory

The workspace has one core crate (`dbtool-core`: ports, models, DSNs, configuration,
services), ten adapter crates, a registry that links the enabled adapters, and two
front ends, `dbtool-cli` and `dbtool-tui`.

    CLI command -> veto, resolve, confirm -> FlowControl.run_single* -> registry.connect -> adapter
    TUI key     -> gate, pending write    -> ConnectionManager       -> adapter
    conn add / remove ------------------------------------------> write_file_atomically

| component (code) | state | operations | what is hard | what makes it correct |
|---|---|---|---|---|
| flow control (`service/throttle.rs`) | semaphore, rate limiter, deadline, attempt | `run`, `run_single`, `run_single_mutation` | concurrent calls, four nested timeouts, retries of operations whose answer was lost | permits conserved; one-shot calls submitted once; errors of mutations honest; deadline shared; every call returns |
| terminal session (`dbtool-tui/terminal.rs`) | raw mode and alternate screen flags | `enter`, `restore`, `Drop` | calls that fail halfway, panics | the shell gets its terminal back |
| TUI state and gate (`state.rs`, `app.rs`) | panel, selection, query, pending write, history, cursor, draft | keys, `execute_current`, `execute_tui_command` | long sequences of keys between staging and confirming; two readings of one command | writes confirmed once, on writable connections; history exact; refused commands connect nowhere |
| connection manager (`service/manager.rs`) | map of connectors under a mutex | `get_or_connect`, `remove` | the mutex is held while connecting | one connector per connection |
| connection file (`cmd/conn.rs`, `config/file.rs`, `service/atomic_file.rs`) | `connections.toml`, temporary files | `conn add`, `conn remove`, publication | several processes, kills, power loss, reused process ids | whole files, durable acknowledgements, confirmed overwrites |
| CLI data-command gate (`cmd/mod.rs` and the commands) | arguments, the two loads of the configuration | the checks of every command, `ensure_write_allowed`, `resolve_dsn` | the file changes between two loads; dozens of commands, each with its own order of checks | read-only connections are not written, whatever may write runs as a mutation |
| confirmation tokens and classification (`service/safety.rs`) | none (a digest) | `classify`, `check_*` | a token used later, elsewhere; a write inside a CTE or EXPLAIN ANALYZE, or where the classification does not look | a destructive operation reaches what was confirmed; what changes data is recognised |
| raw Redis commands (`cmd/kv.rs`, `adapter-redis`) | none | two independent policies | a command one policy admits and the other refuses or reads differently | what was admitted is carried out, and no answer is refused after its effect |
| registry and capabilities (`port/*.rs`, `registry`) | the advertised operations | `require_operation`, default methods | an operation is advertised whose method is the refusing default | what is advertised is served |
| resolver (`service/resolver.rs`, `config/env.rs`) | none | `resolve` | a name in two places | the environment wins, for the check and for the use |
| bounded consumption (AMQP, NATS, Redis, Kafka adapters) | the broker's progress, the batch | `consume` | lost answers, redelivery, rebalances, partial acknowledgement, dropped futures; which of several ways of reading a request gets | at-least-once, honest results, no place moved unasked |
| mutations and production (all adapters) | the requests of one call | `execute`, `insert`, `set`, `write`, `produce`, ... | answers lost after the effect, partial effects, repeated requests, dropped futures | indeterminate outcomes are reported as such, counts are exact |
| deletion of streams, queues and topics | one resource | `delete_resource` | others use, delete and recreate it between look, deletion and verification | nothing excluded is destroyed, success means absence |
| bounded reads (all adapters) | one listing, a limiter | queries, scans, pages, catalogs, schemas, values, lag | the listing changes between pages; limits at both ends; unread connections | `truncated` is exact, budgets are kept, reads end |
| limiters and budgets (`service/limiter.rs`, `model/input.rs`, `model/bounded.rs`) | counters | `observe`, `finish`, `validate` | limits of 0, 1 and the largest integer | `truncated` is exact |
| import and export (`cmd/transfer.rs`) | artifact, target | export, validation, preflight, confirm, restore | edited artifacts, changes between the phases, partial restores | nothing unconfirmed is overwritten, nothing incomplete is taken for whole |
| SQL adapters (`adapter-sql`) | transaction | `query`, `execute`, atomic insert | failing rollback, lost commit | all rows or none, or indeterminate |
| SQL Server, Cassandra, Db2, MongoDB, search, time series | driver connections | port methods | partial bulk results, page limits, HTTP bodies that end early | bounded, honest results |
| Redis key-value (`adapter-redis`) | cursor | `scan`, `restore_with_expiry` | a cursor that repeats keys | bounded scans |
| DSN parsing, values, formatting, screen layout | none | pure functions | - | - |

The CLI runs one command per process through `run_single` or `run_single_mutation`; the
retrying `run` and more than one call per `FlowControl` exist for embedding callers, which
is how the model treats them. `PROJECT.json` lists the hazards at their lines.

## 2. Modules and how they follow the code

| module | models | run(s) |
|---|---|---|
| `FlowControl` | `throttle.rs` | `flow_control` |
| `FlowControlProofs` | theorems about it | - |
| `TerminalSession` | `terminal.rs` | through `TuiSession` |
| `TuiSession` (EXTENDS `TerminalSession`) | `state.rs`, `app.rs`, `manager.rs` as the TUI uses it | `tui_session`, `tui_staging`, `tui_readonly` |
| `TuiSessionProofs` | theorems about them | - |
| `ConnectionFile` | `conn.rs`, `file.rs`, `atomic_file.rs` | `conn_file`, `conn_overwrite` |
| `ConnectionFileProofs` | theorems about it | - |
| `Statements` | the classification of SQL and CQL in `safety.rs` | through `Requests` |
| `RawCommands` | the two policies for raw Redis commands | through `Requests` |
| `Capabilities` | the ports' methods and defaults, what each adapter advertises | through `Requests` |
| `ConsumePolicies` | which consume options an adapter takes, by which way of reading, from where | through `Requests` |
| `Requests` (EXTENDS these four) | the `run` functions of `cmd/*.rs`: which checks in which order, which operations | through `DataCommand` |
| `DataCommand` (EXTENDS `Requests`) | `cmd/mod.rs`, `resolver.rs`, `safety.rs`, `registry.rs` | `data_command`, `data_command_veto`, `data_command_explain` |
| `DataCommandProofs` | theorems about it and the five modules behind it | - |
| `AtLeastOnce` | the abstract promise of consumption | as a property |
| `BatchConsume` | `consume` of four adapters | `batch_consume` |
| `BatchConsumeProofs` | theorems about both | - |
| `Limiters` | `limiter.rs`, `input.rs`, `bounded.rs` as operators | through the modules below |
| `Artifact` (EXTENDS `Limiters`) | what `export` writes and `import` accepts | through `Import` |
| `Import` (EXTENDS `Artifact`) | `run_import` of `cmd/transfer.rs`; the writes behind it in `adapter-sql`, `adapter-redis` and `adapter-mongo` | `import` |
| `ImportProofs` | theorems about both | - |
| `HttpAnswer` | the bounded HTTP clients of search, Prometheus and RabbitMQ management | through the modules below |
| `MutationOutcome` | the abstract promise of mutations | as a property |
| `Mutation` (EXTENDS `Limiters`) | every budgeted write and publication of every adapter | `adapter_calls` |
| `ResourceDeletion` (EXTENDS `HttpAnswer`) | `delete_resource` of six broker adapters | `adapter_calls` |
| `MutationProofs` | theorems about these three | - |
| `BoundedRead` (EXTENDS `Limiters`, `HttpAnswer`) | queries, scans, pages, catalogs, schemas, values, details, lag, subscriptions, the export of keys | `adapter_calls` |
| `BoundedReadProofs` | theorems about it | - |
| `LagDimensions` | the arithmetic of the lag of groups | `adapter_calls` (ASSUME) |
| `MC*` | instances for TLC: model values; `MCAdapterCalls` composes the three modules of one call | |

**Faulty variants.** Next to some definitions stands one marked *Faulty variant*: the same
definition with a plausible bug (a permit not given back, a sync left out). Nothing uses it.
Substituting it for its original must make TLC find a violation, which shows that the
property it is paired with in `PROJECT.json` can fail.

### FlowControl

One caller is one call of an entry point. `pc` is where its future is suspended: waiting for
the rate limiter (`rate`), for a permit (`permit`), executing under the request timeout
(`exec`), napping between retries (`backoff`). `timer` is the tokio timer being awaited,
`left` what is left until `deadline_at`; both count ticks down and stay at zero, so that a
task may be polled arbitrarily late after its timer fired. `ahead` is the semaphore's FIFO
queue, as the set of calls in front of each waiter. `op` is the operation's progress:
`unsent`, `sent`, `applied` or `refused` by the remote side. When the local future is
dropped, a request on the wire stays in `stale` and may take effect at any time later, even
after the call has returned; `applied` counts effects. `Retryable` is
`DbError::is_retryable`; other errors of an operation are `Failed`.

External assumptions: `tokio::sync::Semaphore` is FIFO and an aborted waiter leaves its
queue; `tokio::time::timeout` polls the inner future before its timer (hence the guards
`tokens = 0` and `~CanAcquire(c)` of the two timeouts); the governor limiter hands out at
most `Burst` cells and refills at its own pace. An operation of a mutation reports a plain
`Connection` error only when nothing was submitted: the adapters turn a broken connection
after the submission into `OutcomeIndeterminate`. This is a contract with the adapters that
`FlowControl` cannot check itself, and `MutationOutcomeIsHonest` depends on it.
A comment in `throttle.rs` calls the backoff jittered; there is no jitter, the delay is
`100 ms * 2^min(attempt, 6)`, and so it is here.

### TerminalSession and TuiSession

`phase` follows the session; `rawMode`/`altScreen` are the guard's flags, `rawOn`/`altOn`
the terminal. A command is reduced to a `verb` (what it does) and a `spelling`: the gate
(`command_requires_write`) lower-cases the text and compares prefixes with one space, the
dispatcher splits at any white space and matches lower-case words only; `plain` is read
alike by both, `wide` and `upper` are not. What the user types is
nondeterministic: `Edit` jumps to the next complete command. `ExecuteCurrent` is the whole
handler: startup error, gate, read-only check, staging, dispatch, history. After the loop
the `App` is not read any more and `Leave` resets its variables. The variables `staged`
and `sent` are history variables of the properties.

### ConnectionFile

`log` is the content of the directory entry: the renames since the last sync of the
directory, so that the first element is what a power loss may go back to and the last is
what everyone reads. `pc` walks through `write_file_atomically`: create with `create_new`,
write, sync, rename, sync the directory; every step may fail, `Kill` ends a process between
any two, `PowerLoss` ends all of them and drops any suffix of the renames. Process ids are
reused by later processes, which is what makes the temporary names interesting. A
confirmation token stands for the digest of the action, name, old and new entry; digests
are assumed not to collide. The file system is assumed to rename atomically and to keep
what was synced.

### Requests and what they are built from

A request is `[cmd, arg, content, params]`: the command, the name of its argument in the tables an
instance gives (`Texts`, `RawArgs`, `Pipelines`, `Consumes`), which of several texts of that
shape it is, and the values of `--params`. `Steps` lists the checks of each command in the order of its `run` function,
`OperationsFor` the operations it asks the connector for, `MutationTimeoutSubject` the choice of
the runner in `main.rs`. What a request *does* (`Changes`, `Destroys`) is said
independently of how the code classifies it: by the semantics of SQL (`TextChanges` in
`Statements`), of Redis (`WriteCommands` in `RawCommands`), of the stages of a pipeline and of the
adapter's way of consuming (`MovingPaths` in `ConsumePolicies`).

- `Statements` classifies the syntax tree that sqlparser returns (external), with CTEs, set
  operations, locks, `INTO` and EXPLAIN, and judges text the parser cannot read by its first word.
  What a text *does* is a second recursion over the same tree (`TextChanges`), which follows the backend and not
  the code: EXPLAIN executes its statement if it is to be analysed, whether that stands before the statement
  (`analyze`, which the code sees) or among the options in parentheses (`option`, which it does not); a select list
  or VALUES may call a function that changes data (`calls`); what a text does that the parser cannot read is up to the
  text (`changes`). `Hides` says that a text has one of these three, `Overlooked` that it is taken for a read as well.
  The nodes of the tree are numbered, each after those it is made of (`WellFormed`), so that the three
  functions of `safety.rs`, which call one another, are one recursive function over the numbers (`Classes`).
- `RawCommands` has the policy of the command line (bounded by `--limit`) and that of the adapter
  (bounded by its own limit) side by side; `PoliciesAgree` compares them for every name and small
  word counts and indices. It also has the number of values in an answer and the keys that the
  script of a bounded read declares.
- `Capabilities` gives each port its required methods, its defaults that refuse, and each adapter
  what it advertises and overrides; `CountsLag` derives from the text of INFO whether a Redis
  server is new enough.
- `ConsumePolicies` follows `consume` of each adapter up to its first request: refused, or which
  way of reading; the way of reading decides whether the broker's state moves. It also has
  the first position each way starts from; `CursorsAreInclusive` says that a cursor given
  back reads its message again and nothing in front of it.

### DataCommand

One command at a time, against other processes that publish new versions of
`connections.toml` (`Publish`) between any two steps; `ConnectionFile` shows that each
load sees a whole version. `todo` holds the checks still to make, taken from `Steps`:
`CheckInput`, `EnsureWriteAllowed`, `ResolveDsn`, `CheckPolicy`, `Confirm` or
`ConfirmRequired`, and `Run`, which connects the adapter of the DSN's scheme and looks at the
operations it advertises. A token on the command line is one that an earlier invocation was
shown, for this request, one of the same shape or none; it is used at once or not at all.
A token is known by what it was shown for (`Tokens`); two of them are the same if `Digest` has the same of both,
as in `compute_token`: the operation with its resource and content, or the text of a statement *without its
parameters*, the label and the DSN behind it. `sql exec` and `cql exec` differ in nothing a token digests (`Alike`).
`AdmittedIsServed` then compares what passed with what the adapter would do.

### AtLeastOnce and BatchConsume

`AtLeastOnce` says what a bounded `consume` may do to the broker's progress: pass only
messages of a batch that was converted completely by a call that asked to acknowledge.
`BatchConsume` has the four adapters' protocols side by side, one chosen in `Init`:

- **AMQP**: `basic.get` up to the maximum, one multiple ACK that the broker never answers, and
  `abort_unacknowledged_batch`, which closes the channel and reports a definite failure only
  on close-ok.
- **JetStream durable**: pull, convert all, concurrent verified ACKs joined by
  `try_join_all`; the server redelivers after its ack wait, and takes a late ACK.
- **Redis group**: the member's own pending entries first, then new ones, one `XACK`
  whose count is compared. Several processes may share a member name (`member`).
- **Kafka group (rdkafka)**: poll, convert each message at once, one synchronous commit of
  the largest offset per partition; `Committed` accepts a commit that moves the offset
  backwards, as brokers do; rebalances happen while a consumer polls.

`Interrupted` drops the future or kills the process at any step. A message is a number, its
conversion succeeds or not (`unreadable`, which also stands for the byte budget), batches
are sets since no property depends on their order. The refinement mapping is
`claim <- Claims`: the acknowledgements a consumer has under way, and its batch while it acknowledges.
`PROPERTY AtLeastOncePromise` is the refinement.

### Artifact and Import

`Artifact` derives the files from the sources: what `export` writes about a source of up to a few
items, with keys that vanish between the scan and their reading, and every edit of one mark or
item of it, an older version, a value of another form. `Accepted` is the whole way of a file
through `read_artifact`, `validate_import_artifact`, `prepare_import` and the budgets of the input.
`lost` is what the file does not say: that something of the source is not in it. An edited
artifact of rows is not considered: beside the mark of truncation it has no count, so
that a removed row cannot be noticed by any reader.

`Import` starts from what an import believes (`Believed`: are the accepted files whole?). The
items of an artifact are numbered in its order; `target` says who put what stands under an
item's identity (its key, its unique value, its `_id`), and items that are not in `keyed` have
none. Each kind has its own path, as in the code:

- **entries**: with `--replace-existing` every key is looked up (`Probe`), the keys found need a
  token (`Confirm`), and each entry is restored by one script, with NX unless its key was
  found. What is restored before a failure stays.
- **documents**: every `_id` is looked up, and a found one refuses the import; then one ordered
  insert, whose every error is `OutcomeIndeterminate`.
- **rows**: one transaction. A failed row leads to a rollback, a failed rollback or commit to
  `OutcomeIndeterminate`. `sqlite.rs`, `mysql.rs` and `postgres.rs` are alike here.

A request on its way is in `wire`; it may be served after the process stopped waiting
(`ConnectionFails`, `Interrupted`), or be lost. `Interrupted` is FlowControl's timeout of a
mutation, and a killed process likewise. `stored`, `shown` and `overwritten` are history
variables. The digest of a token covers all entries; as there is one artifact, a token stands
for the set of keys it was computed for.

External assumptions: a Redis script is atomic; MongoDB serves an ordered insert one document
after the other and stops at the first duplicate; a SQL server shows the rows of a
transaction together at its commit, keeps the unique values of uncommitted rows to their
transaction, and rolls back when a connection is gone. A process starts after the
server is done with the requests of the one whose place it takes.

### Limiters and HttpAnswer

`Limiters` has the limiters of `dbtool-core` as operators on items with a size: the n+1 probe, the
envelope of bytes that is charged item by item, metadata, series and input. `usize` is
`0..MaxUsize` and wraps. `HttpAnswer` enumerates a reply (head, body, declared length, chunks) and the byte
behind which the connection closes, and says what each client makes of it. Only chunks and JSON reveal a
body that is not complete; `Content-Length` is compared with the limit, never with the bytes
received, and so it is here.

### MutationOutcome and Mutation

`MutationOutcome` says what every mutation promises: its parts take effect in their order and once
each, a definite error means that nothing was or will be changed, success that nothing is left
to happen. `terms` names where a protocol falls short: Kafka clients *repeat* a request whose
answer is late (idempotence is off), NATS is *early* because `flush` only empties the client's buffer.

`Mutation` is one call of any adapter: `Call` makes the preflight, `queue` holds the requests it
will send, `wire` those on their way, `effects` what the server did with them. `Serve`, `ServeSome`,
`ServeNil`, `ServeExisting`, `Refuse`, `Repeat`, `Break` and `Lose` are the server and the network; a
request may be carried out in part before an error, its answer may be lost, unreadable or too
large, and it may take effect after the call is over. Each `...Returns` is what the adapter makes of
the answer. Db2's blocking worker goes on after its future was dropped. `PROPERTY OutcomePromise` is
the refinement, with `lane` the partition of a message where rskafka sorts them.

### ResourceDeletion

All brokers but Redis look, delete and look again, and each may be disturbed between any two of
these by clients that publish, consume, delete and create (`OthersChange`). Kafka only marks the
topic (`marked`) and takes it away later. `gone` is a history variable: the name was free at some
moment since the request was sent. `destroyed` is what the deletion took with it.

### BoundedRead and LagDimensions

A method is a record (`Methods`): how it gets its items, whether it holds a pooled connection or a
temporary consumer, when it charges the names of columns, whether its rows are fixed at the start. Each
named action (`MySqlQuery`, `RedisScan`, `NatsStreams`, ...) is one method of one adapter, and the steps
behind it are those of its kind: rows one by one into the `ReadLimiter` with a probe; scan
cursors that repeat and hide keys; pages by number or offset; catalogs of which n+1 are
looked at; schemas in two answers; details and lag inspected item by item. Others add and remove items between
two requests (`OthersAdd`, `OthersRemove`); `always` and `ever` record what was there. The order of lists is left
out, since the properties do not depend on it.

`LagDimensions` has the conversion of the brokers' counters into committed, latest and lag; `LagAddsUp`
checks it for all small counters, one beyond the largest i64 included.

## 3. Runs

| run | instance | shows |
|---|---|---|
| `flow_control` | 2 calls, `max_concurrency = 0`, burst 1, deadline 3, timeouts 1, 1 retry, fairness | permits are conserved; one-shot operations are submitted once, and `run` at most once per attempt, counting requests that outlive their call; a mutation's error says truly whether it was applied; no stage outlasts the deadline; zero permits are treated as one, so that only a call that met another is `Overloaded`; every call returns although the rate limiter need not refill and the remote side need not answer |
| `tui_session` | 2 connections (one read-only), 6 commands, history of 2, fairness of the terminal | writes that the gate recognises are confirmed, one at a time, never on the read-only connection; the terminal is restored and the session ends |
| `tui_staging` (violated) | 2 writable connections | finding 1 |
| `tui_readonly` (violated) | as `tui_session` | finding 2 |
| `conn_file` | 2 process ids, 2 names, 2 values, 2 temporary names each, at most one publication before the last command starts | readers always see whole files, reported edits survive kills and power losses, an undisturbed edit changes exactly the confirmed entry |
| `conn_overwrite` (violated) | 1 name | finding 3 |
| `data_command` | 1 name, 2 DSNs, about 120 requests, every scheme, 4 answers to INFO | a lasting `readonly` is honoured in whatever order a command checks, for everything that changes data and that the classification can see; a token confirms one resource and content on one DSN; what may write runs as a mutation; what was admitted is served, by the method and the way of reading that was asked for |
| `data_command_veto` (violated) | the same | finding 4 |
| `data_command_explain` (violated) | `sql query` and `sql exec` of every text but calls of functions | finding 5 |
| `batch_consume` | 2 consumers, 3 messages in 2 partitions, batches of 2, at most one unreadable message, 4 protocols | every adapter implements `AtLeastOnce`; `Ok` means settled where brokers answer; an AMQP failure is a requeue; pending Redis entries come first |
| `import` | 2 processes, 2 items, 3 kinds of artifacts, the first entry may expire | whatever appears or vanishes between preflight, confirmation and write, only keys whose replacement was confirmed are replaced; rows are all or none; a definite failure means nothing more happens; success means everything is there, and that the file was whole |
| `adapter_calls` | one call of any adapter: a mutation of up to 3 items, a deletion, or a read of up to 3 names | mutations implement `MutationOutcome` and count their effects; deletions destroy what they were allowed to and do not claim what they did not see; `truncated` is exact while the listing changes; budgets are kept; no connection with unread rows goes back to its pool; every read ends |

**Why the bounds are enough.** `flow_control`: with one permit (of zero) and
two calls there is a holder and a waiter, and of the two one waits for a cell that the rate limiter need not
give; a retry makes a call wait for both again. The first nap takes two ticks, so that a deadline of three is
the shortest one within which a retry can still run; it also expires during any of the waits.
A second retry or permit repeats the steps of the first one, and the theorems below
hold for every number of calls, and so for longer queues, and every configuration; only `EveryCallReturns`
rests on this instance alone. `tui_session`: a history of two is full after two commands, so that its oldest
entry is dropped under a cursor; two connections are the fewest on which a selection can
change between staging and confirming. `conn_file`: two processes are enough for one to
disturb the other, two temporary names for one left behind to be skipped and for all of
them to be taken. `MaxPublications = 1` bounds invocations, not publications: every process
that has started may still publish. `data_command`: the properties relate one
name and one command; of the two DSNs one is of AMQP, whose deletions have options; `--limit` is 2,
below the adapter's own limit of 3 (above it the adapter refuses what the command line
admits, see section 6), and an answer may hold 6 values; `MaxU64 = 2` has a smallest, a largest and an
inner value in both parts of a stream position. `Publish` happens only while the command may
still load the file, since nothing reads it later. `batch_consume`: three messages and batches of two leave one outside
the first batch, and a partition with two messages has a gap to commit over. `import`: two items are the fewest of which a part can be
imported and for which a token can be computed for too few keys; two processes, with clients that write
anything at any time, give each step an import that overlaps it. Imports may be repeated without bound. Its artifacts come from
sources of up to three items at export limits of 2 and 3, so that some are complete, some full and some
truncated, with one edit each, under three sets of import options (taken as they are, with keys
moved, with too small a limit). `adapter_calls`: a command makes one call, so that the three modules never run
at the same time. Three items of which one is too large, one invalid and one in
another partition meet every limit of the input budget (2 items, 2 bytes each, 4 together). Of three names one may be
hidden and one is larger; read limits are 0, 1, 2 and the largest `usize` (30 here), byte budgets 4, 8 and
none; pages hold 2, so that a listing of 3 has two; scans use cursors up to 2 and may return to a
cursor they have used; one edit between two requests is enough to hide or repeat an item. `MaxRepeats = 1`,
`MaxGroups = 2` and `MaxChanges = 2` bound repeated requests, groups of a stream and the changes others make during
a deletion; `HeadLimit = 1` and `BodyLimit = 8` bound an HTTP answer.

**Deadlock** is checked where a system can always go on (`batch_consume`, `import`). The other models
stop by design: all calls done, the session ended, the bound on publications reached, the one call of
an adapter over, a command that would need a token it was not given.

**Fairness.** `FlowControl!FairSpec`: time passes (`Tick`), and the scheduler polls each call that
can go on (`Scheduled`), which is what the tokio runtime owes a woken task. Neither the remote
side nor the rate limiter is fair: a server may never answer, a cell may never come (`RateTimesOut` ends that wait). `TuiSession!FairSpec`: the terminal calls are
made one after the other by a process that does not stop between them; the user owes
nothing. `BoundedRead` (`adapter_calls`): weak fairness of `ReadStep`, that is, every awaited answer arrives or
fails, which `FlowControl`'s deadline makes sure of by dropping the call otherwise. `ReadsEnd` then says
that no cursor or page a server returns keeps a read going for ever; `ReadDropped` is not fair, so that it
does not end reads in place of the code's own bounds. The other models state safety only and
assume no fairness.

## 4. Proofs

`FlowControlProofs` proves for every finite set of callers and every configuration
(assumption `ConfigAssumption`: durations, limits and retries are naturals, the burst and the
backoff unit are positive) that `Spec` implies

| theorem | property |
|---|---|
| `TypeCorrect` | `TypeOK` |
| `PermitsAreConserved` | `PermitsConserved` |
| `SinglesAreNeverReplayed` | `NeverReplayed` |
| `MutationOutcomesAreHonest` | `MutationOutcomeIsHonest` |
| `RetriesAreBounded` | `ReplaysAreBounded` |
| `DeadlineIsRespected` | `BudgetsWithinDeadline` |
| `LoneCallIsAdmitted` | `OverloadedNeedsContention` |

None of the last five is inductive. `NeverReplayed` forbids a second submission but says
nothing about where a call is, so a state with a used-up footprint *and* an attempt still
to begin satisfies it and breaks it one step later. The inductive invariant `IInv` is
`TypeOK`, `PermitsConserved` and, for every call, `CallInv`:

- `AttemptInv`: an operation is in progress only while its call holds a permit, and the
  *footprint* (applied, stale and in flight) is bounded by the attempts, with one more only
  for an attempt that has submitted or a call that is done;
- `SingleInv`: a call that is no `run` never naps and has used no retry, and its outcome
  matches its footprint;
- `QueueInv`: a call queues behind other calls that have begun, never behind itself;
- `DeadlineInv` and `ContentionInv`: the timers against the deadline, and the witness of
  contention.

`QueueInv` and `PermitsConserved` together give `LoneCallIsAdmitted`: a call that times out for a permit
either waits behind somebody, or every permit is held and there is at least one, since
`Permits` clamps zero. `StepInv` has one lemma per action; those that move permits rest on
`HolderEnters` and `HolderLeaves` (the cardinality of the holders by the theorems on finite sets),
and the five ways out of an attempt share their argument on the footprint.

The second part of `MutationProofs` proves for every number of messages and of changes by other clients
(`DeletionAssumption`: both are naturals) that `DeletionSpec` implies

| theorem | property |
|---|---|
| `DeletionTypeCorrect` | `DeletionTypeOK` |
| `SuccessMeansAbsence` | `VerifiedAbsenceIsReal` |
| `DestructionIsGuarded` | `DestructionIsAsAsked` |

The last two say nothing about how far a call is, so neither survives a step by itself. The
inductive invariant adds `CallInv` (before the request nothing has happened on its behalf, and a call verifies
only what the server has accepted), `AdmittedInv` (options reach RabbitMQ only, since the others refuse
them; only Kafka marks topics) and `WordInv` (what the server's *yes* is worth: on Kafka that the name
is missed only after the topic went, elsewhere that it went; a Redis script is served once). There is
one lemma for each kind of step; `TakenAway` says what a deletion puts on record.

`ConnectionFileProofs` proves for every set of process ids, names, values and temporary names, and any
number of publications:

| theorem | property |
|---|---|
| `TypeCorrect` | `TypeOK` |
| `FilesAreWhole` | `WholeFilesOnly` |
| `AckedStays` | `AckedIsDurable` |
| `EditsAreExact` | `UndisturbedEditIsExact`, an action property |

A rename publishes what a process wrote long before, so that the file is whole only if every temporary file
that may still be renamed is: `TempInv` says so of the name a process holds, whoever used that name before it.
`LogInv` numbers the renames, `AckInv` ties an acknowledgement to the sync behind its rename, and `EditInv`
remembers which version a process has loaded, from which `EditsAreExact` follows when nobody published since.

`BatchConsumeProofs` proves for every set of consumers and messages, any partition of them and any size of a
batch:

| theorem | property |
|---|---|
| `TypeCorrect` | `TypeOK` |
| `SuccessSettles` | `OkMeansSettled` |
| `FailureRequeues` | `AmqpFailureRequeues` |
| `PendingFirst` | `PendingIsReplayedFirst` |
| `ImplementsAtLeastOnce` | `AtLeastOncePromise`: the refinement |
| `NothingUnreadIsPassed` | an invariant of `AtLeastOnce` itself |

The invariant follows a batch through the call: what was asked for (`AskedInv`), that it fits (`RoomInv`), that all
of it was converted before anything is acknowledged (`ReadableInv`), what is on the wire (`WireInv`), and where the
group stands (`PositionInv`). A Kafka commit names one offset for each partition; that it passes the batch and
nothing else rests on the largest element of a finite set of offsets (`LastElement`, `CommitPassesBatch`). For the
refinement, each action of an adapter is one step of `AtLeastOnce` or none.

`TuiSessionProofs` proves for every set of connections and commands and any limit of the history:

| theorem | property |
|---|---|
| `TypeCorrect` | `TypeOK` |
| `OnlyConfirmedWrites` | `GatedWritesAreConfirmed` |
| `ShellGetsItsTerminal` | `TerminalRestored` |

`StagedInv` says what a pending write is: something the gate recognised, on a connection that was writable when it
was staged (`tui_staging` shows that it may be another one when it is confirmed). `TermInv` relates the guard's flags to the terminal at
every step of `enter`, `restore` and `Drop`: what may be on is either flagged or was asked back.

`ImportProofs` proves for every number of processes and items, every source, limit and option:

| theorem | property |
|---|---|
| `AcceptedIsWhole` | what an import accepts of `Artifact`'s files holds all of its source |
| `TypeCorrect` | `TypeOK` |
| `NothingUnseenIsReplaced` | `ReplacementsWereConfirmed` |
| `AllRowsOrNone` | `RowsAreAtomic` |
| `FailuresAreDefinite` | `FailureIsDefinite` |
| `SuccessIsComplete` | `OkMeansImported` |

A request outlives the process that sent it, so the invariant keeps what a request says (`RequestInv`: which
items are in place, what may be replaced) apart from what its process knows (`CallInv`) and what an answer tells
(`AnswerInv`); `LockInv` has the rows of open transactions, which nobody else can see or write.

`MutationProofs` proves `ImplementsMutationOutcome`: every write and publication of every adapter implements
`MutationOutcome` (`OutcomePromise`), for inputs of any length and any number of repeated Kafka requests. The
parts of the input are numbered; `PlanInv` and `OrderInv` say that what has taken effect, what is on the wire and
what is still in the queue continue one another, `StageInv` and `AnswerInv` that before something may have been
written nothing is under way, and that an answer which is understood belongs to the last request. A step then
*begins* the abstract mutation, *tells* its outcome or *acts* on the server, and each is one step of the
promise, or none.

`SuccessIsCounted` (property `OkCountsEffects`) rests on a second invariant beside the first: what a success counts is
what took effect. Where an adapter promises all items, `CompleteInv` says that as long as nothing has gone wrong the
items counted, those of the last answer and those still to be answered are together the whole input, each once; where
a call is one request, `LoneInv` compares its answer with what the server did. `ShapeInv` has the requests that
carry one message alone, and `AdmittedInv` that nothing leaves for an input the limiter has not admitted as a whole.
Neither is inductive without what holds before and between the requests: an idle call has counted nothing, and no answer
counts nothing (`CountInv`). Db2 and Cassandra report no count of rows, and `Result` says so.
`MutationTypeCorrect` adds the range of the counters (`RangeInv`), which rests on both: what a call has counted when it
fails half-way it had counted while all was well.

`BoundedReadProofs` proves for names, sizes, budgets, pages, cursors and time series of any number and length:

| theorem | property |
|---|---|
| `BudgetsAreKept` | `BudgetKept` |
| `NoReadIsLeftOpen` | `NothingIsLeftOpen` |
| `TruncationIsKeptHonest` | `TruncationIsHonest` |
| `ReadTypeCorrect` | the type invariant of a read, part of `TypeOK` |

The limiters are recursions over what a server sends, and the induction theorems of the library cannot be used
(see below). `LeastElement` derives from the well-foundedness of `<` that a set of numbers has a least element,
`UpTo` that a set which contains 0 and the successor of each of its members contains all, `Recursion` and
`RecursionKeeps` that a recursive function exists and keeps what each of its steps keeps. With them
`ObserveItemFits` (one item), `ReadAllReads` (a list), `RetainSeriesType` and `ReadSeriesType` (time series)
bound what a limiter has let through; `FinishesFits` and `ExactFits` bound an answer. The invariant says what a
limiter knows (`TallyInv`), what fits (`BudgetInv`, `ResultInv`), and who has the connection (`SocketInv`):
`NothingIsLeftOpen` alone would let a stream that is still being read stand in its pool.

`TruncationIsHonest` compares an answer with what was on the server, at every moment of the read, while others add and
remove. A second invariant, `HInv`, rests on the first and says what each kind of method has passed over so
far. `StreamInv`: what a stream has not shown is still to come, and no name is both. `ScanInv`: what a SCAN, a walk of
pages or a lag has kept was there, once each; that a SCAN has seen everything is known only from the page that ends
it, which the model of the server demands. `PageInv`: what stands in front of the next page has been seen, *unless
something was removed*, which is why paging by offset is excepted. `ExportInv` and `InspectInv` have the names
whose values, or watermarks and pending counts, are still to be read; `InspectInv` is a disjunction, since a
group with more topics than asked for is never complete. `MethodInv` says where an unlimited read has its budget: the lag of a group asks
for `usize::MAX` names and calls the answer complete, and the proof needed what the code takes for granted,
that a listing fits into memory (`Cardinality(Names) < MaxUsize` in `BoundedReadAssumption`).

`DataCommandProofs` proves for any requests, texts, options, connections, budgets and limits (assumptions
`RequestsAssumption`: the parser returns trees and clap words, numbers and flags; `DataCommandAssumption`: a
request is one of the commands and its argument has an entry in the tables; `Capabilities` and `ConsumePolicies`
assume their limits to be numbers):

| theorem | property |
|---|---|
| `ReadsAreReads` | a text that `SafetyGuard` classifies as a read changes nothing, unless it `Hides` something |
| `TypeCorrect` | `TypeOK` |
| `WritesArePermitted` | `ReadOnlyThroughoutIsVetoed` |
| `DestructionIsConfirmed` | `DestructionWasConfirmed` |
| `MutationsAreSubjects` | `RunsAsMutation` |
| `RequestsAreServed` | `AdmittedIsServed` |

`ReadsAreReads` compares two recursions over the parser's tree, the class of each part and whether it changes data;
`Recursion` shows that each exists, since a part is made of earlier ones, and the theorem follows by induction over
the numbers of the parts (`UpTo`): a part that changes data and hides nothing is no read. The exception is not small:
it has every text the parser cannot read, every EXPLAIN with ANALYZE in parentheses and every call of a
function with effects. `WritesArePermitted` and `MutationsAreSubjects` inherit it (`Seen`), for statements that are
classified as reads only; `data_command_explain` shows that it is needed. `DestructionIsConfirmed` says what equal
digests say: the same operation, resource, content or text, label and DSN, and nothing of `--params`. Every property speaks of the state in which a
command runs, and nothing in it follows from the last check alone. The inductive invariant `IInv` therefore
keeps what each check that was passed has established, whatever was published since (`InputInv`, `WriteInv`,
`DsnInv`, `PolicyInv`, `ConfirmInv`), beside the checks still to make (`TodoInv`: each once, the resolution before the
confirmation) and what holds once the command runs (`RunInv`). `StepsAreListed` says of each of the eleven orders of checks that it has the
ones its request needs, and the resolution before the confirmation, without which a token would be compared with the
wrong DSN. `RequestsAreServed` is a statement about tables that are nowhere in one place: what fifteen adapters
advertise against what they override, and two policies of raw commands against each other, name by name.

The inductive invariants were checked by TLC on the instances of the runs before they were proved.

**What the proofs changed.** Four definitions were wrong in a way no run had shown. `DocumentAnswer` gave an absent
document to its caller without the check of the envelope that `finish_optional` makes for it as well; `CASE` with two
true arms (in `HttpAnswer`, `ConsumePolicies` and `Limiters`) means an arbitrary one of them, of which TLC takes the
first, and is now a chain of IFs; `ListLimiter` alone counts no bytes, which `BudgetKept` now says; WITHSCORES doubled the elements of an LRANGE as
well, which has no scores. `SelectSeq` is
out of the prover's reach, and `Among`, `Remaining`, `InPartition` and `Total` stand in its place.

**Only model-checked.**

- That the three components of `MCAdapterCalls` side by side keep `TypeOK` has no theorem of its own; each of its three
  parts has one (`MutationTypeCorrect`, `DeletionTypeCorrect`, `ReadTypeCorrect`), and none changes another's state.
- Liveness (`EveryCallReturns`, `SessionEnds`, `ReadsEnd`) and anything with ENABLED.
- `PoliciesAgree`, `CursorsAreInclusive` and `LagAddsUp`, which TLC evaluates over bounded inputs.
- Library theorems that take an operator as a parameter, induction over data among them, cannot be instantiated by the
  installed provers; what is needed of induction is derived as above.

## 5. Where code and documentation disagree

1. `tui_staging`: `docs/interface-usage.zh-CN.md:374` describes a one-shot pending
   state confirmed by `y`. The pending write keeps only the text: after another connection is
   selected, `y` runs it there (`app.rs:198`).
2. `tui_readonly`: `dbtool-design.md:387` says `readonly=true` vetoes writes. A key-value, search or
   time-series write with two spaces after the first word is no write for the gate
   (`app.rs:940`) and is executed unconfirmed on a read-only connection. SQL is not concerned:
   it is authorized a second time before it is executed.
3. `conn_overwrite`: `docs/interface-usage.zh-CN.md:146` says overwriting takes two steps. Load and
   publication are not under a lock (`conn.rs:303-340`): an `add` overwrites the entry another
   process has published meanwhile, or drops it.
4. `data_command_veto`: the veto and the resolution load the file separately
   (`cmd/mod.rs:101`, `:127`); an edit in between lets a command write to the DSN of a read-only entry.
5. `data_command_explain`: `dbtool-design.md:386-387` says that writes need `--allow-write` and that `readonly=true`
   vetoes them. `classify_statement` looks into an EXPLAIN only if it is EXPLAIN ANALYZE (`safety.rs:269-277`), and
   `classify_by_keyword` calls every EXPLAIN a read (`safety.rs:386`), so that `EXPLAIN (ANALYZE) DELETE ...`, which
   PostgreSQL executes, passes `sql query` and `sql exec` without either and runs under the reading runner. Of
   functions with effects `docs/test-evidence/sql-readonly-guard.md` says itself that no parser can know them.

Other disagreements met while modelling; the models follow the code, and no run is spent on them:

- `dbtool-design.md:392` and `docs/interface-usage.zh-CN.md:715-719` want an operation whose remote
  execution cannot be decided to end in `OUTCOME_INDETERMINATE`. `delete_resource` of every broker adapter
  reports a lost answer, or a failed verification after the deletion, as a plain error (`DeletionBreaks`,
  `LooksInVain`); only a call dropped by `FlowControl` is indeterminate.
- `dbtool-design.md:612` says that a token binds the content, and `:391` that the second call replays the same
  content. The token of `sql exec` is computed from its text, target and impact (`safety.rs:88`): the same text with
  other `--params` is confirmed by it. `Digest` leaves `params` out accordingly, `MCDataCommand` has a request with two
  values of them, and `DestructionWasConfirmed` claims the text only.
- A comment in `mysql.rs` (`query_budgeted`) says that any early stop retires the socket. A call
  dropped by `FlowControl` leaves it to the pool as it is; `NothingIsLeftOpen` excludes it.
- With `--offset N` a Redis stream is read behind the entry `N-0`, while a cursor reads its own
  message again.
- rskafka's `consume` looks neither at the identity nor at the acknowledgement; only the operation the CLI
  requires keeps a group request from it. It shows a tombstone as an empty payload, which rdkafka refuses.
- A topic created by someone else in between is an indeterminate error for rskafka and fine for rdkafka.

## 6. Not modelled, and why

Screen layout, text conversions (values, BSON, JSON), DSN parsing, the normalisation of raw command
names and completions keep no state between operations. The limits on the size of
`connections.toml` and the fields of the TUI's forms are left out. A broken connector that stays in the
cache of the connection manager, and several callers waiting on its mutex, cannot occur in the TUI, its only
user. Of the reads, the legacy unbounded lists, the unbounded JetStream lag, and Db2's foreign keys and DDL
are left out; the bounded forms beside them are modelled. The race of two processes that create one durable
JetStream consumer is planned.

Assumptions that bound what the properties say:

- `ReadOnlyThroughoutIsVetoed` and `RunsAsMutation` except statements that are taken for reads although they have an
  effect the classification does not look for (`Seen`; finding 5). `Destroys` asks of a statement what
  `SafetyGuard` calls destructive, since that is what the documents promise a token for.
- Two texts that normalise to the same text are one text in a token, and digests do not collide.
- `AdmittedIsServed` assumes `--limit` at most the adapter's limit (10 000); above it the adapter refuses raw
  commands the CLI admits. A consume the CLI admits may still be refused by its adapter.
- Paging by offset skips an item when an earlier one is removed between two pages, silently; `TruncationIsHonest`
  excludes exactly this. The JetStream lag notices a changed total, not a removal and an addition together.
- Cassandra and Db2 report no affected rows; NATS reports success before its server has the messages.
- An artifact of rows has no count, so that a removed row is not noticed.

## 7. Plan

1. The race of two processes to create a durable JetStream consumer.
2. `ConnectionManager` with several callers.
