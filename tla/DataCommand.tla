----------------------------- MODULE DataCommand ----------------------------
(***************************************************************************)
(* A data command of the CLI from its start to the call of the adapter:    *)
(* the checks of its request in the order the command makes them (module   *)
(* Requests), among them the read-only veto (Context::ensure_write_allowed),*)
(* the resolution of the connection (Context::resolve_dsn) and the         *)
(* two-phase confirmation (SafetyGuard).  The veto and the resolution each *)
(* load connections.toml; other processes publish new versions of it       *)
(* meanwhile (ConnectionFile shows that each load sees a whole one).       *)
(* DBTOOL_CONN_<NAME> and --dsn take the place of the file.                *)
(***************************************************************************)
EXTENDS Requests, Integers

CONSTANTS
  Names, Dsns,
  AmqpDsns,     \* the DSNs whose scheme is amqp or amqps
  ServerInfos,  \* what Redis servers answer to INFO: [answered, lines, plain, major]
  Asked         \* the requests users make

ASSUME DataCommandAssumption ==
  \A r \in Asked :
    /\ r.cmd \in Commands
    /\ r.cmd \in TextCommands => r.arg \in DOMAIN Texts
    /\ r.cmd = "kv raw" => r.arg \in DOMAIN RawArgs
    /\ r.cmd = "mq consume" => r.arg \in DOMAIN Consumes

NoDsn    == "none"
NoEntry  == [dsn |-> NoDsn, readonly |-> FALSE]
Entries  == [dsn : Dsns, readonly : BOOLEAN]
NoRequest == [cmd |-> "none", arg |-> "none", content |-> 0, params |-> 0]

\* A confirmation token is known by what the user was shown it for: the request, the
\* visible target, which is the connection's name or the redacted DSN, and the hidden
\* scope, which is the resolved DSN.
Tokens  == [request : Asked, label : Names \cup {"redacted"}, dsn : Dsns]
NoToken == [request |-> NoRequest, label |-> "none", dsn |-> NoDsn]

\* The commands whose operation a token does not tell apart: of a statement it has the
\* text only.
Alike(cmd) == IF cmd \in {"sql exec", "cql exec"} THEN {"sql exec", "cql exec"} ELSE {cmd}

\* Faulty variant: the content is not digested.
DigestOfResource(token) ==
  [operation |-> Alike(token.request.cmd), arg |-> token.request.arg, content |-> 0,
   label |-> token.label, dsn |-> token.dsn]

\* compute_token: the operation with all its resource and scope, or the normalised
\* text of a statement without its parameters; the target with the hidden DSN
Digest(token) ==
  [operation |-> Alike(token.request.cmd), arg |-> token.request.arg,
   content |-> token.request.content, label |-> token.label, dsn |-> token.dsn]

\* Where the DSN comes from: the file, the environment or --dsn
Origins == {[source |-> "file", given |-> NoDsn]}
             \cup [source : {"environment", "option"}, given : Dsns]
Invocations ==
  [request : Asked, name : Names, allowWrite : BOOLEAN, origin : Origins,
   confirm : Tokens \cup {NoToken}]

VARIABLES
  config,      \* the entries of connections.toml
  at,          \* "idle", "checking", "refused" for want of a token, "ran"
  inv,         \* its arguments and environment
  todo,        \* the checks still to make
  dsn,         \* what resolve_dsn returned
  kind,        \* the adapter that is connected
  lagSupported, \* its server counts the lag of a group
  fromEntry,   \* history variable: the entry the DSN was read from
  wasWritable, \* history variable: since the command began, writes to the named
               \* connection were allowed at some moment
  shown        \* history variable: the confirmation token the user was shown

vars == <<config, at, inv, todo, dsn, kind, lagSupported, fromEntry, wasWritable, shown>>

Idle == [request |-> NoRequest, name |-> "none", allowWrite |-> FALSE,
         origin |-> [source |-> "file", given |-> NoDsn], confirm |-> NoToken]

Init ==
  /\ config \in [Names -> Entries \cup {NoEntry}]
  /\ at = "idle" /\ inv = Idle /\ todo = <<>> /\ dsn = NoDsn
  /\ kind = "none" /\ lagSupported = FALSE
  /\ fromEntry = NoEntry /\ wasWritable = FALSE /\ shown = NoToken

WritesAllowed(i, c) == i.origin.source # "file" \/ ~c[i.name].readonly

\* The next check is this one, and it passes.
Passes(step) ==
  /\ at = "checking" /\ todo # <<>> /\ Head(todo) = step
  /\ todo' = Tail(todo)
  /\ UNCHANGED <<config, at, inv, kind, lagSupported, wasWritable, shown>>
-----------------------------------------------------------------------------
\* The process starts.  A token on its command line is the one the user was
\* shown, for this request, for one of the same shape with another content or other
\* parameters, or for a command that takes none; who does not use a token at once
\* does not use it later.
Begin(i) ==
  /\ at = "idle"
  /\ i.confirm # NoToken =>
       \/ i.request.cmd \in Alike(shown.request.cmd) /\ i.request.arg = shown.request.arg
       \/ i.request.cmd \in {"doc update", "doc delete"}
  /\ inv' = i /\ at' = "checking" /\ todo' = Steps(i.request)
  /\ wasWritable' = WritesAllowed(i, config)
  /\ shown' = i.confirm
  /\ UNCHANGED <<config, dsn, kind, lagSupported, fromEntry>>

\* The arguments are parsed and measured before anything is looked up.
CheckInput == Passes("input") /\ InputIsValid(inv.request) /\ UNCHANGED <<dsn, fromEntry>>

\* Faulty variant: --allow-write alone is enough.
EnsureFlagOnly == Passes("write") /\ inv.allowWrite /\ UNCHANGED <<dsn, fromEntry>>

\* ensure_write_allowed
EnsureWriteAllowed ==
  /\ Passes("write")
  /\ inv.allowWrite /\ WritesAllowed(inv, config)
  /\ UNCHANGED <<dsn, fromEntry>>

\* Faulty variant: a name the file does not have resolves to nothing.
ResolveMissing ==
  /\ Passes("resolve")
  /\ dsn' = IF inv.origin.source = "file" THEN config[inv.name].dsn ELSE inv.origin.given
  /\ fromEntry' = IF inv.origin.source = "file" THEN config[inv.name] ELSE NoEntry

\* resolve_dsn: --dsn, the environment, then the file
ResolveDsn ==
  /\ Passes("resolve")
  /\ \/ inv.origin.source # "file" /\ dsn' = inv.origin.given /\ UNCHANGED fromEntry
     \/ /\ inv.origin.source = "file" /\ config[inv.name] # NoEntry
        /\ dsn' = config[inv.name].dsn
        /\ fromEntry' = config[inv.name]

\* What only some commands check between the resolution and the connection.  The
\* scheme of the DSN tells the AMQP adapter from the others.
CheckPolicy ==
  /\ Passes("policy")
  /\ PolicyAllows(inv.request, IF dsn \in AmqpDsns THEN "amqp" ELSE "other",
                  inv.confirm # NoToken)
  /\ UNCHANGED <<dsn, fromEntry>>

Label(i)       == IF i.origin.source = "option" THEN "redacted" ELSE i.name
TokenFor(i, d) == [request |-> i.request, label |-> Label(i), dsn |-> d]

\* Faulty variant: the token is compared by what the user sees of the target.
ConfirmVisibleTarget ==
  /\ Passes("confirm")
  /\ inv.allowWrite
  /\ Destructive(inv.request) =>
       [Digest(inv.confirm) EXCEPT !.dsn = dsn] = Digest(TokenFor(inv, dsn))
  /\ UNCHANGED <<dsn, fromEntry>>

\* SafetyGuard with the right token, or for what needs none
Confirm ==
  /\ Passes("confirm")
  /\ inv.allowWrite
  /\ Destructive(inv.request) => Digest(inv.confirm) = Digest(TokenFor(inv, dsn))
  /\ UNCHANGED <<dsn, fromEntry>>

\* SafetyGuard without a token: the user is shown the one that would confirm.
ConfirmRequired ==
  /\ at = "checking" /\ todo # <<>> /\ Head(todo) = "confirm"
  /\ inv.allowWrite /\ Destructive(inv.request) /\ inv.confirm = NoToken
  /\ shown' = TokenFor(inv, dsn)
  /\ at' = "refused"
  /\ UNCHANGED <<config, inv, todo, dsn, kind, lagSupported, fromEntry, wasWritable>>

\* Everything checked: the registry connects, the operations the command needs
\* are among the advertised ones, and their methods are called.  A variant is a
\* Kafka adapter without librdkafka; a Redis server says which version it has.
Run(scheme, pure, info) ==
  /\ at = "checking" /\ todo = <<>>
  /\ (scheme \in {"amqp", "amqps"}) = (dsn \in AmqpDsns)
  /\ kind' = KindOf(scheme, pure)
  /\ lagSupported' = (kind' = "redis" /\ CountsLag(scheme, info))
  /\ OperationsFor(inv.request) \subseteq Operations(kind', lagSupported')
  /\ at' = "ran"
  /\ UNCHANGED <<config, inv, todo, dsn, fromEntry, wasWritable, shown>>

\* A check failed (the process exits with an error), or the command is over.
End ==
  /\ at # "idle"
  /\ at' = "idle" /\ inv' = Idle /\ todo' = <<>> /\ dsn' = NoDsn /\ fromEntry' = NoEntry
  /\ kind' = "none" /\ lagSupported' = FALSE /\ wasWritable' = FALSE
  /\ UNCHANGED <<config, shown>>

\* Another process publishes an edited configuration.  A command that will not
\* load the file any more does not notice, and is left alone here.
Publish(n, e) ==
  /\ config[n] # e
  /\ at = "idle" \/ \E step \in {"write", "resolve"} : step \in Elements(todo)
  /\ config' = [config EXCEPT ![n] = e]
  /\ wasWritable' = (wasWritable \/ (at # "idle" /\ WritesAllowed(inv, config')))
  /\ UNCHANGED <<at, inv, todo, dsn, kind, lagSupported, fromEntry, shown>>

Next ==
  \/ \E r \in Asked, n \in Names, w \in BOOLEAN, o \in Origins, token \in {NoToken, shown} :
       Begin([request |-> r, name |-> n, allowWrite |-> w, origin |-> o, confirm |-> token])
  \/ CheckInput \/ EnsureWriteAllowed \/ ResolveDsn \/ CheckPolicy
  \/ Confirm \/ ConfirmRequired
  \/ \E scheme \in Schemes, pure \in BOOLEAN, info \in ServerInfos : Run(scheme, pure, info)
  \/ End
  \/ \E n \in Names, e \in Entries \cup {NoEntry} : Publish(n, e)

Spec == Init /\ [][Next]_vars
-----------------------------------------------------------------------------
(* Properties *)

\* Every variable has its type.
TypeOK ==
  /\ config \in [Names -> Entries \cup {NoEntry}]
  /\ at \in {"idle", "checking", "refused", "ran"}
  /\ inv = Idle \/ inv \in Invocations
  /\ Elements(todo) \subseteq {"input", "write", "resolve", "policy", "confirm"}
  /\ dsn \in Dsns \cup {NoDsn} /\ fromEntry \in Entries \cup {NoEntry}
  /\ kind \in Kinds \cup {"none"}
  /\ {lagSupported, wasWritable} \subseteq BOOLEAN
  /\ shown \in Tokens \cup {NoToken}

\* A statement classified as a read that has something classification does not see
\* (Hides) is the one exception of the next property and of RunsAsMutation, and
\* ChangesNeedPermission shows it.
Seen(r) == ~OverlookedText(r)

\* Whatever changes data, moves a shared reading position or removes messages
\* runs only with --allow-write, and not on a connection that stayed read-only
\* for the whole command: in whichever order the command checks and resolves, and
\* whichever command carries it; a statement also inside CTEs, set operations and
\* EXPLAIN ANALYZE, but not behind EXPLAIN (ANALYZE), a function call or a text the
\* parser cannot read (Seen).
ReadOnlyThroughoutIsVetoed ==
  at = "ran" /\ Changes(inv.request, kind) /\ Seen(inv.request) => inv.allowWrite /\ wasWritable

\* A destructive operation reaches the very DSN the user was shown a token for, under
\* the same label, with the resource and the content it was shown for, even though
\* the token shows no more of the DSN than the connection's name.  Of an SQL statement
\* that is its text: compute_token does not see the values of --params.
DestructionWasConfirmed ==
  at = "ran" /\ Destroys(inv.request) =>
    /\ shown.dsn = dsn /\ shown.label = Label(inv)
    /\ inv.request.cmd \in Alike(shown.request.cmd)
    /\ inv.request.arg = shown.request.arg /\ inv.request.content = shown.request.content

\* What may change data runs under the runner that reports a timeout as an
\* indeterminate outcome: main.rs chooses the runner from the arguments, before
\* the command classifies them.  Statements that are not Seen are excepted.
RunsAsMutation ==
  at = "ran" /\ Changes(inv.request, kind) /\ Seen(inv.request) => MutationTimeoutSubject(inv.request)

\* A request that passed every check is served: each method it calls is the
\* adapter's own and not a default that refuses, and the adapter's policy of raw
\* commands admits what the command line's admitted.  However many elements the
\* database holds, a reading command is refused for the size of its answer only, and
\* a mutating one has no answer that could be refused when the data are changed.  A
\* consumer that is not refused reads as the identity it was given, and nothing is
\* acknowledged unasked or left unacknowledged.
AdmittedIsServed ==
  at = "ran" =>
    /\ \A method \in OperationsFor(inv.request) : Serves(kind, method)
    /\ inv.request.cmd = "mq consume" =>
         LET path == ConsumePath(Consumes[inv.request.arg], kind) IN
           path # "refused" => Honours(path, Consumes[inv.request.arg])
    /\ inv.request.cmd = "kv raw" /\ Limit <= RawAdapterItemLimit =>
         LET c == RawArgs[inv.request.arg] IN
           IF RawMutates(inv.request)
           THEN ValidateRawMutationInput(c) /\ ~ReturnsValues(c) /\ ResponseFits(MutationNodes(c))
           ELSE /\ ValidateBoundedRawCommand(c)
                /\ ScriptKeys(c) \subseteq 2..c.args
                /\ \A there \in 0..Limit + 2, bytes \in 1..2 :
                     LET answer == Answer(c, AnswerElements(c, there), bytes) IN
                       RawCommandBounded(c, answer, [max_items |-> Limit, max_bytes |-> 1])
                         <=> bytes = 1 /\ answer.nodes <= RawNodeLimit
-----------------------------------------------------------------------------
(* Claims of the documentation the code does not keep. *)

\* readonly = true of a named connection vetoes every write: the entry whose DSN is
\* written by a request that is recognised as a write was not read-only
\* (dbtool-design.md).
ReadOnlyVetoesWrites ==
  at = "ran" /\ Changes(inv.request, kind) /\ Seen(inv.request) => ~fromEntry.readonly

\* Every write needs --allow-write, and readonly = true of a named connection vetoes
\* it (dbtool-design.md), whatever statement it is written in: safety.rs takes
\* EXPLAIN (ANALYZE) of a changing statement for a read.
ChangesNeedPermission == at = "ran" /\ Changes(inv.request, kind) => inv.allowWrite /\ wasWritable
=============================================================================
