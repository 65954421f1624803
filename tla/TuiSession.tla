----------------------------- MODULE TuiSession -----------------------------
(***************************************************************************)
(* One session of the terminal user interface (dbtool-tui): the key        *)
(* bindings of AppState::handle_key, the command gate of                   *)
(* App::execute_current with its one-shot pending write, the command       *)
(* history, and the connection cache behind them.                          *)
(*                                                                         *)
(* A command is reduced to what its text makes the gate and the dispatcher *)
(* do.  The gate (command_requires_write) compares prefixes, the dispatcher*)
(* (execute_tui_command) splits words: the spelling tells the two apart.   *)
(***************************************************************************)
EXTENDS TerminalSession, Sequences

CONSTANTS
  Connections,   \* number of entries of the connection list
  ReadOnly,      \* the entries with readonly = true
  Commands,      \* the commands a user can type, a subset of AllCommands
  FormCommands,  \* the commands the command forms build
  MaxHistory     \* MAX_COMMAND_HISTORY

\* "read": sql select, kv get, ...; "sqlWrite": SQL that is no read; "write":
\* kv set, kv del, search index, ts write; "badSql": refused by the classifier.
\* "plain": lower-case words, one space apart; "wide": white space after the
\* first word that the gate does not take for one (two spaces, and for SQL a
\* full-width space); "upper": upper-case words.
AllCommands == [verb : {"read", "sqlWrite", "write", "badSql"},
                spelling : {"plain", "wide", "upper"}]
Empty == [verb |-> "empty", spelling |-> "plain"]

\* An empty configuration is replaced by a scratch connection, so there is
\* always one to select.
ASSUME TuiAssumption ==
  /\ Connections \in Nat \ {0}
  /\ ReadOnly \subseteq 1..Connections
  /\ Commands \subseteq AllCommands
  /\ FormCommands \subseteq Commands
  /\ MaxHistory \in Nat \ {0}

VARIABLES
  startupError,    \* whether loading the configuration failed
  panel,           \* active_panel
  selected,        \* selected connection
  query,           \* query_input
  pending,         \* pending_write, Empty for None
  history,         \* command_history
  cursor,          \* history_cursor, 0 for None, otherwise counted from 1
  draft,           \* history_draft
  cached,          \* connections with a connector in the ConnectionManager
  staged,          \* history variable: where the pending write was staged
  sent             \* history variable: the last mutation a backend was asked for

pendVars == <<pending, staged>>
editVars == <<query, history, cursor, draft>>
runVars  == <<cached, sent>>
uiVars   == <<panel, selected>>
vars == <<termVars, startupError, uiVars, editVars, pendVars, runVars>>

Running == phase = "running"
Panels  == {"ConnectionList", "CommandForm", "QueryInput", "Results"}
Nowhere == [command |-> Empty, on |-> 0]
Nothing == [command |-> Empty, on |-> 0, confirmed |-> FALSE, from |-> Nowhere]

FreshApp ==
  /\ panel = "ConnectionList" /\ selected = 1
  /\ query = Empty /\ history = <<>> /\ cursor = 0 /\ draft = Empty
  /\ pending = Empty /\ staged = Nowhere
  /\ cached = {} /\ sent = Nothing

Init == TermInit /\ startupError \in BOOLEAN /\ FreshApp
-----------------------------------------------------------------------------
(* The gate and the dispatcher. *)

\* command_requires_write: SQL is classified by its statement, the rest by a
\* lower-cased prefix with exactly one space after the first word.
RequiresWrite(c) ==
  \/ c.verb = "sqlWrite" /\ c.spelling = "plain"
  \/ c.verb = "write" /\ c.spelling \in {"plain", "upper"}
GateFails(c) == c.verb = "badSql" /\ c.spelling = "plain"

\* What reaches a mutating method: words are matched in lower case, whatever
\* white space separates them; SQL is authorized once more before it runs.
Mutates(c, confirmed) ==
  /\ c.spelling # "upper"
  /\ \/ c.verb = "write"
     \/ c.verb = "sqlWrite" /\ confirmed /\ selected \notin ReadOnly

\* record_command: no adjacent duplicate, the oldest entry makes room
Recorded(c) ==
  IF history # <<>> /\ history[Len(history)] = c THEN history
  ELSE IF Len(history) < MaxHistory THEN Append(history, c)
  ELSE Append(Tail(history), c)

\* get_or_connect caches the connector it makes; connecting, or preparing the
\* mutation before it, may fail.
Connect == cached' = cached \cup {selected}

\* execute_tui_command on the selected connection, and what follows it
Dispatch(c, confirmed) ==
  /\ \/ UNCHANGED <<cached, sent>>
     \/ Connect /\ UNCHANGED sent
     \/ /\ Mutates(c, confirmed)
        /\ Connect
        /\ sent' = [command |-> c, on |-> selected, confirmed |-> confirmed, from |-> staged]
  /\ history' = Recorded(c) /\ cursor' = 0 /\ draft' = Empty
  /\ pending' = Empty /\ staged' = Nowhere
  /\ UNCHANGED query

Cancel == pending' = Empty /\ staged' = Nowhere

Stage(c) == pending' = c /\ staged' = [command |-> c, on |-> selected]

\* execute_current(confirmed_write)
ExecuteCurrent(c, confirmed) ==
  /\ Running
  /\ IF startupError \/ (c # Empty /\ (GateFails(c) \/ (RequiresWrite(c) /\ selected \in ReadOnly)))
     THEN Cancel /\ UNCHANGED <<editVars, runVars>>
     ELSE \/ c = Empty /\ UNCHANGED <<pendVars, editVars, runVars>>
          \/ c # Empty /\ RequiresWrite(c) /\ ~confirmed /\ Stage(c)
             /\ UNCHANGED <<editVars, runVars>>
          \/ c # Empty /\ (RequiresWrite(c) => confirmed) /\ Dispatch(c, confirmed)
  /\ UNCHANGED <<termVars, startupError, uiVars>>
-----------------------------------------------------------------------------
(* The keys, while the event loop runs. *)

PressTab ==
  /\ Running
  /\ panel' = CASE panel = "ConnectionList" -> "CommandForm"
                [] panel = "CommandForm"    -> "QueryInput"
                [] panel = "QueryInput"     -> "Results"
                [] panel = "Results"        -> "ConnectionList"
  /\ UNCHANGED <<termVars, startupError, selected, editVars, pendVars, runVars>>

\* Faulty variant: the selection walks off the list.
SelectAnywhere ==
  /\ Running /\ panel = "ConnectionList"
  /\ selected' \in {selected - 1, selected + 1}
  /\ UNCHANGED <<termVars, startupError, panel, editVars, pendVars, runVars>>

\* Up and Down; the list is empty when the configuration failed to load
SelectConnection ==
  /\ Running /\ panel = "ConnectionList" /\ ~startupError
  /\ selected' \in {selected - 1, selected + 1} \cap 1..Connections
  /\ UNCHANGED <<termVars, startupError, panel, editVars, pendVars, runVars>>

ResetNavigation == cursor' = 0 /\ draft' = Empty

\* F4, and Enter in the form panel: apply_form_to_query.  Which form is shown
\* and what its fields hold is the user's input.
ApplyForm ==
  /\ Running
  /\ query' \in FormCommands
  /\ panel' = "QueryInput"
  /\ ResetNavigation
  /\ UNCHANGED <<termVars, startupError, selected, history, pendVars, runVars>>

\* Typing and deleting in the query panel, up to the next complete command
Edit ==
  /\ Running /\ panel = "QueryInput"
  /\ query' \in Commands \cup {Empty}
  /\ ResetNavigation
  /\ UNCHANGED <<termVars, startupError, uiVars, history, pendVars, runVars>>

RecallPrevious ==
  /\ Running /\ panel = "QueryInput" /\ history # <<>>
  /\ cursor' = CASE cursor = 0 -> Len(history)
                 [] cursor = 1 -> 1
                 [] OTHER      -> cursor - 1
  /\ draft' = IF cursor = 0 THEN query ELSE draft
  /\ query' = history[cursor']
  /\ UNCHANGED <<termVars, startupError, uiVars, history, pendVars, runVars>>

RecallNext ==
  /\ Running /\ panel = "QueryInput" /\ cursor # 0
  /\ \/ /\ cursor < Len(history)
        /\ cursor' = cursor + 1 /\ query' = history[cursor'] /\ UNCHANGED draft
     \/ /\ cursor >= Len(history)
        /\ query' = draft /\ ResetNavigation
  /\ UNCHANGED <<termVars, startupError, uiVars, history, pendVars, runVars>>

PressEnter == panel = "QueryInput" /\ ExecuteCurrent(query, FALSE)

\* Faulty variant: y confirms whatever the query line shows.
PressYOnQuery == pending # Empty /\ ExecuteCurrent(query, TRUE)

\* y and n act on a pending write in every panel.
PressY == pending # Empty /\ ExecuteCurrent(pending, TRUE)

PressN ==
  /\ Running /\ pending # Empty
  /\ Cancel
  /\ UNCHANGED <<termVars, startupError, uiVars, editVars, runVars>>

\* q and Esc, an I/O error of the loop, or a panic.  Nothing reads the state of
\* the App after the loop; it is forgotten here.
Leave ==
  /\ LeaveLoop
  /\ panel' = "ConnectionList" /\ selected' = 1
  /\ query' = Empty /\ history' = <<>> /\ cursor' = 0 /\ draft' = Empty
  /\ pending' = Empty /\ staged' = Nowhere
  /\ cached' = {} /\ sent' = Nothing
  /\ UNCHANGED startupError

Terminal ==
  /\ TermStartup \/ TermCleanup
  /\ UNCHANGED <<startupError, uiVars, editVars, pendVars, runVars>>

Next ==
  \/ Terminal \/ Leave
  \/ PressTab \/ SelectConnection \/ ApplyForm
  \/ Edit \/ RecallPrevious \/ RecallNext
  \/ PressEnter \/ PressY \/ PressN

Spec == Init /\ [][Next]_vars

\* The process goes on entering and restoring; the user need not do anything.
FairSpec == Spec /\ WF_vars(Terminal)
-----------------------------------------------------------------------------
(* Properties *)

\* Every variable has its type; the selection and the history cursor are
\* indices of entries that exist.
TypeOK ==
  /\ TermTypeOK
  /\ startupError \in BOOLEAN
  /\ panel \in Panels
  /\ selected \in 1..Connections
  /\ {query, pending, draft} \subseteq Commands \cup {Empty}
  /\ history \in Seq(Commands)
  /\ cursor \in 0..Len(history)
  /\ cached \subseteq 1..Connections
  /\ staged \in [command : Commands \cup {Empty}, on : 0..Connections]
  /\ sent = Nothing \/ sent \in [command : Commands, on : 1..Connections,
                         confirmed : BOOLEAN,
                         from : [command : Commands \cup {Empty}, on : 0..Connections]]

\* A mutation the gate recognises reaches a backend only as the very command
\* that was staged and then confirmed, and never on a read-only connection: the
\* query line may have changed in between, by hand, by a form or by a recall.
GatedWritesAreConfirmed ==
  sent # Nothing /\ RequiresWrite(sent.command) =>
    sent.confirmed /\ sent.from.command = sent.command /\ sent.on \notin ReadOnly

\* However the session ends, the shell gets its terminal back: a mode is still
\* on only if the call that switches it off was made and failed, and the guard
\* undoes no mode it did not switch on.
TerminalRestored == RestoredAtEnd /\ OnlyOwnModes

\* Once the loop is left, cleanly or by an unwinding panic, the session ends.
SessionEnds == phase \in {"restoring", "dropping"} ~> phase = "ended"
-----------------------------------------------------------------------------
(* Claims of the documentation the code does not keep. *)

\* The user confirms the write that was staged for a connection: it runs on
\* that connection (docs/interface-usage.zh-CN.md, one-shot pending state).
ConfirmedWriteStaysOnItsConnection == sent.confirmed => sent.on = sent.from.on

\* No mutation reaches a connection with readonly = true, whatever alias or
\* spelling the command has (dbtool-design.md).
ReadOnlyIsNeverMutated == sent.on \notin ReadOnly
=============================================================================
