---------------------------- MODULE MCTuiSession ----------------------------
(***************************************************************************)
(* A small TUI session for TLC: key-value and SQL writes in the spellings  *)
(* the gate and the dispatcher tell apart.                                 *)
(***************************************************************************)
EXTENDS TuiSession

Cmd(v, s) == [verb |-> v, spelling |-> s]

MCCommands == {Cmd("read", "plain"), Cmd("badSql", "plain"), Cmd("sqlWrite", "plain"),
               Cmd("sqlWrite", "wide"), Cmd("write", "plain"), Cmd("write", "wide")}
MCForms == {Cmd("write", "plain")}

PlainCommands == {Cmd("read", "plain"), Cmd("write", "plain")}
=============================================================================
