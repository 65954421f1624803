-------------------------- MODULE TuiSessionProofs --------------------------
(***************************************************************************)
(* Proofs about TuiSession, for every list of connections, every set of    *)
(* commands and every length of the history: a write the gate recognises   *)
(* runs only as the command that was staged and confirmed, and the shell   *)
(* gets its terminal back.                                                 *)
(*                                                                         *)
(* The gate part rests on what a pending write remembers: between the key  *)
(* that stages it and the key that confirms it, the query line, the form   *)
(* and the history may all change, the pair of pending and staged may not. *)
(* The terminal part rests on the guard's flags: a mode that is on is one  *)
(* the guard still believes it must undo, or one whose undo call failed.   *)
(***************************************************************************)
EXTENDS TuiSession, SequenceTheorems, TLAPS

\* What is pending is what was staged.
StagedInv == pending # Empty => staged.command = pending

\* A mode is on only while the guard means to undo it, or could not.
ModesInv == /\ rawOn => rawMode \/ "raw" \in undoFailed
            /\ altOn => altScreen \/ "alt" \in undoFailed

\* The session ends with nothing left for the guard to undo.
EndInv == phase = "ended" => ~rawMode /\ ~altScreen

\* The inductive invariant
TermInv == TermTypeOK /\ OnlyOwnModes /\ ModesInv /\ EndInv
IInv    == TypeOK /\ StagedInv /\ GatedWritesAreConfirmed /\ TermInv
-----------------------------------------------------------------------------
(* The terminal                                                            *)

\* The guard switches modes on one after the other, and gives up half-built.
LEMMA StartupKeepsModes ==
  ASSUME TermInv, TermStartup PROVE TermInv'
<1>1. /\ phase \in {"entering", "running", "restoring", "dropping", "ended"}
      /\ rawMode \in BOOLEAN /\ altScreen \in BOOLEAN /\ rawOn \in BOOLEAN /\ altOn \in BOOLEAN
      /\ undoFailed \subseteq {"raw", "alt"}
      /\ OnlyOwnModes /\ ModesInv /\ phase = "entering"
  BY DEF TermInv, TermTypeOK, TermStartup, EnableRawMode, EnterAlternateScreen
<1>2. /\ phase' \in {"running", "dropping", "entering"} /\ UNCHANGED undoFailed
      /\ rawMode' \in BOOLEAN /\ altScreen' \in BOOLEAN
      /\ rawOn' \in BOOLEAN /\ altOn' \in BOOLEAN
  BY <1>1 DEF TermStartup, EnableRawMode, EnterAlternateScreen
<1>3. \/ UNCHANGED <<rawMode, rawOn>>
      \/ rawMode' = TRUE /\ rawOn' = TRUE
  BY DEF TermStartup, EnableRawMode, EnterAlternateScreen
<1>4. \/ UNCHANGED <<altScreen, altOn>>
      \/ altScreen' = TRUE /\ altOn' = TRUE
  BY DEF TermStartup, EnableRawMode, EnterAlternateScreen
<1>5. TermTypeOK'
  BY <1>1, <1>2 DEF TermTypeOK
<1>6. OnlyOwnModes' /\ ModesInv'
  BY <1>1, <1>2, <1>3, <1>4, Zenon DEF OnlyOwnModes, ModesInv
<1>7. EndInv'
  BY <1>2 DEF EndInv
<1> QED BY <1>5, <1>6, <1>7 DEF TermInv

\* An undo call clears the flag, whether it worked or not.
LEMMA CleanupKeepsModes ==
  ASSUME TermInv, TermCleanup PROVE TermInv'
<1>1. CASE LeaveAlternateScreen
  BY <1>1 DEF LeaveAlternateScreen, Undo, TermInv, TermTypeOK, OnlyOwnModes, ModesInv, EndInv
<1>2. CASE DisableRawMode
  BY <1>2 DEF DisableRawMode, Undo, TermInv, TermTypeOK, OnlyOwnModes, ModesInv, EndInv
<1>3. CASE RestoreReturns
  BY <1>3 DEF RestoreReturns, TermInv, TermTypeOK, OnlyOwnModes, ModesInv, EndInv
<1> QED BY <1>1, <1>2, <1>3 DEF TermCleanup

\* The loop is left with both modes still on.
LEMMA LeaveKeepsModes ==
  ASSUME TermInv, LeaveLoop PROVE TermInv'
BY DEF LeaveLoop, TermInv, TermTypeOK, OnlyOwnModes, ModesInv, EndInv

\* No key of the running session touches the terminal's modes.
LEMMA KeysKeepModes ==
  ASSUME TermInv, UNCHANGED termVars PROVE TermInv'
BY DEF termVars, TermInv, TermTypeOK, OnlyOwnModes, ModesInv, EndInv
-----------------------------------------------------------------------------
(* The application                                                         *)

\* Empty is not a command a user can type, and Nothing is no mutation.
LEMMA EmptyIsNoCommand == Empty \notin Commands
<1>1. Empty.verb \notin {"read", "sqlWrite", "write", "badSql"}
  BY DEF Empty
<1> QED BY <1>1, TuiAssumption DEF AllCommands

\* The type of the application's own state, one variable at a time
Where == [command : Commands \cup {Empty}, on : 0..Connections]
Sent  == [command : Commands, on : 1..Connections, confirmed : BOOLEAN, from : Where]
AppTypeOK ==
  /\ startupError \in BOOLEAN /\ panel \in Panels /\ selected \in 1..Connections
  /\ query \in Commands \cup {Empty} /\ pending \in Commands \cup {Empty}
  /\ draft \in Commands \cup {Empty}
  /\ history \in Seq(Commands) /\ cursor \in 0..Len(history)
  /\ cached \subseteq 1..Connections /\ staged \in Where
  /\ sent = Nothing \/ sent \in Sent

LEMMA TypeParts == TypeOK <=> TermTypeOK /\ AppTypeOK
BY DEF TypeOK, AppTypeOK, Where, Sent

LEMMA TypePartsPrimed == TypeOK' <=> TermTypeOK' /\ AppTypeOK'
BY DEF TypeOK, AppTypeOK, Where, Sent

\* A step that leaves the terminal alone, or is the terminal's own: what is to
\* be shown of the application's state.
LEMMA AppStep ==
  ASSUME TermInv', AppTypeOK', StagedInv', GatedWritesAreConfirmed' PROVE IInv'
BY TypePartsPrimed DEF IInv, TermInv

\* record_command keeps a history of commands, and never an empty one.
LEMMA RecordedType ==
  ASSUME AppTypeOK, NEW c \in Commands PROVE Recorded(c) \in Seq(Commands)
<1>1. history \in Seq(Commands) /\ Append(history, c) \in Seq(Commands)
  BY DEF AppTypeOK
<1>2. CASE history = <<>>
  BY <1>1, <1>2, TuiAssumption DEF Recorded
<1>3. CASE history # <<>>
  <2>1. Tail(history) \in Seq(Commands)
    BY <1>1, <1>3
  <2>2. Append(Tail(history), c) \in Seq(Commands)
    BY <2>1
  <2> QED BY <1>1, <2>2 DEF Recorded
<1> QED BY <1>2, <1>3

\* A command that runs: what a backend was asked for is that command, on the
\* selected connection, with what was staged when it ran.
LEMMA DispatchEffect ==
  ASSUME IInv, NEW c \in Commands, NEW confirmed \in BOOLEAN, Dispatch(c, confirmed),
         RequiresWrite(c) => /\ confirmed /\ staged.command = c /\ selected \notin ReadOnly,
         UNCHANGED <<startupError, uiVars>>
  PROVE  AppTypeOK' /\ StagedInv' /\ GatedWritesAreConfirmed'
<1>1. AppTypeOK /\ GatedWritesAreConfirmed
  BY TypeParts DEF IInv
<1>2. /\ UNCHANGED <<startupError, panel, selected, query>>
      /\ history' = Recorded(c) /\ cursor' = 0 /\ draft' = Empty
      /\ pending' = Empty /\ staged' = Nowhere
  BY DEF Dispatch, uiVars
<1>3. /\ cached' \subseteq 1..Connections
      /\ UNCHANGED sent \/ sent' = [command |-> c, on |-> selected, confirmed |-> confirmed,
                                    from |-> staged]
  BY <1>1 DEF Dispatch, Connect, AppTypeOK
<1>4. Nowhere \in Where
  BY TuiAssumption DEF Nowhere, Where
<1>5. history' \in Seq(Commands) /\ cursor' \in 0..Len(history')
  <2>1. history' \in Seq(Commands)
    BY <1>1, <1>2, RecordedType
  <2>2. Len(history') \in Nat
    BY <2>1
  <2> QED BY <1>2, <2>1, <2>2
<1>6. sent' = Nothing \/ sent' \in Sent
  BY <1>1, <1>3 DEF AppTypeOK, Sent
<1>7. AppTypeOK'
  BY <1>1, <1>2, <1>3, <1>4, <1>5, <1>6 DEF AppTypeOK
<1>8. StagedInv'
  BY <1>2 DEF StagedInv
<1>9. GatedWritesAreConfirmed'
  <2>1. CASE UNCHANGED sent
    BY <1>1, <2>1 DEF GatedWritesAreConfirmed
  <2>2. CASE sent' = [command |-> c, on |-> selected, confirmed |-> confirmed, from |-> staged]
    BY <2>2 DEF GatedWritesAreConfirmed
  <2> QED BY <1>3, <2>1, <2>2
<1> QED BY <1>7, <1>8, <1>9

\* execute_current: Enter runs what the gate lets pass, and y what is pending.
LEMMA ExecuteStep ==
  ASSUME IInv, NEW c \in Commands \cup {Empty}, NEW confirmed \in BOOLEAN,
         ExecuteCurrent(c, confirmed), confirmed => c = pending /\ pending # Empty
  PROVE  IInv'
<1>1. AppTypeOK /\ GatedWritesAreConfirmed /\ StagedInv /\ TermInv
  BY TypeParts DEF IInv
<1>2. UNCHANGED <<termVars, startupError, uiVars>>
  BY DEF ExecuteCurrent
<1>3. TermInv'
  BY <1>1, <1>2, KeysKeepModes
<1>4. UNCHANGED <<startupError, panel, selected>>
  BY <1>2 DEF uiVars
<1>5. CASE Cancel /\ UNCHANGED <<editVars, runVars>>
  <2>1. Nowhere \in Where
    BY TuiAssumption DEF Nowhere, Where
  <2>2. UNCHANGED <<query, history, cursor, draft, cached, sent>> /\ pending' = Empty
        /\ staged' = Nowhere
    BY <1>5 DEF Cancel, editVars, runVars
  <2>3. AppTypeOK' /\ StagedInv' /\ GatedWritesAreConfirmed'
    BY <1>1, <1>4, <2>1, <2>2 DEF AppTypeOK, StagedInv, GatedWritesAreConfirmed
  <2> QED BY <1>3, <2>3, AppStep
<1>6. CASE c = Empty /\ UNCHANGED <<pendVars, editVars, runVars>>
  <2>1. UNCHANGED <<query, history, cursor, draft, cached, sent, pending, staged>>
    BY <1>6 DEF pendVars, editVars, runVars
  <2>2. AppTypeOK' /\ StagedInv' /\ GatedWritesAreConfirmed'
    BY <1>1, <1>4, <2>1 DEF AppTypeOK, StagedInv, GatedWritesAreConfirmed
  <2> QED BY <1>3, <2>2, AppStep
<1>7. CASE c # Empty /\ Stage(c) /\ UNCHANGED <<editVars, runVars>>
  <2>1. UNCHANGED <<query, history, cursor, draft, cached, sent>> /\ pending' = c
        /\ staged' = [command |-> c, on |-> selected]
    BY <1>7 DEF Stage, editVars, runVars
  <2>2. selected \in 0..Connections
    BY <1>1, TuiAssumption DEF AppTypeOK
  <2>3. staged' \in Where /\ staged'.command = c
    BY <2>1, <2>2 DEF Where
  <2>4. AppTypeOK' /\ StagedInv' /\ GatedWritesAreConfirmed'
    BY <1>1, <1>4, <2>1, <2>3 DEF AppTypeOK, StagedInv, GatedWritesAreConfirmed
  <2> QED BY <1>3, <2>4, AppStep
<1>8. CASE /\ c # Empty /\ (RequiresWrite(c) => confirmed) /\ Dispatch(c, confirmed)
           /\ ~(RequiresWrite(c) /\ selected \in ReadOnly)
  <2>1. RequiresWrite(c) => confirmed /\ staged.command = c /\ selected \notin ReadOnly
    BY <1>1, <1>8 DEF StagedInv
  <2>2. AppTypeOK' /\ StagedInv' /\ GatedWritesAreConfirmed'
    BY <1>2, <1>8, <2>1, DispatchEffect
  <2> QED BY <1>3, <2>2, AppStep
<1> QED BY <1>5, <1>6, <1>7, <1>8 DEF ExecuteCurrent

\* The keys that move, type and recall change neither what is pending nor what
\* a backend was asked for.
LEMMA BrowseStep ==
  ASSUME IInv, PressTab \/ SelectConnection \/ ApplyForm \/ Edit
  PROVE  IInv'
<1>1. AppTypeOK /\ GatedWritesAreConfirmed /\ StagedInv /\ TermInv
  BY TypeParts DEF IInv
<1>2. UNCHANGED <<termVars, startupError, history, pending, staged, cached, sent>>
  BY DEF PressTab, SelectConnection, ApplyForm, Edit, pendVars, runVars, editVars
<1>3. TermInv' /\ StagedInv' /\ GatedWritesAreConfirmed'
  BY <1>1, <1>2, KeysKeepModes DEF StagedInv, GatedWritesAreConfirmed
<1>4. panel' \in Panels
  BY <1>1 DEF PressTab, SelectConnection, ApplyForm, Edit, Panels, uiVars, AppTypeOK
<1>5. selected' \in 1..Connections
  BY <1>1 DEF PressTab, SelectConnection, ApplyForm, Edit, uiVars, AppTypeOK
<1>6. query' \in Commands \cup {Empty}
  BY <1>1, TuiAssumption DEF PressTab, SelectConnection, ApplyForm, Edit, editVars, AppTypeOK
<1>7. draft' \in Commands \cup {Empty} /\ cursor' \in 0..Len(history)
  <2>1. CASE UNCHANGED editVars
    BY <1>1, <2>1 DEF editVars, AppTypeOK
  <2>2. CASE ResetNavigation
    <3>1. Len(history) \in Nat
      BY <1>1 DEF AppTypeOK
    <3> QED BY <2>2, <3>1 DEF ResetNavigation
  <2> QED BY <2>1, <2>2 DEF PressTab, SelectConnection, ApplyForm, Edit
<1>8. AppTypeOK'
  BY <1>1, <1>2, <1>4, <1>5, <1>6, <1>7 DEF AppTypeOK
<1> QED BY <1>3, <1>8, AppStep

\* Recalling takes an entry that exists, or the draft back.
LEMMA RecallStep ==
  ASSUME IInv, RecallPrevious \/ RecallNext PROVE IInv'
<1>1. AppTypeOK /\ GatedWritesAreConfirmed /\ StagedInv /\ TermInv
  BY TypeParts DEF IInv
<1>2. UNCHANGED <<termVars, startupError, panel, selected, history, pending, staged, cached, sent>>
  BY DEF RecallPrevious, RecallNext, pendVars, runVars, uiVars
<1>3. TermInv' /\ StagedInv' /\ GatedWritesAreConfirmed'
  BY <1>1, <1>2, KeysKeepModes DEF StagedInv, GatedWritesAreConfirmed
<1>4. history \in Seq(Commands) /\ cursor \in 0..Len(history) /\ Len(history) \in Nat
      /\ query \in Commands \cup {Empty} /\ draft \in Commands \cup {Empty}
  BY <1>1 DEF AppTypeOK
<1>5. \A i \in 1..Len(history) : history[i] \in Commands
  BY <1>4
<1>6. CASE RecallPrevious
  <2>1. history # <<>> /\ Len(history) > 0
    BY <1>4, <1>6 DEF RecallPrevious
  <2>2. cursor' \in 1..Len(history)
    <3>1. CASE cursor = 0
      BY <1>4, <1>6, <2>1, <3>1 DEF RecallPrevious
    <3>2. CASE cursor = 1
      BY <1>4, <1>6, <2>1, <3>2 DEF RecallPrevious
    <3>3. CASE cursor \notin {0, 1}
      <4>1. cursor' = cursor - 1
        BY <1>6, <3>3 DEF RecallPrevious
      <4> QED BY <1>4, <3>3, <4>1
    <3> QED BY <3>1, <3>2, <3>3
  <2>3. query' \in Commands \cup {Empty} /\ draft' \in Commands \cup {Empty}
    BY <1>4, <1>5, <1>6, <2>2 DEF RecallPrevious
  <2>4. cursor' \in 0..Len(history)
    BY <1>4, <2>2
  <2>5. AppTypeOK'
    BY <1>1, <1>2, <2>3, <2>4 DEF AppTypeOK
  <2> QED BY <1>3, <2>5, AppStep
<1>7. CASE RecallNext
  <2>1. CASE cursor < Len(history) /\ cursor' = cursor + 1 /\ query' = history[cursor']
             /\ UNCHANGED draft
    <3>1. cursor' \in 1..Len(history) /\ cursor' \in 0..Len(history)
      BY <1>4, <2>1
    <3>2. query' \in Commands \cup {Empty}
      BY <1>5, <2>1, <3>1
    <3>3. AppTypeOK'
      BY <1>1, <1>2, <2>1, <3>1, <3>2 DEF AppTypeOK
    <3> QED BY <1>3, <3>3, AppStep
  <2>2. CASE query' = draft /\ ResetNavigation
    <3>1. query' \in Commands \cup {Empty} /\ draft' \in Commands \cup {Empty}
          /\ cursor' \in 0..Len(history)
      BY <1>4, <2>2 DEF ResetNavigation
    <3>2. AppTypeOK'
      BY <1>1, <1>2, <3>1 DEF AppTypeOK
    <3> QED BY <1>3, <3>2, AppStep
  <2> QED BY <1>7, <2>1, <2>2 DEF RecallNext
<1> QED BY <1>6, <1>7

\* n: nothing is pending any more.
LEMMA PressNStep ==
  ASSUME IInv, PressN PROVE IInv'
<1>1. AppTypeOK /\ GatedWritesAreConfirmed /\ TermInv
  BY TypeParts DEF IInv
<1>2. /\ UNCHANGED <<termVars, startupError, panel, selected, query, history, cursor, draft, cached, sent>>
      /\ pending' = Empty /\ staged' = Nowhere
  BY DEF PressN, Cancel, uiVars, editVars, runVars
<1>3. Nowhere \in Where
  BY TuiAssumption DEF Nowhere, Where
<1>4. TermInv' /\ AppTypeOK' /\ StagedInv' /\ GatedWritesAreConfirmed'
  BY <1>1, <1>2, <1>3, KeysKeepModes DEF AppTypeOK, StagedInv, GatedWritesAreConfirmed
<1> QED BY <1>4, AppStep

\* A fresh application satisfies what is asked of it, at first and when the
\* loop is left.
LEMMA FreshIsFine ==
  ASSUME startupError \in BOOLEAN, FreshApp
  PROVE  AppTypeOK /\ StagedInv /\ GatedWritesAreConfirmed
<1>1. Nowhere \in Where /\ 1 \in 1..Connections
  BY TuiAssumption DEF Nowhere, Where
<1>2. <<>> \in Seq(Commands) /\ Len(<<>>) = 0
  OBVIOUS
<1> QED BY <1>1, <1>2 DEF FreshApp, AppTypeOK, StagedInv, GatedWritesAreConfirmed, Panels

\* The loop is left: the state of the application is forgotten.
LEMMA LeaveStep ==
  ASSUME IInv, Leave PROVE IInv'
<1>1. startupError \in BOOLEAN /\ TermInv
  BY TypeParts DEF IInv, AppTypeOK
<1>2. TermInv'
  BY <1>1, LeaveKeepsModes DEF Leave
<1>3. Nowhere \in Where /\ 1 \in 1..Connections
  BY TuiAssumption DEF Nowhere, Where
<1>4. <<>> \in Seq(Commands) /\ Len(<<>>) = 0
  OBVIOUS
<1>5. AppTypeOK' /\ StagedInv' /\ GatedWritesAreConfirmed'
  BY <1>1, <1>3, <1>4 DEF Leave, AppTypeOK, StagedInv, GatedWritesAreConfirmed, Panels
<1> QED BY <1>2, <1>5, AppStep

\* Entering and restoring do not concern the application.
LEMMA TerminalStep ==
  ASSUME IInv, Terminal PROVE IInv'
<1>1. AppTypeOK /\ GatedWritesAreConfirmed /\ StagedInv /\ TermInv
  BY TypeParts DEF IInv
<1>2. TermInv'
  BY <1>1, StartupKeepsModes, CleanupKeepsModes DEF Terminal
<1>3. UNCHANGED <<startupError, panel, selected, query, history, cursor, draft, pending, staged,
                  cached, sent>>
  BY DEF Terminal, uiVars, editVars, pendVars, runVars
<1>4. AppTypeOK' /\ StagedInv' /\ GatedWritesAreConfirmed'
  BY <1>1, <1>3 DEF AppTypeOK, StagedInv, GatedWritesAreConfirmed
<1> QED BY <1>2, <1>4, AppStep
-----------------------------------------------------------------------------
(* The session                                                             *)

\* The invariant holds at first.
LEMMA InitInv == Init => IInv
<1> SUFFICES ASSUME Init PROVE IInv
  OBVIOUS
<1>1. TermInv
  BY DEF Init, TermInit, TermInv, TermTypeOK, OnlyOwnModes, ModesInv, EndInv
<1>2. AppTypeOK /\ StagedInv /\ GatedWritesAreConfirmed
  BY FreshIsFine DEF Init
<1> QED BY <1>1, <1>2, TypeParts DEF IInv, TermInv

\* Every step keeps it.
LEMMA StepInv == IInv /\ [Next]_vars => IInv'
<1> SUFFICES ASSUME IInv, [Next]_vars PROVE IInv'
  OBVIOUS
<1>1. AppTypeOK
  BY TypeParts DEF IInv
<1>2. CASE Terminal
  BY <1>2, TerminalStep
<1>3. CASE Leave
  BY <1>3, LeaveStep
<1>4. CASE PressTab \/ SelectConnection \/ ApplyForm \/ Edit
  BY <1>4, BrowseStep
<1>5. CASE RecallPrevious \/ RecallNext
  BY <1>5, RecallStep
<1>6. CASE PressEnter
  <2>1. ExecuteCurrent(query, FALSE) /\ query \in Commands \cup {Empty}
    BY <1>1, <1>6 DEF PressEnter, AppTypeOK
  <2> QED BY <2>1, ExecuteStep
<1>7. CASE PressY
  <2>1. /\ ExecuteCurrent(pending, TRUE) /\ pending # Empty /\ pending \in Commands \cup {Empty}
    BY <1>1, <1>7 DEF PressY, AppTypeOK
  <2> QED BY <2>1, ExecuteStep
<1>8. CASE PressN
  BY <1>8, PressNStep
<1>9. CASE UNCHANGED vars
  <2>1. /\ UNCHANGED <<termVars, startupError, panel, selected, query, history, cursor, draft>>
        /\ UNCHANGED <<pending, staged, cached, sent>>
    BY <1>9 DEF vars, uiVars, editVars, pendVars, runVars
  <2>2. AppTypeOK /\ GatedWritesAreConfirmed /\ StagedInv /\ TermInv
    BY TypeParts DEF IInv
  <2>3. TermInv' /\ AppTypeOK' /\ StagedInv' /\ GatedWritesAreConfirmed'
    BY <2>1, <2>2, KeysKeepModes DEF AppTypeOK, StagedInv, GatedWritesAreConfirmed
  <2> QED BY <2>3, AppStep
<1> QED BY <1>2, <1>3, <1>4, <1>5, <1>6, <1>7, <1>8, <1>9 DEF Next

\* The inductive invariant holds in every state of a session.
THEOREM AlwaysInv == Spec => []IInv
BY InitInv, StepInv, PTL DEF Spec

\* The selection and the history cursor are indices of entries that exist, in
\* AppState::handle_key with its history and for any list of connections.
THEOREM TypeCorrect == Spec => []TypeOK
<1>1. IInv => TypeOK
  BY DEF IInv
<1> QED BY <1>1, AlwaysInv, PTL

\* execute_current: a mutation the gate recognises runs only as the command
\* that was staged and confirmed, never on a read-only connection, whatever
\* the user types, recalls or selects in between.
THEOREM OnlyConfirmedWrites == Spec => []GatedWritesAreConfirmed
<1>1. IInv => GatedWritesAreConfirmed
  BY DEF IInv
<1> QED BY <1>1, AlwaysInv, PTL

\* terminal.rs: when the session has ended, a mode is still on only if the call
\* that switches it off failed; the guard undoes no mode of anybody else.
THEOREM ShellGetsItsTerminal == Spec => []TerminalRestored
<1>1. IInv => TerminalRestored
  BY DEF IInv, TermInv, OnlyOwnModes, ModesInv, EndInv, TerminalRestored, RestoredAtEnd
<1> QED BY <1>1, AlwaysInv, PTL
=============================================================================
