-------------------------- MODULE TerminalSession --------------------------
(***************************************************************************)
(* The RAII guard of the TUI's terminal modes (dbtool-tui/src/terminal.rs):*)
(* raw mode and the alternate screen are switched on one after the other   *)
(* and switched off in reverse, each call may fail, and Drop runs restore  *)
(* again on every way out, panics included.                                *)
(***************************************************************************)
EXTENDS Naturals

VARIABLES
  phase,       \* "entering", "running", "restoring", "dropping" or "ended"
  rawMode,     \* the guard's flags: what it believes it must undo
  altScreen,
  rawOn,       \* the terminal itself
  altOn,
  undoFailed   \* history: the modes whose undo call returned an error

termVars == <<phase, rawMode, altScreen, rawOn, altOn, undoFailed>>

TermInit ==
  /\ phase = "entering"
  /\ rawMode = FALSE /\ altScreen = FALSE /\ rawOn = FALSE /\ altOn = FALSE
  /\ undoFailed = {}

\* enter(): enable_raw_mode succeeds, then enter_alternate_screen may not; the
\* half-built guard is dropped on an error.
EnableRawMode ==
  /\ phase = "entering" /\ ~rawMode
  /\ \/ rawMode' = TRUE /\ rawOn' = TRUE /\ UNCHANGED phase
     \/ phase' = "dropping" /\ UNCHANGED <<rawMode, rawOn>>
  /\ UNCHANGED <<altScreen, altOn, undoFailed>>

EnterAlternateScreen ==
  /\ phase = "entering" /\ rawMode
  /\ \/ altScreen' = TRUE /\ altOn' = TRUE /\ phase' = "running"
     \/ phase' = "dropping" /\ UNCHANGED <<altScreen, altOn>>
  /\ UNCHANGED <<rawMode, rawOn, undoFailed>>

\* The event loop ended (quit, or an error of draw, poll or read, or of making
\* the runtime): restore() is called.  A panic unwinds straight to Drop.
LeaveLoop == phase = "running" /\ phase' \in {"restoring", "dropping"}
             /\ UNCHANGED <<rawMode, altScreen, rawOn, altOn, undoFailed>>

\* One undo call: the flag is cleared whatever the call returns.
Undo(mode, on) ==
  \/ on' = FALSE /\ UNCHANGED undoFailed
  \/ undoFailed' = undoFailed \cup {mode} /\ UNCHANGED on

\* restore(), alternate screen first, raw mode even if that failed
LeaveAlternateScreen ==
  /\ phase \in {"restoring", "dropping"} /\ altScreen
  /\ altScreen' = FALSE
  /\ Undo("alt", altOn)
  /\ UNCHANGED <<phase, rawMode, rawOn>>

DisableRawMode ==
  /\ phase \in {"restoring", "dropping"} /\ ~altScreen /\ rawMode
  /\ rawMode' = FALSE
  /\ Undo("raw", rawOn)
  /\ UNCHANGED <<phase, altScreen, altOn>>

\* Faulty variant: restore() stops at the first undo call that fails.
RestoreGivesUp ==
  /\ phase \in {"restoring", "dropping"} /\ ~altScreen /\ (~rawMode \/ undoFailed # {})
  /\ phase' = IF phase = "restoring" THEN "dropping" ELSE "ended"
  /\ UNCHANGED <<rawMode, altScreen, rawOn, altOn, undoFailed>>

\* Faulty variant: the loop goes on after the terminal was restored.
RestoreResumes ==
  /\ phase \in {"restoring", "dropping"} /\ ~altScreen /\ ~rawMode
  /\ phase' = IF phase = "restoring" THEN "running" ELSE "ended"
  /\ UNCHANGED <<rawMode, altScreen, rawOn, altOn, undoFailed>>

\* restore() has nothing left to do; after the explicit call Drop follows.
RestoreReturns ==
  /\ phase \in {"restoring", "dropping"} /\ ~altScreen /\ ~rawMode
  /\ phase' = IF phase = "restoring" THEN "dropping" ELSE "ended"
  /\ UNCHANGED <<rawMode, altScreen, rawOn, altOn, undoFailed>>

TermCleanup == LeaveAlternateScreen \/ DisableRawMode \/ RestoreReturns
TermStartup == EnableRawMode \/ EnterAlternateScreen
-----------------------------------------------------------------------------
TermTypeOK ==
  /\ phase \in {"entering", "running", "restoring", "dropping", "ended"}
  /\ {rawMode, altScreen, rawOn, altOn} \subseteq BOOLEAN
  /\ undoFailed \subseteq {"raw", "alt"}

\* A mode is still on at the end only if the call that switches it off failed.
RestoredAtEnd ==
  phase = "ended" => /\ rawOn => "raw" \in undoFailed
                     /\ altOn => "alt" \in undoFailed

\* The guard only undoes a mode that it switched on itself.
OnlyOwnModes == (rawMode => rawOn) /\ (altScreen => altOn)
=============================================================================
