--------------------------- MODULE ConnectionFile ---------------------------
(***************************************************************************)
(* connections.toml, edited by concurrent CLI processes: `conn add`,       *)
(* `conn add --replace` and `conn remove` (dbtool-cli/src/cmd/conn.rs) load*)
(* the whole file, check the confirmation token, and publish the whole     *)
(* file again through a temporary file (dbtool-core atomic_file.rs); no    *)
(* lock is held in between.  Processes are killed and the machine loses    *)
(* power at any step.                                                      *)
(***************************************************************************)
EXTENDS Naturals, Sequences

CONSTANTS
  Pids,            \* process identifiers, reused by later processes
  Names,           \* connection names
  Values,          \* what `conn add` writes: the DSN and the readonly flag
  Attempts,        \* TEMP_FILE_ATTEMPTS
  MaxPublications  \* bound: no invocation starts after so many publications

ASSUME ConnectionFileAssumption ==
  Attempts \in Nat \ {0} /\ MaxPublications \in Nat

NoEntry  == [value |-> "none", limits |-> FALSE]
Entries  == [value : Values, limits : BOOLEAN]
Configs  == [Names -> Entries \cup {NoEntry}]

\* A confirmation token digests the action, the name, the entry it replaces or
\* removes and the entry it writes.
Edits   == [name : Names, old : Entries \cup {NoEntry}, new : Entries \cup {NoEntry}]
NoToken == [name |-> "none", old |-> NoEntry, new |-> NoEntry]

VARIABLES
  log,    \* directory entries of the file since the last sync of the
          \* directory: the first is on disk, the last is what everyone reads
  temps,  \* temporary files by process and sequence number: how much of the
          \* content is there
  pc,     \* where each process is in write_file_atomically
  job,    \* what it writes: the edit, the whole new config, the publication
          \* its load saw and the token it was given (history)
  token,  \* the confirmation token the user was shown last
  acked   \* history variable: the last publication reported as done

vars == <<log, temps, pc, job, token, acked>>
fileVars == <<log, temps>>

Visible   == log[Len(log)]
TempFiles == Pids \X (1..Attempts)
Taken(f)  == temps[f] # "none"

NoJob == [edit |-> NoToken, config |-> [n \in Names |-> NoEntry], base |-> 0,
          token |-> NoToken, seq |-> 0, id |-> 0]

\* limits are only ever set by hand
Init ==
  /\ log \in {<<[id |-> 0, config |-> c, whole |-> TRUE]>> :
                c \in {d \in Configs : \A n \in Names : d[n] = NoEntry \/ d[n].limits}}
  /\ temps = [f \in TempFiles |-> "none"]
  /\ pc = [p \in Pids |-> "idle"]
  /\ job = [p \in Pids |-> NoJob]
  /\ token = NoToken /\ acked = 0
-----------------------------------------------------------------------------
(* conn add and conn remove: load, decide, and hand the new file over. *)

\* The decision of add() and remove() on the loaded file: an existing entry is
\* only overwritten or removed with the token made from it; without a token the
\* user is shown one; a wrong token, a duplicate add or an absent name is an
\* error.
Decide(p, edit, given) ==
  \/ /\ edit.old = NoEntry \/ given = edit
     /\ pc' = [pc EXCEPT ![p] = "create"]
     /\ job' = [job EXCEPT ![p] = [NoJob EXCEPT !.edit = edit,
                  !.token = IF edit.old = NoEntry THEN NoToken ELSE given,
                  !.base = Visible.id,
                  !.config = [Visible.config EXCEPT ![edit.name] = edit.new]]]
     /\ UNCHANGED token
  \/ /\ edit.old # NoEntry /\ given = NoToken
     /\ token' = edit
     /\ UNCHANGED <<pc, job>>

MayStart(p) == pc[p] = "idle" /\ Visible.id < MaxPublications

\* Faulty variant: overwriting an entry forgets its limits.
AddForgettingLimits(p) ==
  \E n \in Names, v \in Values, replace \in BOOLEAN, given \in {NoToken, token} :
    LET old == Visible.config[n]
    IN  /\ MayStart(p)
        /\ old = NoEntry \/ replace
        /\ Decide(p, [name |-> n, old |-> old, new |-> [value |-> v, limits |-> FALSE]], given)
        /\ UNCHANGED <<fileVars, acked>>

AddConnection(p) ==
  \E n \in Names, v \in Values, replace \in BOOLEAN, given \in {NoToken, token} :
    LET old == Visible.config[n]
    IN  /\ MayStart(p)
        /\ old = NoEntry \/ replace
        /\ Decide(p, [name |-> n, old |-> old,
                      new |-> [value |-> v, limits |-> old.limits]], given)
        /\ UNCHANGED <<fileVars, acked>>

\* Faulty variant: removing an entry leaves its limits in the file.
RemoveLeavingLimits(p) ==
  \E n \in Names, given \in {NoToken, token} :
    LET old == Visible.config[n]
    IN  /\ MayStart(p)
        /\ old # NoEntry
        /\ Decide(p, [name |-> n, old |-> old, new |-> [NoEntry EXCEPT !.limits = TRUE]], given)
        /\ UNCHANGED <<fileVars, acked>>

RemoveConnection(p) ==
  \E n \in Names, given \in {NoToken, token} :
    /\ MayStart(p)
    /\ Visible.config[n] # NoEntry
    /\ Decide(p, [name |-> n, old |-> Visible.config[n], new |-> NoEntry], given)
    /\ UNCHANGED <<fileVars, acked>>
-----------------------------------------------------------------------------
(* write_file_atomically *)

Own(p)      == <<p, job[p].seq>>
Finish(p)   == pc' = [pc EXCEPT ![p] = "idle"] /\ job' = [job EXCEPT ![p] = NoJob]
Goto(p, at) == pc' = [pc EXCEPT ![p] = at]

\* create_new: the first sequence number whose name is free; names left by an
\* earlier process of this pid are skipped, up to Attempts of them.
CreateTemp(p) ==
  LET free == {k \in 1..Attempts : ~Taken(<<p, k>>)}
  IN  /\ pc[p] = "create"
      /\ \/ \E k \in free :
              /\ \A j \in free : k <= j
              /\ temps' = [temps EXCEPT ![<<p, k>>] = "created"]
              /\ job' = [job EXCEPT ![p].seq = k]
              /\ Goto(p, "write")
         \/ Finish(p) /\ UNCHANGED temps     \* no free name, or an I/O error
      /\ UNCHANGED <<log, token, acked>>

\* Faulty variant: the content is not synced before the rename.
WriteTempUnsynced(p) ==
  /\ pc[p] = "write"
  /\ temps' = [temps EXCEPT ![Own(p)] = "written"]
  /\ Goto(p, "replace")
  /\ UNCHANGED <<log, job, token, acked>>

\* write_all and sync_all; each may fail, a failed write leaves a prefix.
WriteTemp(p) ==
  /\ pc[p] = "write"
  /\ \/ /\ temps' = [temps EXCEPT ![Own(p)] = "written"]
        /\ Goto(p, "sync")
     \/ Goto(p, "cleanup") /\ UNCHANGED temps
  /\ UNCHANGED <<log, job, token, acked>>

SyncTemp(p) ==
  /\ pc[p] = "sync"
  /\ \/ temps' = [temps EXCEPT ![Own(p)] = "synced"] /\ Goto(p, "replace")
     \/ Goto(p, "cleanup") /\ UNCHANGED temps
  /\ UNCHANGED <<log, job, token, acked>>

\* rename onto the target, or fail with the target untouched
ReplaceFile(p) ==
  /\ pc[p] = "replace"
  /\ \/ /\ log' = Append(log, [id |-> Visible.id + 1, config |-> job[p].config,
                               whole |-> temps[Own(p)] = "synced"])
        /\ temps' = [temps EXCEPT ![Own(p)] = "none"]
        /\ job' = [job EXCEPT ![p].id = Visible.id + 1]
        /\ Goto(p, "syncdir")
     \/ Goto(p, "cleanup") /\ UNCHANGED <<log, temps, job>>
  /\ UNCHANGED <<token, acked>>

\* Faulty variant: success is reported without syncing the directory.
SyncParentSkipped(p) ==
  /\ pc[p] = "syncdir"
  /\ acked' = IF job[p].id > acked THEN job[p].id ELSE acked
  /\ Finish(p)
  /\ UNCHANGED <<log, temps, token>>

\* Success is reported once the directory is on disk; an error here is
\* reported too, with the new file in place.
SyncParent(p) ==
  /\ pc[p] = "syncdir"
  /\ \/ /\ log' = <<Visible>>
        /\ acked' = IF job[p].id > acked THEN job[p].id ELSE acked
     \/ UNCHANGED <<log, acked>>
  /\ Finish(p)
  /\ UNCHANGED <<temps, token>>

\* cleanup(), and once more from Drop; either removal may fail.
Cleanup(p) ==
  /\ pc[p] \in {"cleanup", "drop"}
  /\ temps' \in {temps, [temps EXCEPT ![Own(p)] = "none"]}
  /\ IF pc[p] = "cleanup" /\ temps'[Own(p)] # "none"
     THEN Goto(p, "drop") /\ UNCHANGED job
     ELSE Finish(p)
  /\ UNCHANGED <<log, token, acked>>
-----------------------------------------------------------------------------
(* The environment. *)

Kill(p) ==
  /\ pc[p] # "idle"
  /\ Finish(p)
  /\ UNCHANGED <<log, temps, token, acked>>

\* Every process is gone; of the renames since the last sync of the directory
\* any prefix survives, and a file whose content was not synced is torn.
PowerLoss ==
  /\ \E i \in 1..Len(log) : log' = <<log[i]>>
  /\ pc' = [p \in Pids |-> "idle"] /\ job' = [p \in Pids |-> NoJob]
  /\ UNCHANGED <<temps, token, acked>>

Save(p) == CreateTemp(p) \/ WriteTemp(p) \/ SyncTemp(p) \/ ReplaceFile(p)
             \/ SyncParent(p) \/ Cleanup(p)

Next ==
  \/ \E p \in Pids : AddConnection(p) \/ RemoveConnection(p) \/ Save(p) \/ Kill(p)
  \/ PowerLoss

Spec == Init /\ [][Next]_vars
-----------------------------------------------------------------------------
(* Properties *)

Steps == {"idle", "create", "write", "sync", "replace", "syncdir", "cleanup", "drop"}

\* Every variable has its type.
TypeOK ==
  /\ log \in Seq([id : Nat, config : Configs, whole : BOOLEAN]) /\ log # <<>>
  /\ temps \in [TempFiles -> {"none", "created", "written", "synced"}]
  /\ pc \in [Pids -> Steps]
  /\ job \in [Pids -> [edit : Edits \cup {NoToken}, config : Configs, base : Nat,
                       token : Edits \cup {NoToken}, seq : 0..Attempts, id : Nat]]
  /\ token \in Edits \cup {NoToken}
  /\ acked \in Nat

\* Whatever happens, readers see a whole configuration: the old one or a new
\* one, also after a loss of power.
WholeFilesOnly == \A i \in 1..Len(log) : log[i].whole

\* A publication that was reported as done is never lost again.
AckedIsDurable == log[1].id >= acked

Publishes(p) == pc[p] = "replace" /\ pc'[p] = "syncdir"

\* The token of an edit confirms what that edit does to the file.
ConfirmedEdit(p, n) ==
  job[p].token = [name |-> n, old |-> Visible.config[n], new |-> Visible'.config[n]]

\* If no one else published since the load, a publication changes the named
\* entry alone; an entry that existed was confirmed with a token made from it
\* and from what replaces it, and keeps its limits.
UndisturbedEditIsExact ==
  [][\A p \in Pids : Publishes(p) /\ job[p].base = Visible.id =>
       \A n \in Names : Visible'.config[n] # Visible.config[n] =>
         /\ n = job[p].edit.name
         /\ Visible.config[n] # NoEntry => ConfirmedEdit(p, n)
         /\ Visible'.config[n] # NoEntry =>
              Visible'.config[n].limits = Visible.config[n].limits]_vars
-----------------------------------------------------------------------------
(* Claims of the documentation the code does not keep. *)

\* An existing entry is only overwritten or removed by a process that was given
\* the token for it (docs/interface-usage.zh-CN.md, two-step overwrite).
OverwritesAreConfirmed ==
  [][\A p \in Pids : Publishes(p) =>
       \A n \in Names :
         Visible.config[n] # NoEntry /\ Visible'.config[n] # Visible.config[n]
           => ConfirmedEdit(p, n)]_vars
=============================================================================
