------------------------ MODULE ConnectionFileProofs ------------------------
(***************************************************************************)
(* What the connection file guarantees for every number of processes,      *)
(* names and publications.  The inductive invariant IInv says what each    *)
(* process may still publish: the content it is about to rename into place *)
(* is on disk, its edit is the one it decided on, and it differs from what *)
(* readers see by that edit alone unless someone else published since.     *)
(***************************************************************************)
EXTENDS ConnectionFile, TLAPS

Publication == [id : Nat, config : Configs, whole : BOOLEAN]
Job == [edit : Edits \cup {NoToken}, config : Configs, base : Nat,
        token : Edits \cup {NoToken}, seq : 0..Attempts, id : Nat]

\* The renames since the last sync of the directory are in the order in which
\* they were made.
LogInv ==
  /\ WholeFilesOnly
  /\ \A i, j \in 1..Len(log) : i <= j => log[i].id <= log[j].id

\* The processes whose temporary file exists under a name of their own.
HoldsTemp(p) == pc[p] \in {"write", "sync", "replace", "cleanup", "drop"}

\* Only content that was written is synced, and only content that was synced
\* is renamed into place.
TempInv(p) ==
  /\ HoldsTemp(p) => job[p].seq \in 1..Attempts
  /\ pc[p] = "sync" => temps[Own(p)] = "written"
  /\ pc[p] = "replace" => temps[Own(p)] = "synced"

\* What the decision of add() and remove() on the loaded file guarantees about
\* the edit, up to the rename that publishes it.
EditInv(p) ==
  pc[p] \in {"create", "write", "sync", "replace"} =>
    /\ job[p].base <= Visible.id
    /\ job[p].edit \in Edits
    /\ job[p].edit.old # NoEntry => job[p].token = job[p].edit
    /\ job[p].edit.new # NoEntry => job[p].edit.new.limits = job[p].edit.old.limits
    /\ job[p].base = Visible.id =>
         /\ job[p].edit.old = Visible.config[job[p].edit.name]
         /\ job[p].config = [Visible.config EXCEPT ![job[p].edit.name] = job[p].edit.new]

\* A publication is acknowledged up to the last one readers see.
AckInv(p) == pc[p] = "syncdir" => job[p].id <= Visible.id

ProcessInv(p) == TempInv(p) /\ EditInv(p) /\ AckInv(p)

IInv == TypeOK /\ LogInv /\ AckedIsDurable /\ \A p \in Pids : ProcessInv(p)
-----------------------------------------------------------------------------
(* Lemmas on the state and on what a step leaves alone. *)

\* Readers always find a publication.
LEMMA VisibleType ==
  ASSUME TypeOK
  PROVE  /\ log \in Seq(Publication) /\ Len(log) \in Nat /\ Len(log) >= 1
         /\ \A i \in 1..Len(log) : log[i] \in Publication
         /\ Visible \in Publication
         /\ Visible.id \in Nat
<1>1. log \in Seq(Publication) /\ log # <<>>
  BY DEF TypeOK, Publication
<1>2. Len(log) \in Nat /\ Len(log) >= 1
  BY <1>1
<1>3. \A i \in 1..Len(log) : log[i] \in Publication
  BY <1>1
<1>4. Visible \in Publication
  BY <1>2, <1>3 DEF Visible
<1> QED
  BY <1>1, <1>2, <1>3, <1>4 DEF Publication

\* What a process holds by name stays true while it does not move, nobody
\* touches its temporary file, and readers see the same publication or a later
\* one: its own edit can only become stale.
LEMMA Undisturbed ==
  ASSUME NEW q \in Pids, ProcessInv(q),
         pc'[q] = pc[q], job'[q] = job[q],
         pc[q] \in {"sync", "replace"} => temps'[Own(q)] = temps[Own(q)],
         Visible.id \in Nat, Visible'.id \in Nat,
         job[q].base \in Nat, job[q].id \in Nat,
         Visible' = Visible \/ Visible'.id > Visible.id
  PROVE  ProcessInv(q)'
<1>1. Own(q)' = Own(q)
  BY DEF Own
<1>2. TempInv(q)'
  BY <1>1 DEF ProcessInv, TempInv, HoldsTemp
<1>3. AckInv(q)'
  BY DEF ProcessInv, AckInv
<1>4. EditInv(q)'
  BY DEF ProcessInv, EditInv
<1> QED
  BY <1>2, <1>3, <1>4 DEF ProcessInv

\* A process that is done holds nothing.
LEMMA Done ==
  ASSUME NEW q \in Pids, pc'[q] = "idle"
  PROVE  ProcessInv(q)'
  BY DEF ProcessInv, TempInv, HoldsTemp, EditInv, AckInv

\* The types of one process's record.
LEMMA JobType ==
  ASSUME TypeOK, NEW q \in Pids
  PROVE  /\ job[q] \in Job /\ job[q].base \in Nat /\ job[q].id \in Nat
         /\ job[q].config \in Configs /\ job[q].seq \in 0..Attempts
         /\ pc[q] \in Steps
  BY DEF TypeOK, Job

\* A process that has nothing to publish has an empty record of its type.
LEMMA NoJobType == NoJob \in Job
<1>1. NoEntry \in Entries \cup {NoEntry}
  OBVIOUS
<1>2. [n \in Names |-> NoEntry] \in Configs
  BY DEF Configs
<1>3. 0 \in 0..Attempts
  BY ConnectionFileAssumption
<1> QED
  BY <1>2, <1>3 DEF NoJob, Job
-----------------------------------------------------------------------------
(* The initial states. *)

\* It holds at first.
LEMMA InitInv == Init => IInv
<1> SUFFICES ASSUME Init PROVE IInv
  OBVIOUS
<1>1. PICK c \in Configs : log = <<[id |-> 0, config |-> c, whole |-> TRUE]>>
  BY DEF Init
<1>2. log \in Seq(Publication) /\ log # <<>> /\ Len(log) = 1 /\ log[1].whole
      /\ log[1].id = 0
  BY <1>1 DEF Publication
<1>3. TypeOK
  <2>1. job \in [Pids -> Job]
    BY NoJobType DEF Init
  <2>2. pc \in [Pids -> Steps] /\ acked \in Nat /\ token \in Edits \cup {NoToken}
    BY DEF Init, Steps
  <2>3. temps \in [TempFiles -> {"none", "created", "written", "synced"}]
    BY DEF Init
  <2> QED
    BY <1>2, <2>1, <2>2, <2>3 DEF TypeOK, Publication, Job
<1>4. LogInv
  BY <1>2 DEF LogInv, WholeFilesOnly
<1>5. AckedIsDurable
  BY <1>2 DEF AckedIsDurable, Init
<1>6. \A p \in Pids : ProcessInv(p)
  BY DEF Init, ProcessInv, TempInv, HoldsTemp, EditInv, AckInv
<1> QED
  BY <1>3, <1>4, <1>5, <1>6 DEF IInv
-----------------------------------------------------------------------------
(* One lemma per kind of step.                                             *)

\* A step of one process that leaves the file alone.
LEMMA FileUntouched ==
  ASSUME IInv, TypeOK', NEW p \in Pids, UNCHANGED <<log, acked>>,
         \A q \in Pids \ {p} : /\ pc'[q] = pc[q] /\ job'[q] = job[q]
                               /\ pc[q] \in {"sync", "replace"} =>
                                    temps'[Own(q)] = temps[Own(q)],
         ProcessInv(p)'
  PROVE  IInv'
<1>1. LogInv' /\ AckedIsDurable'
  BY DEF IInv, LogInv, WholeFilesOnly, AckedIsDurable
<1>2. Visible' = Visible /\ Visible.id \in Nat
  BY VisibleType DEF Visible, IInv
<1>3. ASSUME NEW q \in Pids \ {p} PROVE ProcessInv(q)'
  BY <1>2, <1>3, Undisturbed, JobType DEF IInv
<1> QED
  BY <1>1, <1>3 DEF IInv

\* The same when the temporary files are left alone, too.
LEMMA FilesUntouched ==
  ASSUME IInv, TypeOK', NEW p \in Pids, UNCHANGED <<log, temps, acked>>,
         \A q \in Pids \ {p} : pc'[q] = pc[q] /\ job'[q] = job[q],
         ProcessInv(p)'
  PROVE  IInv'
  BY FileUntouched, Zenon

\* A process may end at any time: killed, or done.
LEMMA FinishType ==
  ASSUME TypeOK, NEW p \in Pids, Finish(p)
  PROVE  /\ pc' \in [Pids -> Steps] /\ job' \in [Pids -> Job]
         /\ pc'[p] = "idle"
         /\ \A q \in Pids \ {p} : pc'[q] = pc[q] /\ job'[q] = job[q]
<1>1. job \in [Pids -> Job] /\ pc \in [Pids -> Steps]
  BY DEF TypeOK, Job
<1>2. "idle" \in Steps
  BY DEF Steps
<1> QED
  BY <1>1, <1>2, NoJobType DEF Finish

\* Moving to the next step of the protocol.
LEMMA GotoType ==
  ASSUME TypeOK, NEW p \in Pids, NEW at \in Steps, Goto(p, at)
  PROVE  /\ pc' \in [Pids -> Steps] /\ pc'[p] = at
         /\ \A q \in Pids \ {p} : pc'[q] = pc[q]
  BY DEF TypeOK, Goto

\* Two processes never share a temporary file.
LEMMA OwnFiles ==
  ASSUME IInv, NEW p \in Pids, NEW f, f[1] = p, NEW v,
         temps' = [temps EXCEPT ![f] = v]
  PROVE  \A q \in Pids \ {p} :
           pc[q] \in {"sync", "replace"} => temps'[Own(q)] = temps[Own(q)]
<1> SUFFICES ASSUME NEW q \in Pids \ {p}, pc[q] \in {"sync", "replace"}
             PROVE  temps'[Own(q)] = temps[Own(q)]
  OBVIOUS
<1>1. Own(q) # f
  BY DEF Own
<1>2. Own(q) \in TempFiles
  BY DEF IInv, ProcessInv, TempInv, HoldsTemp, Own, TempFiles
<1>3. temps \in [TempFiles -> {"none", "created", "written", "synced"}]
  BY DEF IInv, TypeOK
<1> QED
  BY <1>1, <1>2, <1>3

\* conn add and conn remove: the decision that ends in an edit guarantees what
\* EditInv asks of it.
LEMMA DecideStep ==
  ASSUME IInv, NEW p \in Pids, NEW n \in Names, NEW e \in Entries \cup {NoEntry},
         NEW given \in {NoToken, token},
         pc[p] = "idle",
         e # NoEntry => e.limits = Visible.config[n].limits,
         Decide(p, [name |-> n, old |-> Visible.config[n], new |-> e], given),
         UNCHANGED <<fileVars, acked>>
  PROVE  IInv'
<1> DEFINE edit == [name |-> n, old |-> Visible.config[n], new |-> e]
           config == [Visible.config EXCEPT ![n] = e]
           asked == IF edit.old = NoEntry THEN NoToken ELSE given
           new == [NoJob EXCEPT !.edit = edit, !.token = asked,
                                !.base = Visible.id, !.config = config]
<1>0. UNCHANGED <<log, temps, acked>>
  BY DEF fileVars
<1>1. TypeOK /\ Visible \in Publication
  BY VisibleType DEF IInv
<1>2. Visible.config \in Configs /\ Visible.id \in Nat
  BY <1>1 DEF Publication
<1>3. edit \in Edits
  BY <1>2 DEF Edits, Configs
<1>4. config \in Configs
  BY <1>2 DEF Configs
<1>5. asked \in Edits \cup {NoToken}
  BY <1>1 DEF TypeOK
<1>6. CASE /\ edit.old = NoEntry \/ given = edit
           /\ pc' = [pc EXCEPT ![p] = "create"]
           /\ job' = [job EXCEPT ![p] = new]
           /\ UNCHANGED token
  <2>1. new \in Job
    BY <1>2, <1>3, <1>4, <1>5, NoJobType DEF Job, NoJob
  <2>2. /\ job \in [Pids -> Job] /\ pc \in [Pids -> Steps] /\ "create" \in Steps
    BY <1>1 DEF TypeOK, Job, Steps
  <2>3. /\ job' \in [Pids -> Job] /\ pc' \in [Pids -> Steps]
        /\ job'[p] = new /\ pc'[p] = "create"
        /\ \A q \in Pids \ {p} : pc'[q] = pc[q] /\ job'[q] = job[q]
    BY <1>6, <2>1, <2>2
  <2>4. TypeOK'
    BY <1>0, <1>1, <1>6, <2>3 DEF TypeOK, Job
  <2>5. Visible' = Visible
    BY <1>0 DEF Visible
  <2>6. /\ new.edit = edit /\ new.token = asked /\ new.base = Visible.id
        /\ new.config = config
    BY DEF NoJob
  <2>7. EditInv(p)'
    BY <1>2, <1>3, <1>6, <2>3, <2>5, <2>6 DEF EditInv
  <2>8. TempInv(p)' /\ AckInv(p)'
    BY <2>3 DEF TempInv, HoldsTemp, AckInv
  <2> QED
    BY <1>0, <2>3, <2>4, <2>7, <2>8, FilesUntouched DEF ProcessInv
<1>7. CASE token' = edit /\ UNCHANGED <<pc, job>>
  <2>1. TypeOK'
    BY <1>0, <1>1, <1>3, <1>7 DEF TypeOK
  <2>2. ProcessInv(p)'
    BY <1>0, <1>7 DEF IInv, ProcessInv, TempInv, HoldsTemp, EditInv, AckInv, Own, Visible
  <2> QED
    BY <1>0, <1>7, <2>1, <2>2, FilesUntouched
<1> QED
  BY <1>6, <1>7 DEF Decide

\* Adding a connection keeps the inductive invariant.
LEMMA AddStep ==
  ASSUME IInv, NEW p \in Pids, AddConnection(p) PROVE IInv'
<1>1. PICK n \in Names, v \in Values, given \in {NoToken, token} :
        /\ pc[p] = "idle"
        /\ Decide(p, [name |-> n, old |-> Visible.config[n],
                      new |-> [value |-> v, limits |-> Visible.config[n].limits]], given)
        /\ UNCHANGED <<fileVars, acked>>
  BY DEF AddConnection, MayStart
<1>2. Visible.config[n].limits \in BOOLEAN
  <2>1. Visible.config[n] \in Entries \cup {NoEntry}
    BY VisibleType DEF IInv, Publication, Configs
  <2>2. \A e \in Entries : e.limits \in BOOLEAN
    BY Zenon DEF Entries
  <2>3. NoEntry.limits \in BOOLEAN
    BY DEF NoEntry
  <2> QED
    BY <2>1, <2>2, <2>3, Zenon
<1>3. [value |-> v, limits |-> Visible.config[n].limits] \in Entries \cup {NoEntry}
  BY <1>2 DEF Entries
<1> QED
  BY <1>1, <1>3, DecideStep

\* So does removing one,
LEMMA RemoveStep ==
  ASSUME IInv, NEW p \in Pids, RemoveConnection(p) PROVE IInv'
<1>1. PICK n \in Names, given \in {NoToken, token} :
        /\ pc[p] = "idle"
        /\ Decide(p, [name |-> n, old |-> Visible.config[n], new |-> NoEntry], given)
        /\ UNCHANGED <<fileVars, acked>>
  BY DEF RemoveConnection, MayStart
<1> QED
  BY <1>1, DecideStep

\* creating the temporary file,
LEMMA CreateStep ==
  ASSUME IInv, NEW p \in Pids, CreateTemp(p) PROVE IInv'
<1>1. TypeOK /\ TempInv(p) /\ EditInv(p)
  BY DEF IInv, ProcessInv
<1>2. CASE Finish(p) /\ UNCHANGED temps
  <2>1. UNCHANGED <<log, temps, token, acked>>
    BY <1>2 DEF CreateTemp
  <2>2. TypeOK'
    BY <1>1, <1>2, <2>1, FinishType DEF TypeOK, Job
  <2> QED
    BY <1>1, <1>2, <2>1, <2>2, FinishType, FilesUntouched, Done
<1>3. ASSUME NEW k \in 1..Attempts,
             temps' = [temps EXCEPT ![<<p, k>>] = "created"],
             job' = [job EXCEPT ![p].seq = k],
             pc[p] = "create", Goto(p, "write"), UNCHANGED <<log, token, acked>>
      PROVE  IInv'
  <2>1. job \in [Pids -> Job] /\ k \in 0..Attempts /\ <<p, k>> \in TempFiles
    BY <1>1, ConnectionFileAssumption DEF TypeOK, Job, TempFiles
  <2>2. [job[p] EXCEPT !.seq = k] \in Job
    BY <2>1 DEF Job
  <2>3. /\ job' \in [Pids -> Job] /\ job'[p] = [job[p] EXCEPT !.seq = k]
        /\ \A q \in Pids \ {p} : job'[q] = job[q]
    BY <1>3, <2>1, <2>2
  <2>4. /\ pc' \in [Pids -> Steps] /\ pc'[p] = "write"
        /\ \A q \in Pids \ {p} : pc'[q] = pc[q]
    BY <1>1, <1>3, GotoType DEF Steps
  <2>5. temps' \in [TempFiles -> {"none", "created", "written", "synced"}]
    BY <1>1, <1>3 DEF TypeOK
  <2>6. TypeOK'
    BY <1>1, <1>3, <2>3, <2>4, <2>5 DEF TypeOK, Job
  <2>7. Visible' = Visible
    BY <1>3 DEF Visible
  <2>8. /\ job'[p].seq = k /\ job'[p].edit = job[p].edit
        /\ job'[p].config = job[p].config /\ job'[p].base = job[p].base
        /\ job'[p].token = job[p].token
    BY <2>1, <2>3 DEF Job
  <2>9. EditInv(p)'
    BY <1>1, <1>3, <2>4, <2>7, <2>8 DEF EditInv
  <2>10. TempInv(p)' /\ AckInv(p)'
    BY <2>4, <2>8 DEF TempInv, HoldsTemp, AckInv
  <2>11. \A q \in Pids \ {p} : pc[q] \in {"sync", "replace"} => temps'[Own(q)] = temps[Own(q)]
    <3>1. <<p, k>>[1] = p
      OBVIOUS
    <3> QED
      BY <1>3, <3>1, OwnFiles, Zenon
  <2>12. ProcessInv(p)'
    BY <2>9, <2>10 DEF ProcessInv
  <2> QED
    BY <1>3, <2>3, <2>4, <2>6, <2>11, <2>12, FileUntouched
<1> QED
  BY <1>2, <1>3 DEF CreateTemp

\* writing it,
LEMMA WriteStep ==
  ASSUME IInv, NEW p \in Pids, WriteTemp(p) PROVE IInv'
<1>1. TypeOK /\ TempInv(p) /\ EditInv(p) /\ UNCHANGED <<log, job, token, acked>>
      /\ pc[p] = "write" /\ "sync" \in Steps /\ "cleanup" \in Steps
  BY DEF IInv, ProcessInv, WriteTemp, Steps
<1>2. Visible' = Visible /\ Own(p)' = Own(p) /\ Own(p)[1] = p
      /\ Own(p) \in TempFiles
  BY <1>1 DEF Visible, Own, TempInv, HoldsTemp, TempFiles
<1>3. CASE temps' = [temps EXCEPT ![Own(p)] = "written"] /\ Goto(p, "sync")
  <2>1. /\ pc' \in [Pids -> Steps] /\ pc'[p] = "sync"
        /\ \A q \in Pids \ {p} : pc'[q] = pc[q]
    BY <1>1, <1>3, GotoType
  <2>2. /\ temps' \in [TempFiles -> {"none", "created", "written", "synced"}]
        /\ temps'[Own(p)] = "written"
    BY <1>1, <1>2, <1>3 DEF TypeOK
  <2>3. TypeOK'
    BY <1>1, <2>1, <2>2 DEF TypeOK
  <2>4. TempInv(p)' /\ AckInv(p)'
    BY <1>1, <1>2, <2>1, <2>2 DEF TempInv, HoldsTemp, AckInv
  <2>5. EditInv(p)'
    BY <1>1, <1>2, <2>1 DEF EditInv
  <2>6. \A q \in Pids \ {p} : pc[q] \in {"sync", "replace"} => temps'[Own(q)] = temps[Own(q)]
    BY <1>2, <1>3, OwnFiles, Zenon
  <2>7. ProcessInv(p)'
    BY <2>4, <2>5 DEF ProcessInv
  <2> QED
    BY <1>1, <2>1, <2>3, <2>6, <2>7, FileUntouched
<1>4. CASE Goto(p, "cleanup") /\ UNCHANGED temps
  <2>1. /\ pc' \in [Pids -> Steps] /\ pc'[p] = "cleanup"
        /\ \A q \in Pids \ {p} : pc'[q] = pc[q]
    BY <1>1, <1>4, GotoType
  <2>2. TypeOK'
    BY <1>1, <1>4, <2>1 DEF TypeOK
  <2>3. ProcessInv(p)'
    BY <1>1, <2>1 DEF ProcessInv, TempInv, HoldsTemp, AckInv, EditInv
  <2> QED
    BY <1>1, <1>4, <2>1, <2>2, <2>3, FilesUntouched
<1> QED
  BY <1>3, <1>4 DEF WriteTemp

\* synchronising it,
LEMMA SyncStep ==
  ASSUME IInv, NEW p \in Pids, SyncTemp(p) PROVE IInv'
<1>1. TypeOK /\ TempInv(p) /\ EditInv(p) /\ UNCHANGED <<log, job, token, acked>>
      /\ pc[p] = "sync" /\ "replace" \in Steps /\ "cleanup" \in Steps
  BY DEF IInv, ProcessInv, SyncTemp, Steps
<1>2. Visible' = Visible /\ Own(p)' = Own(p) /\ Own(p)[1] = p
      /\ Own(p) \in TempFiles
  BY <1>1 DEF Visible, Own, TempInv, HoldsTemp, TempFiles
<1>3. CASE temps' = [temps EXCEPT ![Own(p)] = "synced"] /\ Goto(p, "replace")
  <2>1. /\ pc' \in [Pids -> Steps] /\ pc'[p] = "replace"
        /\ \A q \in Pids \ {p} : pc'[q] = pc[q]
    BY <1>1, <1>3, GotoType
  <2>2. /\ temps' \in [TempFiles -> {"none", "created", "written", "synced"}]
        /\ temps'[Own(p)] = "synced"
    BY <1>1, <1>2, <1>3 DEF TypeOK
  <2>3. TypeOK'
    BY <1>1, <2>1, <2>2 DEF TypeOK
  <2>4. TempInv(p)' /\ AckInv(p)'
    BY <1>1, <1>2, <2>1, <2>2 DEF TempInv, HoldsTemp, AckInv
  <2>5. EditInv(p)'
    BY <1>1, <1>2, <2>1 DEF EditInv
  <2>6. \A q \in Pids \ {p} : pc[q] \in {"sync", "replace"} => temps'[Own(q)] = temps[Own(q)]
    BY <1>2, <1>3, OwnFiles, Zenon
  <2>7. ProcessInv(p)'
    BY <2>4, <2>5 DEF ProcessInv
  <2> QED
    BY <1>1, <2>1, <2>3, <2>6, <2>7, FileUntouched
<1>4. CASE Goto(p, "cleanup") /\ UNCHANGED temps
  <2>1. /\ pc' \in [Pids -> Steps] /\ pc'[p] = "cleanup"
        /\ \A q \in Pids \ {p} : pc'[q] = pc[q]
    BY <1>1, <1>4, GotoType
  <2>2. TypeOK'
    BY <1>1, <1>4, <2>1 DEF TypeOK
  <2>3. ProcessInv(p)'
    BY <1>1, <2>1 DEF ProcessInv, TempInv, HoldsTemp, AckInv, EditInv
  <2> QED
    BY <1>1, <1>4, <2>1, <2>2, <2>3, FilesUntouched
<1> QED
  BY <1>3, <1>4 DEF SyncTemp

\* removing what is left of it,
LEMMA CleanupStep ==
  ASSUME IInv, NEW p \in Pids, Cleanup(p) PROVE IInv'
<1>1. TypeOK /\ TempInv(p) /\ UNCHANGED <<log, token, acked>>
      /\ pc[p] \in {"cleanup", "drop"} /\ "drop" \in Steps
  BY DEF IInv, ProcessInv, Cleanup, Steps
<1>2. Own(p)[1] = p /\ Own(p) \in TempFiles
  BY <1>1 DEF Own, TempInv, HoldsTemp, TempFiles
<1>3. /\ temps' \in {temps, [temps EXCEPT ![Own(p)] = "none"]}
      /\ temps' \in [TempFiles -> {"none", "created", "written", "synced"}]
  BY <1>1 DEF TypeOK, Cleanup
<1>4. \A q \in Pids \ {p} : pc[q] \in {"sync", "replace"} => temps'[Own(q)] = temps[Own(q)]
  BY <1>2, <1>3, OwnFiles, Zenon
<1>5. CASE Finish(p)
  <2>1. TypeOK'
    BY <1>1, <1>3, <1>5, FinishType DEF TypeOK, Job
  <2> QED
    BY <1>1, <1>4, <1>5, <2>1, FinishType, FileUntouched, Done
<1>6. CASE Goto(p, "drop") /\ UNCHANGED job
  <2>1. /\ pc' \in [Pids -> Steps] /\ pc'[p] = "drop"
        /\ \A q \in Pids \ {p} : pc'[q] = pc[q]
    BY <1>1, <1>6, GotoType
  <2>2. TypeOK'
    BY <1>1, <1>3, <1>6, <2>1 DEF TypeOK
  <2>3. ProcessInv(p)'
    BY <1>1, <1>6, <2>1 DEF ProcessInv, TempInv, HoldsTemp, AckInv, EditInv
  <2> QED
    BY <1>1, <1>4, <1>6, <2>1, <2>2, <2>3, FileUntouched
<1> QED
  BY <1>5, <1>6 DEF Cleanup

\* and the death of the process.
LEMMA KillStep ==
  ASSUME IInv, NEW p \in Pids, Kill(p) PROVE IInv'
<1>1. TypeOK /\ Finish(p) /\ UNCHANGED <<log, temps, token, acked>>
  BY DEF Kill, IInv
<1>2. TypeOK'
  BY <1>1, FinishType DEF TypeOK, Job
<1> QED
  BY <1>1, <1>2, FinishType, FilesUntouched, Done

\* The rename: what readers see from now on is whole and newer than everything
\* before, so that every edit decided on earlier has become stale.
LEMMA ReplaceStep ==
  ASSUME IInv, NEW p \in Pids, ReplaceFile(p) PROVE IInv'
<1>1. TypeOK /\ TempInv(p) /\ LogInv /\ AckedIsDurable /\ UNCHANGED <<token, acked>>
      /\ pc[p] = "replace" /\ "syncdir" \in Steps /\ "cleanup" \in Steps
  BY DEF IInv, ProcessInv, ReplaceFile, Steps
<1>2. /\ Own(p)[1] = p /\ Own(p) \in TempFiles /\ temps[Own(p)] = "synced"
  BY <1>1 DEF Own, TempInv, HoldsTemp, TempFiles
<1>3. CASE Goto(p, "cleanup") /\ UNCHANGED <<log, temps, job>>
  <2>1. /\ pc' \in [Pids -> Steps] /\ pc'[p] = "cleanup"
        /\ \A q \in Pids \ {p} : pc'[q] = pc[q]
    BY <1>1, <1>3, GotoType
  <2>2. TypeOK'
    BY <1>1, <1>3, <2>1 DEF TypeOK
  <2>3. ProcessInv(p)'
    BY <1>1, <1>3, <2>1 DEF ProcessInv, TempInv, HoldsTemp, AckInv, EditInv
  <2> QED
    BY <1>1, <1>3, <2>1, <2>2, <2>3, FilesUntouched
<1>4. ASSUME log' = Append(log, [id |-> Visible.id + 1, config |-> job[p].config,
                                 whole |-> temps[Own(p)] = "synced"]),
             temps' = [temps EXCEPT ![Own(p)] = "none"],
             job' = [job EXCEPT ![p].id = Visible.id + 1],
             Goto(p, "syncdir")
      PROVE  IInv'
  <2> DEFINE new == [id |-> Visible.id + 1, config |-> job[p].config, whole |-> TRUE]
  <2>1. log' = Append(log, new)
    BY <1>2, <1>4
  <2>2. new \in Publication /\ Visible.id \in Nat
    BY <1>1, VisibleType, JobType DEF Publication
  <2>3. /\ log' \in Seq(Publication) /\ Len(log') = Len(log) + 1
        /\ log'[Len(log) + 1] = new
        /\ \A i \in 1..Len(log) : log'[i] = log[i]
    BY <1>1, <2>1, <2>2, VisibleType
  <2>4. Visible' = new
    BY <2>3 DEF Visible
  <2>5. log' # <<>>
    BY <1>1, <2>3, VisibleType
  <2>6. LogInv'
    <3>1. \A i \in 1..Len(log) : log[i].id \in Nat /\ log[i].id <= Visible.id
      BY <1>1, VisibleType DEF LogInv, Visible, Publication
    <3>2. \A i, j \in 1..Len(log') : i <= j => log'[i].id <= log'[j].id
      BY <1>1, <2>2, <2>3, <3>1, VisibleType DEF LogInv
    <3>3. WholeFilesOnly'
      BY <1>1, <2>3, VisibleType DEF LogInv, WholeFilesOnly
    <3> QED
      BY <3>2, <3>3 DEF LogInv
  <2>7. AckedIsDurable'
    BY <1>1, <2>3, VisibleType DEF AckedIsDurable
  <2>8. /\ pc' \in [Pids -> Steps] /\ pc'[p] = "syncdir"
        /\ \A q \in Pids \ {p} : pc'[q] = pc[q]
    BY <1>1, <1>4, GotoType
  <2>9. temps' \in [TempFiles -> {"none", "created", "written", "synced"}]
    BY <1>1, <1>4 DEF TypeOK
  <2>10. /\ job' \in [Pids -> Job] /\ job'[p].id = Visible.id + 1
         /\ \A q \in Pids \ {p} : job'[q] = job[q]
    <3>1. job \in [Pids -> Job]
      BY <1>1 DEF TypeOK, Job
    <3>2. [job[p] EXCEPT !.id = Visible.id + 1] \in Job
      BY <2>2, <3>1 DEF Job
    <3>3. [job[p] EXCEPT !.id = Visible.id + 1].id = Visible.id + 1
      BY <3>1 DEF Job
    <3> QED
      BY <1>4, <3>1, <3>2, <3>3
  <2>11. TypeOK'
    BY <1>1, <2>3, <2>5, <2>8, <2>9, <2>10 DEF TypeOK, Publication, Job
  <2>12. ProcessInv(p)'
    BY <2>2, <2>4, <2>8, <2>10 DEF ProcessInv, TempInv, HoldsTemp, AckInv, EditInv
  <2>13. ASSUME NEW q \in Pids \ {p} PROVE ProcessInv(q)'
    <3>1. pc[q] \in {"sync", "replace"} => temps'[Own(q)] = temps[Own(q)]
      BY <1>2, <1>4, OwnFiles, Zenon
    <3>2. Visible'.id \in Nat /\ Visible'.id > Visible.id
      BY <2>2, <2>4
    <3>3. ProcessInv(q) /\ job[q].base \in Nat /\ job[q].id \in Nat
      BY <1>1, JobType DEF IInv
    <3> QED
      BY <2>2, <2>8, <2>10, <3>1, <3>2, <3>3, Undisturbed
  <2> QED
    BY <2>6, <2>7, <2>11, <2>12, <2>13 DEF IInv
<1> QED
  BY <1>3, <1>4 DEF ReplaceFile

\* Once the directory is on disk the last publication is the one on disk.
LEMMA SyncParentStep ==
  ASSUME IInv, NEW p \in Pids, SyncParent(p) PROVE IInv'
<1>1. TypeOK /\ Finish(p) /\ UNCHANGED <<temps, token>> /\ pc[p] = "syncdir"
      /\ AckInv(p) /\ LogInv /\ AckedIsDurable
  BY DEF SyncParent, IInv, ProcessInv
<1>2. CASE UNCHANGED <<log, acked>>
  <2>1. TypeOK'
    BY <1>1, <1>2, FinishType DEF TypeOK, Job
  <2> QED
    BY <1>1, <1>2, <2>1, FinishType, FilesUntouched, Done
<1>3. CASE /\ log' = <<Visible>>
           /\ acked' = IF job[p].id > acked THEN job[p].id ELSE acked
  <2>1. /\ log' \in Seq(Publication) /\ log' # <<>> /\ Len(log') = 1
        /\ log'[1] = Visible /\ Visible' = Visible
    BY <1>1, <1>3, VisibleType DEF Visible
  <2>2. acked' \in Nat /\ acked \in Nat /\ job[p].id \in Nat
    BY <1>1, <1>3, JobType DEF TypeOK
  <2>3. TypeOK'
    BY <1>1, <2>1, <2>2, FinishType DEF TypeOK, Publication, Job
  <2>4. LogInv'
    BY <1>1, <2>1, VisibleType DEF LogInv, WholeFilesOnly, Visible, Publication
  <2>5. log[1].id <= Visible.id /\ log[1].id \in Nat /\ Visible.id \in Nat
    BY <1>1, VisibleType DEF LogInv, Visible, Publication
  <2>6. AckedIsDurable'
    BY <1>1, <1>3, <2>1, <2>2, <2>5 DEF AckedIsDurable, AckInv
  <2>7. ASSUME NEW q \in Pids PROVE ProcessInv(q)'
    <3>1. CASE q = p
      BY <1>1, <3>1, FinishType, Done
    <3>2. CASE q # p
      BY <1>1, <2>1, <2>5, <3>2, FinishType, JobType, Undisturbed DEF IInv
    <3> QED
      BY <3>1, <3>2
  <2> QED
    BY <2>3, <2>4, <2>6, <2>7 DEF IInv
<1> QED
  BY <1>2, <1>3 DEF SyncParent

\* A loss of power takes back renames that were not synced, never one that was
\* acknowledged.
LEMMA PowerLossStep ==
  ASSUME IInv, PowerLoss PROVE IInv'
<1>1. TypeOK /\ LogInv /\ AckedIsDurable
  BY DEF IInv
<1>2. PICK i \in 1..Len(log) : log' = <<log[i]>>
  BY DEF PowerLoss
<1>3. /\ log' \in Seq(Publication) /\ log' # <<>> /\ Len(log') = 1
      /\ log'[1] = log[i]
  BY <1>1, <1>2, VisibleType
<1>4. TypeOK'
  <2>1. job' \in [Pids -> Job]
    BY NoJobType DEF PowerLoss
  <2>2. pc' \in [Pids -> Steps]
    BY DEF PowerLoss, Steps
  <2> QED
    BY <1>1, <1>3, <2>1, <2>2 DEF TypeOK, PowerLoss, Publication, Job
<1>5. LogInv'
  BY <1>1, <1>3, VisibleType DEF LogInv, WholeFilesOnly, Publication
<1>6. AckedIsDurable'
  <2>1. /\ log[1].id <= log[i].id /\ log[1].id \in Nat /\ log[i].id \in Nat
        /\ acked \in Nat /\ acked' = acked
    BY <1>1, VisibleType DEF LogInv, PowerLoss, TypeOK, Publication
  <2> QED
    BY <1>1, <1>3, <2>1 DEF AckedIsDurable
<1>7. \A p \in Pids : ProcessInv(p)'
  BY Done DEF PowerLoss
<1> QED
  BY <1>4, <1>5, <1>6, <1>7 DEF IInv

\* A stuttering step leaves everything in place.
LEMMA StutterStep == ASSUME IInv, UNCHANGED vars PROVE IInv'
<1>1. UNCHANGED <<log, temps, pc, job, token, acked>>
  BY DEF vars
<1>2. TypeOK' /\ LogInv' /\ AckedIsDurable'
  BY <1>1 DEF IInv, TypeOK, LogInv, WholeFilesOnly, AckedIsDurable
<1>3. \A p \in Pids : ProcessInv(p)'
  BY <1>1 DEF IInv, ProcessInv, TempInv, HoldsTemp, EditInv, AckInv, Own, Visible
<1> QED
  BY <1>2, <1>3 DEF IInv

\* Every step keeps it.
LEMMA StepInv == IInv /\ [Next]_vars => IInv'
<1> SUFFICES ASSUME IInv, [Next]_vars PROVE IInv'
  OBVIOUS
<1>1. ASSUME NEW p \in Pids, AddConnection(p) \/ RemoveConnection(p) \/ Save(p) \/ Kill(p)
      PROVE  IInv'
  BY <1>1, AddStep, RemoveStep, CreateStep, WriteStep, SyncStep, ReplaceStep,
     SyncParentStep, CleanupStep, KillStep DEF Save
<1> QED
  BY <1>1, PowerLossStep, StutterStep DEF Next
-----------------------------------------------------------------------------
(* The theorems. *)

\* The inductive invariant holds in every state of the file.
THEOREM AlwaysInv == Spec => []IInv
  BY InitInv, StepInv, PTL DEF Spec

\* Every variable has its type, for every number of processes.
THEOREM TypeCorrect == Spec => []TypeOK
<1>1. IInv => TypeOK
  BY DEF IInv
<1> QED
  BY <1>1, AlwaysInv, PTL

\* write_file_atomically: readers of connections.toml never see a torn file, at
\* whatever step processes are killed or the power fails.
THEOREM FilesAreWhole == Spec => []WholeFilesOnly
<1>1. IInv => WholeFilesOnly
  BY DEF IInv, LogInv
<1> QED
  BY <1>1, AlwaysInv, PTL

\* An edit reported as done is on disk: no loss of power takes it back.
THEOREM AckedStays == Spec => []AckedIsDurable
<1>1. IInv => AckedIsDurable
  BY DEF IInv
<1> QED
  BY <1>1, AlwaysInv, PTL

\* Only the rename publishes.
LEMMA OnlyReplacePublishes ==
  ASSUME IInv, [Next]_vars, NEW p \in Pids, Publishes(p)
  PROVE  log' = Append(log, [id |-> Visible.id + 1, config |-> job[p].config,
                             whole |-> temps[Own(p)] = "synced"])
<1>1. pc[p] = "replace" /\ pc'[p] = "syncdir" /\ pc \in [Pids -> Steps]
  BY DEF Publishes, IInv, TypeOK
<1>2. pc'[p] # pc[p] /\ pc'[p] \notin {"idle", "create"}
  BY <1>1
<1>3. ASSUME NEW q \in Pids, AddConnection(q) \/ RemoveConnection(q) PROVE FALSE
  <2>1. pc' = [pc EXCEPT ![q] = "create"] \/ UNCHANGED pc
    BY <1>3 DEF AddConnection, RemoveConnection, Decide
  <2> QED
    BY <1>1, <1>2, <2>1
<1>4. ASSUME NEW q \in Pids, Save(q) \/ Kill(q), ~ReplaceFile(q) PROVE FALSE
  <2>1. \E at \in {"idle", "write", "sync", "replace", "cleanup", "drop"} :
          pc' = [pc EXCEPT ![q] = at]
    BY <1>4 DEF Save, Kill, CreateTemp, WriteTemp, SyncTemp, SyncParent, Cleanup, Finish, Goto
  <2> QED
    BY <1>1, <2>1
<1>5. ASSUME NEW q \in Pids, ReplaceFile(q)
      PROVE  q = p /\ log' = Append(log, [id |-> Visible.id + 1, config |-> job[p].config,
                                          whole |-> temps[Own(p)] = "synced"])
  <2>1. pc' = [pc EXCEPT ![q] = "syncdir"] \/ pc' = [pc EXCEPT ![q] = "cleanup"]
    BY <1>5 DEF ReplaceFile, Goto
  <2>2. q = p
    BY <1>1, <2>1
  <2>3. pc' # [pc EXCEPT ![q] = "cleanup"]
    BY <1>1, <2>2
  <2> QED
    BY <1>5, <2>2, <2>3 DEF ReplaceFile, Goto
<1>6. ~PowerLoss /\ ~(UNCHANGED vars)
  BY <1>1, <1>2 DEF PowerLoss, vars
<1> QED
  BY <1>3, <1>4, <1>5, <1>6 DEF Next

\* conn add --replace and conn remove: if no one else published between the load
\* and the rename, the rename changes the named entry alone, as the confirmation
\* token said, and an entry keeps its limits.
THEOREM EditsAreExact == Spec => UndisturbedEditIsExact
<1> DEFINE Exact(p) ==
      Publishes(p) /\ job[p].base = Visible.id =>
        \A n \in Names : Visible'.config[n] # Visible.config[n] =>
          /\ n = job[p].edit.name
          /\ Visible.config[n] # NoEntry => ConfirmedEdit(p, n)
          /\ Visible'.config[n] # NoEntry =>
               Visible'.config[n].limits = Visible.config[n].limits
<1>1. ASSUME IInv, [Next]_vars, NEW p \in Pids PROVE Exact(p)
  <2> SUFFICES ASSUME Publishes(p), job[p].base = Visible.id, NEW n \in Names,
                      Visible'.config[n] # Visible.config[n]
               PROVE  /\ n = job[p].edit.name
                      /\ Visible.config[n] # NoEntry => ConfirmedEdit(p, n)
                      /\ Visible'.config[n] # NoEntry =>
                           Visible'.config[n].limits = Visible.config[n].limits
    OBVIOUS
  <2> DEFINE edit == job[p].edit
  <2>1. Visible'.config = job[p].config
    <3> DEFINE new == [id |-> Visible.id + 1, config |-> job[p].config,
                       whole |-> temps[Own(p)] = "synced"]
    <3>1. log' = Append(log, new)
      BY <1>1, OnlyReplacePublishes
    <3>2. /\ log \in Seq(Publication) /\ new \in Publication
      BY <1>1, VisibleType, JobType DEF IInv, Publication
    <3>3. Visible' = new
      BY <3>1, <3>2 DEF Visible
    <3> QED
      BY <3>3
  <2>2. EditInv(p) /\ pc[p] = "replace"
    BY <1>1 DEF IInv, ProcessInv, Publishes
  <2>3. /\ edit \in Edits /\ edit.old = Visible.config[edit.name]
        /\ Visible'.config = [Visible.config EXCEPT ![edit.name] = edit.new]
        /\ edit.old # NoEntry => job[p].token = edit
        /\ edit.new # NoEntry => edit.new.limits = edit.old.limits
    BY <2>1, <2>2 DEF EditInv
  <2>4. Visible.config \in [Names -> Entries \cup {NoEntry}]
    BY <1>1, VisibleType DEF IInv, Publication, Configs
  <2>5. n = edit.name /\ Visible'.config[n] = edit.new
    BY <2>3, <2>4
  <2>6. edit = [name |-> edit.name, old |-> edit.old, new |-> edit.new]
    BY <2>3 DEF Edits
  <2> QED
    BY <2>3, <2>5, <2>6 DEF ConfirmedEdit
<1>2. IInv /\ [Next]_vars => [\A p \in Pids : Exact(p)]_vars
  BY <1>1
<1> QED
  BY <1>2, AlwaysInv, PTL DEF Spec, UndisturbedEditIsExact
=============================================================================
