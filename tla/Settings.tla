------------------------------- MODULE Settings -------------------------------
(***************************************************************************)
(* nk::Settings (src/model/settings.cpp): processes that load and save the  *)
(* same file, through a temporary file beside it that bears one name for    *)
(* all of them. A save is the sequence of its system calls; each may fail,  *)
(* the process may crash between any two, and the power may fail.           *)
(*                                                                          *)
(* A store is a value as a whole: how entries are written as lines, lists   *)
(* and numbers is left out. A process is the owner of one Settings object   *)
(* on its UI thread; save() is synchronous there, so the store does not     *)
(* change during a save.                                                    *)
(***************************************************************************)
EXTENDS Integers

CONSTANTS
  Processes,
  Values,      \* what a store can hold
  Empty,       \* the store without entries
  Large        \* the stores of more than 1 MiB on disk

ASSUME SettingsAssumption == Empty \in Values /\ Large \subseteq Values

VARIABLES
  store,       \* process -> values_
  at,          \* process -> where it is in save()
  open,        \* process -> what its stream writes to now
  file,        \* the settings file
  tmp,         \* the temporary file
  disk,        \* the settings file as it last was on the disk
  disturbed    \* history: the savers that met another

vars == <<store, at, open, file, tmp, disk, disturbed>>

-----------------------------------------------------------------------------
\* data: <<v>>, or <<>> when it is no store as a whole; synced: it is on the disk;
\* by: who truncated it last; mixed: somebody else wrote to it since.
Files == [exists : BOOLEAN, data : {<<>>} \cup {<<v>> : v \in Values}, synced : BOOLEAN,
          by : SUBSET Processes, mixed : BOOLEAN]

Absent == [exists |-> FALSE, data |-> <<>>, synced |-> TRUE, by |-> {}, mixed |-> FALSE]

Saving == {p \in Processes : at[p] \in {"opened", "flushed", "synced"}}

Init ==
  /\ store = [p \in Processes |-> Empty]
  /\ at = [p \in Processes |-> "idle"]
  /\ open = [p \in Processes |-> "none"]
  /\ file = Absent
  /\ tmp = Absent
  /\ disk = Absent
  /\ disturbed = {}

-----------------------------------------------------------------------------
\* set_string() and the other setters, remove() and clear().
SetValue(p, v) ==
  /\ at[p] = "idle"
  /\ v # store[p]
  /\ store' = [store EXCEPT ![p] = v]
  /\ UNCHANGED <<at, open, file, tmp, disk, disturbed>>

\* load(): the store is emptied first; of a file that is not whole it takes what
\* entries it finds.
Load(p, readable) ==
  /\ at[p] = "idle"
  /\ \E v \in Values :
       /\ store' = [store EXCEPT ![p] = v]
       /\ IF ~readable \/ ~file.exists \/ file.data \in {<<big>> : big \in Large}
          THEN v = Empty
          ELSE file.data # <<>> => file.data = <<v>>
  /\ UNCHANGED <<at, open, file, tmp, disk, disturbed>>

\* Mutant: what a crash left in the temporary file stays there.
OpenKeeping(p) ==
  /\ at[p] = "idle"
  /\ at' = [at EXCEPT ![p] = "opened"]
  /\ open' = [open EXCEPT ![p] = "tmp"]
  /\ tmp' = [exists |-> TRUE, data |-> tmp.data, synced |-> FALSE, by |-> tmp.by \cup {p},
             mixed |-> FALSE]
  /\ disturbed' = IF Saving = {} THEN disturbed ELSE Saving \cup {p}
  /\ UNCHANGED <<store, file, disk>>

\* save(): the directories, and the temporary file, emptied if it was there.
OpenTemporary(p) ==
  /\ at[p] = "idle"
  /\ at' = [at EXCEPT ![p] = "opened"]
  /\ open' = [open EXCEPT ![p] = "tmp"]
  /\ tmp' = [exists |-> TRUE, data |-> <<>>, synced |-> FALSE, by |-> {p}, mixed |-> FALSE]
  /\ disturbed' = IF Saving = {} THEN disturbed ELSE Saving \cup {p}
  /\ UNCHANGED <<store, file, disk>>

\* What a file holds once p has written its store: where somebody else wrote, or has
\* emptied the file since, a mixture or one of the two.
Written(f, p) ==
  {[f EXCEPT !.data = data, !.synced = FALSE, !.mixed = f.mixed \/ f.by # {p}] :
     data \in {<<store[p]>>} \cup (IF f.mixed \/ f.by # {p} THEN {<<>>} ELSE {})}

\* The permissions, the lines, flush() and close(). The stream's file may have another
\* name by now, or none.
Flush(p) ==
  /\ at[p] = "opened"
  /\ at' = [at EXCEPT ![p] = "flushed"]
  /\ open' = [open EXCEPT ![p] = "none"]
  /\ IF open[p] = "tmp" THEN tmp' \in Written(tmp, p) ELSE UNCHANGED tmp
  /\ IF open[p] = "file" THEN file' \in Written(file, p) ELSE UNCHANGED file
  /\ UNCHANGED <<store, disk, disturbed>>

\* A part of the lines: the stream writes when its buffer is full.
Partly(f, p) == [f EXCEPT !.data = <<>>, !.synced = FALSE, !.mixed = f.mixed \/ f.by # {p}]

WritePart(p) ==
  /\ at[p] = "opened"
  /\ tmp' = IF open[p] = "tmp" THEN Partly(tmp, p) ELSE tmp
  /\ file' = IF open[p] = "file" THEN Partly(file, p) ELSE file
  /\ UNCHANGED <<store, at, open, disk, disturbed>>

\* Mutant: the contents are not flushed to the disk.
SyncNothing(p) ==
  /\ at[p] = "flushed"
  /\ at' = [at EXCEPT ![p] = "synced"]
  /\ UNCHANGED <<store, open, file, tmp, disk, disturbed>>

\* open() by name and fsync().
Sync(p) ==
  /\ at[p] = "flushed"
  /\ tmp.exists
  /\ at' = [at EXCEPT ![p] = "synced"]
  /\ tmp' = [tmp EXCEPT !.synced = TRUE]
  /\ UNCHANGED <<store, open, file, disk, disturbed>>

\* What the streams write to once the temporary file has been renamed, or removed.
Renamed == [q \in Processes |-> IF open[q] = "tmp" THEN "file" ELSE "none"]
Removed == [q \in Processes |-> IF open[q] = "tmp" THEN "none" ELSE open[q]]

\* rename() by name; save() returns true.
Rename(p) ==
  /\ at[p] = "synced"
  /\ tmp.exists
  /\ at' = [at EXCEPT ![p] = "idle"]
  /\ open' = Renamed
  /\ file' = tmp
  /\ tmp' = Absent
  /\ disturbed' = disturbed \ {p}
  /\ UNCHANGED <<store, disk>>

\* A call fails: the temporary file is removed, if that does not fail too, and save()
\* returns false.
Fail(p, removed) ==
  /\ p \in Saving
  /\ at' = [at EXCEPT ![p] = "idle"]
  /\ open' = IF removed THEN [Removed EXCEPT ![p] = "none"] ELSE [open EXCEPT ![p] = "none"]
  /\ tmp' = IF removed THEN Absent ELSE tmp
  /\ disturbed' = disturbed \ {p}
  /\ UNCHANGED <<store, file, disk>>

-----------------------------------------------------------------------------
(***************************************************************************)
(* The environment.                                                         *)
(***************************************************************************)
\* The process is killed, and its store lost; the system keeps what it wrote.
Crash(p) ==
  /\ at[p] # "down"
  /\ at' = [at EXCEPT ![p] = "down"]
  /\ store' = [store EXCEPT ![p] = Empty]
  /\ open' = [open EXCEPT ![p] = "none"]
  /\ disturbed' = disturbed \ {p}
  /\ UNCHANGED <<file, tmp, disk>>

Restart(p) ==
  /\ at[p] = "down"
  /\ at' = [at EXCEPT ![p] = "idle"]
  /\ UNCHANGED <<store, open, file, tmp, disk, disturbed>>

\* The directory reaches the disk: which file bears the name.
WriteBack ==
  /\ disk' = [file EXCEPT !.by = {}, !.mixed = FALSE]
  /\ UNCHANGED <<store, at, open, file, tmp, disturbed>>

\* What was not synced may be lost, the temporary file as well.
PowerFailure(lost) ==
  /\ at' = [p \in Processes |-> "down"]
  /\ open' = [p \in Processes |-> "none"]
  /\ file' = IF disk.synced \/ ~lost THEN disk ELSE [disk EXCEPT !.data = <<>>]
  /\ disk' = file'
  /\ tmp' = IF lost THEN Absent ELSE tmp
  /\ disturbed' = {}
  /\ store' = [p \in Processes |-> Empty]

Next ==
  \/ \E p \in Processes :
       \/ \E v \in Values : SetValue(p, v)
       \/ \E readable \in BOOLEAN : Load(p, readable)
       \/ OpenTemporary(p) \/ WritePart(p) \/ Flush(p) \/ Sync(p) \/ Rename(p)
       \/ \E removed \in BOOLEAN : Fail(p, removed)
       \/ Crash(p) \/ Restart(p)
  \/ WriteBack
  \/ \E lost \in BOOLEAN : PowerFailure(lost)

Spec == Init /\ [][Next]_vars

-----------------------------------------------------------------------------
\* A saver has the temporary file for itself, with all it wrote so far.
Exclusive(p) ==
  /\ Saving = {p}
  /\ tmp.exists /\ tmp.by = {p} /\ ~tmp.mixed
  /\ at[p] = "opened" => open[p] = "tmp"
  /\ at[p] \in {"flushed", "synced"} => tmp.data = <<store[p]>>
  /\ at[p] = "synced" => tmp.synced

\* The shape of the state. Only savers are disturbed, and one that is not has the
\* temporary file for itself, also after crashes that left one behind.
TypeOK ==
  /\ store \in [Processes -> Values]
  /\ at \in [Processes -> {"idle", "opened", "flushed", "synced", "down"}]
  /\ open \in [Processes -> {"none", "tmp", "file"}]
  /\ {file, tmp, disk} \subseteq Files
  /\ disturbed \subseteq Saving
  /\ \A p \in Processes : open[p] # "none" => at[p] = "opened"
  /\ \A p \in Saving \ disturbed : Exclusive(p)

\* A file that is not on the disk as it is counts as damaged.
Content(f) == IF ~f.exists THEN <<Empty>> ELSE IF f.synced THEN f.data ELSE <<>>

Atomic == INSTANCE AtomicFile WITH saving <- Saving, file <- Content(file),
                                   disk <- Content(disk)

\* save() replaces the previous file atomically, under failures of any of its calls,
\* crashes at any point and power failures, unless two processes save at once; load()
\* reads a whole store or none.
ReplacesAtomically == Atomic!AtomicSpec
=============================================================================
