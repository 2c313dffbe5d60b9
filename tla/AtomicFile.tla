------------------------------ MODULE AtomicFile ------------------------------
(***************************************************************************)
(* What nk::Settings promises of its file: "atomically replacing the        *)
(* previous file" (include/nk/model/settings.h:63-65). A save replaces the  *)
(* whole file in one step or leaves it alone, whatever fails and whoever    *)
(* crashes on the way; after a power failure the file is as it last was on  *)
(* the disk. Processes that save at the same time disturb each other, and   *)
(* of the file they leave nothing is promised.                              *)
(***************************************************************************)
EXTENDS Integers

CONSTANTS
  Processes,
  Values,      \* what a store can hold
  Empty        \* the store without entries, which an absent file stands for

VARIABLES
  store,       \* process -> its entries
  saving,      \* the processes in the middle of a save
  disturbed,   \* those of them that met another
  file,        \* <<v>>, or <<>> when it is no store that was ever saved
  disk         \* the file as it last was on the disk

atomicVars == <<store, saving, disturbed, file, disk>>

Contents == {<<>>} \cup {<<v>> : v \in Values}

AtomicInit ==
  /\ store = [p \in Processes |-> Empty]
  /\ saving = {}
  /\ disturbed = {}
  /\ file = <<Empty>>
  /\ disk = <<Empty>>

Change(p, v) ==
  /\ p \notin saving
  /\ store' = [store EXCEPT ![p] = v]
  /\ UNCHANGED <<saving, disturbed, file, disk>>

\* A store is read back whole, or not at all.
Read(p) ==
  /\ p \notin saving
  /\ \E v \in Values :
       /\ file # <<>> => v \in {file[1], Empty}
       /\ store' = [store EXCEPT ![p] = v]
  /\ UNCHANGED <<saving, disturbed, file, disk>>

BeginSave(p) ==
  /\ p \notin saving
  /\ saving' = saving \cup {p}
  /\ disturbed' = IF saving = {} THEN disturbed ELSE saving'
  /\ UNCHANGED <<store, file, disk>>

End(p) ==
  /\ p \in saving
  /\ saving' = saving \ {p}
  /\ disturbed' = disturbed \ {p}

\* The save succeeds.
Commit(p) ==
  /\ End(p)
  /\ IF p \in disturbed THEN file' \in Contents ELSE file' = <<store[p]>>
  /\ UNCHANGED <<store, disk>>

\* The save fails, or its process crashes and forgets.
Abort(p) ==
  /\ End(p)
  /\ store' \in {store, [store EXCEPT ![p] = Empty]}
  /\ UNCHANGED <<file, disk>>

Damage ==
  /\ disturbed # {}
  /\ file' \in Contents
  /\ UNCHANGED <<store, saving, disturbed, disk>>

Settle ==
  /\ disk' = file
  /\ UNCHANGED <<store, saving, disturbed, file>>

Forget(p) ==
  /\ p \notin saving
  /\ store' = [store EXCEPT ![p] = Empty]
  /\ UNCHANGED <<saving, disturbed, file, disk>>

PowerFails ==
  /\ file' = disk
  /\ saving' = {}
  /\ disturbed' = {}
  /\ store' = [p \in Processes |-> Empty]
  /\ UNCHANGED disk

AtomicNext ==
  \/ \E p \in Processes :
       \/ \E v \in Values : Change(p, v)
       \/ Read(p) \/ BeginSave(p) \/ Commit(p) \/ Abort(p) \/ Forget(p)
  \/ Damage \/ Settle \/ PowerFails

AtomicSpec == AtomicInit /\ [][AtomicNext]_atomicVars
=============================================================================
