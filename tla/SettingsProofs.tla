---------------------------- MODULE SettingsProofs ----------------------------
(***************************************************************************)
(* Theorems about Settings, for every set of processes and of values: the   *)
(* type invariant, which is inductive because it says that a saver that met *)
(* nobody has the temporary file for itself, and that the settings file is  *)
(* an AtomicFile.                                                           *)
(***************************************************************************)
EXTENDS Settings, TLAPS

\* The parts of TypeOK, and what a step of one process may do.
Stages == {"idle", "opened", "flushed", "synced", "down"}

Types ==
  /\ store \in [Processes -> Values]
  /\ at \in [Processes -> Stages]
  /\ open \in [Processes -> {"none", "tmp", "file"}]
  /\ file \in Files /\ tmp \in Files /\ disk \in Files
  /\ \A p \in Processes : open[p] # "none" => at[p] = "opened"

Undisturbed ==
  /\ disturbed \subseteq Saving
  /\ \A p \in Saving \ disturbed : Exclusive(p)

LEMMA TypeParts == TypeOK <=> Types /\ Undisturbed
  BY DEF TypeOK, Types, Undisturbed, Stages

LEMMA AbsentIsFile == Absent \in Files
  BY DEF Absent, Files

\* What a process writes is a file; it is whole where nobody else interferes.
LEMMA WrittenIsFile ==
  ASSUME NEW p \in Processes, NEW f \in Files, NEW g \in Written(f, p), store \in [Processes -> Values]
  PROVE  /\ g \in Files
         /\ g.exists = f.exists /\ g.by = f.by
         /\ f.by = {p} /\ ~f.mixed => ~g.mixed /\ g.data = <<store[p]>>
<1>1. PICK data \in {<<store[p]>>} \cup (IF f.mixed \/ f.by # {p} THEN {<<>>} ELSE {}) :
        g = [f EXCEPT !.data = data, !.synced = FALSE, !.mixed = f.mixed \/ f.by # {p}]
  BY DEF Written
<1>2. data \in {<<>>} \cup {<<v>> : v \in Values}
  BY <1>1
<1>3. g = [exists |-> f.exists, data |-> data, synced |-> FALSE, by |-> f.by,
           mixed |-> (f.mixed \/ f.by # {p})]
  BY <1>1 DEF Files
<1>4. (f.mixed \/ f.by # {p}) \in BOOLEAN
  OBVIOUS
<1>5. g \in Files
  BY <1>2, <1>3, <1>4 DEF Files
<1>6. f.by = {p} /\ ~f.mixed => ~g.mixed /\ g.data = <<store[p]>>
  BY <1>1, <1>3
<1> QED
  BY <1>3, <1>5, <1>6

LEMMA PartIsFile ==
  ASSUME NEW p \in Processes, NEW f \in Files
  PROVE  /\ Partly(f, p) \in Files
         /\ Partly(f, p).exists = f.exists /\ Partly(f, p).by = f.by
         /\ f.by = {p} /\ ~f.mixed => ~Partly(f, p).mixed
<1>1. PICK g : g = [f EXCEPT !.data = <<>>, !.synced = FALSE, !.mixed = f.mixed \/ f.by # {p}]
  OBVIOUS
<1>2. g = [exists |-> f.exists, data |-> <<>>, synced |-> FALSE, by |-> f.by,
           mixed |-> (f.mixed \/ f.by # {p})]
  BY <1>1 DEF Files
<1>3. (f.mixed \/ f.by # {p}) \in BOOLEAN
  OBVIOUS
<1>4. g \in Files
  BY <1>2, <1>3 DEF Files
<1>5. g.exists = f.exists /\ g.by = f.by
  BY <1>2
<1>6. f.by = {p} /\ ~f.mixed => ~g.mixed
  BY <1>1, <1>2
<1>7. Partly(f, p) = g
  BY <1>1 DEF Partly
<1> QED
  BY <1>4, <1>5, <1>6, <1>7, Zenon

-----------------------------------------------------------------------------
LEMMA TypesInit == Init => Types /\ Undisturbed
  BY SettingsAssumption, AbsentIsFile
  DEF Init, Types, Undisturbed, Stages, Saving, SettingsAssumption

LEMMA TypesStep == Types /\ [Next]_vars => Types'
<1> SUFFICES ASSUME Types, [Next]_vars PROVE Types'
  OBVIOUS
<1> USE SettingsAssumption, AbsentIsFile DEF SettingsAssumption, Types, Stages
<1>1. ASSUME NEW p \in Processes, NEW v \in Values, SetValue(p, v) PROVE Types'
  BY <1>1 DEF SetValue
<1>2. ASSUME NEW p \in Processes, NEW readable \in BOOLEAN, Load(p, readable) PROVE Types'
  BY <1>2 DEF Load
<1>3. ASSUME NEW p \in Processes, OpenTemporary(p) PROVE Types'
  BY <1>3 DEF OpenTemporary, Files
<1>4. ASSUME NEW p \in Processes, Flush(p) PROVE Types'
  <2>1. file' \in Files /\ tmp' \in Files
    BY <1>4, WrittenIsFile DEF Flush
  <2> QED
    BY <1>4, <2>1 DEF Flush
<1>5. ASSUME NEW p \in Processes, Sync(p) PROVE Types'
  BY <1>5 DEF Sync, Files
<1>6. ASSUME NEW p \in Processes, Rename(p) PROVE Types'
  BY <1>6 DEF Rename, Renamed
<1>7. ASSUME NEW p \in Processes, NEW removed \in BOOLEAN, Fail(p, removed) PROVE Types'
  BY <1>7 DEF Fail, Removed, Saving
<1>8. ASSUME NEW p \in Processes, Crash(p) PROVE Types'
  BY <1>8 DEF Crash
<1>9. ASSUME NEW p \in Processes, Restart(p) PROVE Types'
  BY <1>9 DEF Restart
<1>10. ASSUME WriteBack PROVE Types'
  BY <1>10 DEF WriteBack, Files
<1>11. ASSUME NEW lost \in BOOLEAN, PowerFailure(lost) PROVE Types'
  <2>1. file' \in Files
    BY <1>11 DEF PowerFailure, Files
  <2> QED
    BY <1>11, <2>1 DEF PowerFailure
<1>12. ASSUME NEW p \in Processes, WritePart(p) PROVE Types'
  <2>1. file' \in Files /\ tmp' \in Files
    BY <1>12, PartIsFile DEF WritePart
  <2> QED
    BY <1>12, <2>1 DEF WritePart
<1>13. CASE UNCHANGED vars
  BY <1>13 DEF vars
<1> QED
  BY <1>1, <1>2, <1>3, <1>4, <1>5, <1>6, <1>7, <1>8, <1>9, <1>10, <1>11, <1>12, <1>13 DEF Next

-----------------------------------------------------------------------------
\* A process that is alone in saving is the one that takes a saver's step.
LEMMA AloneOrNot ==
  ASSUME Undisturbed, NEW p \in Saving, NEW q \in Saving, p \notin disturbed
  PROVE  p = q /\ Exclusive(p)
  BY DEF Undisturbed, Exclusive

\* Who saves after a step that moves one process.
LEMMA SaversAfter ==
  ASSUME NEW p \in Processes, NEW stage \in Stages, at \in [Processes -> Stages],
         at' = [at EXCEPT ![p] = stage]
  PROVE  Saving' = IF stage \in {"opened", "flushed", "synced"} THEN Saving \cup {p}
                                                              ELSE Saving \ {p}
  BY DEF Saving, Stages

LEMMA UndisturbedStep == Types /\ Undisturbed /\ [Next]_vars => Undisturbed'
<1> SUFFICES ASSUME Types, Undisturbed, [Next]_vars PROVE Undisturbed'
  OBVIOUS
<1> USE DEF Types
<1>1. ASSUME NEW p \in Processes, NEW v \in Values, SetValue(p, v) PROVE Undisturbed'
  BY <1>1 DEF SetValue, Undisturbed, Exclusive, Saving
<1>2. ASSUME NEW p \in Processes, NEW readable \in BOOLEAN, Load(p, readable) PROVE Undisturbed'
  BY <1>2 DEF Load, Undisturbed, Exclusive, Saving
<1>3. ASSUME NEW p \in Processes, OpenTemporary(p) PROVE Undisturbed'
  <2>1. Saving' = Saving \cup {p}
    BY <1>3, SaversAfter DEF OpenTemporary, Stages
  <2>2. disturbed' \subseteq Saving'
    BY <1>3, <2>1 DEF OpenTemporary, Undisturbed
  <2>3. CASE Saving = {}
    <3>1. Saving' = {p}
      BY <2>1, <2>3
    <3>2. Exclusive(p)'
      BY <1>3, <3>1 DEF OpenTemporary, Exclusive
    <3> QED
      BY <2>2, <3>1, <3>2 DEF Undisturbed
  <2>4. CASE Saving # {}
    BY <1>3, <2>1, <2>2, <2>4 DEF OpenTemporary, Undisturbed
  <2> QED
    BY <2>3, <2>4
<1>4. ASSUME NEW p \in Processes, Flush(p) PROVE Undisturbed'
  <2>1. p \in Saving /\ Saving' = Saving
    BY <1>4 DEF Flush, Saving, Stages
  <2>2. disturbed' = disturbed /\ disturbed' \subseteq Saving'
    BY <1>4, <2>1 DEF Flush, Undisturbed
  <2>3. ASSUME NEW q \in Saving \ disturbed PROVE Exclusive(q)'
    <3>1. q = p /\ Exclusive(p)
      BY <2>1, <2>3, AloneOrNot
    <3>2. open[p] = "tmp" /\ tmp.exists /\ tmp.by = {p} /\ ~tmp.mixed
      BY <1>4, <3>1 DEF Exclusive, Flush
    <3>3. tmp' \in Written(tmp, p)
      BY <1>4, <3>2 DEF Flush
    <3>4. tmp'.exists /\ tmp'.by = {p} /\ ~tmp'.mixed /\ tmp'.data = <<store[p]>>
      BY <3>2, <3>3, WrittenIsFile
    <3>5. at'[p] = "flushed" /\ store' = store
      BY <1>4 DEF Flush, Stages
    <3> QED
      BY <2>1, <3>1, <3>4, <3>5 DEF Exclusive
  <2> QED
    BY <2>1, <2>2, <2>3 DEF Undisturbed
<1>5. ASSUME NEW p \in Processes, Sync(p) PROVE Undisturbed'
  <2>1. p \in Saving /\ Saving' = Saving
    BY <1>5 DEF Sync, Saving, Stages
  <2>2. ASSUME NEW q \in Saving \ disturbed PROVE Exclusive(q)'
    <3>1. q = p /\ Exclusive(p)
      BY <2>1, <2>2, AloneOrNot
    <3>2. tmp' = [exists |-> tmp.exists, data |-> tmp.data, synced |-> TRUE,
                  by |-> tmp.by, mixed |-> tmp.mixed]
      BY <1>5 DEF Sync, Files
    <3>3. at[p] = "flushed" /\ at'[p] = "synced" /\ store' = store
      BY <1>5 DEF Sync, Stages
    <3> QED
      BY <2>1, <3>1, <3>2, <3>3 DEF Exclusive
  <2> QED
    BY <1>5, <2>1, <2>2 DEF Undisturbed, Sync
<1>6. ASSUME NEW p \in Processes, p \in Saving, Saving' = Saving \ {p}, disturbed' = disturbed \ {p}
      PROVE Undisturbed'
  <2>1. ASSUME NEW q \in Saving' \ disturbed' PROVE FALSE
    BY <1>6, <2>1, AloneOrNot
  <2> QED
    BY <1>6, <2>1 DEF Undisturbed
<1>7. ASSUME NEW p \in Processes, Rename(p) PROVE Undisturbed'
  <2>1. p \in Saving /\ Saving' = Saving \ {p}
    BY <1>7, SaversAfter DEF Rename, Stages, Saving
  <2> QED
    BY <1>6, <1>7, <2>1 DEF Rename
<1>8. ASSUME NEW p \in Processes, NEW removed \in BOOLEAN, Fail(p, removed) PROVE Undisturbed'
  <2>1. p \in Saving /\ Saving' = Saving \ {p}
    BY <1>8, SaversAfter DEF Fail, Stages
  <2> QED
    BY <1>6, <1>8, <2>1 DEF Fail
<1>9. ASSUME NEW p \in Processes, Crash(p) PROVE Undisturbed'
  <2>1. Saving' = Saving \ {p} /\ disturbed' = disturbed \ {p}
    BY <1>9, SaversAfter DEF Crash, Stages
  <2>2. CASE p \in Saving
    BY <1>6, <2>1, <2>2
  <2>3. CASE p \notin Saving
    BY <1>9, <2>1, <2>3 DEF Crash, Undisturbed, Exclusive, Saving
  <2> QED
    BY <2>2, <2>3
<1>10. ASSUME NEW p \in Processes, Restart(p) PROVE Undisturbed'
  <2>1. p \notin Saving /\ Saving' = Saving
    BY <1>10 DEF Restart, Saving, Stages
  <2> QED
    BY <1>10, <2>1 DEF Restart, Undisturbed, Exclusive, Saving
<1>11. ASSUME WriteBack PROVE Undisturbed'
  BY <1>11 DEF WriteBack, Undisturbed, Exclusive, Saving
<1>12. ASSUME NEW lost \in BOOLEAN, PowerFailure(lost) PROVE Undisturbed'
  BY <1>12 DEF PowerFailure, Undisturbed, Saving
<1>13. ASSUME NEW p \in Processes, WritePart(p) PROVE Undisturbed'
  <2>1. p \in Saving /\ Saving' = Saving
    BY <1>13 DEF WritePart, Saving
  <2>2. ASSUME NEW q \in Saving \ disturbed PROVE Exclusive(q)'
    <3>1. q = p /\ Exclusive(p)
      BY <2>1, <2>2, AloneOrNot
    <3>2. at[p] = "opened" /\ open[p] = "tmp" /\ tmp' = Partly(tmp, p)
      BY <1>13, <3>1 DEF Exclusive, WritePart
    <3>3. tmp'.exists /\ tmp'.by = {p} /\ ~tmp'.mixed
      BY <3>1, <3>2, PartIsFile DEF Exclusive
    <3> QED
      BY <1>13, <2>1, <3>1, <3>2, <3>3 DEF Exclusive, WritePart
  <2> QED
    BY <1>13, <2>1, <2>2 DEF Undisturbed, WritePart
<1>14. CASE UNCHANGED vars
  BY <1>14 DEF vars, Undisturbed, Exclusive, Saving
<1> QED
  BY <1>1, <1>2, <1>3, <1>4, <1>5, <1>7, <1>8, <1>9, <1>10, <1>11, <1>12, <1>13, <1>14 DEF Next

\* The state has its shape, and a saver that met nobody (no other process in save()
\* since it began) has the temporary file of settings.cpp for itself.
THEOREM TypeCorrect == Spec => []TypeOK
<1>1. Init => TypeOK
  BY TypesInit, TypeParts
<1>2. TypeOK /\ [Next]_vars => TypeOK'
  <2> SUFFICES ASSUME TypeOK, [Next]_vars PROVE TypeOK'
    OBVIOUS
  <2>1. Types /\ Undisturbed
    BY TypeParts
  <2>2. Types' /\ Undisturbed'
    BY <2>1, TypesStep, UndisturbedStep
  <2> QED
    BY <2>2, TypeParts DEF TypeOK, Types, Undisturbed, Stages
<1> QED
  BY <1>1, <1>2, PTL DEF Spec

-----------------------------------------------------------------------------
\* The steps of save(), of a crash and of the disk are those of an AtomicFile.
LEMMA ContentIsContents ==
  ASSUME NEW f \in Files
  PROVE  Content(f) \in Atomic!Contents
  BY SettingsAssumption DEF Content, Files, Atomic!Contents, SettingsAssumption

LEMMA AtomicInitially == Init => Atomic!AtomicInit
  BY DEF Init, Atomic!AtomicInit, Saving, Content, Absent

LEMMA AtomicStep ==
  ASSUME Types, Undisturbed, Types', [Next]_vars
  PROVE  [Atomic!AtomicNext]_(Atomic!atomicVars)
<1> USE SettingsAssumption DEF SettingsAssumption, Types
<1>1. ASSUME NEW p \in Processes, NEW v \in Values, SetValue(p, v)
      PROVE  Atomic!Change(p, v)
  BY <1>1 DEF SetValue, Atomic!Change, Saving
<1>2. ASSUME NEW p \in Processes, NEW readable \in BOOLEAN, Load(p, readable)
      PROVE  Atomic!Read(p)
  <2>1. PICK v \in Values :
          /\ store' = [store EXCEPT ![p] = v]
          /\ IF ~readable \/ ~file.exists \/ file.data \in {<<big>> : big \in Large}
             THEN v = Empty
             ELSE file.data # <<>> => file.data = <<v>>
    BY <1>2 DEF Load
  <2>2. Content(file) # <<>> => v \in {Content(file)[1], Empty}
    BY <2>1 DEF Content
  <2>3. p \notin Saving /\ UNCHANGED <<Saving, disturbed, Content(file), Content(disk)>>
    BY <1>2 DEF Load, Saving, Content
  <2> QED
    BY <2>1, <2>2, <2>3 DEF Atomic!Read
<1>3. ASSUME NEW p \in Processes, OpenTemporary(p)
      PROVE  Atomic!BeginSave(p)
  <2>1. p \notin Saving /\ Saving' = Saving \cup {p}
    BY <1>3, SaversAfter DEF OpenTemporary, Stages, Saving
  <2> QED
    BY <1>3, <2>1 DEF OpenTemporary, Atomic!BeginSave, Content
<1>4. ASSUME NEW p \in Processes, Flush(p)
      PROVE  Atomic!Damage \/ UNCHANGED Atomic!atomicVars
  <2>1. p \in Saving /\ Saving' = Saving
    BY <1>4 DEF Flush, Saving, Stages
  <2>2. UNCHANGED <<store, Saving, disturbed, Content(disk)>>
    BY <1>4, <2>1 DEF Flush, Content
  <2>3. CASE open[p] = "file"
    <3>1. p \in disturbed
      BY <1>4, <2>1, <2>3, AloneOrNot DEF Exclusive, Flush
    <3>2. Content(file)' \in Atomic!Contents
      BY <2>3, ContentIsContents
    <3> QED
      BY <2>2, <3>1, <3>2 DEF Atomic!Damage
  <2>4. CASE open[p] # "file"
    BY <1>4, <2>2, <2>4 DEF Flush, Content, Atomic!atomicVars
  <2> QED
    BY <2>3, <2>4
<1>5. ASSUME NEW p \in Processes, Sync(p)
      PROVE  UNCHANGED Atomic!atomicVars
  <2>1. Saving' = Saving
    BY <1>5 DEF Sync, Saving, Stages
  <2> QED
    BY <1>5, <2>1 DEF Sync, Content, Atomic!atomicVars
<1>6. ASSUME NEW p \in Processes, Rename(p)
      PROVE  Atomic!Commit(p)
  <2>1. p \in Saving /\ Saving' = Saving \ {p}
    BY <1>6, SaversAfter DEF Rename, Stages, Saving
  <2>2. Atomic!End(p) /\ UNCHANGED <<store, Content(disk)>>
    BY <1>6, <2>1 DEF Rename, Atomic!End, Content
  <2>3. CASE p \in disturbed
    <3>1. Content(file)' \in Atomic!Contents
      BY ContentIsContents
    <3> QED
      BY <2>2, <2>3, <3>1 DEF Atomic!Commit
  <2>4. CASE p \notin disturbed
    <3>1. Exclusive(p)
      BY <2>1, <2>4, AloneOrNot
    <3>2. Content(file)' = <<store[p]>>
      BY <1>6, <3>1 DEF Rename, Exclusive, Content
    <3> QED
      BY <2>2, <2>4, <3>2 DEF Atomic!Commit
  <2> QED
    BY <2>3, <2>4
<1>7. ASSUME NEW p \in Processes, NEW removed \in BOOLEAN, Fail(p, removed)
      PROVE  Atomic!Abort(p)
  <2>1. p \in Saving /\ Saving' = Saving \ {p}
    BY <1>7, SaversAfter DEF Fail, Stages
  <2> QED
    BY <1>7, <2>1 DEF Fail, Atomic!Abort, Atomic!End, Content
<1>8. ASSUME NEW p \in Processes, Crash(p)
      PROVE  Atomic!Abort(p) \/ Atomic!Forget(p)
  <2>1. Saving' = Saving \ {p} /\ disturbed' = disturbed \ {p}
    BY <1>8, SaversAfter DEF Crash, Stages
  <2>2. UNCHANGED <<Content(file), Content(disk)>>
    BY <1>8 DEF Crash, Content
  <2>3. CASE p \in Saving
    BY <1>8, <2>1, <2>2, <2>3 DEF Crash, Atomic!Abort, Atomic!End
  <2>4. CASE p \notin Saving
    BY <1>8, <2>1, <2>2, <2>4 DEF Crash, Atomic!Forget, Undisturbed
  <2> QED
    BY <2>3, <2>4
<1>9. ASSUME NEW p \in Processes, Restart(p)
      PROVE  UNCHANGED Atomic!atomicVars
  <2>1. Saving' = Saving
    BY <1>9 DEF Restart, Saving, Stages
  <2> QED
    BY <1>9, <2>1 DEF Restart, Content, Atomic!atomicVars
<1>10. ASSUME WriteBack
       PROVE  Atomic!Settle
  <2>1. Content(disk)' = Content(file)
    BY <1>10 DEF WriteBack, Content, Files
  <2> QED
    BY <1>10, <2>1 DEF WriteBack, Atomic!Settle, Saving, Content
<1>11. ASSUME NEW lost \in BOOLEAN, PowerFailure(lost)
       PROVE  Atomic!PowerFails
  <2>1. Content(file)' = Content(disk) /\ Content(disk)' = Content(disk)
    BY <1>11 DEF PowerFailure, Content, Files
  <2>2. Saving' = {}
    BY <1>11 DEF PowerFailure, Saving
  <2> QED
    BY <1>11, <2>1, <2>2 DEF PowerFailure, Atomic!PowerFails
<1>12. ASSUME NEW p \in Processes, WritePart(p)
       PROVE  Atomic!Damage \/ UNCHANGED Atomic!atomicVars
  <2>1. p \in Saving /\ Saving' = Saving
    BY <1>12 DEF WritePart, Saving
  <2>2. UNCHANGED <<store, Saving, disturbed, Content(disk)>>
    BY <1>12, <2>1 DEF WritePart, Content
  <2>3. CASE open[p] = "file"
    <3>1. p \in disturbed
      BY <1>12, <2>1, <2>3, AloneOrNot DEF Exclusive, WritePart
    <3>2. Content(file)' \in Atomic!Contents
      BY <2>3, ContentIsContents
    <3> QED
      BY <2>2, <3>1, <3>2 DEF Atomic!Damage
  <2>4. CASE open[p] # "file"
    BY <1>12, <2>2, <2>4 DEF WritePart, Content, Atomic!atomicVars
  <2> QED
    BY <2>3, <2>4
<1>13. CASE UNCHANGED vars
  BY <1>13 DEF vars, Saving, Content, Atomic!atomicVars
<1> QED
  BY <1>1, <1>2, <1>3, <1>4, <1>5, <1>6, <1>7, <1>8, <1>9, <1>10, <1>11, <1>12, <1>13
  DEF Next, Atomic!AtomicNext

\* "atomically replacing the previous file" (settings.h:63-65), for any number of processes:
\* whatever call of save() fails and whoever crashes, the file is a whole store that a
\* save put there, unless saves of two processes met.
THEOREM SavesAreAtomic == Spec => ReplacesAtomically
<1>1. Init => Atomic!AtomicInit
  BY AtomicInitially
<1>2. TypeOK /\ TypeOK' /\ [Next]_vars => [Atomic!AtomicNext]_(Atomic!atomicVars)
  <2> SUFFICES ASSUME TypeOK, TypeOK', [Next]_vars
               PROVE  [Atomic!AtomicNext]_(Atomic!atomicVars)
    OBVIOUS
  <2>1. Types /\ Undisturbed
    BY TypeParts
  <2>2. Types'
    BY <2>1, TypesStep
  <2> QED
    BY <2>1, <2>2, AtomicStep
<1> QED
  BY <1>1, <1>2, TypeCorrect, PTL DEF Spec, ReplacesAtomically, Atomic!AtomicSpec
=============================================================================
