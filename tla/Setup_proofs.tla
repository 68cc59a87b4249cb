---------------------------- MODULE Setup_proofs ----------------------------
(***************************************************************************)
(* What Setup guarantees for any number of users, imports, exports, keys   *)
(* and backups.  While no import is overlapped or cut off, at most one is  *)
(* under way, and its place says how the database, the temporary file and  *)
(* the key file relate (ImportInv, KeyInv); an export that began while     *)
(* none was under way sees none before it ends (ExportInv).                *)
(***************************************************************************)
EXTENDS Setup, TLAPS

Before == {"create", "copy", "validate", "swap"}

\* What k decrypts: all, unless the database was imported with a wrong key.
Decrypts(k) == db.tested \subseteq {k} /\ (guessed \/ db.untested \subseteq {k})

ImportInv ==
    ~disturbed =>
        /\ \A i, j \in InFlight : i = j
        /\ \A i \in Imports :
              /\ im[i].at \in Before => open /\ db.users \subseteq late
              /\ im[i].at = "copy" => tmp = Empty
              /\ im[i].at \in {"validate", "swap"} => tmp = im[i].db
              /\ im[i].at = "swap" => tmp.tested \subseteq {im[i].key}
              /\ im[i].at \in {"truncate", "write"} => Decrypts(im[i].key)
              /\ im[i].at \in {"truncate", "write", "signal"} => ~open

\* The key file is the running server's, and opens the database, except
\* between the renaming of the file and the writing of its key.
KeyInv ==
    KeyFrom = "file" /\ ~disturbed =>
        /\ open => key = keyfile
        /\ (\A i \in Imports : im[i].at \notin {"truncate", "write"}) =>
              Decrypts(keyfile)

ExportInv ==
    /\ server = "down" => \A e \in Exports : ex[e].at \notin {"db", "key"}
    /\ KeyFrom = "file" /\ ~disturbed =>
        \A e \in Exports : ex[e].clean =>
          /\ ex[e].at \in {"db", "key"} => /\ InFlight = {} /\ db.users # {}
                                          /\ ex[e].rows \subseteq {keyfile}
          /\ ex[e].at = "done" => ex[e].rows \subseteq {ex[e].key}

IInv == TypeOK /\ ImportInv /\ KeyInv /\ ExportInv

----------------------------------------------------------------------------
\* A registration and an encryption make a database of a database.
LEMMA DatabaseFacts ==
    /\ Empty \in Databases /\ Backups \subseteq Databases
    /\ \A d \in Databases :
          /\ d.users \subseteq AllUsers /\ KeysOf(d) \subseteq Keys
          /\ \A u \in Users : [d EXCEPT !.users = @ \cup {u}] \in Databases
          /\ \A k \in Keys : /\ [d EXCEPT !.tested = @ \cup {k}] \in Databases
                             /\ [d EXCEPT !.untested = @ \cup {k}] \in Databases
<1>1. Users \subseteq AllUsers /\ \A b \in Backups : b.users \subseteq AllUsers
  BY DEF AllUsers
<1>2. \A b \in Backups : b \in Databases
  <2>1. TAKE b \in Backups
  <2>2. b = [users |-> b.users, tested |-> b.tested, untested |-> b.untested]
    BY BackupsAssumption DEF Database
  <2>3. b.tested \subseteq Keys /\ b.untested \subseteq Keys
    BY BackupsAssumption DEF KeysOf
  <2>4. QED
    BY <1>1, <2>2, <2>3 DEF Databases
<1>3. Empty \in Databases
  BY DEF Databases, Empty, Database
<1>4. QED
  BY <1>1, <1>2, <1>3 DEF Databases, KeysOf

\* An export whose file is written to is still one, and no longer clean.
LEMMA RewriteFacts ==
  ASSUME TypeOK, NEW d \in Databases, Rewrite(d)
  PROVE  /\ db' = d
         /\ ex' \in [Exports -> [at : {"idle", "db", "key", "done"}, rows : SUBSET Keys,
                                 key : Keys \cup {NoKey}, clean : BOOLEAN]]
         /\ \A e \in Exports : IF ex[e].at = "db" THEN ex'[e].at = "db" /\ ~ex'[e].clean
                               ELSE ex'[e] = ex[e]
<1>1. KeysOf(d) \subseteq Keys
  BY DatabaseFacts
<1>2. QED
  BY <1>1 DEF TypeOK, Rewrite, Export

LEMMA EncryptFacts ==
  ASSUME TypeOK, Encrypt
  PROVE  /\ server = "up" /\ open /\ db.users # {} /\ key \in Keys
         /\ UNCHANGED <<process, tmp, keyfile, elsewhere, im, history>>
         /\ db' \in Databases /\ db'.users = db.users
         /\ db'.tested \subseteq db.tested \cup {key}
         /\ db'.untested \subseteq db.untested \cup {key}
         /\ ex' \in [Exports -> [at : {"idle", "db", "key", "done"}, rows : SUBSET Keys,
                                 key : Keys \cup {NoKey}, clean : BOOLEAN]]
         /\ \A e \in Exports : IF ex[e].at = "db" THEN ex'[e].at = "db" /\ ~ex'[e].clean
                               ELSE ex'[e] = ex[e]
<1>1. /\ server = "up" /\ open /\ db.users # {} /\ key \in Keys /\ db \in Databases
      /\ UNCHANGED <<process, tmp, keyfile, elsewhere, im, history>>
  BY DEF Encrypt, TypeOK
<1>2. PICK d \in {[db EXCEPT !.tested = @ \cup {key}], [db EXCEPT !.untested = @ \cup {key}]} :
         Rewrite(d)
  BY DEF Encrypt
<1>3. d \in Databases
  BY <1>1, <1>2, DatabaseFacts
<1>4. /\ d.users = db.users /\ d.tested \subseteq db.tested \cup {key}
      /\ d.untested \subseteq db.untested \cup {key}
  BY <1>1, <1>2 DEF Databases
<1>5. QED
  BY <1>1, <1>2, <1>3, <1>4, RewriteFacts

LEMMA TypeStep == TypeOK /\ [Next]_vars => TypeOK'
<1> SUFFICES ASSUME TypeOK, [Next]_vars PROVE TypeOK'
  OBVIOUS
<1> USE DEF TypeOK, process, files, history, InFlight, Half
<1>1. ASSUME Boot
      PROVE  TypeOK'
  BY <1>1, ConstantsAssumption, DatabaseFacts DEF Boot, Start, Stored
<1>2. ASSUME Generate
      PROVE  TypeOK'
  BY <1>2, ConstantsAssumption, DatabaseFacts, ZenonT(30) DEF Generate, Start, Save, Stored, Fresh
<1>3. ASSUME Shutdown
      PROVE  TypeOK'
  BY <1>3, ConstantsAssumption, DatabaseFacts DEF Shutdown
<1>4. ASSUME Exit
      PROVE  TypeOK'
  <2>1. /\ server' = "down" /\ key' = NoKey /\ open' = FALSE /\ restart' = FALSE
        /\ failed' = FALSE
        /\ UNCHANGED <<replaced, db, tmp, keyfile, elsewhere, late, guessed>>
        /\ disturbed' \in BOOLEAN /\ faults' \in 0..MaxFaults
    BY <1>4, ConstantsAssumption DEF Exit, Crash, Down, NoExport, Export
  <2>2. im' \in [Imports -> [at : {"idle", "create", "copy", "validate", "swap",
                                  "truncate", "write", "signal", "done"},
                            db : Backups \cup {Empty}, key : Keys \cup {NoKey}]]
    BY <1>4 DEF Exit, Crash, Down, Import
  <2>3. InFlight' = {}
    BY <1>4 DEF Exit, Crash, Down, Import
  <2>4. ex' \in [Exports -> [at : {"idle", "db", "key", "done"}, rows : SUBSET Keys,
                             key : Keys \cup {NoKey}, clean : BOOLEAN]]
    BY <1>4 DEF Exit, Crash, Down, NoExport, Export
  <2>5. QED
    BY <2>1, <2>2, <2>3, <2>4
<1>5. ASSUME Crash
      PROVE  TypeOK'
  <2>1. /\ server' = "down" /\ key' = NoKey /\ open' = FALSE /\ restart' = FALSE
        /\ failed' = FALSE
        /\ UNCHANGED <<replaced, db, tmp, keyfile, elsewhere, late, guessed>>
        /\ disturbed' \in BOOLEAN /\ faults' \in 0..MaxFaults
    BY <1>5, ConstantsAssumption DEF Exit, Crash, Down, NoExport, Export
  <2>2. im' \in [Imports -> [at : {"idle", "create", "copy", "validate", "swap",
                                  "truncate", "write", "signal", "done"},
                            db : Backups \cup {Empty}, key : Keys \cup {NoKey}]]
    BY <1>5 DEF Exit, Crash, Down, Import
  <2>3. InFlight' = {}
    BY <1>5 DEF Exit, Crash, Down, Import
  <2>4. ex' \in [Exports -> [at : {"idle", "db", "key", "done"}, rows : SUBSET Keys,
                             key : Keys \cup {NoKey}, clean : BOOLEAN]]
    BY <1>5 DEF Exit, Crash, Down, NoExport, Export
  <2>5. QED
    BY <2>1, <2>2, <2>3, <2>4
<1>6. ASSUME Encrypt
      PROVE  TypeOK'
  BY <1>6, EncryptFacts
<1>7. ASSUME NEW u \in Users, Register(u)
      PROVE  TypeOK'
  <2>1. [db EXCEPT !.users = @ \cup {u}] \in Databases /\ Rewrite([db EXCEPT !.users = @ \cup {u}])
    BY <1>7, DatabaseFacts DEF Register
  <2>2. QED
    BY <1>7, <2>1, RewriteFacts DEF Register
<1>8. ASSUME NEW i \in Imports, NEW d \in Backups, NEW k \in Keys, Request(i, d, k)
      PROVE  TypeOK'
  BY <1>8, ConstantsAssumption, DatabaseFacts DEF Request, Accept, Import, NoImport, CountedZero
<1>9. ASSUME NEW i \in Imports, Create(i)
      PROVE  TypeOK'
  BY SMTT(30), <1>9, ConstantsAssumption, DatabaseFacts DEF Create, Goto
<1>10. ASSUME NEW i \in Imports, Copy(i)
      PROVE  TypeOK'
  BY <1>10, ConstantsAssumption, DatabaseFacts DEF Copy, Goto
<1>11. ASSUME NEW i \in Imports, Validate(i)
      PROVE  TypeOK'
  <2>1. im[i].at = "validate" /\ UNCHANGED <<process, db, keyfile, elsewhere, ex, history>>
    BY <1>11 DEF Validate
  <2>2. PICK place \in {"swap", "done"} : im' = [im EXCEPT ![i].at = place]
    BY <1>11 DEF Validate, Goto
  <2>3. tmp' \in Databases \cup {NoFile}
    BY <1>11 DEF Validate
  <2>4. QED
    BY <2>1, <2>2, <2>3
<1>12. ASSUME NEW i \in Imports, Swap(i)
      PROVE  TypeOK'
  <2>1. db' \in Databases /\ tmp' \in Databases \cup {NoFile} /\ replaced' \subseteq AllUsers
    BY <1>12, DatabaseFacts DEF Swap, Fail
  <2>2. /\ open' = FALSE /\ failed' \in BOOLEAN /\ guessed' \in BOOLEAN
        /\ UNCHANGED <<server, key, restart, keyfile, elsewhere, ex, late, disturbed>>
    BY <1>12 DEF Swap, Fail
  <2>6. faults' \in 0..MaxFaults
    BY <1>12, ConstantsAssumption DEF Swap, Fault
  <2>3. PICK place \in {"truncate", "done"} : im' = [im EXCEPT ![i].at = place]
    BY <1>12 DEF Swap, Fail, Goto
  <2>4. im[i].at = "swap"
    BY <1>12 DEF Swap
  <2>5. QED
    BY <2>1, <2>2, <2>3, <2>4, <2>6, ZenonT(30)
<1>13. ASSUME NEW i \in Imports, Truncate(i)
      PROVE  TypeOK'
  <2>1. UNCHANGED <<server, key, open, restart, replaced, db, tmp, elsewhere, ex, late, guessed>>
    BY <1>13 DEF Truncate
  <2>3. PICK place \in {"write", "done"} : im' = [im EXCEPT ![i].at = place]
    BY <1>13 DEF Truncate, Cut, Fail, Goto
  <2>4. im[i].at = "truncate"
    BY <1>13 DEF Truncate
  <2>2. keyfile' \in Keys \cup {NoKey} /\ disturbed' \in BOOLEAN /\ failed' \in BOOLEAN
    BY <1>13, <2>4 DEF Truncate, Cut, Fail
  <2>6. faults' \in 0..MaxFaults
    BY <1>13, ConstantsAssumption DEF Truncate, Cut, Fault
  <2>5. QED
    BY <2>1, <2>2, <2>3, <2>4, <2>6
<1>14. ASSUME NEW i \in Imports, Write(i)
      PROVE  TypeOK'
  <2>1. UNCHANGED <<server, key, open, restart, replaced, db, tmp, elsewhere, ex, late, guessed>>
    BY <1>14 DEF Write
  <2>3. PICK place \in {"signal", "done"} : im' = [im EXCEPT ![i].at = place]
    BY <1>14 DEF Write, Cut, Fail, Goto
  <2>4. im[i].at = "write"
    BY <1>14 DEF Write
  <2>2. keyfile' \in Keys \cup {NoKey} /\ disturbed' \in BOOLEAN /\ failed' \in BOOLEAN
    BY <1>14, <2>4 DEF Write, Cut, Fail
  <2>6. faults' \in 0..MaxFaults
    BY <1>14, ConstantsAssumption DEF Write, Cut, Fault
  <2>5. QED
    BY <2>1, <2>2, <2>3, <2>4, <2>6
<1>15. ASSUME NEW i \in Imports, Signal(i)
      PROVE  TypeOK'
  BY <1>15, ConstantsAssumption, DatabaseFacts, SMTT(30) DEF Signal, Goto
<1>16. ASSUME NEW e \in Exports, OpenDatabase(e)
      PROVE  TypeOK'
  <2>1. KeysOf(db) \subseteq Keys
    BY DatabaseFacts
  <2>2. QED
    BY <1>16, <2>1 DEF OpenDatabase, Export
<1>17. ASSUME NEW e \in Exports, ReadDatabase(e)
      PROVE  TypeOK'
  <2>1. PICK rows \in SUBSET ex[e].rows : ex' = [ex EXCEPT ![e].at = "key", ![e].rows = rows]
    BY <1>17 DEF ReadDatabase
  <2>2. rows \subseteq Keys
    OBVIOUS
  <2>3. ex' = [ex EXCEPT ![e] = [ex[e] EXCEPT !.at = "key", !.rows = rows]]
    BY <2>1
  <2>4. [ex[e] EXCEPT !.at = "key", !.rows = rows] \in
           [at : {"idle", "db", "key", "done"}, rows : SUBSET Keys,
            key : Keys \cup {NoKey}, clean : BOOLEAN]
    BY <2>2
  <2>5. QED
    BY ZenonT(40), <1>17, <2>3, <2>4 DEF ReadDatabase
<1>18. ASSUME NEW e \in Exports, ReadKey(e)
      PROVE  TypeOK'
  <2>1. ex' = [ex EXCEPT ![e] = [ex[e] EXCEPT !.at = "done", !.key = keyfile]]
        /\ UNCHANGED <<server, key, open, restart, replaced, failed, db, tmp, keyfile,
                      elsewhere, im, late, guessed, disturbed, faults>>
    BY <1>18 DEF ReadKey
  <2>2. [ex[e] EXCEPT !.at = "done", !.key = keyfile] \in
           [at : {"idle", "db", "key", "done"}, rows : SUBSET Keys,
            key : Keys \cup {NoKey}, clean : BOOLEAN]
    OBVIOUS
  <2>3. QED
    BY <2>1, <2>2
<1>19. CASE UNCHANGED vars
  BY <1>19 DEF vars, process, files, history
<1>20. QED
  BY <1>1, <1>2, <1>3, <1>4, <1>5, <1>6, <1>7, <1>8, <1>9, <1>10, <1>11,
     <1>12, <1>13, <1>14, <1>15, <1>16, <1>17, <1>18, <1>19 DEF Next, ImportStep

LEMMA ImportStepInv == TypeOK /\ ImportInv /\ [Next]_vars => ImportInv'
<1> SUFFICES ASSUME TypeOK, ImportInv, [Next]_vars PROVE ImportInv'
  OBVIOUS
<1> USE DEF Decrypts, TypeOK, ImportInv, Before, process, files, history, InFlight, Half
<1>1. ASSUME Boot
      PROVE  ImportInv'
  BY <1>1, BackupsAssumption, ConstantsAssumption DEF Boot, Start, Stored
<1>2. ASSUME Generate
      PROVE  ImportInv'
  BY <1>2, BackupsAssumption, ConstantsAssumption DEF Generate, Start, Save, Stored, Fresh
<1>3. ASSUME Shutdown
      PROVE  ImportInv'
  BY <1>3, BackupsAssumption, ConstantsAssumption DEF Shutdown
<1>4. ASSUME Exit
      PROVE  ImportInv'
  BY <1>4, BackupsAssumption, ConstantsAssumption DEF Exit, Down, Import, NoExport, Export
<1>5. ASSUME Crash
      PROVE  ImportInv'
  BY <1>5, BackupsAssumption, ConstantsAssumption DEF Crash, Down, Import, NoExport, Export
<1>6. ASSUME Encrypt
      PROVE  ImportInv'
  BY <1>6, EncryptFacts
<1>7. ASSUME NEW u \in Users, Register(u)
      PROVE  ImportInv'
  <2>1. /\ server = "up" /\ open
        /\ UNCHANGED <<process, tmp, keyfile, elsewhere, im, guessed, disturbed, faults>>
        /\ late' = IF InFlight = {} THEN late ELSE late \cup {u}
        /\ Rewrite([db EXCEPT !.users = @ \cup {u}])
    BY <1>7 DEF Register
  <2>2. [db EXCEPT !.users = @ \cup {u}] \in Databases
    BY DatabaseFacts
  <2>3. /\ db' = [db EXCEPT !.users = @ \cup {u}]
        /\ db'.tested = db.tested /\ db'.untested = db.untested /\ db'.users = db.users \cup {u}
    BY <2>1, <2>2, RewriteFacts DEF Databases
  <2>4. QED
    BY <2>1, <2>2, <2>3, RewriteFacts
<1>8. ASSUME NEW i \in Imports, NEW d \in Backups, NEW k \in Keys, Request(i, d, k)
      PROVE  ImportInv'
  <2> SUFFICES ASSUME ~disturbed' PROVE ImportInv'
    OBVIOUS
  <2>1. /\ ~disturbed /\ InFlight = {} /\ open /\ db.users = {}
        /\ im' = [im EXCEPT ![i] = [at |-> "create", db |-> d, key |-> k]]
        /\ UNCHANGED <<open, db, tmp, late>>
    BY <1>8 DEF Request, Accept, CountedZero, Import
  <2>2. InFlight' = {i}
    BY <2>1
  <2>3. \A j \in Imports : im'[j].at \in {"idle", "done", "create"}
    BY <2>1
  <2>4. QED
    BY <2>1, <2>2, <2>3
<1>9. ASSUME NEW i \in Imports, Create(i)
      PROVE  ImportInv'
  BY <1>9, BackupsAssumption, ConstantsAssumption DEF Create, Goto
<1>10. ASSUME NEW i \in Imports, Copy(i)
      PROVE  ImportInv'
  BY <1>10, BackupsAssumption, ConstantsAssumption DEF Copy, Goto
<1>11. ASSUME NEW i \in Imports, Validate(i)
      PROVE  ImportInv'
  <2> SUFFICES ASSUME ~disturbed' PROVE ImportInv'
    OBVIOUS
  <2>1. im[i].at = "validate" /\ UNCHANGED <<open, db, late, disturbed>>
    BY <1>11 DEF Validate
  <2>2. \A j \in Imports : j # i => im[j].at \in {"idle", "done"}
    BY <2>1
  <2>3. tmp = im[i].db /\ im[i].db \in Databases
    BY <2>1, DatabaseFacts
  <2>4. CASE tmp # NoFile /\ tmp.users # {} /\ Matches(i)
    <3>1. im' = [im EXCEPT ![i].at = "swap"] /\ UNCHANGED tmp
      BY <1>11, <2>4 DEF Validate, Goto
    <3>2. tmp.tested \subseteq {im[i].key}
      BY <2>3, <2>4, BackupsAssumption DEF Matches, Empty, Database, KeysOf
    <3>3. QED
      BY <2>1, <2>2, <2>3, <3>1, <3>2
  <2>5. CASE ~(tmp # NoFile /\ tmp.users # {} /\ Matches(i))
    <3>1. im' = [im EXCEPT ![i].at = "done"]
      BY <1>11, <2>5 DEF Validate, Goto
    <3>2. \A j \in Imports : im'[j].at \in {"idle", "done"}
      BY <2>2, <3>1
    <3>3. QED
      BY <3>2
  <2>6. QED
    BY <2>4, <2>5
<1>12. ASSUME NEW i \in Imports, Swap(i)
      PROVE  ImportInv'
  <2> SUFFICES ASSUME ~disturbed' PROVE ImportInv'
    OBVIOUS
  <2>1. im[i].at = "swap" /\ open' = FALSE /\ ~disturbed /\ late' = late
    BY <1>12 DEF Swap
  <2>2. \A j \in Imports : j # i => im[j].at \in {"idle", "done"}
    BY <2>1
  <2>3. tmp = im[i].db /\ tmp.tested \subseteq {im[i].key}
    BY <2>1
  <2>4. CASE Goto(i, "done")
    <3>1. \A j \in Imports : im'[j].at \in {"idle", "done"}
      BY <2>2, <2>4 DEF Goto
    <3>2. QED
      BY <3>1
  <2>5. CASE ~Goto(i, "done")
    <3>1. /\ im' = [im EXCEPT ![i].at = "truncate"] /\ db' = tmp
          /\ guessed' = (tmp.tested = {} /\ ~(tmp.untested \subseteq {im[i].key}))
      BY <1>12, <2>5 DEF Swap, Fail, Goto
    <3>2. im'[i].at = "truncate" /\ im'[i].key = im[i].key
      BY <3>1
    <3>3. \A j \in Imports : j # i => im'[j] = im[j]
      BY <3>1
    <3>4. Decrypts(im[i].key)'
      <4>1. tmp \in Backups \cup {Empty}
        BY <2>3
      <4>2. \A j, m \in KeysOf(tmp) : j = m
        BY <4>1, BackupsAssumption DEF KeysOf, Empty, Database
      <4>3. tmp.tested # {} => tmp.untested \subseteq {im[i].key}
        BY <2>3, <4>2 DEF KeysOf
      <4>4. QED
        BY <2>3, <3>1, <3>2, <4>3
    <3>5. \A j, m \in InFlight' : j = m
      BY <2>2, <3>2, <3>3
    <3>6. \A j \in Imports : j # i => im'[j].at \in {"idle", "done"}
      BY <2>2, <3>3
    <3>7. QED
      BY <2>1, <3>2, <3>4, <3>5, <3>6
  <2>6. QED
    BY <2>4, <2>5
<1>13. ASSUME NEW i \in Imports, Truncate(i)
      PROVE  ImportInv'
  BY <1>13, BackupsAssumption, ConstantsAssumption DEF Truncate, Cut, Fail, Goto
<1>14. ASSUME NEW i \in Imports, Write(i)
      PROVE  ImportInv'
  BY <1>14, BackupsAssumption, ConstantsAssumption DEF Write, Cut, Fail, Goto
<1>15. ASSUME NEW i \in Imports, Signal(i)
      PROVE  ImportInv'
  BY <1>15, BackupsAssumption, ConstantsAssumption DEF Signal, Goto
<1>16. ASSUME NEW e \in Exports, OpenDatabase(e)
      PROVE  ImportInv'
  BY <1>16, BackupsAssumption, ConstantsAssumption DEF OpenDatabase, Export, KeysOf
<1>17. ASSUME NEW e \in Exports, ReadDatabase(e)
      PROVE  ImportInv'
  BY <1>17, BackupsAssumption, ConstantsAssumption DEF ReadDatabase, Export
<1>18. ASSUME NEW e \in Exports, ReadKey(e)
      PROVE  ImportInv'
  BY <1>18, BackupsAssumption, ConstantsAssumption DEF ReadKey
<1>19. CASE UNCHANGED vars
  BY <1>19 DEF vars, process, files, history
<1>20. QED
  BY <1>1, <1>2, <1>3, <1>4, <1>5, <1>6, <1>7, <1>8, <1>9, <1>10, <1>11,
     <1>12, <1>13, <1>14, <1>15, <1>16, <1>17, <1>18, <1>19 DEF Next, ImportStep

LEMMA KeyStep == TypeOK /\ ImportInv /\ KeyInv /\ [Next]_vars => KeyInv'
<1> SUFFICES ASSUME TypeOK, ImportInv, KeyInv, [Next]_vars PROVE KeyInv'
  OBVIOUS
<1> USE DEF Decrypts, TypeOK, ImportInv, KeyInv, Before, process, files, history, InFlight, Half
<1>1. ASSUME Boot
      PROVE  KeyInv'
  BY <1>1, BackupsAssumption, ConstantsAssumption DEF Boot, Start, Stored
<1>2. ASSUME Generate
      PROVE  KeyInv'
  <2> SUFFICES ASSUME KeyFrom = "file", ~disturbed PROVE KeyInv'
    BY <1>2 DEF Generate, Start
  <2>1. keyfile = NoKey /\ server = "down" /\ InFlight = {}
    BY <1>2 DEF Generate, Start, Stored
  <2>2. PICK k \in Fresh : keyfile' = k /\ key' = k
    BY <1>2 DEF Generate, Start, Save
  <2>3. db.tested = {} /\ (guessed \/ db.untested = {})
    BY <2>1, DatabaseFacts, ConstantsAssumption DEF KeysOf
  <2>4. db' = db /\ guessed' = guessed /\ im' = im
    BY <1>2 DEF Generate, Start
  <2>5. Decrypts(k)'
    BY <2>3, <2>4
  <2>6. QED
    BY <2>2, <2>4, <2>5
<1>3. ASSUME Shutdown
      PROVE  KeyInv'
  BY <1>3, BackupsAssumption, ConstantsAssumption DEF Shutdown
<1>4. ASSUME Exit
      PROVE  KeyInv'
  BY <1>4, BackupsAssumption, ConstantsAssumption DEF Exit, Down, Import, NoExport, Export
<1>5. ASSUME Crash
      PROVE  KeyInv'
  BY <1>5, BackupsAssumption, ConstantsAssumption DEF Crash, Down, Import, NoExport, Export
<1>6. ASSUME Encrypt
      PROVE  KeyInv'
  BY <1>6, EncryptFacts
<1>7. ASSUME NEW u \in Users, Register(u)
      PROVE  KeyInv'
  <2>1. /\ server = "up" /\ open
        /\ UNCHANGED <<process, tmp, keyfile, elsewhere, im, guessed, disturbed, faults>>
        /\ late' = IF InFlight = {} THEN late ELSE late \cup {u}
        /\ Rewrite([db EXCEPT !.users = @ \cup {u}])
    BY <1>7 DEF Register
  <2>2. [db EXCEPT !.users = @ \cup {u}] \in Databases
    BY DatabaseFacts
  <2>3. /\ db' = [db EXCEPT !.users = @ \cup {u}]
        /\ db'.tested = db.tested /\ db'.untested = db.untested /\ db'.users = db.users \cup {u}
    BY <2>1, <2>2, RewriteFacts DEF Databases
  <2>4. QED
    BY <2>1, <2>2, <2>3, RewriteFacts
<1>8. ASSUME NEW i \in Imports, NEW d \in Backups, NEW k \in Keys, Request(i, d, k)
      PROVE  KeyInv'
  BY <1>8, BackupsAssumption, ConstantsAssumption DEF Request, Accept, Import, NoImport, CountedZero
<1>9. ASSUME NEW i \in Imports, Create(i)
      PROVE  KeyInv'
  BY <1>9, BackupsAssumption, ConstantsAssumption DEF Create, Goto
<1>10. ASSUME NEW i \in Imports, Copy(i)
      PROVE  KeyInv'
  BY <1>10, BackupsAssumption, ConstantsAssumption DEF Copy, Goto
<1>11. ASSUME NEW i \in Imports, Validate(i)
      PROVE  KeyInv'
  BY <1>11, BackupsAssumption, ConstantsAssumption DEF Validate, Matches, Goto
<1>12. ASSUME NEW i \in Imports, Swap(i)
      PROVE  KeyInv'
  BY <1>12, BackupsAssumption, ConstantsAssumption DEF Swap, Fail, Goto
<1>13. ASSUME NEW i \in Imports, Truncate(i)
      PROVE  KeyInv'
  BY <1>13, BackupsAssumption, ConstantsAssumption DEF Truncate, Cut, Fail, Goto
<1>14. ASSUME NEW i \in Imports, Write(i)
      PROVE  KeyInv'
  BY <1>14, BackupsAssumption, ConstantsAssumption DEF Write, Cut, Fail, Goto
<1>15. ASSUME NEW i \in Imports, Signal(i)
      PROVE  KeyInv'
  BY <1>15, BackupsAssumption, ConstantsAssumption DEF Signal, Goto
<1>16. ASSUME NEW e \in Exports, OpenDatabase(e)
      PROVE  KeyInv'
  BY <1>16, BackupsAssumption, ConstantsAssumption DEF OpenDatabase, Export, KeysOf
<1>17. ASSUME NEW e \in Exports, ReadDatabase(e)
      PROVE  KeyInv'
  BY <1>17, BackupsAssumption, ConstantsAssumption DEF ReadDatabase, Export
<1>18. ASSUME NEW e \in Exports, ReadKey(e)
      PROVE  KeyInv'
  BY <1>18, BackupsAssumption, ConstantsAssumption DEF ReadKey
<1>19. CASE UNCHANGED vars
  BY <1>19 DEF vars, process, files, history
<1>20. QED
  BY <1>1, <1>2, <1>3, <1>4, <1>5, <1>6, <1>7, <1>8, <1>9, <1>10, <1>11,
     <1>12, <1>13, <1>14, <1>15, <1>16, <1>17, <1>18, <1>19 DEF Next, ImportStep

LEMMA ExportStep == TypeOK /\ ImportInv /\ KeyInv /\ ExportInv /\ [Next]_vars => ExportInv'
<1> SUFFICES ASSUME TypeOK, ImportInv, KeyInv, ExportInv, [Next]_vars PROVE ExportInv'
  OBVIOUS
<1> USE DEF Decrypts, TypeOK, ImportInv, KeyInv, ExportInv, Before, process, files, history, InFlight, Half
<1>1. ASSUME Boot
      PROVE  ExportInv'
  BY <1>1, BackupsAssumption, ConstantsAssumption DEF Boot, Start, Stored
<1>2. ASSUME Generate
      PROVE  ExportInv'
  BY <1>2, BackupsAssumption, ConstantsAssumption DEF Generate, Start, Save, Stored, Fresh
<1>3. ASSUME Shutdown
      PROVE  ExportInv'
  BY <1>3, BackupsAssumption, ConstantsAssumption DEF Shutdown
<1>4. ASSUME Exit
      PROVE  ExportInv'
  BY <1>4, BackupsAssumption, ConstantsAssumption DEF Exit, Down, Import, NoExport, Export
<1>5. ASSUME Crash
      PROVE  ExportInv'
  BY <1>5, BackupsAssumption, ConstantsAssumption DEF Crash, Down, Import, NoExport, Export
<1>6. ASSUME Encrypt
      PROVE  ExportInv'
  BY <1>6, EncryptFacts
<1>7. ASSUME NEW u \in Users, Register(u)
      PROVE  ExportInv'
  <2>1. /\ server = "up" /\ open
        /\ UNCHANGED <<process, tmp, keyfile, elsewhere, im, guessed, disturbed, faults>>
        /\ late' = IF InFlight = {} THEN late ELSE late \cup {u}
        /\ Rewrite([db EXCEPT !.users = @ \cup {u}])
    BY <1>7 DEF Register
  <2>2. [db EXCEPT !.users = @ \cup {u}] \in Databases
    BY DatabaseFacts
  <2>3. /\ db' = [db EXCEPT !.users = @ \cup {u}]
        /\ db'.tested = db.tested /\ db'.untested = db.untested /\ db'.users = db.users \cup {u}
    BY <2>1, <2>2, RewriteFacts DEF Databases
  <2>4. QED
    BY <2>1, <2>2, <2>3, RewriteFacts
<1>8. ASSUME NEW i \in Imports, NEW d \in Backups, NEW k \in Keys, Request(i, d, k)
      PROVE  ExportInv'
  BY <1>8, BackupsAssumption, ConstantsAssumption DEF Request, Accept, Import, NoImport, CountedZero
<1>9. ASSUME NEW i \in Imports, Create(i)
      PROVE  ExportInv'
  BY <1>9, BackupsAssumption, ConstantsAssumption DEF Create, Goto
<1>10. ASSUME NEW i \in Imports, Copy(i)
      PROVE  ExportInv'
  BY <1>10, BackupsAssumption, ConstantsAssumption DEF Copy, Goto
<1>11. ASSUME NEW i \in Imports, Validate(i)
      PROVE  ExportInv'
  BY <1>11, BackupsAssumption, ConstantsAssumption DEF Validate, Matches, Goto
<1>12. ASSUME NEW i \in Imports, Swap(i)
      PROVE  ExportInv'
  BY <1>12, BackupsAssumption, ConstantsAssumption DEF Swap, Fail, Goto
<1>13. ASSUME NEW i \in Imports, Truncate(i)
      PROVE  ExportInv'
  BY <1>13, BackupsAssumption, ConstantsAssumption DEF Truncate, Cut, Fail, Goto
<1>14. ASSUME NEW i \in Imports, Write(i)
      PROVE  ExportInv'
  BY <1>14, BackupsAssumption, ConstantsAssumption DEF Write, Cut, Fail, Goto
<1>15. ASSUME NEW i \in Imports, Signal(i)
      PROVE  ExportInv'
  BY <1>15, BackupsAssumption, ConstantsAssumption DEF Signal, Goto
<1>16. ASSUME NEW e \in Exports, OpenDatabase(e)
      PROVE  ExportInv'
  BY <1>16, BackupsAssumption, ConstantsAssumption DEF OpenDatabase, Export, KeysOf
<1>17. ASSUME NEW e \in Exports, ReadDatabase(e)
      PROVE  ExportInv'
  BY <1>17, BackupsAssumption, ConstantsAssumption DEF ReadDatabase, Export
<1>18. ASSUME NEW e \in Exports, ReadKey(e)
      PROVE  ExportInv'
  BY <1>18, BackupsAssumption, ConstantsAssumption DEF ReadKey
<1>19. CASE UNCHANGED vars
  BY <1>19 DEF vars, process, files, history
<1>20. QED
  BY <1>1, <1>2, <1>3, <1>4, <1>5, <1>6, <1>7, <1>8, <1>9, <1>10, <1>11,
     <1>12, <1>13, <1>14, <1>15, <1>16, <1>17, <1>18, <1>19 DEF Next, ImportStep

----------------------------------------------------------------------------
\* IInv holds of the initial states and is kept by every step.
LEMMA Inductive == Spec => []IInv
<1>1. Init => IInv
  <2> SUFFICES ASSUME Init PROVE IInv
    OBVIOUS
  <2> USE DEF Init, NoImport, Import, NoExport, Export, InFlight
  <2>1. TypeOK
    <3>1. elsewhere \in Keys \cup {NoKey} /\ faults \in 0..MaxFaults
      BY ConstantsAssumption
    <3>2. InFlight = {}
      OBVIOUS
    <3>3. QED
      BY <3>1, <3>2, DatabaseFacts DEF TypeOK
  <2>2. ImportInv /\ KeyInv /\ ExportInv
    BY DEF ImportInv, KeyInv, ExportInv, Before, Decrypts, Empty, Database
  <2>3. QED
    BY <2>1, <2>2 DEF IInv
<1>2. IInv /\ [Next]_vars => IInv'
  BY TypeStep, ImportStepInv, KeyStep, ExportStep DEF IInv
<1>3. QED
  BY <1>1, <1>2, PTL DEF Spec

\* Every variable keeps its type; the write pool is open only in a running
\* server that has a key, and a stopped one has no import under way.
THEOREM TypeCorrect == Spec => []TypeOK
<1>1. IInv => TypeOK
  BY DEF IInv
<1>2. QED
  BY <1>1, Inductive, PTL

\* With the key in $DATA_DIR/encryption.key, an import that is neither
\* overlapped nor cut off leaves a server whose key opens every row of the
\* tables the import tests, and, unless it was given a wrong key with a
\* database that has no such row, of the others (import_setup.go:116-150, 195).
THEOREM AlwaysReadable ==
  ASSUME KeyFrom = "file"
  PROVE  Spec => []Readable
<1>1. IInv => Readable
  <2> SUFFICES ASSUME IInv, ~disturbed, open PROVE Decrypts(key)
    BY DEF Readable, Decrypts
  <2>1. key = keyfile
    BY DEF IInv, KeyInv
  <2>2. \A i \in Imports : im[i].at \notin {"truncate", "write"}
    BY DEF IInv, ImportInv
  <2>3. QED
    BY <2>1, <2>2 DEF IInv, KeyInv
<1>2. QED
  BY <1>1, Inductive, PTL

\* With the key in that file, an archive has the key that opens whatever rows
\* its copy of the database holds, if no import ran, the file was not written
\* while it was read, and the database was not imported with a wrong key
\* (export_setup.go:12).
THEOREM AlwaysUsable ==
  ASSUME KeyFrom = "file"
  PROVE  Spec => []ExportsUsable
<1>1. IInv => ExportsUsable
  BY DEF IInv, ExportInv, ExportsUsable
<1>2. QED
  BY <1>1, Inductive, PTL

\* Wherever the key is kept, an import costs no user who had registered
\* before it began, and none of an earlier import (import_setup.go:23-32).
THEOREM UsersNeverLost == Spec => UsersKept
<1>1. IInv /\ [Next]_vars => [~disturbed => db.users \ db'.users \subseteq late]_vars
  <2> SUFFICES ASSUME IInv, Next, ~disturbed PROVE db.users \ db'.users \subseteq late
    BY DEF vars
  <2>1. ASSUME NEW i \in Imports, Swap(i)
        PROVE  db.users \ db'.users \subseteq late
    <3>1. db.users \subseteq late
      BY <2>1 DEF IInv, ImportInv, Before, Swap
    <3>2. QED
      BY <3>1
  <2>2. ASSUME NEW u \in Users, Register(u)
        PROVE  db.users \ db'.users \subseteq late
    BY <2>2 DEF Register, Rewrite, IInv, TypeOK, Databases
  <2>3. CASE Encrypt
    BY <2>3 DEF Encrypt, Rewrite, IInv, TypeOK, Databases
  <2>4. CASE db' = db
    BY <2>4
  <2>5. QED
    BY <2>1, <2>2, <2>3, <2>4
       DEF Next, ImportStep, Boot, Generate, Start, Shutdown, Exit, Crash, Down, files,
           Request, Accept, Create, Copy, Validate, Truncate, Write, Signal,
           OpenDatabase, ReadDatabase, ReadKey
<1>2. QED
  BY <1>1, Inductive, PTL DEF Spec, UsersKept
=============================================================================
