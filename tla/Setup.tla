------------------------------- MODULE Setup -------------------------------
(***************************************************************************)
(* The life of an instance: how it finds its encryption key when it starts *)
(* (keystore.Resolve), registers users and encrypts their secrets, takes   *)
(* over the database and key of another instance (ImportSetup, followed by *)
(* a restart) and exports its own (ExportSetup).                           *)
(*                                                                         *)
(* A database is the users in it and the keys its rows are encrypted with: *)
(* those in the two tables an import tests (oci_accounts, passphrases) and *)
(* those in the tables it does not (credentials, ssh_keys, connections,    *)
(* node certificates).  The server reads the key before it opens the       *)
(* database, once per start.                                               *)
(***************************************************************************)
EXTENDS Naturals

CONSTANTS
    Users,          \* who may register with this instance
    Imports,        \* POST /auth/import requests
    Exports,        \* GET /settings/export requests
    Backups,        \* databases of other instances
    Keys,           \* encryption keys
    NoKey,          \* a missing or an empty key file
    NoFile,         \* no database file
    KeyFrom,        \* "file": $DATA_DIR/encryption.key; "elsewhere": the
                    \* environment, PULUMI_UI_KEY_FILE or Consul
    MaxFaults       \* bound: crashes and failed writes

Database(users, tested, untested) ==
    [users |-> users, tested |-> tested, untested |-> untested]
Empty == Database({}, {}, {})
KeysOf(d) == d.tested \cup d.untested

\* A backup comes from an instance that had one key.
ASSUME BackupsAssumption ==
    \A b \in Backups : /\ b = Database(b.users, b.tested, b.untested)
                       /\ b.users \cap Users = {} /\ KeysOf(b) \subseteq Keys
                       /\ \A j, k \in KeysOf(b) : j = k
ASSUME ConstantsAssumption ==
    /\ NoKey \notin Keys /\ NoFile \notin Backups \cup {Empty}
    /\ KeyFrom \in {"file", "elsewhere"} /\ MaxFaults \in Nat

VARIABLES
    server,     \* "down", "up", or "stopping": it finishes requests
    key,        \* the running server's encryption key
    open,       \* its write pool is open
    restart,    \* RestartCh holds a signal
    db,         \* pulumi-ui.db
    tmp,        \* pulumi-ui.db.import
    keyfile,    \* $DATA_DIR/encryption.key
    elsewhere,  \* the key in the configured store or the environment
    im,         \* imports: place, and the uploaded database and key
    ex,         \* exports: place, the keys of the rows in the copy, the key
                \* file read, whether nothing disturbed them
    replaced,   \* the users of the file the read pool was opened on
    failed,     \* since the start, an import that had closed the write pool
                \* was answered with an error
    late,       \* users that registered while an import ran
    guessed,    \* the database was imported, untested, with a wrong key
    disturbed,  \* an import was cut off between renaming the database and
                \* writing its key, or another began before the restart
                \* that ends it
    faults

files == <<db, tmp, keyfile, elsewhere>>
process == <<server, key, open, restart, replaced, failed>>
history == <<late, guessed, disturbed, faults>>
vars == <<process, files, im, ex, history>>

AllUsers == Users \cup UNION {b.users : b \in Backups}
Databases == [users : SUBSET AllUsers, tested : SUBSET Keys, untested : SUBSET Keys]
Import(place, d, k) == [at |-> place, db |-> d, key |-> k]
NoImport == Import("idle", Empty, NoKey)
Export(place, rows, k, c) == [at |-> place, rows |-> rows, key |-> k, clean |-> c]
NoExport == Export("idle", {}, NoKey, FALSE)

InFlight == {i \in Imports : im[i].at \notin {"idle", "done"}}
Half == {i \in Imports : im[i].at \in {"truncate", "write"}}

TypeOK ==
    /\ server \in {"down", "up", "stopping"} /\ key \in Keys \cup {NoKey}
    /\ open \in BOOLEAN /\ restart \in BOOLEAN /\ failed \in BOOLEAN
    /\ db \in Databases /\ tmp \in Databases \cup {NoFile}
    /\ keyfile \in Keys \cup {NoKey} /\ elsewhere \in Keys \cup {NoKey}
    /\ im \in [Imports -> [at : {"idle", "create", "copy", "validate", "swap",
                                "truncate", "write", "signal", "done"},
                          db : Backups \cup {Empty}, key : Keys \cup {NoKey}]]
    /\ \A i \in InFlight : im[i].key \in Keys
    /\ ex \in [Exports -> [at : {"idle", "db", "key", "done"}, rows : SUBSET Keys,
                           key : Keys \cup {NoKey}, clean : BOOLEAN]]
    /\ replaced \subseteq AllUsers
    /\ late \subseteq Users /\ guessed \in BOOLEAN /\ disturbed \in BOOLEAN
    /\ faults \in 0..MaxFaults
    /\ open => server # "down" /\ key \in Keys
    /\ server = "down" => InFlight = {}

Init ==
    /\ server = "down" /\ key = NoKey /\ open = FALSE /\ restart = FALSE
    /\ db = Empty /\ tmp = NoFile /\ keyfile = NoKey
    /\ elsewhere \in (IF KeyFrom = "file" THEN {NoKey} ELSE Keys \cup {NoKey})
    /\ im = [i \in Imports |-> NoImport] /\ ex = [e \in Exports |-> NoExport]
    /\ replaced = {} /\ failed = FALSE
    /\ late = {} /\ guessed = FALSE /\ disturbed = FALSE /\ faults = 0

----------------------------------------------------------------------------
\* Starting: Resolve takes the key it finds, or generates and saves one, and
\* only then the database is opened.
Stored == IF KeyFrom = "file" THEN keyfile ELSE elsewhere
Fresh == Keys \ ({keyfile, elsewhere} \cup KeysOf(db) \cup UNION {KeysOf(b) : b \in Backups})

Start(k) ==
    /\ server = "down"
    /\ server' = "up" /\ key' = k /\ open' = TRUE /\ restart' = FALSE
    /\ replaced' = {} /\ failed' = FALSE
    /\ UNCHANGED <<db, tmp, im, ex, history>>
Boot ==
    /\ Stored # NoKey /\ Start(Stored)
    /\ UNCHANGED <<keyfile, elsewhere>>
Save(k) ==
    IF KeyFrom = "file" THEN keyfile' = k /\ UNCHANGED elsewhere
    ELSE elsewhere' = k /\ UNCHANGED keyfile
GenerateNothing ==
    /\ Stored = NoKey /\ Start(NoKey)
    /\ UNCHANGED <<keyfile, elsewhere>>
Generate ==
    /\ Stored = NoKey
    /\ \E k \in Fresh : Start(k) /\ Save(k)

\* main waits for the signal; Shutdown lets requests finish, for a while.
Shutdown ==
    /\ server = "up" /\ restart
    /\ server' = "stopping"
    /\ UNCHANGED <<key, open, restart, replaced, failed, files, im, ex, history>>
Down ==
    /\ server' = "down" /\ open' = FALSE /\ restart' = FALSE /\ key' = NoKey
    /\ failed' = FALSE
    /\ im' = [i \in Imports |-> IF i \in InFlight THEN Import("done", Empty, NoKey)
                                ELSE im[i]]
    /\ ex' = [e \in Exports |-> IF ex[e].at \in {"db", "key"} THEN NoExport
                                ELSE ex[e]]
    /\ disturbed' = (disturbed \/ Half # {})
    /\ UNCHANGED <<replaced, files, late, guessed>>
Exit ==
    /\ server = "stopping" /\ Down /\ UNCHANGED faults
Crash ==
    /\ server # "down" /\ faults < MaxFaults /\ faults' = faults + 1 /\ Down

----------------------------------------------------------------------------
\* Requests.  A write to the database file disturbs an export that reads it.
Rewrite(d) ==
    /\ db' = d
    /\ ex' = [e \in Exports |-> IF ex[e].at = "db" THEN Export("db", KeysOf(d), NoKey, FALSE)
                                ELSE ex[e]]

\* Registering is open to everybody at any time (auth.go:24 means to stop it
\* once there is a user, the code does not).
Register(u) ==
    /\ server = "up" /\ open /\ u \notin db.users
    /\ Rewrite([db EXCEPT !.users = @ \cup {u}])
    /\ late' = IF InFlight = {} THEN late ELSE late \cup {u}
    /\ UNCHANGED <<process, tmp, keyfile, elsewhere, im, guessed, disturbed, faults>>

\* Any handler that stores a secret, behind RequireAuth, in a table that an
\* import tests or in one that it does not.
Encrypt ==
    /\ server = "up" /\ open /\ db.users # {}
    /\ \/ key \notin db.tested /\ Rewrite([db EXCEPT !.tested = @ \cup {key}])
       \/ key \notin db.untested /\ Rewrite([db EXCEPT !.untested = @ \cup {key}])
    /\ UNCHANGED <<process, tmp, keyfile, elsewhere, im, history>>

----------------------------------------------------------------------------
\* POST /auth/import.
Goto(i, place) == im' = [im EXCEPT ![i].at = place]

\* Users.Count reads through a pool that may still have the replaced file
\* open.  The key has to be well-formed.
CountedZero == db.users = {} \/ (~open /\ replaced = {})
Accept(i, d, k) ==
    /\ server = "up" /\ im[i] = NoImport
    /\ im' = [im EXCEPT ![i] = Import("create", d, k)]
    /\ disturbed' = (disturbed \/ InFlight # {} \/ ~open)
    /\ UNCHANGED <<process, files, ex, late, guessed, faults>>
RequestUncounted(i, d, k) == Accept(i, d, k)
Request(i, d, k) == CountedZero /\ Accept(i, d, k)

\* The upload goes to one and the same temporary file.
Create(i) ==
    /\ im[i].at = "create" /\ Goto(i, "copy")
    /\ tmp' = Empty
    /\ UNCHANGED <<process, db, keyfile, elsewhere, ex, history>>
Copy(i) ==
    /\ im[i].at = "copy" /\ Goto(i, "validate")
    /\ tmp' = IF tmp = NoFile THEN NoFile ELSE im[i].db
    /\ UNCHANGED <<process, db, keyfile, elsewhere, ex, history>>

\* It must have users.  One row of oci_accounts, or else of passphrases, must
\* decrypt; without any, the key is accepted on faith, whatever the other
\* tables hold.  Else the file is removed and the request answered with an error.
MatchesAny(i) == TRUE
Matches(i) == tmp.tested = {} \/ im[i].key \in tmp.tested
Validate(i) ==
    /\ im[i].at = "validate"
    /\ IF tmp # NoFile /\ tmp.users # {} /\ Matches(i)
       THEN Goto(i, "swap") /\ UNCHANGED tmp
       ELSE Goto(i, "done") /\ tmp' = NoFile
    /\ UNCHANGED <<process, db, keyfile, elsewhere, ex, history>>

\* Both error returns after the pool is closed: nobody opens it again, nobody
\* asks for a restart.
Fault == faults < MaxFaults /\ faults' = faults + 1
Fail(i) == Goto(i, "done") /\ failed' = TRUE

\* The write pool is closed and the file renamed, which fails when there is
\* none, or for any other reason.
Swap(i) ==
    /\ im[i].at = "swap" /\ open' = FALSE
    /\ replaced' = IF open THEN db.users ELSE replaced
    /\ \/ /\ tmp # NoFile /\ db' = tmp /\ tmp' = NoFile /\ Goto(i, "truncate")
          /\ guessed' = (tmp.tested = {} /\ ~(tmp.untested \subseteq {im[i].key}))
          /\ UNCHANGED <<failed, faults>>
       \/ /\ Fail(i) /\ IF tmp = NoFile THEN UNCHANGED faults ELSE Fault
          /\ UNCHANGED <<db, tmp, guessed>>
    /\ UNCHANGED <<server, key, restart, keyfile, elsewhere, ex, late, disturbed>>

\* os.WriteFile truncates and writes; either may fail, and leaves the new
\* database beside the old key or none.
Cut(i) == Fail(i) /\ Fault /\ disturbed' = TRUE /\ UNCHANGED keyfile
Truncate(i) ==
    /\ im[i].at = "truncate"
    /\ \/ Goto(i, "write") /\ keyfile' = NoKey /\ UNCHANGED <<failed, disturbed, faults>>
       \/ Cut(i)
    /\ UNCHANGED <<server, key, open, restart, replaced, db, tmp, elsewhere, ex, late, guessed>>
WriteNothing(i) ==
    /\ im[i].at = "write" /\ Goto(i, "signal")
    /\ UNCHANGED <<process, files, ex, history>>
Write(i) ==
    /\ im[i].at = "write"
    /\ \/ Goto(i, "signal") /\ keyfile' = im[i].key /\ UNCHANGED <<failed, disturbed, faults>>
       \/ Cut(i)
    /\ UNCHANGED <<server, key, open, restart, replaced, db, tmp, elsewhere, ex, late, guessed>>
SignalNobody(i) ==
    /\ im[i].at = "signal" /\ Goto(i, "done")
    /\ UNCHANGED <<process, files, ex, history>>
Signal(i) ==
    /\ im[i].at = "signal" /\ Goto(i, "done")
    /\ restart' = TRUE
    /\ UNCHANGED <<server, key, open, replaced, failed, files, ex, history>>

ImportStep(i) ==
    \/ Create(i) \/ Copy(i) \/ Validate(i) \/ Swap(i)
    \/ Truncate(i) \/ Write(i) \/ Signal(i)

----------------------------------------------------------------------------
\* GET /settings/export reads the database file and then the key file, both
\* of which have to be there.  Rows that are still in the WAL are not in the
\* file; one written meanwhile may leave the copy torn (its clean is FALSE).
OpenDatabase(e) ==
    /\ server = "up" /\ ex[e].at = "idle" /\ db.users # {} /\ keyfile # NoKey
    /\ ex' = [ex EXCEPT ![e] = Export("db", KeysOf(db), NoKey, InFlight = {} /\ ~guessed)]
    /\ UNCHANGED <<process, files, im, history>>
ReadDatabase(e) ==
    /\ ex[e].at = "db"
    /\ \E rows \in SUBSET ex[e].rows :
         ex' = [ex EXCEPT ![e].at = "key", ![e].rows = rows]
    /\ UNCHANGED <<process, files, im, history>>
ReadKey(e) ==
    /\ ex[e].at = "key"
    /\ ex' = [ex EXCEPT ![e].at = "done", ![e].key = keyfile]
    /\ UNCHANGED <<process, files, im, history>>

Next ==
    \/ Boot \/ Generate \/ Shutdown \/ Exit \/ Crash \/ Encrypt
    \/ \E u \in Users : Register(u)
    \/ \E i \in Imports : ImportStep(i) \/ \E d \in Backups, k \in Keys : Request(i, d, k)
    \/ \E e \in Exports : OpenDatabase(e) \/ ReadDatabase(e) \/ ReadKey(e)

Spec == Init /\ [][Next]_vars

\* Handlers are scheduled, and the supervisor starts the process again.
Fairness ==
    /\ WF_vars(Boot \/ Generate) /\ WF_vars(Shutdown) /\ WF_vars(Exit)
    /\ \A i \in Imports : WF_vars(ImportStep(i))
FairSpec == Spec /\ Fairness

----------------------------------------------------------------------------
\* While the server can write, every encrypted row can be decrypted with its
\* key: an import that is neither overlapped nor cut off changes the database
\* and the key together (import_setup.go:116-150), whatever is registered or
\* encrypted meanwhile.  The exception is openly the code's: a database without
\* a row in the two tested tables is accepted with any key (line 195), and then
\* the rows of its other tables are beyond the server.
Readable ==
    ~disturbed /\ open => /\ db.tested \subseteq {key}
                          /\ guessed \/ db.untested \subseteq {key}

\* What "verify the key is correct" (import_setup.go:172) would mean: it fails
\* after an import accepted on faith.
AllReadable == ~disturbed /\ open => KeysOf(db) \subseteq {key}

\* An import costs no user who had registered before it began, and not the
\* users of an import that had been carried out (import_setup.go:23-32).
UsersKept == [][~disturbed => db.users \ db'.users \subseteq late]_vars

\* An exported archive opens its own database, whatever rows its copy lacks:
\* "containing the database and encryption key.  This allows migrating the
\* entire instance to a new server" (export_setup.go:12).  Not covered: an
\* export beside an import or of a database imported with a wrong key, and one
\* whose file was written while it was read.
ExportsUsable ==
    ~disturbed => \A e \in Exports :
        ex[e].at = "done" /\ ex[e].clean => ex[e].rows \subseteq {ex[e].key}

\* A closed write pool is followed by a restart, after which the server writes
\* again, unless the import that closed it was answered with an error.
WritesReturn == ~open ~> (open \/ failed)

\* Without that exception it fails: after an error nobody opens the pool
\* (import_setup.go:139-150).
WritesAlwaysReturn == ~open ~> open
============================================================================
