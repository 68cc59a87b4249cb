--------------------------- MODULE Backend_proofs ---------------------------
(***************************************************************************)
(* What Backend guarantees for any number of stacks, operations and        *)
(* migrations.  OpsInv: operations on a stack exclude each other.          *)
(* NamedInv: only the creations of operations that have ended are pending  *)
(* with an ID.  CalmInv: without surprises operations run on stacks that   *)
(* have a passphrase and are not being deleted, they and migrations away   *)
(* from the active backend work on it, such a migration has copied what it *)
(* has moved, and what exists is in the active state, if it was not given  *)
(* up and the stack is not Foreign.                                        *)
(***************************************************************************)
EXTENDS Backend, TLAPS

OpsInv == \A o, u \in Ops : op[o].stk = op[u].stk /\ op[o].stk # None => o = u

\* Whoever has an ID is pending, and its operation has ended.
WellNamed(c) == c.named \subseteq c.pending /\ \A o \in c.named : o \in Ops /\ op[o] = Done
NamedInv ==
    /\ \A b \in Backends, p \in Projects, s \in Stacks : WellNamed(state[b][p][s])
    /\ \A m \in Migrations : WellNamed(mig[m].buffer)

Working(m) == mig[m].place \in {"check", "export", "import"}
\* Operations have a passphrase; a stack that is being deleted has neither an
\* operation nor a migration beside it, and takes what it has along.
RowsInv ==
    /\ \A o \in Ops : op[o].stk # None => op[o].stk \in secret
    /\ \A s \in Stacks \ rows : cloud[s] \subseteq lost
    /\ \A s \in Stacks : del[s] # "idle" =>
          /\ \A o \in Ops : op[o].stk # s
          /\ \A m \in Migrations : ~Working(m)
          /\ del[s] = "deleted" => s \notin rows
\* Migrations exclude each other and operations.  One away from the active
\* backend copies that one's checkpoints.
CopiesInv ==
    \A m \in Migrations : Working(m) =>
        /\ keys /\ mig[m].list \subseteq rows
        /\ \A n \in Migrations : Working(n) => n = m
        /\ IF mig[m].place = "check"
           THEN mig[m].moved = {} /\ \A o \in Ops : op[o].stk # None => op[o].stk \in mig[m].list
           ELSE \A o \in Ops : op[o].stk = None
        /\ mig[m].to # chosen =>
              /\ \A s \in mig[m].moved :
                    state[mig[m].to]["blueprint"][s] = state[chosen]["blueprint"][s]
              /\ mig[m].place = "import" =>
                    mig[m].buffer = state[chosen]["blueprint"][mig[m].cur]
\* An operation works on the active backend and announces what it creates.
AnnouncedInv ==
    \A o \in Ops :
        /\ op[o].at \in Places \ {"resolve"} => op[o].url = Backend
        /\ op[o].at \in {"create", "save"} => o \in Mine(o).pending /\ Mine(o).known = {}
\* Of stacks under their blueprint's project name, what exists is in the state.
HeldInv ==
    \A s \in rows \ Foreign : cloud[s] \subseteq lost \cup Active(s).known \cup Active(s).pending
CalmInv == Calm => RowsInv /\ CopiesInv /\ AnnouncedInv /\ HeldInv

IInv == TypeOK /\ OpsInv /\ NamedInv /\ CalmInv

----------------------------------------------------------------------------
\* The records that steps make.
LEMMA ConstantFacts ==
    /\ None \notin Stacks /\ \A s \in Stacks : Project(s) \in Projects
    /\ Backend \in Backends /\ \A b \in Backends : Other(b) \in Backends /\ Other(b) # b
    /\ \A b, c \in Backends : b # c => b = Other(c)
BY SetsAssumption DEF Project, Projects, Backend, Backends, Other

LEMMA CheckpointFields ==
  ASSUME NEW c \in Checkpoint
  PROVE  c.known \subseteq Ids /\ c.pending \subseteq Ids /\ c.named \subseteq Ids
BY DEF Checkpoint

LEMMA StateFields ==
  ASSUME NEW k, NEW p, NEW n
  PROVE  /\ State(k, p, n).known = k /\ State(k, p, n).pending = p /\ State(k, p, n).named = n
         /\ k \subseteq Ids /\ p \subseteq Ids /\ n \subseteq Ids => State(k, p, n) \in Checkpoint
BY DEF State, Checkpoint

LEMMA EmptyFields == Empty \in Checkpoint /\ Empty.pending = {} /\ Empty.named = {}
BY StateFields DEF Empty

LEMMA Changed ==
  ASSUME NEW c \in Checkpoint, NEW k
  PROVE  [c EXCEPT !.known = k] = State(k, c.pending, c.named)
BY DEF State, Checkpoint

LEMMA OpChanged ==
  ASSUME NEW p \in AllOps, NEW a, NEW b
  PROVE  /\ [p EXCEPT !.at = a].at = a /\ [p EXCEPT !.at = a].stk = p.stk
         /\ [p EXCEPT !.at = a].url = p.url
         /\ [p EXCEPT !.at = a, !.url = b].at = a /\ [p EXCEPT !.at = a, !.url = b].url = b
         /\ [p EXCEPT !.at = a, !.url = b].stk = p.stk
BY DEF AllOps

LEMMA OpFacts ==
    /\ Idle \in AllOps /\ Done \in AllOps /\ Idle # Done /\ Idle.stk = None /\ Done.stk = None
    /\ Idle.at = "idle" /\ Done.at = "done"
    /\ \A s \in Stacks, k \in Kinds : Op("resolve", s, k, "local") \in AllOps
    /\ \A p \in AllOps, a \in Places : [p EXCEPT !.at = a] \in AllOps
    /\ \A p \in AllOps, b \in Backends : [p EXCEPT !.at = "run", !.url = b] \in AllOps
BY DEF Idle, Done, Op, AllOps, Places, Backends

LEMMA OpFields ==
  ASSUME TypeOK, NEW o \in Ops
  PROVE  /\ op[o] \in AllOps /\ op[o].url \in Backends /\ op[o].stk \in Stacks \cup {None}
         /\ op[o].at \in Places <=> op[o].stk # None
         /\ op[o].at \in Places => op[o].stk \in Stacks
         /\ op[o] \in {Idle, Done} <=> op[o].stk = None
<1>1. op[o] \in AllOps
  BY DEF TypeOK
<1>2. op[o] \in {Idle, Done} \/ (op[o].at \in Places /\ op[o].stk # None)
  BY DEF TypeOK
<1>3. "idle" \notin Places /\ "done" \notin Places
  BY DEF Places
<1>4. op[o].url \in Backends /\ op[o].stk \in Stacks \cup {None}
  BY <1>1 DEF AllOps
<1>5. Idle.at \notin Places /\ Done.at \notin Places /\ Idle.stk = None /\ Done.stk = None
  BY <1>3, OpFacts
<1>6. QED
  BY <1>1, <1>2, <1>4, <1>5

LEMMA MineTyped ==
  ASSUME TypeOK, NEW o \in Ops, op[o].at \in Places
  PROVE  Mine(o) \in Checkpoint
BY OpFields, ConstantFacts DEF Mine, TypeOK

LEMMA StateTyped ==
  ASSUME TypeOK, NEW b \in Backends, NEW p \in Projects, NEW s \in Stacks, NEW c \in Checkpoint,
         state' = [state EXCEPT ![b][p][s] = c]
  PROVE  /\ state' \in [Backends -> [Projects -> [Stacks -> Checkpoint]]]
         /\ \A x \in Backends, y \in Projects, z \in Stacks :
               state'[x][y][z] = IF x = b /\ y = p /\ z = s THEN c ELSE state[x][y][z]
BY DEF TypeOK

----------------------------------------------------------------------------
\* How the steps of operations change the operations, and the checkpoints.
Others(o) == \A u \in Ops : u # o => op'[u] = op[u]
Goes(o, place) ==
    /\ op' \in [Ops -> AllOps] /\ Others(o)
    /\ op[o].at \in Places /\ op'[o].at = place
    /\ op'[o].stk = op[o].stk /\ op'[o].url = op[o].url
Ends(o) ==
    /\ op' \in [Ops -> AllOps] /\ Others(o)
    /\ op[o].at \in Places /\ op'[o] = Done
Wrote(o, c) ==
    /\ state' \in [Backends -> [Projects -> [Stacks -> Checkpoint]]]
    /\ \A b \in Backends, p \in Projects, s \in Stacks :
          state'[b][p][s] = IF b = op[o].url /\ p = Project(op[o].stk) /\ s = op[o].stk
                            THEN c ELSE state[b][p][s]

LEMMA GoneTo ==
  ASSUME TypeOK, NEW o \in Ops, op[o].at \in Places, NEW place \in Places, Goto(o, place)
  PROVE  Goes(o, place)
<1>1. op[o] \in AllOps /\ op \in [Ops -> AllOps]
  BY DEF TypeOK
<1>2. op'[o] = [op[o] EXCEPT !.at = place] /\ Others(o)
  BY <1>1 DEF Goto, Others
<1>3. [op[o] EXCEPT !.at = place] \in AllOps
  BY <1>1, OpFacts
<1>4. op' \in [Ops -> AllOps]
  BY <1>1, <1>3 DEF Goto
<1>5. QED
  BY <1>1, <1>2, <1>4, OpChanged DEF Goes

LEMMA Ended ==
  ASSUME TypeOK, NEW o \in Ops, op[o].at \in Places, End(o)
  PROVE  Ends(o)
BY OpFacts DEF TypeOK, End, Ends, Others

LEMMA Written ==
  ASSUME TypeOK, NEW o \in Ops, op[o].at \in Places, NEW c \in Checkpoint, Write(o, c)
  PROVE  Wrote(o, c)
<1>1. op[o].url \in Backends /\ Project(op[o].stk) \in Projects /\ op[o].stk \in Stacks
  BY OpFields, ConstantFacts
<1>2. state' = [state EXCEPT ![op[o].url][Project(op[o].stk)][op[o].stk] = c]
  BY DEF Write
<1>3. state \in [Backends -> [Projects -> [Stacks -> Checkpoint]]]
  BY DEF TypeOK
<1>4. state' \in [Backends -> [Projects -> [Stacks -> Checkpoint]]]
  BY <1>1, <1>2, <1>3
<1>5. ASSUME NEW b \in Backends, NEW p \in Projects, NEW s \in Stacks
      PROVE  state'[b][p][s] = IF b = op[o].url /\ p = Project(op[o].stk) /\ s = op[o].stk
                               THEN c ELSE state[b][p][s]
  BY <1>1, <1>2, <1>3
<1>6. QED
  BY <1>4, <1>5 DEF Wrote

LEMMA BeginMoves ==
  ASSUME TypeOK, NEW o \in Ops, NEW s \in Stacks, NEW k \in Kinds, Begin(o, s, k)
  PROVE  /\ op[o] = Idle /\ Others(o) /\ op' \in [Ops -> AllOps]
         /\ op'[o].at = "resolve" /\ op'[o].stk = s
         /\ s \in secret /\ \A u \in Ops : op[u].stk # s
         /\ UNCHANGED <<settings, rows, secret, del, state, cloud, mig, lost>>
<1>1. op[o] = Idle /\ Others(o) /\ op'[o] = Op("resolve", s, k, "local")
  BY DEF Begin, TypeOK, Others
<1>2. op' \in [Ops -> AllOps]
  BY OpFacts DEF Begin, TypeOK
<1>3. \A u \in Ops : op[u].stk # s
  BY ConstantFacts DEF Begin, Running
<1>4. QED
  BY <1>1, <1>2, <1>3 DEF Begin, Op

LEMMA ResolveMoves ==
  ASSUME TypeOK, NEW o \in Ops, Resolve(o)
  PROVE  /\ op[o].at = "resolve" /\ Others(o) /\ op' \in [Ops -> AllOps]
         /\ op'[o].at = "run" /\ op'[o].stk = op[o].stk /\ op'[o].url = Backend
<1>1. op[o] \in AllOps /\ op \in [Ops -> AllOps] /\ op[o].at = "resolve"
  BY DEF Resolve, TypeOK
<1>2. op'[o] = [op[o] EXCEPT !.at = "run", !.url = Backend] /\ Others(o)
  BY <1>1 DEF Resolve, Others
<1>3. [op[o] EXCEPT !.at = "run", !.url = Backend] \in AllOps
  BY <1>1, OpFacts, ConstantFacts
<1>4. op' \in [Ops -> AllOps]
  BY <1>1, <1>3 DEF Resolve
<1>5. QED
  BY <1>1, <1>2, <1>4, OpChanged

LEMMA AnnounceMoves ==
  ASSUME TypeOK, NEW o \in Ops, Announce(o)
  PROVE  /\ op[o].at = "run"
         /\ \/ Ends(o) /\ state' = state
            \/ /\ Goes(o, "create") /\ Mine(o).known = {}
               /\ Wrote(o, State({}, Mine(o).pending \cup {o}, Mine(o).named))
<1>1. op[o].at = "run" /\ op[o].at \in Places /\ "create" \in Places
  BY DEF Announce, Places
<1>2. State({}, Mine(o).pending \cup {o}, Mine(o).named) \in Checkpoint
  <2>1. {} \subseteq Ids /\ Mine(o).pending \cup {o} \subseteq Ids /\ Mine(o).named \subseteq Ids
    BY <1>1, MineTyped, CheckpointFields DEF Ids
  <2>2. QED
    BY <2>1, StateFields
<1>3. QED
  BY <1>1, <1>2, GoneTo, Ended, Written DEF Announce

LEMMA CreateMoves ==
  ASSUME TypeOK, NEW o \in Ops, Create(o)
  PROVE  op[o].at = "create" /\ Goes(o, "save")
<1>1. op[o].at = "create" /\ op[o].at \in Places /\ "save" \in Places
  BY DEF Create, Places
<1>2. QED
  BY <1>1, GoneTo DEF Create

LEMMA RecordMoves ==
  ASSUME TypeOK, NEW o \in Ops, Record(o)
  PROVE  /\ op[o].at = "save" /\ Ends(o)
         /\ Wrote(o, State({o}, Mine(o).pending \ {o}, Mine(o).named))
<1>1. op[o].at = "save" /\ op[o].at \in Places
  BY DEF Record, Places
<1>2. State({o}, Mine(o).pending \ {o}, Mine(o).named) \in Checkpoint
  <2>1. {o} \subseteq Ids /\ Mine(o).pending \ {o} \subseteq Ids /\ Mine(o).named \subseteq Ids
    BY <1>1, MineTyped, CheckpointFields DEF Ids
  <2>2. QED
    BY <2>1, StateFields
<1>3. QED
  BY <1>1, <1>2, Ended, Written DEF Record

LEMMA InterruptMoves ==
  ASSUME TypeOK, NEW o \in Ops, Interrupt(o)
  PROVE  /\ Ends(o)
         /\ \/ state' = state
            \/ /\ op[o].at = "save"
               /\ Wrote(o, State(Mine(o).known, Mine(o).pending \cup {o}, Mine(o).named \cup {o}))
<1>1. op[o].at \in Places
  BY OpFields DEF Interrupt
<1>2. Mine(o) \in Checkpoint
  BY <1>1, MineTyped
<1>3. State(Mine(o).known, Mine(o).pending \cup {o}, Mine(o).named \cup {o}) \in Checkpoint
  <2>1. /\ Mine(o).known \subseteq Ids /\ Mine(o).pending \cup {o} \subseteq Ids
        /\ Mine(o).named \cup {o} \subseteq Ids
    BY <1>2, CheckpointFields DEF Ids
  <2>2. QED
    BY <2>1, StateFields
<1>4. QED
  BY <1>1, <1>3, Ended, Written DEF Interrupt

LEMMA RecoverMoves ==
  ASSUME TypeOK, NEW o \in Ops, Recover(o)
  PROVE  /\ op[o].at = "run" /\ Goes(o, "recovered")
         /\ Wrote(o, State(Mine(o).known \cup (Mine(o).pending \cap Mine(o).named), {}, {}))
<1>1. op[o].at = "run" /\ op[o].at \in Places /\ "recovered" \in Places
  BY DEF Recover, Places
<1>2. State(Mine(o).known \cup (Mine(o).pending \cap Mine(o).named), {}, {}) \in Checkpoint
  <2>1. Mine(o).known \cup (Mine(o).pending \cap Mine(o).named) \subseteq Ids
    BY <1>1, MineTyped, CheckpointFields
  <2>2. QED
    BY <2>1, StateFields
<1>3. QED
  BY <1>1, <1>2, GoneTo, Written DEF Recover, Promoted

LEMMA RefreshMoves ==
  ASSUME TypeOK, NEW o \in Ops, Refresh(o)
  PROVE  /\ op[o].at = "recovered" /\ Ends(o)
         /\ Wrote(o, State(Mine(o).known \cap cloud[op[o].stk], Mine(o).pending, Mine(o).named))
<1>1. op[o].at = "recovered" /\ op[o].at \in Places
  BY DEF Refresh, Places
<1>2. Mine(o) \in Checkpoint
  BY <1>1, MineTyped
<1>3. State(Mine(o).known \cap cloud[op[o].stk], Mine(o).pending, Mine(o).named) \in Checkpoint
  BY <1>2, CheckpointFields, StateFields
<1>4. [Mine(o) EXCEPT !.known = @ \cap cloud[op[o].stk]]
        = State(Mine(o).known \cap cloud[op[o].stk], Mine(o).pending, Mine(o).named)
  BY <1>2, Changed
<1>5. QED
  BY <1>1, <1>3, <1>4, Ended, Written DEF Refresh

LEMMA DestroyMoves ==
  ASSUME TypeOK, NEW o \in Ops, Destroy(o)
  PROVE  /\ op[o].at = "run" /\ Ends(o)
         /\ Wrote(o, State({}, Mine(o).pending, Mine(o).named))
<1>1. op[o].at = "run" /\ op[o].at \in Places
  BY DEF Destroy, Places
<1>2. Mine(o) \in Checkpoint
  BY <1>1, MineTyped
<1>3. State({}, Mine(o).pending, Mine(o).named) \in Checkpoint
  BY <1>2, CheckpointFields, StateFields
<1>4. [Mine(o) EXCEPT !.known = {}] = State({}, Mine(o).pending, Mine(o).named)
  BY <1>2, Changed
<1>5. QED
  BY <1>1, <1>3, <1>4, Ended, Written DEF Destroy

LEMMA CrashMoves ==
  ASSUME TypeOK, Crash
  PROVE  /\ op' \in [Ops -> AllOps]
         /\ \A o \in Ops : op'[o] = IF op[o] = Idle THEN Idle ELSE Done
BY OpFacts DEF Crash

LEMMA MigrationFacts ==
    /\ \A p \in {"idle", "check"}, b \in Backends, l \in SUBSET Stacks :
          Migration(p, b, l) \in AllMigrations
    /\ \A r \in AllMigrations :
          /\ r.to \in Backends /\ r.buffer \in Checkpoint /\ r.list \subseteq Stacks
          /\ r.cur \in Stacks \cup {None}
BY EmptyFields DEF AllMigrations, Migration

----------------------------------------------------------------------------
\* The types, table by table.
TablesTyped ==
    /\ chosen \in Backends /\ keys \in BOOLEAN
    /\ rows \subseteq Stacks /\ secret \subseteq rows
    /\ del \in [Stacks -> {"idle", "checked", "deleted"}]
    /\ state \in [Backends -> [Projects -> [Stacks -> Checkpoint]]]
CloudTyped ==
    /\ locks \subseteq Backends \X Projects \X Stacks
    /\ cloud \in [Stacks -> SUBSET Ids] /\ lost \subseteq Ids
OpsTyped ==
    /\ op \in [Ops -> AllOps]
    /\ \A o \in Ops : op[o] \in {Idle, Done} \/ (op[o].at \in Places /\ op[o].stk # None)
Consistent(r) ==
    /\ r.todo \subseteq r.list /\ r.moved \subseteq r.list \ r.todo
    /\ r.place = "import" => r.cur \in r.list \ r.todo
MigrationsTyped ==
    /\ mig \in [Migrations -> AllMigrations]
    /\ \A m \in Migrations : Consistent(mig[m])
Bounded == crashes \in 0..MaxCrashes /\ surprises \in 0..MaxSurprises

LEMMA RestingFacts ==
    /\ Resting \in AllMigrations /\ Consistent(Resting)
    /\ Resting.place = "idle" /\ Resting.buffer = Empty
BY MigrationFacts DEF Resting, Migration, Consistent, Backends

LEMMA TypesNext == (TablesTyped /\ CloudTyped /\ OpsTyped /\ MigrationsTyped /\ Bounded)' => TypeOK'
BY DEF TypeOK, TablesTyped, CloudTyped, OpsTyped, MigrationsTyped, Consistent, Bounded

LEMMA Went ==
  ASSUME TypeOK, NEW o \in Ops, NEW place \in Places, Goes(o, place)
  PROVE  OpsTyped'
<1>1. op'[o].at \in Places /\ op'[o].stk # None
  BY OpFields DEF Goes
<1>2. \A u \in Ops : u # o => op'[u] = op[u]
  BY DEF Goes, Others
<1>3. QED
  BY <1>1, <1>2 DEF Goes, OpsTyped, TypeOK, Idle, Done

LEMMA Stopped ==
  ASSUME TypeOK, NEW o \in Ops, Ends(o)
  PROVE  OpsTyped'
BY DEF Ends, Others, OpsTyped, TypeOK, Idle, Done

LEMMA TakenTyped ==
  ASSUME TypeOK, NEW o \in Ops, op[o].at \in Places
  PROVE  Taken(o) \in Backends \X Projects \X Stacks
BY OpFields, ConstantFacts DEF Taken

LEMMA Surprised ==
  ASSUME TypeOK, surprises' = surprises \/ (surprises < MaxSurprises /\ surprises' = surprises + 1)
  PROVE  /\ surprises' \in 0..MaxSurprises
         /\ Calm' => Calm /\ surprises' = surprises
BY BoundsAssumption DEF TypeOK, Calm

\* How the steps of migrations change them.
Advances(m, r) ==
    /\ mig' \in [Migrations -> AllMigrations]
    /\ mig'[m] = r /\ \A n \in Migrations : n # m => mig'[n] = mig[n]

LEMMA Advanced ==
  ASSUME TypeOK, NEW m \in Migrations, NEW r \in AllMigrations, Step(m, r)
  PROVE  Advances(m, r)
BY DEF TypeOK, Step, Advances

LEMMA Sound ==
  ASSUME TypeOK, NEW m \in Migrations, NEW r, Advances(m, r), Consistent(r)
  PROVE  MigrationsTyped'
BY DEF TypeOK, Advances, MigrationsTyped, Consistent

LEMMA MigrationTyped ==
  ASSUME TypeOK, NEW m \in Migrations
  PROVE  /\ mig[m] \in AllMigrations /\ Consistent(mig[m])
         /\ mig[m].to \in Backends /\ mig[m].list \subseteq Stacks /\ mig[m].todo \subseteq Stacks
         /\ mig[m].moved \subseteq Stacks /\ mig[m].buffer \in Checkpoint
         /\ mig[m].place = "import" => mig[m].cur \in Stacks
BY DEF TypeOK, Consistent, AllMigrations

LEMMA ListMoves ==
  ASSUME TypeOK, NEW m \in Migrations, NEW to \in Backends, List(m, to)
  PROVE  /\ mig[m].place = "idle" /\ keys /\ MigrationsTyped'
         /\ \A n \in Migrations : n # m => mig'[n] = mig[n]
         /\ \/ /\ secret = {} /\ chosen' = to /\ mig' = mig
               /\ lost' = lost \cup LeftBehind(to, {})
            \/ /\ UNCHANGED <<chosen, lost>> /\ mig'[m].place = "check" /\ mig'[m].to = to
               /\ mig'[m].list = secret /\ mig'[m].moved = {} /\ mig'[m].buffer = Empty
<1>1. CASE secret = {}
  <2>1. mig' = mig
    BY <1>1 DEF List
  <2>2. MigrationsTyped'
    BY <2>1 DEF TypeOK, MigrationsTyped, Consistent
  <2>3. QED
    BY <1>1, <2>1, <2>2 DEF List
<1>2. CASE secret # {}
  <2>1. /\ Migration("check", to, secret) \in AllMigrations
        /\ Consistent(Migration("check", to, secret))
    BY MigrationFacts DEF TypeOK, Migration, Consistent
  <2>2. Advances(m, Migration("check", to, secret)) /\ UNCHANGED <<chosen, lost>>
    BY <1>2, <2>1, Advanced DEF List
  <2>3. MigrationsTyped'
    BY <2>1, <2>2, Sound
  <2>4. QED
    BY <2>2, <2>3 DEF List, Advances, Migration
<1>3. QED
  BY <1>1, <1>2

LEMMA CheckMoves ==
  ASSUME TypeOK, NEW m \in Migrations, Check(m)
  PROVE  /\ mig[m].place = "check" /\ MigrationsTyped'
         /\ \A n \in Migrations : n # m => mig'[n] = mig[n]
         /\ \/ mig'[m].place = "idle" /\ mig'[m].buffer = Empty
            \/ /\ mig[m].list \cap Running = {} /\ mig'[m].place = "export"
               /\ mig'[m].to = mig[m].to /\ mig'[m].list = mig[m].list
               /\ mig'[m].moved = mig[m].moved /\ mig'[m].buffer = mig[m].buffer
<1> DEFINE r == [mig[m] EXCEPT !.place = "export"]
<1>1. /\ r \in AllMigrations /\ Consistent(r) /\ r.place = "export" /\ r.to = mig[m].to
      /\ r.list = mig[m].list /\ r.moved = mig[m].moved /\ r.buffer = mig[m].buffer
  BY MigrationTyped DEF AllMigrations, Consistent
<1>2. /\ mig[m].place = "check"
      /\ \/ Step(m, Resting)
         \/ Step(m, r) /\ mig[m].list \cap Running = {}
  BY DEF Check
<1> HIDE DEF r
<1>3. CASE Step(m, Resting)
  BY <1>2, <1>3, RestingFacts, Advanced, Sound DEF Advances
<1>4. CASE Step(m, r) /\ mig[m].list \cap Running = {}
  BY <1>1, <1>2, <1>4, Advanced, Sound DEF Advances
<1>5. QED
  BY <1>2, <1>3, <1>4

LEMMA ExportMoves ==
  ASSUME TypeOK, NEW m \in Migrations, NEW s \in Stacks, Export(m, s)
  PROVE  /\ mig[m].place = "export" /\ MigrationsTyped'
         /\ \A n \in Migrations : n # m => mig'[n] = mig[n]
         /\ mig'[m].to = mig[m].to /\ mig'[m].list = mig[m].list /\ mig'[m].moved = mig[m].moved
         /\ \/ /\ mig'[m].place = "import" /\ mig'[m].cur = s
               /\ mig'[m].buffer = state[Other(mig[m].to)]["blueprint"][s]
            \/ mig'[m].place = "export" /\ mig'[m].buffer = mig[m].buffer
<1> DEFINE copy == state[Other(mig[m].to)]["blueprint"][s]
<1> DEFINE opened == [mig[m] EXCEPT !.place = "import", !.todo = @ \ {s}, !.cur = s,
                                    !.buffer = copy]
<1> DEFINE skipped == [mig[m] EXCEPT !.todo = @ \ {s}]
<1>1. copy \in Checkpoint
  BY MigrationTyped, ConstantFacts DEF TypeOK, Projects
<1>2. (Step(m, opened) \/ Step(m, skipped)) /\ mig[m].place = "export" /\ s \in mig[m].todo
  BY DEF Export
<1> HIDE DEF copy
<1>3. /\ opened \in AllMigrations /\ Consistent(opened) /\ opened.place = "import"
      /\ opened.to = mig[m].to /\ opened.list = mig[m].list /\ opened.moved = mig[m].moved
      /\ opened.cur = s /\ opened.buffer = copy
  BY <1>1, <1>2, MigrationTyped DEF AllMigrations, Consistent
<1>4. /\ skipped \in AllMigrations /\ Consistent(skipped) /\ skipped.place = "export"
      /\ skipped.to = mig[m].to /\ skipped.list = mig[m].list /\ skipped.moved = mig[m].moved
      /\ skipped.buffer = mig[m].buffer
  BY <1>2, MigrationTyped DEF AllMigrations, Consistent
<1> HIDE DEF opened, skipped
<1>5. Advances(m, opened) \/ Advances(m, skipped)
  BY <1>2, <1>3, <1>4, Advanced
<1>6. MigrationsTyped'
  BY <1>3, <1>4, <1>5, Sound
<1>7. QED
  BY <1>2, <1>3, <1>4, <1>5, <1>6 DEF Advances, copy

LEMMA ImportMoves ==
  ASSUME TypeOK, NEW m \in Migrations, Import(m)
  PROVE  /\ mig[m].place = "import" /\ MigrationsTyped' /\ mig[m].cur \in Stacks
         /\ \A n \in Migrations : n # m => mig'[n] = mig[n]
         /\ mig'[m].place = "export" /\ mig'[m].to = mig[m].to /\ mig'[m].list = mig[m].list
         /\ mig'[m].buffer = Empty
         /\ \/ /\ mig'[m].moved = mig[m].moved \cup {mig[m].cur}
               /\ state' \in [Backends -> [Projects -> [Stacks -> Checkpoint]]]
               /\ \A b \in Backends, p \in Projects, s \in Stacks :
                     state'[b][p][s] = IF b = mig[m].to /\ p = "blueprint" /\ s = mig[m].cur
                                       THEN mig[m].buffer ELSE state[b][p][s]
               /\ LET old == state[mig[m].to]["blueprint"][mig[m].cur]
                  IN  lost' = IF mig[m].to = Backend
                              THEN lost \cup (Names(old) \ Names(mig[m].buffer)) ELSE lost
            \/ mig'[m].moved = mig[m].moved /\ UNCHANGED <<state, lost>>
<1> DEFINE s == mig[m].cur
<1> DEFINE next == [mig[m] EXCEPT !.place = "export", !.cur = None, !.buffer = Empty]
<1> DEFINE moved == [next EXCEPT !.moved = @ \cup {s}]
<1>1. /\ next \in AllMigrations /\ Consistent(next) /\ next.place = "export"
      /\ next.to = mig[m].to /\ next.list = mig[m].list /\ next.moved = mig[m].moved
      /\ next.buffer = Empty /\ next.todo = mig[m].todo
  BY MigrationTyped, EmptyFields DEF AllMigrations, Consistent
<1>2. mig[m].place = "import" /\ s \in mig[m].list \ mig[m].todo /\ s \in Stacks
  BY MigrationTyped DEF Import, Consistent
<1> DEFINE dropped == Names(state[mig[m].to]["blueprint"][s]) \ Names(mig[m].buffer)
<1> DEFINE given == lost' = IF mig[m].to = Backend THEN lost \cup dropped ELSE lost
<1>3. \/ /\ Step(m, moved) /\ given
         /\ state' = [state EXCEPT ![mig[m].to]["blueprint"][s] = mig[m].buffer]
      \/ Step(m, next) /\ UNCHANGED <<state, lost>>
  BY DEF Import
<1> HIDE DEF given
<1> HIDE DEF next
<1>4. /\ moved \in AllMigrations /\ Consistent(moved) /\ moved.place = "export"
      /\ moved.to = mig[m].to /\ moved.list = mig[m].list
      /\ moved.moved = mig[m].moved \cup {s} /\ moved.buffer = Empty
  BY <1>1, <1>2 DEF AllMigrations, Consistent
<1> HIDE DEF moved
<1>5. /\ mig[m].to \in Backends /\ "blueprint" \in Projects /\ mig[m].buffer \in Checkpoint
      /\ state \in [Backends -> [Projects -> [Stacks -> Checkpoint]]]
  BY SMTT(30), MigrationTyped DEF Projects, TypeOK
<1> HIDE DEF s
<1>6. CASE /\ Step(m, moved) /\ given
           /\ state' = [state EXCEPT ![mig[m].to]["blueprint"][s] = mig[m].buffer]
  <2>1. Advances(m, moved) /\ MigrationsTyped'
    BY <1>4, <1>6, Advanced, Sound
  <2>2. state' \in [Backends -> [Projects -> [Stacks -> Checkpoint]]]
    BY <1>2, <1>5, <1>6
  <2>3. ASSUME NEW b \in Backends, NEW p \in Projects, NEW t \in Stacks
        PROVE  state'[b][p][t] = IF b = mig[m].to /\ p = "blueprint" /\ t = s
                                 THEN mig[m].buffer ELSE state[b][p][t]
    BY <1>2, <1>5, <1>6
  <2>4. QED
    BY <1>2, <1>4, <1>6, <2>1, <2>2, <2>3 DEF Advances, s, given
<1>7. CASE Step(m, next) /\ UNCHANGED <<state, lost>>
  <2>1. Advances(m, next) /\ MigrationsTyped'
    BY <1>1, <1>7, Advanced, Sound
  <2>2. QED
    BY <1>1, <1>2, <1>7, <2>1 DEF Advances, s
<1>8. QED
  BY <1>3, <1>6, <1>7

LEMMA SwitchMoves ==
  ASSUME TypeOK, NEW m \in Migrations, Switch(m)
  PROVE  /\ mig[m].place = "export" /\ mig[m].todo = {} /\ MigrationsTyped'
         /\ \A n \in Migrations : n # m => mig'[n] = mig[n]
         /\ mig'[m].place = "idle" /\ mig'[m].buffer = Empty
         /\ \/ /\ mig[m].moved = mig[m].list /\ chosen' = mig[m].to
               /\ lost' = lost \cup LeftBehind(mig[m].to, mig[m].list)
            \/ UNCHANGED <<chosen, lost>>
<1>1. Advances(m, Resting) /\ MigrationsTyped'
  BY RestingFacts, Advanced, Sound DEF Switch
<1>2. /\ mig[m].place = "export" /\ mig[m].todo = {}
      /\ \/ /\ mig[m].moved = mig[m].list /\ chosen' = mig[m].to
            /\ lost' = lost \cup LeftBehind(mig[m].to, mig[m].list)
         \/ UNCHANGED <<chosen, lost>>
  BY DEF Switch
<1>3. QED
  BY <1>1, <1>2, RestingFacts DEF Advances

LEMMA CrashMigrations ==
  ASSUME TypeOK, Crash
  PROVE  /\ MigrationsTyped'
         /\ \A m \in Migrations : mig'[m].place = "idle" /\ mig'[m].buffer = Empty
<1>1. mig' = [m \in Migrations |-> Resting]
  BY DEF Crash
<1>2. QED
  BY <1>1, RestingFacts DEF MigrationsTyped

\* DeleteStack's last step clears a checkpoint, or does nothing.
LEMMA Cleared ==
  ASSUME TypeOK, NEW s \in Stacks, RemoveStackState(s)
  PROVE  /\ state' \in [Backends -> [Projects -> [Stacks -> Checkpoint]]]
         /\ \A b \in Backends, p \in Projects, t \in Stacks :
               /\ state'[b][p][t] \in {state[b][p][t], Empty}
               /\ t # s => state'[b][p][t] = state[b][p][t]
<1>1. Empty \in Checkpoint /\ "local" \in Backends /\ "blueprint" \in Projects
  BY EmptyFields DEF Backends, Projects
<1>2. \/ state' = [state EXCEPT !["local"]["blueprint"][s] = Empty]
      \/ state' = state
  BY DEF RemoveStackState
<1>3. state \in [Backends -> [Projects -> [Stacks -> Checkpoint]]]
  BY DEF TypeOK
<1>4. CASE state' = state
  BY <1>3, <1>4
<1>5. CASE state' = [state EXCEPT !["local"]["blueprint"][s] = Empty]
  <2>1. \A b \in Backends, p \in Projects, t \in Stacks :
           state'[b][p][t] = IF b = "local" /\ p = "blueprint" /\ t = s THEN Empty
                             ELSE state[b][p][t]
    BY <1>1, <1>3, <1>5, StateTyped
  <2>2. state' \in [Backends -> [Projects -> [Stacks -> Checkpoint]]]
    BY <1>1, <1>3, <1>5, StateTyped
  <2>3. QED
    BY <2>1, <2>2
<1>6. QED
  BY <1>2, <1>4, <1>5

LEMMA NamedKept ==
  ASSUME TypeOK, NamedInv, NEW o \in Ops, NEW c, NEW p, NEW n, UNCHANGED mig,
         \A u \in Ops : op[u] = Done => op'[u] = Done,
         state' = state \/ Wrote(o, c), p = c.pending, n = c.named,
         n \subseteq p, \A u \in n : u \in Ops /\ op'[u] = Done
  PROVE  NamedInv'
<1>1. \A b \in Backends, q \in Projects, s \in Stacks :
         \/ state'[b][q][s] = state[b][q][s]
         \/ state'[b][q][s].pending = p /\ state'[b][q][s].named = n
  BY DEF Wrote
<1>2. \A b \in Backends, q \in Projects, s \in Stacks : WellNamed(state[b][q][s])'
  BY <1>1 DEF NamedInv, WellNamed
<1>3. \A m \in Migrations : WellNamed(mig[m].buffer)'
  BY DEF NamedInv, WellNamed
<1>4. QED
  BY <1>2, <1>3 DEF NamedInv

----------------------------------------------------------------------------
\* Where checkpoints are looked up.
LEMMA Lookups ==
    /\ \A s : s \notin Foreign => Project(s) = "blueprint"
    /\ \A s : Active(s) = state[Backend][Project(s)][s]
    /\ \A s : Active(s)' = state'[Backend'][Project(s)][s]
    /\ \A o : Mine(o) = state[op[o].url][Project(op[o].stk)][op[o].stk]
    /\ \A o : Mine(o)' = state'[op'[o].url][Project(op'[o].stk)][op'[o].stk]
BY DEF Project, Active, Mine

LEMMA Selected ==
    /\ "blueprint" \in Projects
    /\ TypeOK /\ keys => Backend = chosen
    /\ UNCHANGED settings => Backend' = Backend
    /\ TypeOK' /\ keys' => Backend' = chosen'
BY DEF Projects, TypeOK, Backend, Backends, settings

LEMMA Idles ==
  ASSUME TypeOK, ~Migrating
  PROVE  \A m \in Migrations : mig[m].place = "idle" /\ ~Working(m)
BY DEF Migrating, Working

LEMMA Unwritten ==
  ASSUME TypeOK, NEW o \in Ops, op[o].at \in Places, state' = state
  PROVE  Wrote(o, Mine(o))
BY DEF TypeOK, Wrote, Mine

LEMMA OpKeepsCopies ==
  ASSUME TypeOK, CopiesInv, NEW o \in Ops, op[o].at \in Places, UNCHANGED <<settings, rows, mig>>,
         Others(o), op'[o].stk \in {op[o].stk, None}
  PROVE  CopiesInv'
<1>1. op[o].stk # None
  BY OpFields
<1>2. \A m \in Migrations : Working(m) => mig[m].place = "check" /\ mig[m].moved = {}
  BY <1>1 DEF CopiesInv
<1>3. \A u \in Ops : op'[u].stk \in {op[u].stk, None}
  BY DEF Others
<1>4. QED
  BY <1>2, <1>3 DEF CopiesInv, Working, settings

LEMMA OpKeepsRows ==
  ASSUME TypeOK, RowsInv, NEW o \in Ops, op[o].at \in Places, UNCHANGED <<rows, secret, del, mig>>,
         Others(o), op'[o].stk \in {op[o].stk, None}, lost \subseteq lost',
         \A s \in Stacks : s # op[o].stk => cloud'[s] = cloud[s]
  PROVE  RowsInv'
<1>1. op[o].stk # None /\ op[o].stk \in rows
  BY OpFields DEF RowsInv, TypeOK
<1>2. \A u \in Ops : op'[u].stk \in {op[u].stk, None}
  BY DEF Others
<1>3. \A s \in Stacks \ rows : cloud'[s] \subseteq lost'
  BY <1>1 DEF RowsInv
<1>4. \A s \in Stacks : s # None
  BY ConstantFacts
<1>5. QED
  BY <1>2, <1>3, <1>4 DEF RowsInv, Working

\* The others work on other stacks.
LEMMA OthersKept ==
  ASSUME TypeOK, OpsInv, AnnouncedInv, NEW o \in Ops, op[o].at \in Places,
         NEW c, Wrote(o, c), Others(o), UNCHANGED <<settings>>, NEW u \in Ops, u # o
  PROVE  /\ op'[u].at \in Places \ {"resolve"} => op'[u].url = Backend'
         /\ op'[u].at \in {"create", "save"} => u \in Mine(u)'.pending /\ Mine(u)'.known = {}
<1>1. op'[u] = op[u] /\ Backend' = Backend
  BY Selected DEF Others
<1>2. op[u].at \in Places => Mine(u)' = Mine(u)
  <2>1. op[u].at \in Places =>
          /\ op[u].stk # op[o].stk /\ op[u].stk \in Stacks /\ op[u].url \in Backends
    BY OpFields DEF OpsInv
  <2>2. QED
    BY <1>1, <2>1, Lookups, ConstantFacts DEF Wrote
<1>3. {"create", "save"} \subseteq Places
  BY DEF Places
<1>4. QED
  BY <1>1, <1>2, <1>3 DEF AnnouncedInv

LEMMA Worked ==
  ASSUME TypeOK, OpsInv, RowsInv, CopiesInv, AnnouncedInv, HeldInv,
         NEW o \in Ops, op[o].at \in Places \ {"resolve"}, NEW c, Wrote(o, c), NEW place,
         \/ Ends(o)
         \/ /\ Goes(o, place)
            /\ place \in {"create", "save"} => o \in c.pending /\ c.known = {},
         UNCHANGED <<settings, rows, secret, del, mig>>, lost \subseteq lost',
         \A s \in Stacks : s # op[o].stk => cloud'[s] = cloud[s],
         op[o].stk \notin Foreign => cloud'[op[o].stk] \subseteq lost' \cup c.known \cup c.pending
  PROVE  RowsInv' /\ CopiesInv' /\ AnnouncedInv' /\ HeldInv'
<1>1. RowsInv' /\ CopiesInv'
  <2>1. Others(o) /\ op'[o].stk \in {op[o].stk, None}
    BY OpFacts DEF Goes, Ends
  <2>2. QED
    BY <2>1, OpKeepsRows, OpKeepsCopies
<1>2. /\ Backend' = Backend /\ op[o].url = Backend /\ op[o].stk \in Stacks
      /\ Backend \in Backends /\ op[o].at \in Places /\ Others(o)
  BY Selected, ConstantFacts, OpFields DEF AnnouncedInv, Goes, Ends
<1>3. ASSUME NEW s \in Stacks
      PROVE  Active(s)' = IF s = op[o].stk THEN c ELSE Active(s)
  <2>1. Active(s)' = state'[Backend][Project(s)][s] /\ Active(s) = state[Backend][Project(s)][s]
    BY <1>2, Lookups
  <2>2. Project(s) \in Projects
    BY ConstantFacts
  <2>3. state'[Backend][Project(s)][s] = IF s = op[o].stk THEN c ELSE state[Backend][Project(s)][s]
    BY <1>2, <2>2 DEF Wrote
  <2>4. QED
    BY <2>1, <2>3
<1>4. HeldInv'
  BY <1>2, <1>3 DEF HeldInv, TypeOK
<1>5. CASE Ends(o)
  <2>1. op'[o].at \notin Places
    BY <1>5, OpFacts DEF Ends, Places
  <2>2. {"create", "save"} \subseteq Places
    BY DEF Places
  <2>3. AnnouncedInv'
    BY <1>2, <2>1, <2>2, OthersKept DEF AnnouncedInv
  <2>4. QED
    BY <1>1, <1>4, <2>3
<1>6. CASE Goes(o, place) /\ (place \in {"create", "save"} => o \in c.pending /\ c.known = {})
  <2>1. op'[o].at = place /\ op'[o].url = op[o].url /\ op'[o].stk = op[o].stk
    BY <1>6 DEF Goes
  <2>2. Mine(o)' = c
    BY <1>2, <2>1, Lookups, ConstantFacts DEF Wrote
  <2>3. AnnouncedInv'
    BY <1>2, <1>6, <2>1, <2>2, OthersKept DEF AnnouncedInv
  <2>4. QED
    BY <1>1, <1>4, <2>3
<1>7. QED
  BY <1>5, <1>6

\* A switch gives up what it leaves behind; what it takes along is the same there.
LEMMA LeftBehindHeld ==
  ASSUME TypeOK, HeldInv, keys, UNCHANGED <<keys, rows, state, cloud>>, NEW to \in Backends,
         NEW list, chosen' = to, lost' = lost \cup LeftBehind(to, list),
         \A s \in list \ Foreign :
            to # chosen => state[to]["blueprint"][s] = state[chosen]["blueprint"][s]
  PROVE  HeldInv'
<1>1. Backend = chosen /\ Backend' = to
  BY DEF TypeOK, Backend, Backends
<1>2. ASSUME NEW s \in rows \ Foreign
      PROVE  cloud[s] \subseteq lost' \cup Active(s)'.known \cup Active(s)'.pending
  <2>1. /\ Active(s) = state[chosen]["blueprint"][s] /\ Active(s)' = state[to]["blueprint"][s]
        /\ Project(s) = "blueprint"
    BY <1>1, <1>2, Lookups
  <2>2. cloud[s] \subseteq lost \cup Names(Active(s))
    BY <1>2 DEF HeldInv, Names
  <2>3. CASE s \in list
    BY <2>1, <2>2, <2>3 DEF Names
  <2>4. CASE s \notin list
    <3>1. Names(Active(s)) \ Names(state[to]["blueprint"][s]) \subseteq LeftBehind(to, list)
      BY <1>2, <2>1, <2>4 DEF LeftBehind
    <3>2. QED
      BY <2>1, <2>2, <3>1 DEF Names
  <2>5. QED
    BY <2>3, <2>4
<1>3. QED
  BY <1>2 DEF HeldInv

LEMMA NamesTyped ==
  ASSUME TypeOK, NEW b \in Backends, NEW p \in Projects, NEW s \in Stacks
  PROVE  Names(state[b][p][s]) \subseteq Ids
BY CheckpointFields DEF Names, TypeOK

LEMMA LeftBehindTyped ==
  ASSUME TypeOK, NEW to \in Backends, NEW list
  PROVE  LeftBehind(to, list) \subseteq Ids
<1>1. \A s \in rows : Names(Active(s)) \subseteq Ids
  BY NamesTyped, ConstantFacts DEF Active, TypeOK
<1>2. QED
  BY <1>1 DEF LeftBehind

LEMMA TypeStep == TypeOK /\ [Next]_vars => TypeOK'
<1> SUFFICES ASSUME TypeOK, [Next]_vars PROVE TypeOK'
  OBVIOUS
<1>1. ASSUME NEW s \in Stacks, NEW has \in BOOLEAN, PutStack(s, has)
      PROVE  TypeOK'
  <2>1. TablesTyped'
    BY <1>1 DEF PutStack, settings, TypeOK, TablesTyped
  <2>2. CloudTyped'
    BY <1>1 DEF PutStack, settings, TypeOK, CloudTyped
  <2>3. OpsTyped'
    BY <1>1 DEF PutStack, TypeOK, OpsTyped
  <2>4. MigrationsTyped'
    BY <1>1 DEF PutStack, TypeOK, MigrationsTyped, Consistent
  <2>5. Bounded'
    <3>1. /\ crashes' = crashes
          /\ surprises' = surprises \/ (surprises < MaxSurprises /\ surprises' = surprises + 1)
      BY <1>1 DEF PutStack, Surprise
    <3>2. QED
      BY <3>1, Surprised DEF TypeOK, Bounded
  <2>6. QED
    BY <2>1, <2>2, <2>3, <2>4, <2>5, TypesNext
<1>2. ASSUME NEW s \in Stacks, CheckIdle(s)
      PROVE  TypeOK'
  <2>1. TablesTyped'
    BY <1>2 DEF CheckIdle, settings, TypeOK, TablesTyped
  <2>2. CloudTyped'
    BY <1>2 DEF CheckIdle, settings, TypeOK, CloudTyped
  <2>3. OpsTyped'
    BY <1>2 DEF CheckIdle, TypeOK, OpsTyped
  <2>4. MigrationsTyped'
    BY <1>2 DEF CheckIdle, TypeOK, MigrationsTyped, Consistent
  <2>5. Bounded'
    <3>1. /\ crashes' = crashes
          /\ surprises' = surprises \/ (surprises < MaxSurprises /\ surprises' = surprises + 1)
      BY <1>2 DEF CheckIdle, Surprise
    <3>2. QED
      BY <3>1, Surprised DEF TypeOK, Bounded
  <2>6. QED
    BY <2>1, <2>2, <2>3, <2>4, <2>5, TypesNext
<1>2a. ASSUME NEW s \in Stacks, DeleteRow(s)
      PROVE  TypeOK'
  <2>1. TablesTyped'
    BY <1>2a DEF DeleteRow, settings, TypeOK, TablesTyped
  <2>2. CloudTyped'
    BY <1>2a DEF DeleteRow, settings, TypeOK, CloudTyped
  <2>3. OpsTyped'
    BY <1>2a DEF DeleteRow, TypeOK, OpsTyped
  <2>4. MigrationsTyped'
    BY <1>2a DEF DeleteRow, TypeOK, MigrationsTyped, Consistent
  <2>5. Bounded'
    BY <1>2a DEF DeleteRow, TypeOK, Bounded
  <2>6. QED
    BY <2>1, <2>2, <2>3, <2>4, <2>5, TypesNext
<1>2b. ASSUME NEW s \in Stacks, RemoveStackState(s)
      PROVE  TypeOK'
  <2>1. TablesTyped'
    BY <1>2b, Cleared DEF RemoveStackState, settings, TypeOK, TablesTyped
  <2>2. CloudTyped'
    BY <1>2b DEF RemoveStackState, settings, TypeOK, CloudTyped
  <2>3. OpsTyped'
    BY <1>2b DEF RemoveStackState, TypeOK, OpsTyped
  <2>4. MigrationsTyped'
    BY <1>2b DEF RemoveStackState, TypeOK, MigrationsTyped, Consistent
  <2>5. Bounded'
    BY <1>2b DEF RemoveStackState, TypeOK, Bounded
  <2>6. QED
    BY <2>1, <2>2, <2>3, <2>4, <2>5, TypesNext
<1>3. ASSUME NEW s \in Stacks, Unlock(s)
      PROVE  TypeOK'
  <2>1. TablesTyped'
    BY <1>3 DEF Unlock, settings, TypeOK, TablesTyped
  <2>2. CloudTyped'
    BY <1>3 DEF Unlock, settings, TypeOK, CloudTyped
  <2>3. OpsTyped'
    BY <1>3 DEF Unlock, TypeOK, OpsTyped
  <2>4. MigrationsTyped'
    BY <1>3 DEF Unlock, TypeOK, MigrationsTyped, Consistent
  <2>5. Bounded'
    BY <1>3 DEF Unlock, TypeOK, Bounded
  <2>6. QED
    BY <2>1, <2>2, <2>3, <2>4, <2>5, TypesNext
<1>4. ASSUME NEW o \in Ops, NEW s \in Stacks, NEW k \in Kinds, Begin(o, s, k)
      PROVE  TypeOK'
  <2>1. TablesTyped'
    BY <1>4 DEF Begin, settings, TypeOK, TablesTyped
  <2>2. CloudTyped'
    BY <1>4 DEF Begin, settings, TypeOK, CloudTyped
  <2>3. OpsTyped'
    BY SMTT(30), <1>4, BeginMoves, ConstantFacts DEF Others, TypeOK, OpsTyped, Places
  <2>4. MigrationsTyped'
    BY <1>4 DEF Begin, TypeOK, MigrationsTyped, Consistent
  <2>5. Bounded'
    <3>1. /\ crashes' = crashes
          /\ surprises' = surprises \/ (surprises < MaxSurprises /\ surprises' = surprises + 1)
      BY <1>4 DEF Begin, Surprise
    <3>2. QED
      BY <3>1, Surprised DEF TypeOK, Bounded
  <2>6. QED
    BY <2>1, <2>2, <2>3, <2>4, <2>5, TypesNext
<1>5. ASSUME NEW o \in Ops, Resolve(o)
      PROVE  TypeOK'
  <2>1. TablesTyped'
    BY <1>5 DEF Resolve, settings, TypeOK, TablesTyped
  <2>2. CloudTyped'
    BY <1>5 DEF Resolve, settings, TypeOK, CloudTyped
  <2>3. OpsTyped'
    <3>1. op'[o].at \in Places /\ op'[o].stk # None
      BY <1>5, ResolveMoves, OpFields DEF Places
    <3>2. QED
      BY <1>5, <3>1, ResolveMoves DEF Others, TypeOK, OpsTyped
  <2>4. MigrationsTyped'
    BY <1>5 DEF Resolve, TypeOK, MigrationsTyped, Consistent
  <2>5. Bounded'
    BY <1>5 DEF Resolve, TypeOK, Bounded
  <2>6. QED
    BY <2>1, <2>2, <2>3, <2>4, <2>5, TypesNext
<1>6. ASSUME NEW o \in Ops, Announce(o)
      PROVE  TypeOK'
  <2>1. TablesTyped'
    BY <1>6, AnnounceMoves DEF Announce, settings, TypeOK, TablesTyped, Wrote
  <2>2. CloudTyped'
    BY <1>6, TakenTyped DEF Announce, TypeOK, CloudTyped, Places
  <2>3. OpsTyped'
    BY <1>6, AnnounceMoves, Went, Stopped DEF Places
  <2>4. MigrationsTyped'
    BY <1>6 DEF Announce, TypeOK, MigrationsTyped, Consistent
  <2>5. Bounded'
    BY <1>6 DEF Announce, TypeOK, Bounded
  <2>6. QED
    BY <2>1, <2>2, <2>3, <2>4, <2>5, TypesNext
<1>7. ASSUME NEW o \in Ops, Create(o)
      PROVE  TypeOK'
  <2>1. TablesTyped'
    BY <1>7 DEF Create, settings, TypeOK, TablesTyped
  <2>2. CloudTyped'
    <3>1. op[o].stk \in Stacks
      BY <1>7, OpFields DEF Create, Places
    <3>2. QED
      BY <1>7, <3>1 DEF Create, TypeOK, CloudTyped, Ids
  <2>3. OpsTyped'
    BY <1>7, CreateMoves, Went DEF Places
  <2>4. MigrationsTyped'
    BY <1>7 DEF Create, TypeOK, MigrationsTyped, Consistent
  <2>5. Bounded'
    BY <1>7 DEF Create, TypeOK, Bounded
  <2>6. QED
    BY <2>1, <2>2, <2>3, <2>4, <2>5, TypesNext
<1>8. ASSUME NEW o \in Ops, Record(o)
      PROVE  TypeOK'
  <2>1. TablesTyped'
    BY <1>8, RecordMoves DEF Record, settings, TypeOK, TablesTyped, Wrote
  <2>2. CloudTyped'
    BY <1>8 DEF Record, Release, TypeOK, CloudTyped
  <2>3. OpsTyped'
    BY <1>8, RecordMoves, Stopped
  <2>4. MigrationsTyped'
    BY <1>8 DEF Record, TypeOK, MigrationsTyped, Consistent
  <2>5. Bounded'
    BY <1>8 DEF Record, TypeOK, Bounded
  <2>6. QED
    BY <2>1, <2>2, <2>3, <2>4, <2>5, TypesNext
<1>9. ASSUME NEW o \in Ops, Interrupt(o)
      PROVE  TypeOK'
  <2>1. TablesTyped'
    BY <1>9, InterruptMoves DEF Interrupt, settings, TypeOK, TablesTyped, Wrote
  <2>2. CloudTyped'
    BY <1>9 DEF Interrupt, Release, TypeOK, CloudTyped
  <2>3. OpsTyped'
    BY <1>9, InterruptMoves, Stopped
  <2>4. MigrationsTyped'
    BY <1>9 DEF Interrupt, TypeOK, MigrationsTyped, Consistent
  <2>5. Bounded'
    BY <1>9 DEF Interrupt, TypeOK, Bounded
  <2>6. QED
    BY <2>1, <2>2, <2>3, <2>4, <2>5, TypesNext
<1>10. ASSUME NEW o \in Ops, Recover(o)
      PROVE  TypeOK'
  <2>1. TablesTyped'
    BY <1>10, RecoverMoves DEF Recover, settings, TypeOK, TablesTyped, Wrote
  <2>2. CloudTyped'
    <3>1. Mine(o).pending \subseteq Ids
      BY <1>10, MineTyped, CheckpointFields DEF Recover, Places
    <3>2. QED
      BY <1>10, <3>1 DEF Recover, TypeOK, CloudTyped
  <2>3. OpsTyped'
    BY <1>10, RecoverMoves, Went DEF Places
  <2>4. MigrationsTyped'
    BY <1>10 DEF Recover, TypeOK, MigrationsTyped, Consistent
  <2>5. Bounded'
    BY <1>10 DEF Recover, TypeOK, Bounded
  <2>6. QED
    BY <2>1, <2>2, <2>3, <2>4, <2>5, TypesNext
<1>11. ASSUME NEW o \in Ops, Refresh(o)
      PROVE  TypeOK'
  <2>1. TablesTyped'
    BY <1>11, RefreshMoves DEF Refresh, settings, TypeOK, TablesTyped, Wrote
  <2>2. CloudTyped'
    BY <1>11 DEF Refresh, settings, TypeOK, CloudTyped
  <2>3. OpsTyped'
    BY <1>11, RefreshMoves, Stopped
  <2>4. MigrationsTyped'
    BY <1>11 DEF Refresh, TypeOK, MigrationsTyped, Consistent
  <2>5. Bounded'
    BY <1>11 DEF Refresh, TypeOK, Bounded
  <2>6. QED
    BY <2>1, <2>2, <2>3, <2>4, <2>5, TypesNext
<1>12. ASSUME NEW o \in Ops, Destroy(o)
      PROVE  TypeOK'
  <2>1. TablesTyped'
    BY <1>12, DestroyMoves DEF Destroy, settings, TypeOK, TablesTyped, Wrote
  <2>2. CloudTyped'
    <3>1. op[o].stk \in Stacks
      BY <1>12, OpFields DEF Destroy, Places
    <3>2. QED
      BY <1>12, <3>1 DEF Destroy, TypeOK, CloudTyped
  <2>3. OpsTyped'
    BY <1>12, DestroyMoves, Stopped
  <2>4. MigrationsTyped'
    BY <1>12 DEF Destroy, TypeOK, MigrationsTyped, Consistent
  <2>5. Bounded'
    BY <1>12 DEF Destroy, TypeOK, Bounded
  <2>6. QED
    BY <2>1, <2>2, <2>3, <2>4, <2>5, TypesNext
<1>13. ASSUME NEW m \in Migrations, NEW to \in Backends, List(m, to)
      PROVE  TypeOK'
  <2>1. TablesTyped'
    BY <1>13 DEF List, settings, TypeOK, TablesTyped
  <2>2. CloudTyped'
    <3>1. lost' \subseteq Ids
      BY <1>13, LeftBehindTyped DEF List, TypeOK
    <3>2. QED
      BY <1>13, <3>1 DEF List, settings, TypeOK, CloudTyped
  <2>3. OpsTyped'
    BY <1>13 DEF List, TypeOK, OpsTyped
  <2>4. MigrationsTyped'
    BY <1>13, ListMoves
  <2>5. Bounded'
    <3>1. /\ crashes' = crashes
          /\ surprises' = surprises \/ (surprises < MaxSurprises /\ surprises' = surprises + 1)
      BY <1>13 DEF List, Surprise
    <3>2. QED
      BY <3>1, Surprised DEF TypeOK, Bounded
  <2>6. QED
    BY <2>1, <2>2, <2>3, <2>4, <2>5, TypesNext
<1>14. ASSUME NEW m \in Migrations, Check(m)
      PROVE  TypeOK'
  <2>1. TablesTyped'
    BY <1>14 DEF Check, settings, TypeOK, TablesTyped
  <2>2. CloudTyped'
    BY <1>14 DEF Check, settings, TypeOK, CloudTyped
  <2>3. OpsTyped'
    BY <1>14 DEF Check, TypeOK, OpsTyped
  <2>4. MigrationsTyped'
    BY <1>14, CheckMoves
  <2>5. Bounded'
    BY <1>14 DEF Check, TypeOK, Bounded
  <2>6. QED
    BY <2>1, <2>2, <2>3, <2>4, <2>5, TypesNext
<1>15. ASSUME NEW m \in Migrations, NEW s \in Stacks, Export(m, s)
      PROVE  TypeOK'
  <2>1. TablesTyped'
    BY <1>15 DEF Export, settings, TypeOK, TablesTyped
  <2>2. CloudTyped'
    BY <1>15 DEF Export, settings, TypeOK, CloudTyped
  <2>3. OpsTyped'
    BY <1>15 DEF Export, TypeOK, OpsTyped
  <2>4. MigrationsTyped'
    BY <1>15, ExportMoves
  <2>5. Bounded'
    BY SMTT(60), <1>15 DEF Export, TypeOK, Bounded
  <2>6. QED
    BY <2>1, <2>2, <2>3, <2>4, <2>5, TypesNext
<1>16. ASSUME NEW m \in Migrations, Import(m)
      PROVE  TypeOK'
  <2>1. TablesTyped'
    BY <1>16, ImportMoves DEF Import, settings, TypeOK, TablesTyped
  <2>2. CloudTyped'
    <3>1. mig[m].cur \in Stacks /\ mig[m].to \in Backends /\ "blueprint" \in Projects
      BY <1>16, ImportMoves, MigrationTyped DEF Projects
    <3>2. Names(state[mig[m].to]["blueprint"][mig[m].cur]) \subseteq Ids
      BY <3>1, NamesTyped
    <3>3. lost' \subseteq Ids
      BY <1>16, <3>2, ImportMoves DEF TypeOK
    <3>4. QED
      BY <1>16, <3>3 DEF Import, TypeOK, CloudTyped
  <2>3. OpsTyped'
    BY <1>16 DEF Import, TypeOK, OpsTyped
  <2>4. MigrationsTyped'
    BY <1>16, ImportMoves
  <2>5. Bounded'
    BY <1>16 DEF Import, TypeOK, Bounded
  <2>6. QED
    BY <2>1, <2>2, <2>3, <2>4, <2>5, TypesNext
<1>17. ASSUME NEW m \in Migrations, Switch(m)
      PROVE  TypeOK'
  <2>1. TablesTyped'
    BY <1>17, MigrationTyped DEF Switch, settings, TypeOK, TablesTyped
  <2>2. CloudTyped'
    <3>1. lost' \subseteq Ids
      BY <1>17, MigrationTyped, LeftBehindTyped DEF Switch, TypeOK
    <3>2. QED
      BY <1>17, <3>1 DEF Switch, settings, TypeOK, CloudTyped
  <2>3. OpsTyped'
    BY <1>17 DEF Switch, TypeOK, OpsTyped
  <2>4. MigrationsTyped'
    BY <1>17, SwitchMoves
  <2>5. Bounded'
    BY <1>17 DEF Switch, TypeOK, Bounded
  <2>6. QED
    BY <2>1, <2>2, <2>3, <2>4, <2>5, TypesNext
<1>18. ASSUME ChooseBackend
      PROVE  TypeOK'
  <2>1. TablesTyped'
    BY <1>18, ConstantFacts DEF ChooseBackend, settings, TypeOK, TablesTyped
  <2>2. CloudTyped'
    BY <1>18 DEF ChooseBackend, settings, TypeOK, CloudTyped
  <2>3. OpsTyped'
    BY <1>18 DEF ChooseBackend, TypeOK, OpsTyped
  <2>4. MigrationsTyped'
    BY <1>18 DEF ChooseBackend, TypeOK, MigrationsTyped, Consistent
  <2>5. Bounded'
    <3>1. /\ crashes' = crashes
          /\ surprises' = surprises \/ (surprises < MaxSurprises /\ surprises' = surprises + 1)
      BY <1>18 DEF ChooseBackend, Surprise
    <3>2. QED
      BY <3>1, Surprised DEF TypeOK, Bounded
  <2>6. QED
    BY <2>1, <2>2, <2>3, <2>4, <2>5, TypesNext
<1>19. ASSUME PutKeys
      PROVE  TypeOK'
  <2>1. TablesTyped'
    BY <1>19 DEF PutKeys, settings, TypeOK, TablesTyped
  <2>2. CloudTyped'
    BY <1>19 DEF PutKeys, settings, TypeOK, CloudTyped
  <2>3. OpsTyped'
    BY <1>19 DEF PutKeys, TypeOK, OpsTyped
  <2>4. MigrationsTyped'
    BY <1>19 DEF PutKeys, TypeOK, MigrationsTyped, Consistent
  <2>5. Bounded'
    <3>1. /\ crashes' = crashes
          /\ surprises' = surprises \/ (surprises < MaxSurprises /\ surprises' = surprises + 1)
      BY <1>19 DEF PutKeys, Surprise
    <3>2. QED
      BY <3>1, Surprised DEF TypeOK, Bounded
  <2>6. QED
    BY <2>1, <2>2, <2>3, <2>4, <2>5, TypesNext
<1>20. ASSUME Crash
      PROVE  TypeOK'
  <2>1. TablesTyped'
    BY <1>20 DEF Crash, settings, TypeOK, TablesTyped
  <2>2. CloudTyped'
    <3>1. \A o \in {u \in Ops : op[u].at \in {"run", "recovered"}} :
             Taken(o) \in Backends \X Projects \X Stacks
      BY TakenTyped DEF Places
    <3>2. \E held \in SUBSET {Taken(o) : o \in {u \in Ops : op[u].at \in {"run", "recovered"}}} :
             locks' = locks \cup held
      BY <1>20 DEF Crash
    <3>3. locks' \subseteq Backends \X Projects \X Stacks
      BY <3>1, <3>2 DEF TypeOK
    <3>4. QED
      BY <1>20, <3>3 DEF Crash, TypeOK, CloudTyped
  <2>3. OpsTyped'
    BY <1>20, CrashMoves DEF OpsTyped
  <2>4. MigrationsTyped'
    BY <1>20, CrashMigrations
  <2>5. Bounded'
    BY <1>20, BoundsAssumption DEF Crash, TypeOK, Bounded
  <2>6. QED
    BY <2>1, <2>2, <2>3, <2>4, <2>5, TypesNext
<1>21. CASE UNCHANGED vars
  BY SMTT(60), <1>21 DEF vars, settings, TypeOK
<1>22. QED
  BY <1>1, <1>2, <1>2a, <1>2b, <1>3, <1>4, <1>5, <1>6, <1>7, <1>8, <1>9, <1>10, <1>11, <1>12,
     <1>13, <1>14, <1>15, <1>16, <1>17, <1>18, <1>19, <1>20, <1>21
     DEF Next, OpStep, MigrationStep

LEMMA OpUnchanged == [Next]_vars => (\E o \in Ops : OpStep(o)) \/ Crash \/ UNCHANGED op
BY DEF Next, MigrationStep, PutStack, CheckIdle, DeleteRow, RemoveStackState, Unlock, List, Check,
       Export, Import, Switch, ChooseBackend, PutKeys, vars

LEMMA OpsStep == TypeOK /\ OpsInv /\ [Next]_vars => OpsInv'
<1> SUFFICES ASSUME TypeOK, OpsInv, [Next]_vars PROVE OpsInv'
  OBVIOUS
<1>1. ASSUME NEW o \in Ops, NEW s \in Stacks, NEW k \in Kinds, Begin(o, s, k)
      PROVE  OpsInv'
  BY <1>1, BeginMoves DEF OpsInv, Others
<1>2. ASSUME NEW o \in Ops, Others(o) /\ op'[o].stk \in {op[o].stk, None}
      PROVE  OpsInv'
  BY <1>2 DEF OpsInv, Others
<1>3. ASSUME NEW o \in Ops, Resolve(o) \/ Create(o) \/ Recover(o)
      PROVE  Others(o) /\ op'[o].stk \in {op[o].stk, None}
  BY <1>3, ResolveMoves, CreateMoves, RecoverMoves DEF Goes
<1>4. ASSUME NEW o \in Ops, Announce(o) \/ Record(o) \/ Interrupt(o) \/ Refresh(o) \/ Destroy(o)
      PROVE  Others(o) /\ op'[o].stk \in {op[o].stk, None}
  BY <1>4, OpFacts, AnnounceMoves, RecordMoves, InterruptMoves, RefreshMoves, DestroyMoves
     DEF Goes, Ends
<1>5. ASSUME Crash
      PROVE  OpsInv'
  BY <1>5, CrashMoves, OpFacts DEF OpsInv
<1>6. ASSUME UNCHANGED op
      PROVE  OpsInv'
  BY <1>6 DEF OpsInv
<1>7. (\E o \in Ops : OpStep(o)) \/ Crash \/ UNCHANGED op
  BY OpUnchanged
<1>8. ASSUME NEW o \in Ops, OpStep(o)
      PROVE  OpsInv'
  BY <1>1, <1>2, <1>3, <1>4, <1>8 DEF OpStep
<1>9. QED
  BY <1>5, <1>6, <1>7, <1>8

LEMMA NamedStep == TypeOK /\ NamedInv /\ [Next]_vars => NamedInv'
<1> SUFFICES ASSUME TypeOK, NamedInv, [Next]_vars PROVE NamedInv'
  OBVIOUS
<1>1. ASSUME NEW s \in Stacks, NEW has \in BOOLEAN, PutStack(s, has)
      PROVE  NamedInv'
  <2>1. UNCHANGED <<op, state, mig>>
    BY <1>1 DEF PutStack, settings
  <2>2. QED
    BY <2>1 DEF NamedInv, WellNamed
<1>2. ASSUME NEW s \in Stacks, CheckIdle(s)
      PROVE  NamedInv'
  <2>1. UNCHANGED <<op, state, mig>>
    BY <1>2 DEF CheckIdle, settings
  <2>2. QED
    BY <2>1 DEF NamedInv, WellNamed
<1>2a. ASSUME NEW s \in Stacks, DeleteRow(s)
      PROVE  NamedInv'
  <2>1. UNCHANGED <<op, state, mig>>
    BY <1>2a DEF DeleteRow, settings
  <2>2. QED
    BY <2>1 DEF NamedInv, WellNamed
<1>2b. ASSUME NEW s \in Stacks, RemoveStackState(s)
      PROVE  NamedInv'
  <2>1. UNCHANGED <<op, mig>>
    BY <1>2b DEF RemoveStackState
  <2>2. \A b \in Backends, p \in Projects, t \in Stacks :
           state'[b][p][t] \in {state[b][p][t], Empty}
    BY <1>2b, Cleared
  <2>3. Empty.named = {}
    BY EmptyFields
  <2>4. QED
    BY <2>1, <2>2, <2>3 DEF NamedInv, WellNamed
<1>3. ASSUME NEW s \in Stacks, Unlock(s)
      PROVE  NamedInv'
  <2>1. UNCHANGED <<op, state, mig>>
    BY <1>3 DEF Unlock, settings
  <2>2. QED
    BY <2>1 DEF NamedInv, WellNamed
<1>4. ASSUME NEW o \in Ops, NEW s \in Stacks, NEW k \in Kinds, Begin(o, s, k)
      PROVE  NamedInv'
  <2>1. UNCHANGED <<state, mig>>
    BY <1>4 DEF Begin
  <2>2. \A u \in Ops : op[u] = Done => op'[u] = Done
    BY <1>4, BeginMoves, OpFacts DEF Others
  <2>3. QED
    BY <2>1, <2>2 DEF NamedInv, WellNamed
<1>5. ASSUME NEW o \in Ops, Resolve(o)
      PROVE  NamedInv'
  <2>1. UNCHANGED <<state, mig>>
    BY <1>5 DEF Resolve
  <2>2. \A u \in Ops : op[u] = Done => op'[u] = Done
    BY <1>5, ResolveMoves, OpFacts DEF Others, Goes
  <2>3. QED
    BY <2>1, <2>2 DEF NamedInv, WellNamed
<1>6. ASSUME NEW o \in Ops, Announce(o)
      PROVE  NamedInv'
  <2>1. UNCHANGED mig /\ op[o].at \in Places
    BY <1>6, AnnounceMoves DEF Announce, Places, Ends
  <2>2. \A u \in Ops : op[u] = Done => op'[u] = Done
    BY <1>6, AnnounceMoves, OpFacts, OpFields DEF Others, Goes, Ends
  <2>3. state' = state \/ Wrote(o, State({}, Mine(o).pending \cup {o}, Mine(o).named))
    BY <1>6, AnnounceMoves
  <2>4. WellNamed(Mine(o))
    BY <2>1, OpFields, ConstantFacts DEF NamedInv, Mine
  <2>5. /\ Mine(o).pending \cup {o} = State({}, Mine(o).pending \cup {o}, Mine(o).named).pending
        /\ Mine(o).named = State({}, Mine(o).pending \cup {o}, Mine(o).named).named
    BY StateFields
  <2>6. /\ Mine(o).named \subseteq Mine(o).pending \cup {o}
        /\ \A u \in Mine(o).named : u \in Ops /\ op'[u] = Done
    BY <1>6, <2>2, <2>4, AnnounceMoves, OpFacts DEF WellNamed
  <2>7. QED
    BY <2>1, <2>2, <2>3, <2>5, <2>6, NamedKept
<1>7. ASSUME NEW o \in Ops, Create(o)
      PROVE  NamedInv'
  <2>1. UNCHANGED <<state, mig>>
    BY <1>7 DEF Create
  <2>2. \A u \in Ops : op[u] = Done => op'[u] = Done
    BY <1>7, CreateMoves, OpFacts DEF Others, Goes
  <2>3. QED
    BY <2>1, <2>2 DEF NamedInv, WellNamed
<1>8. ASSUME NEW o \in Ops, Record(o)
      PROVE  NamedInv'
  <2>1. UNCHANGED mig /\ op[o].at \in Places
    BY <1>8, RecordMoves DEF Record, Places, Ends
  <2>2. \A u \in Ops : op[u] = Done => op'[u] = Done
    BY <1>8, RecordMoves, OpFacts, OpFields DEF Others, Goes, Ends
  <2>3. state' = state \/ Wrote(o, State({o}, Mine(o).pending \ {o}, Mine(o).named))
    BY <1>8, RecordMoves
  <2>4. WellNamed(Mine(o))
    BY <2>1, OpFields, ConstantFacts DEF NamedInv, Mine
  <2>5. /\ Mine(o).pending \ {o} = State({o}, Mine(o).pending \ {o}, Mine(o).named).pending
        /\ Mine(o).named = State({o}, Mine(o).pending \ {o}, Mine(o).named).named
    BY StateFields
  <2>6. /\ Mine(o).named \subseteq Mine(o).pending \ {o}
        /\ \A u \in Mine(o).named : u \in Ops /\ op'[u] = Done
    BY <1>8, <2>2, <2>4, RecordMoves, OpFacts DEF WellNamed
  <2>7. QED
    BY <2>1, <2>2, <2>3, <2>5, <2>6, NamedKept
<1>9. ASSUME NEW o \in Ops, Interrupt(o)
      PROVE  NamedInv'
  <2>1. UNCHANGED mig /\ op[o].at \in Places
    BY <1>9, InterruptMoves DEF Interrupt, Places, Ends
  <2>2. /\ \A u \in Ops : op[u] = Done => op'[u] = Done
        /\ op'[o] = Done
    BY <1>9, InterruptMoves, OpFacts, OpFields DEF Others, Goes, Ends
  <2>3. state' = state \/ Wrote(o, State(Mine(o).known, Mine(o).pending \cup {o}, Mine(o).named \cup {o}))
    BY <1>9, InterruptMoves
  <2>4. WellNamed(Mine(o))
    BY <2>1, OpFields, ConstantFacts DEF NamedInv, Mine
  <2>5. /\ Mine(o).pending \cup {o} = State(Mine(o).known, Mine(o).pending \cup {o}, Mine(o).named \cup {o}).pending
        /\ Mine(o).named \cup {o} = State(Mine(o).known, Mine(o).pending \cup {o}, Mine(o).named \cup {o}).named
    BY StateFields
  <2>6. /\ Mine(o).named \cup {o} \subseteq Mine(o).pending \cup {o}
        /\ \A u \in Mine(o).named \cup {o} : u \in Ops /\ op'[u] = Done
    BY <2>2, <2>4 DEF WellNamed
  <2>7. QED
    BY <2>1, <2>2, <2>3, <2>5, <2>6, NamedKept
<1>10. ASSUME NEW o \in Ops, Recover(o)
      PROVE  NamedInv'
  <2>1. UNCHANGED mig /\ op[o].at \in Places
    BY <1>10, RecoverMoves DEF Recover, Places, Ends
  <2>2. \A u \in Ops : op[u] = Done => op'[u] = Done
    BY <1>10, RecoverMoves, OpFacts, OpFields DEF Others, Goes, Ends
  <2>3. state' = state \/ Wrote(o, State(Mine(o).known \cup (Mine(o).pending \cap Mine(o).named), {}, {}))
    BY <1>10, RecoverMoves
  <2>4. WellNamed(Mine(o))
    BY <2>1, OpFields, ConstantFacts DEF NamedInv, Mine
  <2>5. /\ {} = State(Mine(o).known \cup (Mine(o).pending \cap Mine(o).named), {}, {}).pending
        /\ {} = State(Mine(o).known \cup (Mine(o).pending \cap Mine(o).named), {}, {}).named
    BY StateFields
  <2>6. /\ {} \subseteq {}
        /\ \A u \in {} : u \in Ops /\ op'[u] = Done
    BY <1>10, <2>2, <2>4, RecoverMoves, OpFacts DEF WellNamed
  <2>7. QED
    BY <2>1, <2>2, <2>3, <2>5, <2>6, NamedKept
<1>11. ASSUME NEW o \in Ops, Refresh(o)
      PROVE  NamedInv'
  <2>1. UNCHANGED mig /\ op[o].at \in Places
    BY <1>11, RefreshMoves DEF Refresh, Places, Ends
  <2>2. \A u \in Ops : op[u] = Done => op'[u] = Done
    BY <1>11, RefreshMoves, OpFacts, OpFields DEF Others, Goes, Ends
  <2>3. state' = state \/ Wrote(o, State(Mine(o).known \cap cloud[op[o].stk], Mine(o).pending, Mine(o).named))
    BY <1>11, RefreshMoves
  <2>4. WellNamed(Mine(o))
    BY <2>1, OpFields, ConstantFacts DEF NamedInv, Mine
  <2>5. /\ Mine(o).pending = State(Mine(o).known \cap cloud[op[o].stk], Mine(o).pending, Mine(o).named).pending
        /\ Mine(o).named = State(Mine(o).known \cap cloud[op[o].stk], Mine(o).pending, Mine(o).named).named
    BY StateFields
  <2>6. /\ Mine(o).named \subseteq Mine(o).pending
        /\ \A u \in Mine(o).named : u \in Ops /\ op'[u] = Done
    BY <1>11, <2>2, <2>4, RefreshMoves, OpFacts DEF WellNamed
  <2>7. QED
    BY <2>1, <2>2, <2>3, <2>5, <2>6, NamedKept
<1>12. ASSUME NEW o \in Ops, Destroy(o)
      PROVE  NamedInv'
  <2>1. UNCHANGED mig /\ op[o].at \in Places
    BY <1>12, DestroyMoves DEF Destroy, Places, Ends
  <2>2. \A u \in Ops : op[u] = Done => op'[u] = Done
    BY <1>12, DestroyMoves, OpFacts, OpFields DEF Others, Goes, Ends
  <2>3. state' = state \/ Wrote(o, State({}, Mine(o).pending, Mine(o).named))
    BY <1>12, DestroyMoves
  <2>4. WellNamed(Mine(o))
    BY <2>1, OpFields, ConstantFacts DEF NamedInv, Mine
  <2>5. /\ Mine(o).pending = State({}, Mine(o).pending, Mine(o).named).pending
        /\ Mine(o).named = State({}, Mine(o).pending, Mine(o).named).named
    BY StateFields
  <2>6. /\ Mine(o).named \subseteq Mine(o).pending
        /\ \A u \in Mine(o).named : u \in Ops /\ op'[u] = Done
    BY <1>12, <2>2, <2>4, DestroyMoves, OpFacts DEF WellNamed
  <2>7. QED
    BY <2>1, <2>2, <2>3, <2>5, <2>6, NamedKept
<1>13. ASSUME NEW m \in Migrations, NEW to \in Backends, List(m, to)
      PROVE  NamedInv'
  <2>1. UNCHANGED <<op, state>>
    BY <1>13 DEF List, settings
  <2>2. \A n \in Migrations : n # m => mig'[n] = mig[n]
    BY <1>13, ListMoves
  <2>3. WellNamed(mig'[m].buffer)
    BY <1>13, ListMoves, EmptyFields DEF NamedInv, WellNamed
  <2>4. QED
    BY <2>1, <2>2, <2>3 DEF NamedInv, WellNamed
<1>14. ASSUME NEW m \in Migrations, Check(m)
      PROVE  NamedInv'
  <2>1. UNCHANGED <<op, state>>
    BY <1>14 DEF Check, settings
  <2>2. \A n \in Migrations : n # m => mig'[n] = mig[n]
    BY <1>14, CheckMoves
  <2>3. WellNamed(mig'[m].buffer)
    BY <1>14, CheckMoves, EmptyFields DEF NamedInv, WellNamed
  <2>4. QED
    BY <2>1, <2>2, <2>3 DEF NamedInv, WellNamed
<1>15. ASSUME NEW m \in Migrations, NEW s \in Stacks, Export(m, s)
      PROVE  NamedInv'
  <2>1. UNCHANGED <<op, state>>
    BY <1>15 DEF Export, settings
  <2>2. \A n \in Migrations : n # m => mig'[n] = mig[n]
    BY <1>15, ExportMoves
  <2>3. WellNamed(mig'[m].buffer)
    <3>1. Other(mig[m].to) \in Backends /\ "blueprint" \in Projects
      BY MigrationTyped, ConstantFacts DEF Projects
    <3>2. QED
      BY <1>15, <3>1, ExportMoves DEF NamedInv
  <2>4. QED
    BY <2>1, <2>2, <2>3 DEF NamedInv, WellNamed
<1>16. ASSUME NEW m \in Migrations, Import(m)
      PROVE  NamedInv'
  <2>1. UNCHANGED op
    BY <1>16 DEF Import
  <2>2. /\ \A n \in Migrations : n # m => mig'[n] = mig[n]
        /\ mig'[m].buffer = Empty
    BY <1>16, ImportMoves
  <2>3. \A b \in Backends, p \in Projects, s \in Stacks :
           state'[b][p][s] \in {state[b][p][s], mig[m].buffer}
    BY <1>16, ImportMoves
  <2>4. QED
    BY <2>1, <2>2, <2>3, EmptyFields, SMTT(30) DEF NamedInv, WellNamed
<1>17. ASSUME NEW m \in Migrations, Switch(m)
      PROVE  NamedInv'
  <2>1. UNCHANGED <<op, state>>
    BY <1>17 DEF Switch, settings
  <2>2. \A n \in Migrations : n # m => mig'[n] = mig[n]
    BY <1>17, SwitchMoves
  <2>3. WellNamed(mig'[m].buffer)
    BY <1>17, SwitchMoves, EmptyFields DEF NamedInv, WellNamed
  <2>4. QED
    BY <2>1, <2>2, <2>3 DEF NamedInv, WellNamed
<1>18. ASSUME ChooseBackend
      PROVE  NamedInv'
  <2>1. UNCHANGED <<op, state, mig>>
    BY <1>18 DEF ChooseBackend, settings
  <2>2. QED
    BY <2>1 DEF NamedInv, WellNamed
<1>19. ASSUME PutKeys
      PROVE  NamedInv'
  <2>1. UNCHANGED <<op, state, mig>>
    BY <1>19 DEF PutKeys, settings
  <2>2. QED
    BY <2>1 DEF NamedInv, WellNamed
<1>20. ASSUME Crash
      PROVE  NamedInv'
  <2>1. UNCHANGED state
    BY <1>20 DEF Crash
  <2>2. \A u \in Ops : op[u] = Done => op'[u] = Done
    BY <1>20, CrashMoves, OpFacts
  <2>3. \A m \in Migrations : mig'[m].buffer \in {mig[m].buffer, Empty}
    BY <1>20, CrashMigrations
  <2>4. Empty.named = {}
    BY EmptyFields
  <2>5. QED
    BY <2>1, <2>2, <2>3, <2>4 DEF NamedInv, WellNamed
<1>21. CASE UNCHANGED vars
  <2>1. UNCHANGED <<op, state, mig>>
    BY <1>21 DEF vars, settings
  <2>2. QED
    BY <2>1 DEF NamedInv, WellNamed
<1>22. QED
  BY <1>1, <1>2, <1>2a, <1>2b, <1>3, <1>4, <1>5, <1>6, <1>7, <1>8, <1>9, <1>10, <1>11, <1>12,
     <1>13, <1>14, <1>15, <1>16, <1>17, <1>18, <1>19, <1>20, <1>21
     DEF Next, OpStep, MigrationStep

LEMMA CalmStep == TypeOK /\ OpsInv /\ CalmInv /\ [Next]_vars => CalmInv'
<1> SUFFICES ASSUME TypeOK, OpsInv, CalmInv, [Next]_vars PROVE CalmInv'
  OBVIOUS
<1>1. ASSUME NEW s \in Stacks, NEW has \in BOOLEAN, PutStack(s, has)
      PROVE  CalmInv'
  <2>1. SUFFICES ASSUME Calm'
                  PROVE  (RowsInv /\ CopiesInv /\ AnnouncedInv /\ HeldInv)'
    BY DEF CalmInv
  <2>2. /\ Calm /\ RowsInv /\ CopiesInv /\ AnnouncedInv /\ HeldInv
        /\ s \in rows => ~(s \in Running /\ ~has)
        /\ s \notin rows => ~Migrating /\ del[s] = "idle"
    BY <1>1, <2>1, BoundsAssumption DEF PutStack, Surprise, Calm, CalmInv, TypeOK
  <2>3. /\ UNCHANGED <<settings, state, cloud, op, mig, lost, del>> /\ rows' = rows \cup {s}
        /\ secret \subseteq secret' \/ (s \notin Running /\ secret' = secret \ {s})
    BY <1>1, <2>2 DEF PutStack, RowsInv, TypeOK
  <2>4. \A o \in Ops : op[o].stk # None => op[o].stk \in secret'
    BY <2>2, <2>3 DEF RowsInv, Running
  <2>5. RowsInv'
    BY <2>2, <2>3, <2>4 DEF RowsInv, Working
  <2>6. CopiesInv'
    BY <2>2, <2>3 DEF CopiesInv, Working, settings
  <2>7. AnnouncedInv'
    BY <2>2, <2>3 DEF AnnouncedInv, Mine, Backend, settings
  <2>8. HeldInv'
    BY <2>2, <2>3 DEF HeldInv, RowsInv, Active, Backend, settings
  <2>9. QED
    BY <2>5, <2>6, <2>7, <2>8
<1>2. ASSUME NEW s \in Stacks, CheckIdle(s)
      PROVE  CalmInv'
  <2>1. SUFFICES ASSUME Calm'
                  PROVE  (RowsInv /\ CopiesInv /\ AnnouncedInv /\ HeldInv)'
    BY DEF CalmInv
  <2>2. /\ Calm /\ RowsInv /\ CopiesInv /\ AnnouncedInv /\ HeldInv
        /\ ~Migrating
    BY <1>2, <2>1, BoundsAssumption DEF CheckIdle, Surprise, Calm, CalmInv, TypeOK
  <2>3. \A n \in Migrations : mig[n].place = "idle" /\ ~Working(n)
    BY <2>2, Idles
  <2>4. /\ UNCHANGED <<settings, rows, secret, state, cloud, op, mig, lost>>
        /\ \A u \in Ops : op[u].stk # s
        /\ \A t \in Stacks : del'[t] = del[t] \/ (t = s /\ del'[t] = "checked")
    BY <1>2, ConstantFacts DEF CheckIdle, Running, TypeOK
  <2>5. RowsInv'
    BY SMTT(30), <2>2, <2>3, <2>4 DEF RowsInv, Working
  <2>6. (CopiesInv /\ AnnouncedInv /\ HeldInv)'
    BY <2>2, <2>4 DEF CopiesInv, Working, AnnouncedInv, HeldInv, Mine, Active, Backend, settings
  <2>7. QED
    BY <2>5, <2>6
<1>2a. ASSUME NEW s \in Stacks, DeleteRow(s)
      PROVE  CalmInv'
  <2>1. SUFFICES ASSUME Calm'
                  PROVE  (RowsInv /\ CopiesInv /\ AnnouncedInv /\ HeldInv)'
    BY DEF CalmInv
  <2>2. RowsInv /\ CopiesInv /\ AnnouncedInv /\ HeldInv
    BY <1>2a, <2>1 DEF DeleteRow, Calm, CalmInv
  <2>3. /\ UNCHANGED <<settings, state, cloud, op, mig>>
        /\ rows' = rows \ {s} /\ secret' = secret \ {s} /\ lost' = lost \cup cloud[s]
        /\ del[s] = "checked"
        /\ \A t \in Stacks : del'[t] = IF t = s THEN "deleted" ELSE del[t]
    BY <1>2a DEF DeleteRow, TypeOK
  <2>4. /\ \A u \in Ops : op[u].stk # s
        /\ \A m \in Migrations : ~Working(m)
    BY <2>2, <2>3 DEF RowsInv
  <2>5. RowsInv'
    BY <2>2, <2>3, <2>4 DEF RowsInv, Working
  <2>6. CopiesInv'
    BY SMTT(30), <2>3, <2>4 DEF CopiesInv, Working
  <2>7. (AnnouncedInv /\ HeldInv)'
    BY <2>2, <2>3 DEF AnnouncedInv, HeldInv, Mine, Active, Backend, settings
  <2>8. QED
    BY <2>5, <2>6, <2>7
<1>2b. ASSUME NEW s \in Stacks, RemoveStackState(s)
      PROVE  CalmInv'
  <2>1. SUFFICES ASSUME Calm'
                  PROVE  (RowsInv /\ CopiesInv /\ AnnouncedInv /\ HeldInv)'
    BY DEF CalmInv
  <2>2. RowsInv /\ CopiesInv /\ AnnouncedInv /\ HeldInv
    BY <1>2b, <2>1 DEF RemoveStackState, Calm, CalmInv
  <2>3. /\ UNCHANGED <<settings, rows, secret, cloud, op, mig, lost>> /\ del[s] = "deleted"
        /\ \A t \in Stacks : del'[t] = IF t = s THEN "idle" ELSE del[t]
    BY <1>2b DEF RemoveStackState, TypeOK
  <2>4. /\ s \notin rows /\ \A u \in Ops : op[u].stk # s
        /\ \A m \in Migrations : ~Working(m)
    BY <2>2, <2>3 DEF RowsInv
  <2>5. \A b \in Backends, p \in Projects, t \in Stacks : t # s => state'[b][p][t] = state[b][p][t]
    BY <1>2b, Cleared
  <2>6. RowsInv' /\ CopiesInv'
    BY <2>2, <2>3, <2>4 DEF RowsInv, CopiesInv, Working
  <2>7. Backend' = Backend /\ Backend \in Backends /\ {"create", "save"} \subseteq Places
    BY <2>3, Selected, ConstantFacts DEF Places
  <2>8. AnnouncedInv'
    <3>1. \A u \in Ops : op[u].at \in Places => Mine(u)' = Mine(u)
      BY <2>3, <2>4, <2>5, Lookups, OpFields, ConstantFacts
    <3>2. QED
      BY <2>2, <2>3, <2>7, <3>1 DEF AnnouncedInv
  <2>9. HeldInv'
    <3>1. \A t \in Stacks : t # s => Active(t)' = Active(t)
      BY SMTT(30), <2>5, <2>7, Lookups, ConstantFacts
    <3>2. QED
      BY <2>2, <2>3, <2>4, <3>1 DEF HeldInv, TypeOK
  <2>10. QED
    BY <2>6, <2>8, <2>9
<1>3. ASSUME NEW s \in Stacks, Unlock(s)
      PROVE  CalmInv'
  <2>1. SUFFICES ASSUME Calm'
                  PROVE  (RowsInv /\ CopiesInv /\ AnnouncedInv /\ HeldInv)'
    BY DEF CalmInv
  <2>2. RowsInv /\ CopiesInv /\ AnnouncedInv /\ HeldInv
    BY <1>3, <2>1 DEF Unlock, Calm, CalmInv
  <2>3. UNCHANGED <<settings, rows, secret, del, state, cloud, op, mig, lost>>
    BY <1>3 DEF Unlock, settings
  <2>4. QED
    BY <2>2, <2>3 DEF RowsInv, CopiesInv, Working, AnnouncedInv, HeldInv, Mine, Active, Backend, settings
<1>4. ASSUME NEW o \in Ops, NEW s \in Stacks, NEW k \in Kinds, Begin(o, s, k)
      PROVE  CalmInv'
  <2>1. SUFFICES ASSUME Calm'
                  PROVE  (RowsInv /\ CopiesInv /\ AnnouncedInv /\ HeldInv)'
    BY DEF CalmInv
  <2>2. /\ Calm /\ RowsInv /\ CopiesInv /\ AnnouncedInv /\ HeldInv
        /\ ~Migrating /\ del[s] = "idle"
    BY <1>4, <2>1, BoundsAssumption DEF Begin, Surprise, Calm, CalmInv, TypeOK
  <2>3. \A n \in Migrations : mig[n].place = "idle" /\ ~Working(n)
    BY <2>2, Idles
  <2>4. /\ UNCHANGED <<settings, rows, secret, del, state, cloud, mig, lost>>
        /\ Others(o) /\ op'[o].at = "resolve" /\ op'[o].stk = s /\ s \in secret
    BY <1>4, BeginMoves
  <2>5. CopiesInv'
    BY <2>3, <2>4 DEF CopiesInv, Working
  <2>6. HeldInv'
    BY <2>2, <2>4 DEF HeldInv, Active, Backend, settings
  <2>7. Backend' = Backend
    BY <2>4, Selected
  <2>8. \A u \in Ops : u # o => op'[u] = op[u] /\ Mine(u)' = Mine(u)
    BY <2>4 DEF Others, Mine
  <2>9. AnnouncedInv'
    BY <2>2, <2>4, <2>7, <2>8 DEF AnnouncedInv
  <2>10. RowsInv'
    BY <2>2, <2>3, <2>4 DEF RowsInv, Others, Working
  <2>11. QED
    BY <2>5, <2>6, <2>9, <2>10
<1>5. ASSUME NEW o \in Ops, Resolve(o)
      PROVE  CalmInv'
  <2>1. SUFFICES ASSUME Calm'
                  PROVE  (RowsInv /\ CopiesInv /\ AnnouncedInv /\ HeldInv)'
    BY DEF CalmInv
  <2>2. RowsInv /\ CopiesInv /\ AnnouncedInv /\ HeldInv
    BY <1>5, <2>1 DEF Resolve, Calm, CalmInv
  <2>3. /\ UNCHANGED <<settings, rows, secret, del, state, cloud, mig, lost>>
        /\ Others(o) /\ op'[o].at = "run" /\ op'[o].url = Backend /\ op[o].at \in Places
        /\ op'[o].stk = op[o].stk
    BY <1>5, ResolveMoves DEF Resolve, Places
  <2>4. RowsInv' /\ CopiesInv'
    BY <2>2, <2>3, OpKeepsRows, OpKeepsCopies
  <2>5. HeldInv'
    BY <2>2, <2>3 DEF HeldInv, Active, Backend, settings
  <2>6. Backend' = Backend
    BY <2>3, Selected
  <2>7. \A u \in Ops : u # o => op'[u] = op[u] /\ Mine(u)' = Mine(u)
    BY <2>3 DEF Others, Mine
  <2>8. AnnouncedInv'
    BY <2>2, <2>3, <2>6, <2>7 DEF AnnouncedInv
  <2>9. QED
    BY <2>4, <2>5, <2>8
<1>6. ASSUME NEW o \in Ops, Announce(o)
      PROVE  CalmInv'
  <2>1. SUFFICES ASSUME Calm'
                  PROVE  (RowsInv /\ CopiesInv /\ AnnouncedInv /\ HeldInv)'
    BY DEF CalmInv
  <2>2. RowsInv /\ CopiesInv /\ AnnouncedInv /\ HeldInv
    BY <1>6, <2>1 DEF Announce, Calm, CalmInv
  <2>3. /\ UNCHANGED <<settings, rows, secret, del, mig>> /\ lost \subseteq lost'
        /\ op[o].at \in Places \ {"resolve"}
    BY <1>6, AnnounceMoves DEF Announce, Places
  <2>4. /\ op[o].stk \in Stacks /\ op[o].stk \in rows /\ op[o].url = Backend
        /\ Active(op[o].stk) = Mine(o)
    BY <1>6, <2>2, <2>3, OpFields DEF TypeOK, RowsInv, AnnouncedInv, Active, Mine
  <2>5. op[o].stk \notin Foreign => cloud[op[o].stk] \subseteq lost \cup Mine(o).known \cup Mine(o).pending
    BY <2>2, <2>4 DEF HeldInv
  <2>6. UNCHANGED <<cloud, lost>>
    BY <1>6 DEF Announce
  <2>7. CASE Ends(o) /\ state' = state
    BY <2>2, <2>3, <2>4, <2>5, <2>6, <2>7, Unwritten, Worked
  <2>8. CASE /\ Goes(o, "create") /\ Mine(o).known = {}
             /\ Wrote(o, State({}, Mine(o).pending \cup {o}, Mine(o).named))
    <3>1. /\ State({}, Mine(o).pending \cup {o}, Mine(o).named).known = {}
          /\ State({}, Mine(o).pending \cup {o}, Mine(o).named).pending = Mine(o).pending \cup {o}
      BY StateFields
    <3>2. op[o].stk \notin Foreign => cloud[op[o].stk] \subseteq lost \cup {} \cup (Mine(o).pending \cup {o})
      BY <2>5, <2>8
    <3>3. QED
      BY <2>2, <2>3, <2>6, <2>8, <3>1, <3>2, Worked, ZenonT(30)
  <2>9. QED
    BY <1>6, <2>7, <2>8, AnnounceMoves
<1>7. ASSUME NEW o \in Ops, Create(o)
      PROVE  CalmInv'
  <2>1. SUFFICES ASSUME Calm'
                  PROVE  (RowsInv /\ CopiesInv /\ AnnouncedInv /\ HeldInv)'
    BY DEF CalmInv
  <2>2. RowsInv /\ CopiesInv /\ AnnouncedInv /\ HeldInv
    BY <1>7, <2>1 DEF Create, Calm, CalmInv
  <2>3. /\ UNCHANGED <<settings, rows, secret, del, mig>> /\ lost \subseteq lost'
        /\ op[o].at \in Places \ {"resolve"}
    BY <1>7, CreateMoves DEF Create, Places
  <2>4. /\ op[o].stk \in Stacks /\ op[o].stk \in rows /\ op[o].url = Backend
        /\ Active(op[o].stk) = Mine(o)
    BY <1>7, <2>2, <2>3, OpFields DEF TypeOK, RowsInv, AnnouncedInv, Active, Mine
  <2>5. op[o].stk \notin Foreign => cloud[op[o].stk] \subseteq lost \cup Mine(o).known \cup Mine(o).pending
    BY <2>2, <2>4 DEF HeldInv
  <2>6. Wrote(o, Mine(o)) /\ Goes(o, "save")
    BY <1>7, <2>3, CreateMoves, Unwritten DEF Create
  <2>7. o \in Mine(o).pending /\ Mine(o).known = {}
    BY <1>7, <2>2 DEF Create, AnnouncedInv
  <2>8. \A s \in Stacks : s # op[o].stk => cloud'[s] = cloud[s]
    BY <1>7 DEF Create, TypeOK
  <2>9. op[o].stk \notin Foreign => cloud'[op[o].stk] \subseteq lost' \cup Mine(o).known \cup Mine(o).pending
    BY <1>7, <2>4, <2>5, <2>7 DEF Create, TypeOK
  <2>10. QED
    BY <2>2, <2>3, <2>6, <2>7, <2>8, <2>9, Worked
<1>8. ASSUME NEW o \in Ops, Record(o)
      PROVE  CalmInv'
  <2>1. SUFFICES ASSUME Calm'
                  PROVE  (RowsInv /\ CopiesInv /\ AnnouncedInv /\ HeldInv)'
    BY DEF CalmInv
  <2>2. RowsInv /\ CopiesInv /\ AnnouncedInv /\ HeldInv
    BY <1>8, <2>1 DEF Record, Calm, CalmInv
  <2>3. /\ UNCHANGED <<settings, rows, secret, del, mig>> /\ lost \subseteq lost'
        /\ op[o].at \in Places \ {"resolve"}
    BY <1>8, RecordMoves DEF Record, Places
  <2>4. /\ op[o].stk \in Stacks /\ op[o].stk \in rows /\ op[o].url = Backend
        /\ Active(op[o].stk) = Mine(o)
        /\ Mine(o).known = {}
    BY <1>8, <2>2, <2>3, OpFields DEF TypeOK, RowsInv, AnnouncedInv, Active, Mine, Record
  <2>5. op[o].stk \notin Foreign => cloud[op[o].stk] \subseteq lost \cup Mine(o).known \cup Mine(o).pending
    BY <2>2, <2>4 DEF HeldInv
  <2>6. /\ State({o}, Mine(o).pending \ {o}, Mine(o).named).known = {o}
        /\ State({o}, Mine(o).pending \ {o}, Mine(o).named).pending = Mine(o).pending \ {o}
    BY StateFields
  <2>7. Wrote(o, State({o}, Mine(o).pending \ {o}, Mine(o).named)) /\ Ends(o)
    BY <1>8, RecordMoves
  <2>8. \A s \in Stacks : s # op[o].stk => cloud'[s] = cloud[s]
    BY <1>8 DEF Record, TypeOK
  <2>9. op[o].stk \notin Foreign => cloud'[op[o].stk] \subseteq lost' \cup {o} \cup (Mine(o).pending \ {o})
    BY <1>8, <2>4, <2>5 DEF Record, TypeOK
  <2>10. QED
    BY <2>2, <2>3, <2>6, <2>7, <2>8, <2>9, Worked
<1>9. ASSUME NEW o \in Ops, Interrupt(o)
      PROVE  CalmInv'
  <2>1. SUFFICES ASSUME Calm'
                  PROVE  (RowsInv /\ CopiesInv /\ AnnouncedInv /\ HeldInv)'
    BY DEF CalmInv
  <2>2. RowsInv /\ CopiesInv /\ AnnouncedInv /\ HeldInv
    BY <1>9, <2>1 DEF Interrupt, Calm, CalmInv
  <2>3. /\ UNCHANGED <<settings, rows, secret, del, cloud, mig, lost>>
        /\ Ends(o) /\ op[o].at \in Places
    BY <1>9, InterruptMoves DEF Interrupt, Ends
  <2>4. CASE state' = state
    <3>1. RowsInv' /\ CopiesInv'
      BY <2>2, <2>3, OpFacts, OpKeepsRows, OpKeepsCopies DEF Ends
    <3>2. HeldInv'
      BY <2>2, <2>3, <2>4 DEF HeldInv, Active, Backend, settings
    <3>3. op'[o].at \notin Places /\ {"create", "save"} \subseteq Places
      BY <2>3, OpFacts DEF Ends, Places
    <3>4. Wrote(o, Mine(o)) /\ Others(o)
      BY <2>3, <2>4, Unwritten DEF Ends
    <3>5. AnnouncedInv'
      BY <2>2, <2>3, <3>3, <3>4, OthersKept DEF AnnouncedInv
    <3>6. QED
      BY <3>1, <3>2, <3>5
  <2>5. CASE /\ op[o].at = "save"
             /\ Wrote(o, State(Mine(o).known, Mine(o).pending \cup {o}, Mine(o).named \cup {o}))
    <3> DEFINE c == State(Mine(o).known, Mine(o).pending \cup {o}, Mine(o).named \cup {o})
    <3>1. /\ op[o].stk \in Stacks /\ op[o].stk \in rows
          /\ Active(op[o].stk) = Mine(o) /\ op[o].at \in Places \ {"resolve"}
      BY <2>2, <2>3, <2>5, OpFields DEF TypeOK, RowsInv, AnnouncedInv, Active, Mine
    <3>2. c.known = Mine(o).known /\ c.pending = Mine(o).pending \cup {o}
      BY StateFields
    <3>3. op[o].stk \notin Foreign => cloud[op[o].stk] \subseteq lost \cup c.known \cup c.pending
      BY <2>2, <3>1, <3>2 DEF HeldInv
    <3>4. Wrote(o, c)
      BY <2>5
    <3> HIDE DEF c
    <3>5. QED
      BY SMTT(60), <2>2, <2>3, <3>1, <3>3, <3>4, Worked
  <2>6. QED
    BY <1>9, <2>4, <2>5, InterruptMoves
<1>10. ASSUME NEW o \in Ops, Recover(o)
      PROVE  CalmInv'
  <2>1. SUFFICES ASSUME Calm'
                  PROVE  (RowsInv /\ CopiesInv /\ AnnouncedInv /\ HeldInv)'
    BY DEF CalmInv
  <2>2. RowsInv /\ CopiesInv /\ AnnouncedInv /\ HeldInv
    BY <1>10, <2>1 DEF Recover, Calm, CalmInv
  <2>3. /\ UNCHANGED <<settings, rows, secret, del, mig>> /\ lost \subseteq lost'
        /\ op[o].at \in Places \ {"resolve"}
    BY <1>10, RecoverMoves DEF Recover, Places
  <2>4. /\ op[o].stk \in Stacks /\ op[o].stk \in rows /\ op[o].url = Backend
        /\ Active(op[o].stk) = Mine(o)
    BY <1>10, <2>2, <2>3, OpFields DEF TypeOK, RowsInv, AnnouncedInv, Active, Mine
  <2>5. op[o].stk \notin Foreign => cloud[op[o].stk] \subseteq lost \cup Mine(o).known \cup Mine(o).pending
    BY <2>2, <2>4 DEF HeldInv
  <2>6. /\ State(Mine(o).known \cup (Mine(o).pending \cap Mine(o).named), {}, {}).known = (Mine(o).known \cup (Mine(o).pending \cap Mine(o).named))
        /\ State(Mine(o).known \cup (Mine(o).pending \cap Mine(o).named), {}, {}).pending = {}
    BY StateFields
  <2>7. Wrote(o, State(Mine(o).known \cup (Mine(o).pending \cap Mine(o).named), {}, {})) /\ Goes(o, "recovered")
    BY <1>10, RecoverMoves
  <2>8. \A s \in Stacks : s # op[o].stk => cloud'[s] = cloud[s]
    BY <1>10 DEF Recover, TypeOK
  <2>9. op[o].stk \notin Foreign => cloud'[op[o].stk] \subseteq lost' \cup (Mine(o).known \cup (Mine(o).pending \cap Mine(o).named)) \cup ({})
    BY <1>10, <2>4, <2>5 DEF Recover, TypeOK
  <2> DEFINE c == State(Mine(o).known \cup (Mine(o).pending \cap Mine(o).named), {}, {})
  <2>10. Wrote(o, c) /\ (op[o].stk \notin Foreign => cloud'[op[o].stk] \subseteq lost' \cup c.known \cup c.pending)
    BY <2>6, <2>7, <2>9
  <2> HIDE DEF c
  <2>11. QED
    BY <2>2, <2>3, <2>7, <2>8, <2>10, Worked
<1>11. ASSUME NEW o \in Ops, Refresh(o)
      PROVE  CalmInv'
  <2>1. SUFFICES ASSUME Calm'
                  PROVE  (RowsInv /\ CopiesInv /\ AnnouncedInv /\ HeldInv)'
    BY DEF CalmInv
  <2>2. RowsInv /\ CopiesInv /\ AnnouncedInv /\ HeldInv
    BY <1>11, <2>1 DEF Refresh, Calm, CalmInv
  <2>3. /\ UNCHANGED <<settings, rows, secret, del, mig>> /\ lost \subseteq lost'
        /\ op[o].at \in Places \ {"resolve"}
    BY <1>11, RefreshMoves DEF Refresh, Places
  <2>4. /\ op[o].stk \in Stacks /\ op[o].stk \in rows /\ op[o].url = Backend
        /\ Active(op[o].stk) = Mine(o)
    BY <1>11, <2>2, <2>3, OpFields DEF TypeOK, RowsInv, AnnouncedInv, Active, Mine
  <2>5. op[o].stk \notin Foreign => cloud[op[o].stk] \subseteq lost \cup Mine(o).known \cup Mine(o).pending
    BY <2>2, <2>4 DEF HeldInv
  <2>6. /\ State(Mine(o).known \cap cloud[op[o].stk], Mine(o).pending, Mine(o).named).known = (Mine(o).known \cap cloud[op[o].stk])
        /\ State(Mine(o).known \cap cloud[op[o].stk], Mine(o).pending, Mine(o).named).pending = Mine(o).pending
    BY StateFields
  <2>7. Wrote(o, State(Mine(o).known \cap cloud[op[o].stk], Mine(o).pending, Mine(o).named)) /\ Ends(o)
    BY <1>11, RefreshMoves
  <2>8. \A s \in Stacks : s # op[o].stk => cloud'[s] = cloud[s]
    BY <1>11 DEF Refresh, TypeOK
  <2>9. op[o].stk \notin Foreign => cloud'[op[o].stk] \subseteq lost' \cup (Mine(o).known \cap cloud[op[o].stk]) \cup (Mine(o).pending)
    BY <1>11, <2>4, <2>5 DEF Refresh, TypeOK
  <2>10. QED
    BY <2>2, <2>3, <2>6, <2>7, <2>8, <2>9, Worked
<1>12. ASSUME NEW o \in Ops, Destroy(o)
      PROVE  CalmInv'
  <2>1. SUFFICES ASSUME Calm'
                  PROVE  (RowsInv /\ CopiesInv /\ AnnouncedInv /\ HeldInv)'
    BY DEF CalmInv
  <2>2. RowsInv /\ CopiesInv /\ AnnouncedInv /\ HeldInv
    BY <1>12, <2>1 DEF Destroy, Calm, CalmInv
  <2>3. /\ UNCHANGED <<settings, rows, secret, del, mig>> /\ lost \subseteq lost'
        /\ op[o].at \in Places \ {"resolve"}
    BY <1>12, DestroyMoves DEF Destroy, Places
  <2>4. /\ op[o].stk \in Stacks /\ op[o].stk \in rows /\ op[o].url = Backend
        /\ Active(op[o].stk) = Mine(o)
    BY <1>12, <2>2, <2>3, OpFields DEF TypeOK, RowsInv, AnnouncedInv, Active, Mine
  <2>5. op[o].stk \notin Foreign => cloud[op[o].stk] \subseteq lost \cup Mine(o).known \cup Mine(o).pending
    BY <2>2, <2>4 DEF HeldInv
  <2>6. /\ State({}, Mine(o).pending, Mine(o).named).known = {}
        /\ State({}, Mine(o).pending, Mine(o).named).pending = Mine(o).pending
    BY StateFields
  <2>7. Wrote(o, State({}, Mine(o).pending, Mine(o).named)) /\ Ends(o)
    BY <1>12, DestroyMoves
  <2>8. \A s \in Stacks : s # op[o].stk => cloud'[s] = cloud[s]
    BY <1>12 DEF Destroy, TypeOK
  <2>9. op[o].stk \notin Foreign => cloud'[op[o].stk] \subseteq lost' \cup {} \cup (Mine(o).pending)
    BY <1>12, <2>4, <2>5 DEF Destroy, TypeOK
  <2>10. QED
    BY <2>2, <2>3, <2>6, <2>7, <2>8, <2>9, Worked
<1>13. ASSUME NEW m \in Migrations, NEW to \in Backends, List(m, to)
      PROVE  CalmInv'
  <2>1. SUFFICES ASSUME Calm'
                  PROVE  (RowsInv /\ CopiesInv /\ AnnouncedInv /\ HeldInv)'
    BY DEF CalmInv
  <2>2. /\ Calm /\ RowsInv /\ CopiesInv /\ AnnouncedInv /\ HeldInv
        /\ ~Migrating /\ \A s \in Stacks : del[s] = "idle"
    BY <1>13, <2>1, BoundsAssumption DEF List, Surprise, Calm, CalmInv, TypeOK
  <2>3. \A n \in Migrations : mig[n].place = "idle" /\ ~Working(n)
    BY <2>2, Idles
  <2>4. /\ UNCHANGED <<keys, rows, secret, del, state, cloud, op>>
        /\ keys /\ \A n \in Migrations : n # m => mig'[n] = mig[n]
    BY <1>13, ListMoves DEF List
  <2>5. CASE /\ secret = {} /\ chosen' = to /\ mig' = mig
             /\ lost' = lost \cup LeftBehind(to, {})
    <3>1. \A o \in Ops : op[o].at \notin Places
      BY <2>2, <2>5, OpFields DEF RowsInv
    <3>2. RowsInv' /\ CopiesInv'
      BY <2>2, <2>3, <2>4, <2>5 DEF RowsInv, CopiesInv, Working
    <3>3. AnnouncedInv'
      BY <2>4, <3>1 DEF AnnouncedInv, Places
    <3>4. HeldInv'
      BY <1>13, <2>2, <2>4, <2>5, LeftBehindHeld
    <3>5. QED
      BY <3>2, <3>3, <3>4
  <2>6. CASE /\ UNCHANGED <<chosen, lost>> /\ mig'[m].place = "check" /\ mig'[m].to = to
             /\ mig'[m].list = secret /\ mig'[m].moved = {}
    <3>1. \A n \in Migrations : Working(n)' => n = m
      BY <2>3, <2>4 DEF Working
    <3>2. \A o \in Ops : op[o].stk # None => op[o].stk \in secret
      BY <2>2 DEF RowsInv
    <3>3. CopiesInv'
      BY SMTT(30), <2>4, <2>6, <3>1, <3>2 DEF CopiesInv, TypeOK
    <3>4. RowsInv'
      BY SMTT(30), <2>2, <2>4, <2>6 DEF RowsInv
    <3>5. AnnouncedInv' /\ HeldInv'
      BY <2>2, <2>4, <2>6 DEF AnnouncedInv, HeldInv, Mine, Active, Backend
    <3>6. QED
      BY <3>3, <3>4, <3>5
  <2>7. QED
    BY <1>13, <2>5, <2>6, ListMoves
<1>14. ASSUME NEW m \in Migrations, Check(m)
      PROVE  CalmInv'
  <2>1. SUFFICES ASSUME Calm'
                  PROVE  (RowsInv /\ CopiesInv /\ AnnouncedInv /\ HeldInv)'
    BY DEF CalmInv
  <2>2. RowsInv /\ CopiesInv /\ AnnouncedInv /\ HeldInv
    BY <1>14, <2>1 DEF Check, Calm, CalmInv
  <2>3. /\ Working(m) /\ keys /\ mig[m].list \subseteq rows
        /\ \A n \in Migrations : n # m => ~Working(n) /\ mig'[n] = mig[n]
        /\ IF mig[m].place = "check"
           THEN mig[m].moved = {} /\ \A o \in Ops : op[o].stk # None => op[o].stk \in mig[m].list
           ELSE \A o \in Ops : op[o].stk = None
        /\ mig[m].to # chosen =>
              /\ \A t \in mig[m].moved :
                    state[mig[m].to]["blueprint"][t] = state[chosen]["blueprint"][t]
              /\ mig[m].place = "import" =>
                    mig[m].buffer = state[chosen]["blueprint"][mig[m].cur]
    BY <1>14, <2>2, CheckMoves DEF CopiesInv, Working
  <2>4. UNCHANGED <<settings, rows, secret, del, state, cloud, op, lost>>
    BY SMTT(30), <1>14 DEF Check, settings
  <2>5. AnnouncedInv' /\ HeldInv'
    BY <2>2, <2>4 DEF AnnouncedInv, HeldInv, Mine, Active, Backend, settings
  <2>6. /\ mig[m].place = "check"
        /\ \/ mig'[m].place = "idle"
           \/ /\ mig'[m].place = "export" /\ mig[m].list \cap Running = {}
              /\ mig'[m].to = mig[m].to /\ mig'[m].list = mig[m].list
              /\ mig'[m].moved = mig[m].moved
    BY <1>14, CheckMoves
  <2>7. mig[m].list \cap Running = {} => \A o \in Ops : op[o].stk = None
    BY <2>3, <2>6 DEF Running
  <2>8. CopiesInv'
    BY <2>3, <2>4, <2>6, <2>7 DEF CopiesInv, Working, settings
  <2>9. RowsInv'
    BY <2>2, <2>3, <2>4 DEF RowsInv
  <2>10. QED
    BY <2>5, <2>8, <2>9
<1>15. ASSUME NEW m \in Migrations, NEW s \in Stacks, Export(m, s)
      PROVE  CalmInv'
  <2>1. SUFFICES ASSUME Calm'
                  PROVE  (RowsInv /\ CopiesInv /\ AnnouncedInv /\ HeldInv)'
    BY DEF CalmInv
  <2>2. RowsInv /\ CopiesInv /\ AnnouncedInv /\ HeldInv
    BY <1>15, <2>1 DEF Export, Calm, CalmInv
  <2>3. /\ Working(m) /\ keys /\ mig[m].list \subseteq rows
        /\ \A n \in Migrations : n # m => ~Working(n) /\ mig'[n] = mig[n]
        /\ IF mig[m].place = "check"
           THEN mig[m].moved = {} /\ \A o \in Ops : op[o].stk # None => op[o].stk \in mig[m].list
           ELSE \A o \in Ops : op[o].stk = None
        /\ mig[m].to # chosen =>
              /\ \A t \in mig[m].moved :
                    state[mig[m].to]["blueprint"][t] = state[chosen]["blueprint"][t]
              /\ mig[m].place = "import" =>
                    mig[m].buffer = state[chosen]["blueprint"][mig[m].cur]
    BY <1>15, <2>2, ExportMoves DEF CopiesInv, Working
  <2>4. UNCHANGED <<settings, rows, secret, del, state, cloud, op, lost>>
    BY SMTT(30), <1>15 DEF Export, settings
  <2>5. AnnouncedInv' /\ HeldInv'
    BY <2>2, <2>4 DEF AnnouncedInv, HeldInv, Mine, Active, Backend, settings
  <2>6. /\ mig[m].place = "export" /\ mig'[m].to = mig[m].to /\ mig'[m].list = mig[m].list
        /\ mig'[m].moved = mig[m].moved
        /\ \/ /\ mig'[m].place = "import" /\ mig'[m].cur = s
              /\ mig'[m].buffer = state[Other(mig[m].to)]["blueprint"][s]
           \/ mig'[m].place = "export"
    BY <1>15, ExportMoves
  <2>7. mig[m].to # chosen => Other(mig[m].to) = chosen
    BY MigrationTyped, ConstantFacts DEF TypeOK
  <2>8. CopiesInv'
    BY <2>3, <2>4, <2>6, <2>7 DEF CopiesInv, Working, settings
  <2>9. RowsInv'
    BY <2>2, <2>3, <2>4 DEF RowsInv
  <2>10. QED
    BY <2>5, <2>8, <2>9
<1>16. ASSUME NEW m \in Migrations, Import(m)
      PROVE  CalmInv'
  <2>1. SUFFICES ASSUME Calm'
                  PROVE  (RowsInv /\ CopiesInv /\ AnnouncedInv /\ HeldInv)'
    BY DEF CalmInv
  <2>2. RowsInv /\ CopiesInv /\ AnnouncedInv /\ HeldInv
    BY <1>16, <2>1 DEF Import, Calm, CalmInv
  <2>3. /\ Working(m) /\ keys /\ mig[m].list \subseteq rows
        /\ \A n \in Migrations : n # m => ~Working(n) /\ mig'[n] = mig[n]
        /\ IF mig[m].place = "check"
           THEN mig[m].moved = {} /\ \A o \in Ops : op[o].stk # None => op[o].stk \in mig[m].list
           ELSE \A o \in Ops : op[o].stk = None
        /\ mig[m].to # chosen =>
              /\ \A t \in mig[m].moved :
                    state[mig[m].to]["blueprint"][t] = state[chosen]["blueprint"][t]
              /\ mig[m].place = "import" =>
                    mig[m].buffer = state[chosen]["blueprint"][mig[m].cur]
    BY <1>16, <2>2, ImportMoves DEF CopiesInv, Working
  <2>4. UNCHANGED <<settings, rows, secret, del, cloud, op>>
    BY <1>16 DEF Import, settings
  <2>5. /\ mig[m].place = "import" /\ mig[m].cur \in Stacks
        /\ mig'[m].place = "export" /\ mig'[m].to = mig[m].to /\ mig'[m].list = mig[m].list
    BY <1>16, ImportMoves
  <2>6. /\ chosen \in Backends /\ mig[m].to \in Backends
        /\ Backend = chosen /\ Backend' = chosen /\ chosen' = chosen /\ keys' = keys
        /\ mig[m].moved \subseteq Stacks
    BY <2>3, <2>4, Selected, MigrationTyped DEF TypeOK, settings
  <2>7. \A o \in Ops : op'[o].at \notin Places
    BY <2>3, <2>4, <2>5, OpFields
  <2>8. AnnouncedInv'
    BY <2>7 DEF AnnouncedInv, Places
  <2>8a. PICK s \in Stacks : s = mig[m].cur
    BY <2>5
  <2> DEFINE old == state[mig[m].to]["blueprint"][s]
  <2>9. \/ /\ mig'[m].moved = mig[m].moved \cup {s}
           /\ \A b \in Backends, p \in Projects, t \in Stacks :
                 state'[b][p][t] = IF b = mig[m].to /\ p = "blueprint" /\ t = s
                                   THEN mig[m].buffer ELSE state[b][p][t]
           /\ lost' = IF mig[m].to = Backend
                      THEN lost \cup (Names(old) \ Names(mig[m].buffer)) ELSE lost
        \/ mig'[m].moved = mig[m].moved /\ UNCHANGED <<state, lost>>
    BY <1>16, <2>8a, ImportMoves
  <2>10. s \in Stacks /\ lost \subseteq lost'
    BY <2>9
  <2>11. \A t \in Stacks : mig[m].to # chosen => state'[chosen]["blueprint"][t] = state[chosen]["blueprint"][t]
    BY <2>6, <2>9, Selected
  <2>12. ASSUME mig[m].to # chosen
         PROVE  \A t \in mig'[m].moved : state'[mig[m].to]["blueprint"][t] = state'[chosen]["blueprint"][t]
    BY <2>3, <2>5, <2>6, <2>9, <2>10, <2>11, <2>12, <2>8a, Selected
  <2>13. CopiesInv'
    BY <2>3, <2>4, <2>5, <2>6, <2>12 DEF CopiesInv, Working
  <2>14. RowsInv'
    BY <2>2, <2>3, <2>4, <2>10 DEF RowsInv
  <2>15. HeldInv'
    <3>1. ASSUME NEW t \in rows \ Foreign, t # s \/ mig[m].to # chosen
          PROVE  Active(t)' = Active(t)
      <4>1. t \in Stacks /\ Project(t) = "blueprint"
        BY <3>1, Lookups DEF TypeOK
      <4>2. state'[chosen]["blueprint"][t] = state[chosen]["blueprint"][t]
        BY <2>6, <2>9, <2>11, <3>1, <4>1, Selected
      <4>3. QED
        BY <2>6, <4>1, <4>2, Lookups
    <3>2. ASSUME s \in rows \ Foreign, mig[m].to = chosen
          PROVE  cloud'[s] \subseteq lost' \cup Active(s)'.known \cup Active(s)'.pending
      <4>1. cloud[s] \subseteq lost \cup Names(old) /\ Active(s) = old
        BY <2>2, <2>6, <3>2, Lookups DEF HeldInv, Names
      <4>2. CASE state' = state
        BY <2>4, <2>6, <2>10, <3>2, <4>1, <4>2, Lookups DEF Names
      <4>3. CASE /\ state'[mig[m].to]["blueprint"][s] = mig[m].buffer
                 /\ lost' = lost \cup (Names(old) \ Names(mig[m].buffer))
        <5>1. Active(s)' = mig[m].buffer
          BY <2>6, <3>2, <4>3, Lookups
        <5>2. cloud'[s] \subseteq lost' \cup Names(mig[m].buffer)
          BY <2>4, <4>1, <4>3
        <5>3. QED
          BY <5>1, <5>2 DEF Names
      <4>4. QED
        BY <2>6, <2>9, <2>10, <3>2, <4>2, <4>3, Selected
    <3>3. \A t \in rows \ Foreign : cloud[t] \subseteq lost' \cup Active(t).known \cup Active(t).pending
      BY <2>2, <2>10 DEF HeldInv
    <3>4. QED
      BY <2>4, <3>1, <3>2, <3>3 DEF HeldInv
  <2>16. QED
    BY <2>8, <2>13, <2>14, <2>15
<1>17. ASSUME NEW m \in Migrations, Switch(m)
      PROVE  CalmInv'
  <2>1. SUFFICES ASSUME Calm'
                  PROVE  (RowsInv /\ CopiesInv /\ AnnouncedInv /\ HeldInv)'
    BY DEF CalmInv
  <2>2. RowsInv /\ CopiesInv /\ AnnouncedInv /\ HeldInv
    BY <1>17, <2>1 DEF Switch, Calm, CalmInv
  <2>3. /\ Working(m) /\ keys /\ mig[m].list \subseteq rows
        /\ \A n \in Migrations : n # m => ~Working(n) /\ mig'[n] = mig[n]
        /\ IF mig[m].place = "check"
           THEN mig[m].moved = {} /\ \A o \in Ops : op[o].stk # None => op[o].stk \in mig[m].list
           ELSE \A o \in Ops : op[o].stk = None
        /\ mig[m].to # chosen =>
              /\ \A t \in mig[m].moved :
                    state[mig[m].to]["blueprint"][t] = state[chosen]["blueprint"][t]
              /\ mig[m].place = "import" =>
                    mig[m].buffer = state[chosen]["blueprint"][mig[m].cur]
    BY <1>17, <2>2, SwitchMoves DEF CopiesInv, Working
  <2>4. UNCHANGED <<keys, rows, secret, del, state, cloud, op>>
    BY <1>17 DEF Switch
  <2>5. /\ mig[m].place = "export" /\ mig'[m].place = "idle" /\ mig[m].to \in Backends
        /\ \/ /\ mig[m].moved = mig[m].list /\ chosen' = mig[m].to
              /\ lost' = lost \cup LeftBehind(mig[m].to, mig[m].list)
           \/ UNCHANGED <<chosen, lost>>
    BY <1>17, SwitchMoves, MigrationTyped
  <2>6. CopiesInv'
    BY <2>3, <2>5 DEF CopiesInv, Working
  <2>7. \A o \in Ops : op'[o].at \notin Places
    BY <2>3, <2>4, <2>5, OpFields
  <2>8. AnnouncedInv'
    BY <2>7 DEF AnnouncedInv, Places
  <2>9. RowsInv'
    BY <2>2, <2>3, <2>4, <2>5 DEF RowsInv
  <2>10. HeldInv'
    <3>1. CASE UNCHANGED <<chosen, lost>>
      BY <2>2, <2>4, <3>1 DEF HeldInv, Active, Backend
    <3>2. CASE /\ mig[m].moved = mig[m].list /\ chosen' = mig[m].to
               /\ lost' = lost \cup LeftBehind(mig[m].to, mig[m].list)
      <4>1. \A s \in mig[m].list \ Foreign : state[mig[m].to]["blueprint"][s] = state[chosen]["blueprint"][s]
        BY <2>3, <3>2
      <4>2. QED
        BY <2>2, <2>3, <2>4, <2>5, <3>2, <4>1, LeftBehindHeld
    <3>3. QED
      BY <2>5, <3>1, <3>2
  <2>11. QED
    BY <2>6, <2>8, <2>9, <2>10
<1>18. ASSUME ChooseBackend
      PROVE  CalmInv'
  <2>1. ~Calm'
    BY <1>18, BoundsAssumption DEF ChooseBackend, Surprise, Calm, TypeOK
  <2>2. QED
    BY <2>1 DEF CalmInv
<1>19. ASSUME PutKeys
      PROVE  CalmInv'
  <2>1. SUFFICES ASSUME Calm'
                  PROVE  (RowsInv /\ CopiesInv /\ AnnouncedInv /\ HeldInv)'
    BY DEF CalmInv
  <2>2. /\ Calm /\ RowsInv /\ CopiesInv /\ AnnouncedInv /\ HeldInv
        /\ chosen = "local"
    BY <1>19, <2>1, BoundsAssumption DEF PutKeys, Surprise, Calm, CalmInv, TypeOK
  <2>3. UNCHANGED <<chosen, rows, secret, del, state, cloud, op, mig, lost>> /\ ~keys
    BY <1>19 DEF PutKeys
  <2>4. Backend' = Backend
    BY <2>2, <2>3 DEF Backend
  <2>5. CopiesInv'
    BY SMTT(30), <2>2, <2>3 DEF CopiesInv, Working
  <2>6. AnnouncedInv' /\ HeldInv'
    BY <2>2, <2>3, <2>4 DEF AnnouncedInv, HeldInv, Mine, Active
  <2>7. RowsInv'
    BY <2>2, <2>3 DEF RowsInv, Working
  <2>8. QED
    BY <2>5, <2>6, <2>7
<1>20. ASSUME Crash
      PROVE  CalmInv'
  <2>1. SUFFICES ASSUME Calm'
                  PROVE  (RowsInv /\ CopiesInv /\ AnnouncedInv /\ HeldInv)'
    BY DEF CalmInv
  <2>2. RowsInv /\ CopiesInv /\ AnnouncedInv /\ HeldInv
    BY <1>20, <2>1 DEF Crash, Calm, CalmInv
  <2>3. /\ UNCHANGED <<settings, rows, secret, state, cloud, lost>>
        /\ \A s \in Stacks : del'[s] = "idle"
        /\ \A n \in Migrations : ~Working(n)'
    BY <1>20, CrashMigrations DEF Crash, Working
  <2>4. \A o \in Ops : op'[o].at \notin Places /\ op'[o].stk = None
    BY <1>20, CrashMoves, OpFacts DEF Places
  <2>5. CopiesInv'
    BY <2>3 DEF CopiesInv
  <2>6. AnnouncedInv' /\ HeldInv'
    BY SMTT(30), <2>2, <2>3, <2>4 DEF AnnouncedInv, HeldInv, Active, Backend, settings, Places
  <2>7. RowsInv'
    BY SMTT(30), <2>2, <2>3, <2>4 DEF RowsInv
  <2>8. QED
    BY <2>5, <2>6, <2>7
<1>21. CASE UNCHANGED vars
  <2>1. SUFFICES ASSUME Calm'
                  PROVE  (RowsInv /\ CopiesInv /\ AnnouncedInv /\ HeldInv)'
    BY DEF CalmInv
  <2>2. RowsInv /\ CopiesInv /\ AnnouncedInv /\ HeldInv
    BY <1>21, <2>1 DEF vars, Calm, CalmInv
  <2>3. UNCHANGED <<settings, rows, secret, del, state, cloud, op, mig, lost>>
    BY <1>21 DEF vars, settings
  <2>4. QED
    BY <2>2, <2>3 DEF RowsInv, CopiesInv, Working, AnnouncedInv, HeldInv, Mine, Active, Backend, settings
<1>22. QED
  BY <1>1, <1>2, <1>2a, <1>2b, <1>3, <1>4, <1>5, <1>6, <1>7, <1>8, <1>9, <1>10, <1>11, <1>12,
     <1>13, <1>14, <1>15, <1>16, <1>17, <1>18, <1>19, <1>20, <1>21
     DEF Next, OpStep, MigrationStep

----------------------------------------------------------------------------
LEMMA Started == Init => IInv
<1> SUFFICES ASSUME Init PROVE IInv
  OBVIOUS
<1>1. TypeOK
  <2>1. /\ TablesTyped /\ CloudTyped
    BY EmptyFields DEF Init, TablesTyped, CloudTyped, Backends, Projects
  <2>2. OpsTyped
    BY OpFacts DEF Init, OpsTyped
  <2>4. MigrationsTyped
    BY RestingFacts DEF Init, MigrationsTyped
  <2>5. Bounded
    BY BoundsAssumption DEF Init, Bounded
  <2>6. QED
    BY <2>1, <2>2, <2>4, <2>5
       DEF TypeOK, TablesTyped, CloudTyped, OpsTyped, MigrationsTyped, Consistent, Bounded
<1>2. OpsInv
  BY OpFacts DEF Init, OpsInv
<1>3. \A m \in Migrations : mig[m].place = "idle" /\ mig[m].buffer = Empty
  BY RestingFacts DEF Init
<1>4. NamedInv
  BY <1>3, EmptyFields DEF Init, NamedInv, WellNamed
<1>5. \A o \in Ops : op[o].at = "idle"
  BY OpFacts DEF Init
<1>6. RowsInv /\ CopiesInv /\ AnnouncedInv /\ HeldInv
  BY <1>3, <1>5, OpFacts DEF Init, RowsInv, CopiesInv, Working, AnnouncedInv, HeldInv, Places
<1>7. QED
  BY <1>1, <1>2, <1>4, <1>6 DEF IInv, CalmInv

\* The invariant is inductive, whatever projects the stacks' programs name.
THEOREM Inductive == Spec => []IInv
<1>1. IInv /\ [Next]_vars => IInv'
  BY TypeStep, OpsStep, NamedStep, CalmStep DEF IInv
<1>2. QED
  BY Started, <1>1, PTL DEF Spec

\* Settings, checkpoints, operations and migrations keep their types; the
\* stack a migration is about to import is on its list and not counted yet.
THEOREM TypeCorrect == Spec => []TypeOK
<1>1. IInv => TypeOK
  BY DEF IInv
<1>2. QED
  BY <1>1, Inductive, PTL

\* Without surprises all that exists of a stack whose program is stored under
\* its blueprint's project name is in its state's sight, or was given up: by a
\* refresh, with the stack, or by a migration that overwrote the live state or
\* left the stack behind.
HeldUnlessForeign ==
    Calm => \A s \in rows \ Foreign : cloud[s] \ lost \subseteq
                Active(s).known \cup Active(s).pending
THEOREM Held == Spec => []HeldUnlessForeign
<1>1. IInv => HeldUnlessForeign
  BY DEF IInv, CalmInv, HeldInv, HeldUnlessForeign
<1>2. QED
  BY <1>1, Inductive, PTL

\* If no stack's program names another project, what exists in the cloud and
\* was not given up is in the active backend's state through interrupted
\* operations, crashes, deletions, failed and repeated migrations in both
\* directions.  Migrations do give up: see Tracked.
THEOREM StaysTracked ==
  ASSUME Foreign = {}
  PROVE  Spec => []Tracked
<1>1. IInv => Tracked
  BY DEF IInv, CalmInv, HeldInv, Tracked, Names
<1>2. QED
  BY <1>1, Inductive, PTL

\* A refresh forgets no creation whose ID is known and leaves none pending,
\* surprises or not, whatever project the program names.
THEOREM RefreshKeeps == Spec => RefreshKeepsNamed
<1> DEFINE Kept(o) == op[o].at = "run" /\ op'[o].at = "recovered" =>
             /\ Mine(o)'.pending = {}
             /\ cloud[op[o].stk] \cap (Mine(o).known \cup Mine(o).named) \subseteq Mine(o)'.known
<1>1. ASSUME IInv, [Next]_vars, NEW o \in Ops, op[o].at = "run", op'[o].at = "recovered"
      PROVE  Recover(o)
  <2>1. TypeOK
    BY <1>1 DEF IInv
  <2>2. op[o] \in AllOps /\ op[o].at # "recovered"
    BY <1>1, <2>1 DEF TypeOK
  <2>3. ASSUME NEW u \in Ops, OpStep(u)
        PROVE  Recover(o)
    <3>1. CASE u # o
      <4>1. op'[o] = op[o]
        BY ZenonT(30), <2>1, <2>3, <3>1, BeginMoves, ResolveMoves, AnnounceMoves, CreateMoves, RecordMoves,
           InterruptMoves, RecoverMoves, RefreshMoves, DestroyMoves
           DEF OpStep, Others, Goes, Ends
      <4>2. QED
        BY <1>1, <2>2, <4>1
    <3>2. CASE u = o
      <4>1. Recover(u) \/ op'[u].at \in {"resolve", "run", "create", "save", "done"}
        BY <2>1, <2>3, OpFacts, BeginMoves, ResolveMoves, AnnounceMoves, CreateMoves, RecordMoves,
           InterruptMoves, RecoverMoves, RefreshMoves, DestroyMoves
           DEF OpStep, Goes, Ends
      <4>2. QED
        BY <1>1, <3>2, <4>1
    <3>3. QED
      BY <3>1, <3>2
  <2>4. ASSUME UNCHANGED op
        PROVE  Recover(o)
    BY <1>1, <2>2, <2>4
  <2>5. ASSUME Crash
        PROVE  Recover(o)
    <3>1. op'[o] \in {Idle, Done}
      BY <2>1, <2>5, CrashMoves
    <3>2. QED
      BY <1>1, <3>1, OpFacts
  <2>6. (\E u \in Ops : OpStep(u)) \/ Crash \/ UNCHANGED op
    BY <1>1, OpUnchanged
  <2>7. QED
    BY <2>3, <2>4, <2>5, <2>6
<1>2. ASSUME IInv, NEW o \in Ops, Recover(o)
      PROVE  Kept(o)
  <2>1. TypeOK /\ NamedInv
    BY <1>2 DEF IInv
  <2> DEFINE k == Mine(o).known \cup (Mine(o).pending \cap Mine(o).named)
  <2>2. /\ op[o].at = "run" /\ Goes(o, "recovered") /\ Wrote(o, State(k, {}, {}))
    BY <1>2, <2>1, RecoverMoves
  <2>3. op[o].at \in Places /\ op[o].stk \in Stacks /\ op[o].url \in Backends
    BY <2>1, <2>2, OpFields DEF Places
  <2>4. Project(op[o].stk) \in Projects
    BY <2>3, ConstantFacts
  <2>5. Mine(o).named \subseteq Mine(o).pending
    BY <2>1, <2>3, <2>4 DEF NamedInv, WellNamed, Mine
  <2>6. State(k, {}, {}).known = k /\ State(k, {}, {}).pending = {}
    BY StateFields
  <2>7. Mine(o)' = State(k, {}, {})
    BY <2>2, <2>3, <2>4, Lookups DEF Goes, Wrote
  <2>8. QED
    BY <2>5, <2>6, <2>7
<1>3. IInv /\ [Next]_vars => [\A o \in Ops : Kept(o)]_vars
  BY <1>1, <1>2
<1>4. QED
  BY <1>3, Inductive, PTL DEF RefreshKeepsNamed, Spec

\* A migration that ends with the switch leaves every stack on its list with
\* the state it had: that MigratesAllState fails is due to programs that name
\* another project, and to nothing else.
THEOREM MigratesAll ==
  ASSUME Foreign = {}
  PROVE  Spec => MigratesAllState
<1> DEFINE Ending(m) == Calm /\ mig[m].place = "export" /\ mig'[m].place = "idle" /\ chosen' # chosen
<1> DEFINE Copied(m) == \A s \in mig[m].list : Active(s).known \subseteq Active(s)'.known
<1>1. ASSUME IInv, [Next]_vars, NEW m \in Migrations, Ending(m)
      PROVE  Switch(m)
  <2>1. TypeOK
    BY <1>1 DEF IInv
  <2>2. (\E n \in Migrations : Switch(n) \/ \E to \in Backends : List(n, to)) \/ ChooseBackend
    BY <1>1 DEF Next, OpStep, MigrationStep, PutStack, CheckIdle, DeleteRow, RemoveStackState,
       Unlock, Begin, Resolve, Announce, Create, Record, Interrupt, Recover, Refresh, Destroy,
       Check, Export, Import, PutKeys, Crash, settings, vars
  <2>3. ~ChooseBackend
    BY <1>1 DEF ChooseBackend
  <2>4. ASSUME NEW n \in Migrations, NEW to \in Backends, List(n, to)
        PROVE  FALSE
    BY <1>1, <2>1, <2>4, ListMoves
  <2>5. ASSUME NEW n \in Migrations, Switch(n)
        PROVE  n = m
    BY <1>1, <2>1, <2>5, SwitchMoves
  <2>6. QED
    BY <2>2, <2>3, <2>4, <2>5
<1>2. ASSUME IInv, NEW m \in Migrations, Ending(m), Switch(m)
      PROVE  Copied(m)
  <2>1. TypeOK /\ CopiesInv
    BY <1>2 DEF IInv, CalmInv
  <2>2. mig[m].moved = mig[m].list /\ chosen' = mig[m].to
    BY <1>2, <2>1, SwitchMoves
  <2>3. /\ keys /\ mig[m].list \subseteq rows
        /\ \A s \in mig[m].moved : state[mig[m].to]["blueprint"][s] = state[chosen]["blueprint"][s]
    BY <1>2, <2>1, <2>2 DEF CopiesInv, Working
  <2>4. UNCHANGED <<keys, state>>
    BY <1>2 DEF Switch
  <2>5. Backend = chosen /\ Backend' = chosen'
    <3>1. chosen \in Backends /\ chosen' \in Backends
      BY <2>1, <2>2, MigrationTyped DEF TypeOK
    <3>2. QED
      BY <2>3, <2>4, <3>1 DEF Backend, Backends
  <2>6. ASSUME NEW s \in mig[m].list
        PROVE  Active(s)' = Active(s)
    BY <2>2, <2>3, <2>4, <2>5, <2>6, Lookups
  <2>7. QED
    BY <2>6
<1>3. IInv /\ [Next]_vars => [\A m \in Migrations : Ending(m) => Copied(m)]_vars
  BY <1>1, <1>2
<1>4. QED
  BY <1>3, Inductive, PTL DEF MigratesAllState, Spec
==============================================================================
