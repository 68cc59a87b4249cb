------------------------ MODULE GroupDeploy_proofs ------------------------
(***************************************************************************)
(* Theorems about GroupDeploy, for every number of workers, nodes,         *)
(* requests and restarts, whatever may fail: the types, what the group's   *)
(* status and groupCancels say, that a destruction takes the primary last, *)
(* that a deployment alone feeds the phases in the right order, and that   *)
(* what it reports deployed is wired.                                      *)
(*                                                                         *)
(* A step of one request changes nothing that another one remembers        *)
(* (PhaseApart), and a deployment that is alone has nobody beside it       *)
(* (RegInv): what it says of the cloud (CloudInv) needs its own steps only *)
(* (the lemmas ...Keeps).                                                  *)
(***************************************************************************)
EXTENDS GroupDeploy, TLAPS, FiniteSetTheorems, FunctionTheorems

----------------------------------------------------------------------------
\* The nodes are finitely many, and are listed in an order.
LEMMA NodesFinite == IsFiniteSet(Nodes)
<1> DEFINE of(w) == {<<w, k>> : k \in 1..NodeCount[w]}
<1> DEFINE all == {of(w) : w \in Workers}
<1>1. ASSUME NEW w \in Workers
      PROVE  IsFiniteSet(of(w))
  <2> DEFINE f == [k \in 1..NodeCount[w] |-> <<w, k>>]
  <2>1. f \in Surjection(1..NodeCount[w], of(w))
    BY DEF Surjection
  <2>2. IsFiniteSet(1..NodeCount[w])
    BY CountAssumption, FS_Interval
  <2>3. QED
    BY <2>1, <2>2, FS_Surjection
<1>2. IsFiniteSet(all)
  <2> DEFINE f == [w \in Workers |-> of(w)]
  <2>1. f \in Surjection(Workers, all)
    BY DEF Surjection
  <2>2. IsFiniteSet(Workers)
    BY CountAssumption, FS_Interval DEF Workers
  <2>3. QED
    BY <2>1, <2>2, FS_Surjection
<1>3. IsFiniteSet(UNION all)
  <2>1. \A T \in all : IsFiniteSet(T)
    BY <1>1
  <2>2. QED
    BY <1>2, <2>1, FS_UNION
<1>4. QED
  BY <1>3 DEF Nodes

LEMMA NodesTyped ==
  ASSUME NEW n \in Nodes
  PROVE  /\ n = <<n[1], n[2]>> /\ n[1] \in Workers /\ n[1] \in Nat
         /\ n[2] \in 1..NodeCount[n[1]] /\ n[2] \in Nat
<1>1. PICK w \in Workers : \E k \in 1..NodeCount[w] : n = <<w, k>>
  BY DEF Nodes
<1>2. PICK k \in 1..NodeCount[w] : n = <<w, k>>
  BY <1>1
<1>3. w \in Nat /\ k \in Nat
  BY CountAssumption DEF Workers
<1>4. QED
  BY <1>2, <1>3

LEMMA ListedFinite ==
  ASSUME NEW read, NEW resolved
  PROVE  /\ Listed(read, resolved) \subseteq Nodes
         /\ IsFiniteSet(Listed(read, resolved))
         /\ Cardinality(Listed(read, resolved)) \in Nat
BY NodesFinite, FS_Subset, FS_CardinalityType DEF Listed

\* Every node of S has its own rank in S.
LEMMA Ranks ==
  ASSUME NEW S, S \subseteq Nodes, IsFiniteSet(S)
  PROVE  /\ \A n \in S : Cardinality(UpTo(S, n)) \in 1..Cardinality(S)
         /\ \A m, n \in S : Cardinality(UpTo(S, m)) = Cardinality(UpTo(S, n)) => m = n
<1>1. ASSUME NEW n \in S
      PROVE  /\ UpTo(S, n) \subseteq S /\ n \in UpTo(S, n)
             /\ IsFiniteSet(UpTo(S, n)) /\ Cardinality(UpTo(S, n)) \in Nat
  <2>1. UpTo(S, n) \subseteq S
    BY DEF UpTo
  <2>2. n[1] \in Nat /\ n[2] \in Nat
    BY NodesTyped
  <2>3. n \in UpTo(S, n)
    BY <2>2 DEF UpTo
  <2>4. QED
    BY <2>1, <2>3, FS_Subset, FS_CardinalityType
<1>2. ASSUME NEW n \in S
      PROVE  Cardinality(UpTo(S, n)) \in 1..Cardinality(S)
  <2>1. Cardinality(UpTo(S, n)) <= Cardinality(S) /\ Cardinality(S) \in Nat
    BY <1>1, FS_Subset, FS_CardinalityType
  <2>2. Cardinality(UpTo(S, n)) # 0
    BY <1>1, FS_EmptySet
  <2>3. QED
    BY <1>1, <2>1, <2>2
<1>3. ASSUME NEW m \in S, NEW n \in S, m # n, m \in UpTo(S, n)
      PROVE  Cardinality(UpTo(S, m)) # Cardinality(UpTo(S, n))
  <2>1. /\ m = <<m[1], m[2]>> /\ n = <<n[1], n[2]>>
        /\ m[1] \in Nat /\ m[2] \in Nat /\ n[1] \in Nat /\ n[2] \in Nat
    BY NodesTyped
  <2>2. m[1] < n[1] \/ (m[1] = n[1] /\ m[2] < n[2])
    <3>1. m[1] < n[1] \/ (m[1] = n[1] /\ m[2] <= n[2])
      BY <1>3 DEF UpTo
    <3>2. m[1] # n[1] \/ m[2] # n[2]
      BY <1>3, <2>1
    <3>3. QED
      BY <2>1, <3>1, <3>2
  <2>3. n \notin UpTo(S, m)
    BY <2>1, <2>2 DEF UpTo
  <2>4. UpTo(S, m) \subseteq UpTo(S, n)
    <3>1. ASSUME NEW x \in UpTo(S, m)
          PROVE  x \in UpTo(S, n)
      <4>1. x \in S /\ (x[1] < m[1] \/ (x[1] = m[1] /\ x[2] <= m[2]))
        BY <3>1 DEF UpTo
      <4>2. x[1] \in Nat /\ x[2] \in Nat
        BY <4>1, NodesTyped
      <4>3. x[1] < n[1] \/ (x[1] = n[1] /\ x[2] <= n[2])
        BY <2>1, <2>2, <4>1, <4>2
      <4>4. QED
        BY <4>1, <4>3 DEF UpTo
    <3>2. QED
      BY <3>1
  <2>5. QED
    BY <1>1, <2>3, <2>4, FS_Subset
<1>4. ASSUME NEW m \in S, NEW n \in S, m # n
      PROVE  Cardinality(UpTo(S, m)) # Cardinality(UpTo(S, n))
  <2>1. m[1] \in Nat /\ m[2] \in Nat /\ n[1] \in Nat /\ n[2] \in Nat
    BY NodesTyped
  <2>2. m \in UpTo(S, n) \/ n \in UpTo(S, m)
    BY <2>1 DEF UpTo
  <2>3. QED
    BY <1>3, <1>4, <2>2
<1>5. QED
  BY <1>2, <1>4

\* Every rank is some node's.
LEMMA RanksTaken ==
  ASSUME NEW S, S \subseteq Nodes, IsFiniteSet(S), NEW i \in 1..Cardinality(S)
  PROVE  \E n \in S : Cardinality(UpTo(S, n)) = i
<1> DEFINE f == [n \in S |-> Cardinality(UpTo(S, n))]
<1>1. f \in Injection(S, 1..Cardinality(S))
  BY Ranks DEF Injection, IsInjective
<1>2. Cardinality(S) \in Nat
  BY FS_CardinalityType
<1>3. IsFiniteSet(1..Cardinality(S)) /\ Cardinality(1..Cardinality(S)) = Cardinality(S)
  BY <1>2, FS_Interval
<1>4. f \in Surjection(S, 1..Cardinality(S))
  BY <1>1, <1>3, FS_Injection
<1>5. QED
  BY <1>4 DEF Surjection

\* The list of addresses has every listed node at its rank.
LEMMA AddressesListed ==
  ASSUME NEW read, NEW resolved
  PROVE  /\ Addresses(read, resolved) \in Seq(Nodes)
         /\ \A n \in Listed(read, resolved) :
               /\ Cardinality(UpTo(Listed(read, resolved), n)) \in DOMAIN Addresses(read, resolved)
               /\ Addresses(read, resolved)[Cardinality(UpTo(Listed(read, resolved), n))] = n
<1> DEFINE S == Listed(read, resolved)
<1> DEFINE at(i) == CHOOSE n \in S : Cardinality(UpTo(S, n)) = i
<1>1. S \subseteq Nodes /\ IsFiniteSet(S) /\ Cardinality(S) \in Nat
  BY ListedFinite
<1>2. Addresses(read, resolved) = [i \in 1..Cardinality(S) |-> at(i)]
  BY DEF Addresses
<1> HIDE DEF S
<1>3. ASSUME NEW i \in 1..Cardinality(S)
      PROVE  at(i) \in S /\ Cardinality(UpTo(S, at(i))) = i
  BY <1>1, RanksTaken
<1>4. Addresses(read, resolved) \in Seq(Nodes)
  <2>1. \A i \in 1..Cardinality(S) : at(i) \in Nodes
    BY <1>1, <1>3
  <2> HIDE DEF at
  <2>2. QED
    BY <1>1, <1>2, <2>1
<1>5. ASSUME NEW n \in S
      PROVE  /\ Cardinality(UpTo(S, n)) \in DOMAIN Addresses(read, resolved)
             /\ Addresses(read, resolved)[Cardinality(UpTo(S, n))] = n
  <2>1. Cardinality(UpTo(S, n)) \in 1..Cardinality(S)
    BY <1>1, Ranks
  <2>2. at(Cardinality(UpTo(S, n))) = n
    BY <1>1, <1>3, <2>1, Ranks
  <2> HIDE DEF at
  <2>3. QED
    BY <1>2, <2>1, <2>2
<1>6. QED
  BY <1>4, <1>5 DEF S

\* With one node each, the i-th worker of the list has the i-th address.
LEMMA PositionLeads ==
  ASSUME NEW all, all \subseteq Workers, \A v \in Workers : NodeCount[v] = 1, NEW w \in all
  PROVE  /\ Cardinality({v \in all : v <= w}) \in DOMAIN Addresses(all, all)
         /\ Addresses(all, all)[Cardinality({v \in all : v <= w})] = <<w, 1>>
<1> DEFINE S == Listed(all, all)
<1> DEFINE before == {v \in all : v <= w}
<1>1. \A v \in all : <<v, 1>> \in S
  <2>1. ASSUME NEW v \in all
        PROVE  <<v, 1>> \in Nodes
    BY <2>1 DEF Nodes
  <2>2. QED
    BY <2>1 DEF Listed
<1>2. \A n \in S : n = <<n[1], 1>> /\ n[1] \in all
  BY NodesTyped DEF Listed
<1>3. \A v \in all : v \in Nat
  BY CountAssumption DEF Workers
<1> HIDE DEF S
<1>4. UpTo(S, <<w, 1>>) \subseteq {<<v, 1>> : v \in before}
  <2>1. ASSUME NEW n \in UpTo(S, <<w, 1>>)
        PROVE  n[1] \in before /\ n = <<n[1], 1>>
    <3>1. n \in S /\ (n[1] < w \/ (n[1] = w /\ n[2] <= 1))
      BY DEF UpTo
    <3>2. QED
      BY <1>2, <1>3, <3>1
  <2>2. QED
    BY <2>1
<1>5. ASSUME NEW v \in before
      PROVE  <<v, 1>> \in UpTo(S, <<w, 1>>)
  <2>1. <<v, 1>> \in S /\ v \in Nat /\ w \in Nat /\ v <= w
    BY <1>1, <1>3, <1>5
  <2>2. QED
    BY <2>1 DEF UpTo
<1> DEFINE f == [v \in before |-> <<v, 1>>]
<1>6. f \in Bijection(before, UpTo(S, <<w, 1>>))
  <2>1. f \in Surjection(before, UpTo(S, <<w, 1>>))
    BY <1>4, <1>5 DEF Surjection
  <2>2. f \in Injection(before, UpTo(S, <<w, 1>>))
    BY <1>5 DEF Injection, IsInjective
  <2>3. QED
    BY <2>1, <2>2 DEF Bijection
<1>7. IsFiniteSet(before)
  <2>1. IsFiniteSet(Workers)
    BY CountAssumption, FS_Interval DEF Workers
  <2>2. QED
    BY <2>1, FS_Subset
<1>8. Cardinality(before) = Cardinality(UpTo(S, <<w, 1>>))
  BY <1>6, <1>7, FS_Bijection DEF ExistsBijection
<1>9. <<w, 1>> \in S
  BY <1>1
<1>10. \A n \in S : /\ Cardinality(UpTo(S, n)) \in DOMAIN Addresses(all, all)
                   /\ Addresses(all, all)[Cardinality(UpTo(S, n))] = n
  BY AddressesListed DEF S
<1> HIDE DEF before
<1>11. QED
  <2>1. /\ Cardinality(UpTo(S, <<w, 1>>)) \in DOMAIN Addresses(all, all)
        /\ Addresses(all, all)[Cardinality(UpTo(S, <<w, 1>>))] = <<w, 1>>
    BY <1>9, <1>10
  <2>2. QED
    BY <1>8, <2>1 DEF before

\* There is a first among workers.
LEMMA FirstWorker ==
  ASSUME NEW T, T \subseteq Workers, T # {}
  PROVE  \E w \in T : \A v \in T : w <= v
<1> DEFINE upTo(w) == {v \in T : v <= w}
<1> DEFINE f == [w \in T |-> Cardinality(upTo(w))]
<1>1. IsFiniteSet(T) /\ Cardinality(T) \in Nat /\ Cardinality(T) # 0 /\ T \subseteq Nat
  <2>1. IsFiniteSet(Workers) /\ Workers \subseteq Nat
    BY CountAssumption, FS_Interval DEF Workers
  <2>2. QED
    BY <2>1, FS_Subset, FS_CardinalityType, FS_EmptySet
<1>2. ASSUME NEW w \in T
      PROVE  /\ upTo(w) \subseteq T /\ w \in upTo(w) /\ IsFiniteSet(upTo(w))
             /\ Cardinality(upTo(w)) \in 1..Cardinality(T)
  <2>1. upTo(w) \subseteq T /\ w \in upTo(w)
    BY <1>1
  <2>2. IsFiniteSet(upTo(w)) /\ Cardinality(upTo(w)) <= Cardinality(T)
    BY <1>1, <2>1, FS_Subset
  <2>3. Cardinality(upTo(w)) \in Nat /\ Cardinality(upTo(w)) # 0
    BY <2>1, <2>2, FS_CardinalityType, FS_EmptySet
  <2> HIDE DEF upTo
  <2>4. QED
    BY <1>1, <2>1, <2>2, <2>3
<1>3. ASSUME NEW v \in T, NEW w \in T, v < w
      PROVE  Cardinality(upTo(v)) # Cardinality(upTo(w))
  <2>1. \A x \in T : x <= v => x <= w
    BY <1>1, <1>3
  <2>2. upTo(v) \subseteq upTo(w)
    BY <2>1
  <2>3. w \notin upTo(v)
    BY <1>1, <1>3
  <2> HIDE DEF upTo
  <2>4. QED
    BY <1>2, <2>2, <2>3, FS_Subset
<1>4. f \in Injection(T, 1..Cardinality(T))
  <2>1. \A v, w \in T : v # w => Cardinality(upTo(v)) # Cardinality(upTo(w))
    BY <1>1, <1>3
  <2> HIDE DEF upTo
  <2>2. QED
    BY <1>2, <2>1 DEF Injection, IsInjective
<1>5. IsFiniteSet(1..Cardinality(T)) /\ Cardinality(1..Cardinality(T)) = Cardinality(T)
  BY <1>1, FS_Interval
<1>6. f \in Surjection(T, 1..Cardinality(T))
  BY <1>4, <1>5, FS_Injection
<1>7. PICK w \in T : Cardinality(upTo(w)) = 1
  <2>1. 1 \in 1..Cardinality(T)
    BY <1>1
  <2> HIDE DEF upTo
  <2>2. QED
    BY <1>6, <2>1 DEF Surjection
<1>8. upTo(w) = {w}
  BY <1>2, <1>7, FS_Singleton
<1>9. QED
  BY <1>1, <1>8

LEMMA NextWorkerFirst ==
  ASSUME NEW h, todo[h] \subseteq Workers, todo[h] # {}
  PROVE  NextWorker(h) \in todo[h]
BY FirstWorker DEF NextWorker

----------------------------------------------------------------------------
\* Configurations.
Shaped(c) == c \in [Members -> Configs] /\ \A m \in Members : c[m] \in ConfigsOf(m)

LEMMA MemberFacts ==
    /\ Primary \in Members /\ Primary \notin Workers /\ Workers \subseteq Members
    /\ Workers \subseteq Nat /\ Members = {Primary} \cup Workers
    /\ ConfigsOf(Primary) = PrimaryConfigs /\ \A w \in Workers : ConfigsOf(w) = WorkerConfigs
    /\ \A m \in Members : ConfigsOf(m) \subseteq Configs /\ Down \notin ConfigsOf(m)
BY CountAssumption, DownAssumption DEF Members, Primary, Workers, ConfigsOf, Configs

LEMMA HandlerFacts ==
    /\ Deploys \subseteq Handlers /\ Destroys \subseteq Handlers /\ Nobody \notin Handlers
    /\ Handlers = Deploys \cup Destroys /\ \A h \in Handlers : h \in Deploys <=> h \notin Destroys
BY NobodyAssumption, HandlersAssumption DEF Handlers

LEMMA PrimaryFields ==
  ASSUME NEW p, NEW a, NEW v, NEW i
  PROVE  /\ PrimaryConfig(p, a, v, i).pool = p /\ PrimaryConfig(p, a, v, i).admits = a
         /\ PrimaryConfig(p, a, v, i).vcns = v /\ PrimaryConfig(p, a, v, i).ips = i
         /\ p \in BOOLEAN /\ a \subseteq Workers /\ v \subseteq Workers /\ i \in Seq(Nodes)
               => PrimaryConfig(p, a, v, i) \in PrimaryConfigs
BY DEF PrimaryConfig, PrimaryConfigs

LEMMA WorkerFields ==
  ASSUME NEW p, NEW d, NEW r, NEW n
  PROVE  /\ WorkerConfig(p, d, r, n).pool = p /\ WorkerConfig(p, d, r, n).drg = d
         /\ WorkerConfig(p, d, r, n).attached = r /\ WorkerConfig(p, d, r, n).port = n
         /\ p \in BOOLEAN /\ d \in BOOLEAN /\ r \in BOOLEAN /\ n \in Nat
               => WorkerConfig(p, d, r, n) \in WorkerConfigs
BY DEF WorkerConfig, WorkerConfigs

LEMMA ConfigFields ==
    /\ \A c \in PrimaryConfigs : /\ c.pool \in BOOLEAN /\ c.admits \subseteq Workers
                                 /\ c.vcns \subseteq Workers /\ c.ips \in Seq(Nodes)
    /\ \A c \in WorkerConfigs : /\ c.pool \in BOOLEAN /\ c.drg \in BOOLEAN
                                /\ c.attached \in BOOLEAN /\ c.port \in Nat
BY DEF PrimaryConfigs, WorkerConfigs

LEMMA NewConfigShaped == Shaped(NewConfig)
<1>1. <<>> \in Seq(Nodes)
  OBVIOUS
<1>2. PrimaryConfig(FALSE, {}, {}, <<>>) \in PrimaryConfigs
  BY <1>1, PrimaryFields
<1>3. WorkerConfig(FALSE, FALSE, FALSE, 0) \in WorkerConfigs
  BY WorkerFields
<1>4. QED
  BY <1>2, <1>3, MemberFacts DEF Shaped, NewConfig

LEMMA ReShaped ==
  ASSUME NEW c, Shaped(c), NEW m \in Members, NEW x \in ConfigsOf(m)
  PROVE  /\ Shaped([c EXCEPT ![m] = x]) /\ [c EXCEPT ![m] = x][m] = x
         /\ \A n \in Members : n # m => [c EXCEPT ![m] = x][n] = c[n]
BY MemberFacts DEF Shaped

\* What the types say, table by table.
PlainTyped ==
    /\ status \in {"absent", "configuring", "deploying", "deployed", "partial",
                   "failed", "destroying", "destroyed", "deleted"}
    /\ given \in BOOLEAN /\ creating \in BOOLEAN /\ members \subseteq Members
    /\ cancels \in Handlers \cup {Nobody}
    /\ mapNil \in BOOLEAN /\ mutex \in BOOLEAN /\ crashes \in 0..MaxCrashes
CloudTyped ==
    /\ cloud \in [Members -> Configs \cup {Down}]
    /\ \A m \in Members : cloud[m] \in ConfigsOf(m) \cup {Down}
MemTyped ==
    /\ mem \in [Handlers -> [Members -> Configs]]
    /\ \A h \in Handlers : Shaped(mem[h])
ControlTyped ==
    /\ busy \in [Members -> Handlers \cup {Nobody}]
    /\ pc \in [Handlers -> DeployPhases \cup
               {"idle", "register", "begun", "wait", "leave", "panicked"} \cup Over]
    /\ job \in [Destroys -> {"none", "workers", "primary", "done"}]
    /\ cut \in [Handlers -> BOOLEAN] /\ alone \in [Handlers -> BOOLEAN]
KnownOnes == [outputs : BOOLEAN, read : SUBSET Workers, resolved : SUBSET Workers]
WorkTyped ==
    /\ todo \in [Handlers -> SUBSET Members]
    /\ failed \in [Handlers -> SUBSET Workers]
    /\ known \in [Handlers -> KnownOnes]
    /\ tries \in [Handlers -> 0..MaxAttempts]

LEMMA Types ==
  ASSUME TypeOK
  PROVE  PlainTyped /\ Shaped(row) /\ CloudTyped /\ MemTyped /\ ControlTyped /\ WorkTyped
BY DEF TypeOK, PlainTyped, Shaped, CloudTyped, MemTyped, ControlTyped, WorkTyped, KnownOnes

LEMMA TypesNext ==
  ASSUME PlainTyped', Shaped(row)', CloudTyped', MemTyped', ControlTyped', WorkTyped'
  PROVE  TypeOK'
BY DEF TypeOK, PlainTyped, Shaped, CloudTyped, MemTyped, ControlTyped, WorkTyped, KnownOnes

LEMMA KnownFields ==
    /\ \A o, r, a : /\ Known(o, r, a).outputs = o /\ Known(o, r, a).read = r
                    /\ Known(o, r, a).resolved = a
    /\ \A o \in BOOLEAN, r \in SUBSET Workers, a \in SUBSET Workers : Known(o, r, a) \in KnownOnes
    /\ \A k \in KnownOnes : /\ k.outputs \in BOOLEAN /\ k.read \subseteq Workers
                            /\ k.resolved \subseteq Workers
BY DEF Known, KnownOnes

LEMMA Saved ==
  ASSUME Shaped(row), NEW h, NEW ms, NEW c, Shaped(c), Save(h, ms, c)
  PROVE  /\ Shaped(row')
         /\ \A m \in Members : row'[m] \in {row[m], c[m]}
         /\ \A m \in Members : m \notin ms => row'[m] = row[m]
         /\ ~WritesMayFail => \A m \in Members : m \in ms => row'[m] = c[m]
BY DEF Save, Shaped

LEMMA Remembered ==
  ASSUME MemTyped, NEW h \in Handlers, NEW m \in Members, NEW c \in ConfigsOf(m), Config(h, m, c)
  PROVE  /\ MemTyped' /\ mem'[h] = [mem[h] EXCEPT ![m] = c] /\ mem'[h][m] = c
         /\ \A n \in Members : n # m => mem'[h][n] = mem[h][n]
         /\ \A y \in Handlers : y # h => mem'[y] = mem[y]
<1>1. mem' = [mem EXCEPT ![h] = [mem[h] EXCEPT ![m] = c]]
  BY DEF Config, MemTyped
<1>2. Shaped(mem[h])
  BY DEF MemTyped
<1>3. Shaped([mem[h] EXCEPT ![m] = c])
  BY <1>2, ReShaped
<1>4. QED
  BY <1>1, <1>2, <1>3, ReShaped DEF MemTyped, Shaped

LEMMA Ended ==
  ASSUME CloudTyped, ControlTyped, NEW h \in Handlers, NEW m \in Members,
         NEW c \in ConfigsOf(m) \cup {Down}, NEW ok \in BOOLEAN, End(h, m, c, ok)
  PROVE  /\ CloudTyped' /\ busy' \in [Members -> Handlers \cup {Nobody}]
         /\ \A n \in Members : n # m => cloud'[n] = cloud[n] /\ busy'[n] = busy[n]
         /\ cloud'[m] \in {cloud[m], c} /\ busy'[m] \in {busy[m], Nobody}
         /\ busy'[m] # h \/ busy' = busy
         /\ ok => cloud'[m] = c
BY MemberFacts, HandlerFacts DEF CloudTyped, ControlTyped, End
----------------------------------------------------------------------------
\* The inductive invariant.  First, which places a request can be in: a
\* destruction's handler waits while its goroutine works, and nobody serves
\* a group that was not created yet.
PlacesInv ==
    /\ \A h \in Deploys : pc[h] \in DeployPhases \cup {"idle", "leave", "panicked"} \cup Over
    /\ \A h \in Destroys :
          /\ pc[h] \in {"idle", "register", "begun", "wait", "leave", "panicked"} \cup Over
          /\ job[h] # "none" => pc[h] \in {"wait", "leave"} \cup Over
    /\ status = "absent" =>
          members = {} /\ ~creating /\ \A h \in Handlers : pc[h] = "idle"

\* A destruction holds a worker only while it has that worker to do, and the
\* primary only when no worker is left to do.
HoldInv ==
    \A h \in Destroys :
        /\ todo[h] \subseteq Workers
        /\ \A w \in Workers : busy[w] = h => job[h] = "workers" /\ w \in todo[h]
        /\ busy[Primary] = h => job[h] = "primary"
        /\ job[h] = "primary" => todo[h] = {}

\* Nobody is in flight beside a handler that is alone, a deployment that is
\* alone is the registered one, and the registered one is still there.
RegInv ==
    /\ \A h, y \in Handlers : alone[h] /\ InFlight(h) /\ InFlight(y) => y = h
    /\ \A h \in Deploys : alone[h] /\ Deploying(h) => cancels = h
    /\ mapNil => cancels = Nobody
    /\ cancels # Nobody => pc[cancels] \notin {"idle"} \cup Over

\* What a deployment has in memory at each of its places.
Started == {"workers", "up4", "wait4", "route", "up5", "wait6", "apps"}
Routed == {"route", "up5", "wait6", "apps"}
Configured(h, w) ==
    mem[h][w].attached /\ (known[h].outputs => mem[h][w].port = Position(h, w))
TodoInv(h) ==
    /\ pc[h] \in DeployPhases \ {"resolve"} => todo[h] \subseteq Workers
    /\ pc[h] \in {"resolve", "up1", "up15", "up2"} /\ creating => todo[h] \subseteq members
    /\ pc[h] = "up2" => WorkersOf(h) = todo[h]
    /\ pc[h] \in Started => todo[h] \subseteq WorkersOf(h)
    /\ pc[h] \in Started /\ creating => WorkersOf(h) \subseteq members
    /\ pc[h] \in {"up4", "wait4"} => todo[h] = WorkersOf(h)
    /\ pc[h] = "wait4" => tries[h] < MaxAttempts
    /\ pc[h] = "up5" => todo[h] # {}
    /\ pc[h] \in {"wait6", "apps"} => todo[h] = {} /\ failed[h] = {}
ConfigInv(h) ==
    /\ pc[h] \in Started /\ known[h].outputs => \A w \in WorkersOf(h) : mem[h][w].drg
    /\ pc[h] \in Started \ {"workers"} =>
          /\ mem[h][Primary].vcns = known[h].read
          /\ mem[h][Primary].ips = Addresses(known[h].read, known[h].resolved)
    /\ pc[h] \in Routed => \A w \in WorkersOf(h) \ todo[h] : Configured(h, w)
    /\ pc[h] = "up5" => Configured(h, NextWorker(h))

\* What runs is what a deployment that is alone has in memory.
CloudInv(h) ==
    alone[h] /\ pc[h] \in Started =>
        /\ cloud[Primary] # Down /\ cloud[Primary].admits = WorkersOf(h)
        /\ pc[h] \in Routed =>
              /\ cloud[Primary] = mem[h][Primary]
              /\ \A w \in WorkersOf(h) \ (todo[h] \cup failed[h]) : cloud[w] = mem[h][w]
              /\ ~WritesMayFail => \A w \in WorkersOf(h) \ todo[h] : row[w] = mem[h][w]
        /\ pc[h] = "up5" /\ ~WritesMayFail => row[NextWorker(h)] = mem[h][NextWorker(h)]
DeployInv(h) == TodoInv(h) /\ ConfigInv(h) /\ CloudInv(h)

IInv == /\ TypeOK /\ PlacesInv /\ HoldInv /\ RegInv /\ QuietStatusFinal
        /\ \A h \in Deploys : DeployInv(h)
----------------------------------------------------------------------------
\* A step of a deployment, other than its end.
Phase(h) ==
    \/ Resolve(h) \/ BeginUp(h) \/ Phase1(h) \/ Phase15(h) \/ Phase2(h)
    \/ (\E w \in Workers : WorkerUp(h, w)) \/ AfterWorkers(h)
    \/ Phase4(h) \/ Retry4(h) \/ Route(h) \/ Phase5(h) \/ Wait6(h) \/ Apps(h)
    \/ DeployPanics(h)

\* Nothing of what handler y remembers changes.
Remembers(y) == /\ todo'[y] = todo[y] /\ failed'[y] = failed[y] /\ known'[y] = known[y]
                /\ tries'[y] = tries[y] /\ mem'[y] = mem[y]

LEMMA StatusSet ==
  ASSUME NEW s \in {"failed", "partial", "deployed", "destroying", "destroyed"}, SetStatus(s)
  PROVE  status' \in {status, s} /\ status' # "deploying" /\ (status' = s \/ status' = "deleted")
BY DEF SetStatus

\* It moves only its own handler on.
LEMMA PhaseGoes ==
  ASSUME ControlTyped, NEW h \in Deploys, Phase(h)
  PROVE  /\ Deploying(h)
         /\ \E x \in DeployPhases \cup {"leave", "panicked"} : pc' = [pc EXCEPT ![h] = x]
         /\ UNCHANGED <<group, registry, job, cut, history>>
<1> USE DEF Goto, Finish, Deploying, DeployPhases, group, registry, history
<1>1. CASE Resolve(h)
  BY <1>1 DEF Resolve
<1>2. CASE BeginUp(h)
  <2>1. pc[h] \in DeployPhases
    BY <1>2 DEF BeginUp, Subject
  <2>2. pc' = [pc EXCEPT ![h] = pc[h]]
    BY <1>2 DEF BeginUp, ControlTyped
  <2>3. QED
    BY <1>2, <2>1, <2>2 DEF BeginUp
<1>3. CASE Phase1(h)
  BY <1>3 DEF Phase1
<1>4. CASE Phase15(h)
  BY <1>4 DEF Phase15
<1>5. CASE Phase2(h)
  BY <1>5 DEF Phase2
<1>6. ASSUME NEW w \in Workers, WorkerUp(h, w)
      PROVE  /\ Deploying(h) /\ pc' = [pc EXCEPT ![h] = "workers"]
             /\ UNCHANGED <<group, registry, job, cut, history>>
  BY <1>6 DEF WorkerUp, ControlTyped
<1>7. CASE AfterWorkers(h)
  BY <1>7 DEF AfterWorkers, Learn
<1>8. CASE Phase4(h)
  BY <1>8 DEF Phase4
<1>9. CASE Retry4(h)
  BY <1>9 DEF Retry4
<1>10. CASE Route(h)
  BY <1>10 DEF Route
<1>11. CASE Phase5(h)
  BY <1>11 DEF Phase5
<1>12. CASE Wait6(h)
  BY <1>12 DEF Wait6
<1>13. CASE Apps(h)
  BY <1>13 DEF Apps
<1>14. CASE DeployPanics(h)
  BY <1>14 DEF DeployPanics
<1>15. QED
  BY <1>1, <1>2, <1>3, <1>4, <1>5, <1>6, <1>7, <1>8, <1>9, <1>10, <1>11, <1>12, <1>13, <1>14
     DEF Phase

\* The status it may set is a final one.
LEMMA PhaseReports ==
  ASSUME ControlTyped, NEW h \in Deploys, Phase(h)
  PROVE  /\ status' \in {status, "failed", "partial", "deployed"}
         /\ pc'[h] = "leave" => status' # "deploying"
<1> USE StatusSet, HandlerFacts DEF Goto, Finish, ControlTyped
<1>1. CASE Resolve(h)
  BY <1>1 DEF Resolve
<1>2. CASE BeginUp(h)
  BY <1>2 DEF BeginUp, Subject
<1>3. CASE Phase1(h)
  BY <1>3 DEF Phase1
<1>4. CASE Phase15(h)
  BY <1>4 DEF Phase15
<1>5. CASE Phase2(h)
  BY <1>5 DEF Phase2
<1>6. ASSUME NEW w \in Workers, WorkerUp(h, w)
      PROVE  status' = status /\ pc'[h] = "workers"
  BY <1>6 DEF WorkerUp
<1>7. CASE AfterWorkers(h)
  BY <1>7 DEF AfterWorkers, Learn
<1>8. CASE Phase4(h)
  BY <1>8 DEF Phase4
<1>9. CASE Retry4(h)
  BY <1>9 DEF Retry4
<1>10. CASE Route(h)
  BY <1>10 DEF Route
<1>11. CASE Phase5(h)
  BY <1>11 DEF Phase5
<1>12. CASE Wait6(h)
  BY <1>12 DEF Wait6
<1>13. CASE Apps(h)
  BY <1>13 DEF Apps
<1>14. CASE DeployPanics(h)
  BY <1>14 DEF DeployPanics
<1>15. QED
  BY <1>1, <1>2, <1>3, <1>4, <1>5, <1>6, <1>7, <1>8, <1>9, <1>10, <1>11, <1>12, <1>13, <1>14
     DEF Phase

\* It leaves alone what other handlers remember.
LEMMA PhaseApart ==
  ASSUME MemTyped, WorkTyped, NEW h \in Deploys, Phase(h), NEW y \in Handlers, y # h
  PROVE  Remembers(y)
<1> USE HandlerFacts DEF Remembers, MemTyped, WorkTyped, Config
<1>1. CASE Resolve(h)
  BY <1>1 DEF Resolve
<1>2. CASE BeginUp(h)
  BY <1>2 DEF BeginUp
<1>3. CASE Phase1(h)
  BY <1>3 DEF Phase1
<1>4. CASE Phase15(h)
  BY <1>4 DEF Phase15
<1>5. CASE Phase2(h)
  BY <1>5 DEF Phase2
<1>6. ASSUME NEW w \in Workers, WorkerUp(h, w)
      PROVE  Remembers(y)
  BY <1>6 DEF WorkerUp
<1>7. CASE AfterWorkers(h)
  BY <1>7 DEF AfterWorkers, Learn
<1>8. CASE Phase4(h)
  BY <1>8 DEF Phase4
<1>9. CASE Retry4(h)
  BY <1>9 DEF Retry4
<1>10. CASE Route(h)
  BY <1>10 DEF Route
<1>11. CASE Phase5(h)
  BY <1>11 DEF Phase5
<1>12. CASE Wait6(h)
  BY <1>12 DEF Wait6
<1>13. CASE Apps(h)
  BY <1>13 DEF Apps
<1>14. CASE DeployPanics(h)
  BY <1>14 DEF DeployPanics
<1>15. QED
  BY <1>1, <1>2, <1>3, <1>4, <1>5, <1>6, <1>7, <1>8, <1>9, <1>10, <1>11, <1>12, <1>13, <1>14
     DEF Phase

\* It begins and ends operations of its own only.
LEMMA PhaseHolds ==
  ASSUME ControlTyped, NEW h \in Deploys, Phase(h)
  PROVE  /\ busy' \in [Members -> Handlers \cup {Nobody}]
         /\ \A m \in Members : busy'[m] \in {busy[m], h, Nobody}
         /\ \A m \in Members : busy'[m] = h /\ busy[m] # h => BeginUp(h) /\ m \in Subject(h)
<1> USE HandlerFacts, MemberFacts DEF ControlTyped, Up, End
<1>1. CASE Resolve(h)
  BY <1>1 DEF Resolve
<1>2. CASE BeginUp(h)
  BY <1>2 DEF BeginUp, Begin
<1>3. CASE Phase1(h)
  BY <1>3 DEF Phase1
<1>4. CASE Phase15(h)
  BY <1>4 DEF Phase15
<1>5. CASE Phase2(h)
  BY <1>5 DEF Phase2
<1>6. ASSUME NEW w \in Workers, WorkerUp(h, w)
      PROVE  /\ busy' \in [Members -> Handlers \cup {Nobody}]
             /\ \A m \in Members : busy'[m] \in {busy[m], Nobody}
  BY <1>6 DEF WorkerUp
<1>7. CASE AfterWorkers(h)
  BY <1>7 DEF AfterWorkers, Learn
<1>8. CASE Phase4(h)
  BY <1>8 DEF Phase4
<1>9. CASE Retry4(h)
  BY <1>9 DEF Retry4
<1>10. CASE Route(h)
  BY <1>10 DEF Route
<1>11. CASE Phase5(h)
  BY <1>11 DEF Phase5
<1>12. CASE Wait6(h)
  BY <1>12 DEF Wait6
<1>13. CASE Apps(h)
  BY <1>13 DEF Apps
<1>14. CASE DeployPanics(h)
  BY <1>14 DEF DeployPanics
<1>15. QED
  BY <1>1, <1>2, <1>3, <1>4, <1>5, <1>6, <1>7, <1>8, <1>9, <1>10, <1>11, <1>12, <1>13, <1>14
     DEF Phase

----------------------------------------------------------------------------
\* What the steps that change configurations make of them.
LEMMA ResolveConfigs ==
  ASSUME MemTyped, Shaped(row), NEW h \in Handlers, Resolve(h)
  PROVE  MemTyped'
<1> DEFINE new == [m \in Members |->
                      IF m = Primary
                      THEN PrimaryConfig(row[m].pool, row[m].admits, {}, <<>>)
                      ELSE WorkerConfig(row[m].pool, row[m].drg, FALSE, 0)]
<1>1. Shaped(new)
  <2>1. PrimaryConfig(row[Primary].pool, row[Primary].admits, {}, <<>>) \in PrimaryConfigs
    <3>1. row[Primary] \in PrimaryConfigs /\ <<>> \in Seq(Nodes)
      BY MemberFacts DEF Shaped
    <3>2. QED
      BY <3>1, PrimaryFields, ConfigFields
  <2>2. ASSUME NEW w \in Workers
        PROVE  WorkerConfig(row[w].pool, row[w].drg, FALSE, 0) \in WorkerConfigs
    <3>1. row[w] \in WorkerConfigs
      BY MemberFacts DEF Shaped
    <3>2. QED
      BY <3>1, ConfigFields DEF WorkerConfig, WorkerConfigs
  <2>3. QED
    BY <2>1, <2>2, MemberFacts DEF Shaped
<1>2. UNCHANGED mem \/ mem' = [mem EXCEPT ![h] = new]
  BY DEF Resolve
<1> HIDE DEF new
<1>3. QED
  BY <1>1, <1>2 DEF MemTyped, Shaped

\* Phases 1 and 1.5 change the primary's only.
LEMMA PrimaryRemembered ==
  ASSUME MemTyped, Shaped(row), NEW h \in Handlers, NEW c \in PrimaryConfigs,
         Config(h, Primary, c), Save(h, {Primary}, [mem[h] EXCEPT ![Primary] = c])
  PROVE  /\ MemTyped' /\ Shaped(row') /\ mem'[h][Primary] = c
         /\ \A w \in Workers : mem'[h][w] = mem[h][w] /\ row'[w] = row[w]
<1>1. Shaped([mem[h] EXCEPT ![Primary] = c])
  BY MemberFacts, ReShaped DEF MemTyped
<1>2. MemTyped' /\ mem'[h][Primary] = c /\ \A w \in Workers : mem'[h][w] = mem[h][w]
  BY MemberFacts, Remembered
<1>3. Shaped(row') /\ \A w \in Workers : row'[w] = row[w]
  BY <1>1, MemberFacts, Saved
<1>4. QED
  BY <1>2, <1>3

LEMMA Phase1Configs ==
  ASSUME MemTyped, Shaped(row), NEW h \in Handlers, Phase1(h)
  PROVE  MemTyped' /\ Shaped(row')
<1> DEFINE p == mem[h][Primary]
<1> DEFINE c == PrimaryConfig(TRUE, p.admits, p.vcns, p.ips)
<1>1. c \in PrimaryConfigs
  <2>1. p \in PrimaryConfigs
    BY MemberFacts DEF MemTyped, Shaped
  <2>2. QED
    BY <2>1, PrimaryFields, ConfigFields
<1>2. \/ Config(h, Primary, c) /\ Save(h, {Primary}, [mem[h] EXCEPT ![Primary] = c])
      \/ UNCHANGED <<mem, row>>
  BY DEF Phase1
<1> HIDE DEF c
<1>3. CASE UNCHANGED <<mem, row>>
  BY <1>3 DEF MemTyped, Shaped
<1>4. QED
  BY <1>1, <1>2, <1>3, PrimaryRemembered

LEMMA Phase15Configs ==
  ASSUME MemTyped, Shaped(row), NEW h \in Handlers, todo[h] \subseteq Workers, Phase15(h)
  PROVE  /\ MemTyped' /\ Shaped(row') /\ mem'[h][Primary].admits = todo[h]
<1> DEFINE p == mem[h][Primary]
<1> DEFINE c == PrimaryConfig(p.pool, todo[h], p.vcns, p.ips)
<1>1. c \in PrimaryConfigs /\ c.admits = todo[h]
  <2>1. p \in PrimaryConfigs
    BY MemberFacts DEF MemTyped, Shaped
  <2>2. QED
    BY <2>1, PrimaryFields, ConfigFields
<1>2. Config(h, Primary, c) /\ Save(h, {Primary}, [mem[h] EXCEPT ![Primary] = c])
  BY DEF Phase15
<1> HIDE DEF c
<1>3. QED
  BY <1>1, <1>2, PrimaryRemembered

\* Phase 2 gives the workers the DRG, if the outputs are known.
LEMMA Phase2Configs ==
  ASSUME MemTyped, Shaped(row), ControlTyped,
         NEW h \in Handlers, todo[h] \subseteq Workers, Phase2(h)
  PROVE  /\ MemTyped' /\ Shaped(row') /\ mem'[h][Primary] = mem[h][Primary]
         /\ pc'[h] = "workers" /\ known[h].outputs => \A w \in todo[h] : mem'[h][w].drg
<1> DEFINE wired == [m \in Members |->
                        LET c == mem[h][m]
                        IN  IF m \in todo[h] /\ known[h].outputs
                            THEN WorkerConfig(c.pool, TRUE, c.attached, c.port)
                            ELSE c]
<1>1. /\ Shaped(wired) /\ wired[Primary] = mem[h][Primary]
      /\ known[h].outputs => \A w \in todo[h] : wired[w].drg
  <2>1. Shaped(mem[h])
    BY DEF MemTyped
  <2>2. ASSUME NEW w \in Workers
        PROVE  /\ WorkerConfig(mem[h][w].pool, TRUE, mem[h][w].attached, mem[h][w].port)
                      \in WorkerConfigs
               /\ WorkerConfig(mem[h][w].pool, TRUE, mem[h][w].attached, mem[h][w].port).drg
    <3>1. mem[h][w] \in WorkerConfigs
      BY <2>1, MemberFacts DEF Shaped
    <3>2. QED
      BY <3>1, ConfigFields DEF WorkerConfig, WorkerConfigs
  <2>3. QED
    BY <2>1, <2>2, MemberFacts DEF Shaped
<1>2. \/ mem' = [mem EXCEPT ![h] = wired] /\ Save(h, todo[h], wired)
      \/ UNCHANGED <<mem, row>> /\ Goto(h, "leave")
  BY DEF Phase2, Finish
<1> HIDE DEF wired
<1>3. CASE mem' = [mem EXCEPT ![h] = wired] /\ Save(h, todo[h], wired)
  <2>1. Shaped(row')
    BY <1>1, <1>3, Saved
  <2>2. mem'[h] = wired /\ MemTyped'
    BY <1>1, <1>3 DEF MemTyped, Shaped
  <2>3. QED
    BY <1>1, <2>1, <2>2
<1>4. CASE UNCHANGED <<mem, row>> /\ Goto(h, "leave")
  BY <1>4 DEF MemTyped, Shaped, Goto, ControlTyped
<1>5. QED
  BY <1>2, <1>3, <1>4

\* After phase 3 the primary's VCNs and addresses are those of the workers
\* that were read; nobody's tenancy or DRG changes.
LEMMA AfterWorkersConfigs ==
  ASSUME MemTyped, Shaped(row), ControlTyped, WorkTyped, NEW h \in Handlers, AfterWorkers(h)
  PROVE  /\ MemTyped' /\ Shaped(row') /\ WorkTyped'
         /\ mem'[h][Primary].admits = WorkersOf(h)
         /\ \A w \in Workers : mem'[h][w].drg = mem[h][w].drg
         /\ known'[h].outputs = known[h].outputs
         /\ pc'[h] \in {"up4", "leave"}
         /\ pc'[h] = "up4" =>
               /\ mem'[h][Primary].vcns = known'[h].read
               /\ mem'[h][Primary].ips = Addresses(known'[h].read, known'[h].resolved)
               /\ todo'[h] = WorkersOf(h)
<1>1. CASE Finish(h, "partial") /\ UNCHANGED <<row, mem, todo, known, tries>>
  <2>1. pc'[h] = "leave"
    BY <1>1 DEF Finish, Goto, ControlTyped
  <2>2. MemTyped' /\ Shaped(row') /\ WorkTyped'
    BY <1>1 DEF MemTyped, Shaped, WorkTyped, AfterWorkers
  <2>3. QED
    BY <1>1, <2>1, <2>2 DEF WorkersOf
<1>2. WorkersOf(h) \subseteq Workers /\ Shaped(mem[h]) /\ mem[h][Primary] \in PrimaryConfigs
  BY MemberFacts, ConfigFields DEF WorkersOf, MemTyped, Shaped
<1>3. ASSUME NEW read \in SUBSET WorkersOf(h), NEW resolved \in SUBSET WorkersOf(h),
             NEW seen \in SUBSET WorkersOf(h), Learn(h, seen, read, resolved)
      PROVE  /\ MemTyped' /\ Shaped(row') /\ WorkTyped'
             /\ mem'[h][Primary].admits = WorkersOf(h)
             /\ \A w \in Workers : mem'[h][w].drg = mem[h][w].drg
             /\ known'[h].outputs = known[h].outputs
             /\ pc'[h] \in {"up4", "leave"}
             /\ pc'[h] = "up4" =>
                   /\ mem'[h][Primary].vcns = known'[h].read
                   /\ mem'[h][Primary].ips = Addresses(known'[h].read, known'[h].resolved)
                   /\ todo'[h] = WorkersOf(h)
  <2> DEFINE p == mem[h][Primary]
  <2>1. PrimaryConfig(p.pool, p.admits, read, Addresses(read, resolved)) \in PrimaryConfigs
    BY <1>2, AddressesListed, PrimaryFields, ConfigFields
  <2>2. ASSUME NEW w \in Workers
        PROVE  /\ WorkerConfig(TRUE, mem[h][w].drg, mem[h][w].attached, mem[h][w].port)
                      \in WorkerConfigs
               /\ WorkerConfig(TRUE, mem[h][w].drg, mem[h][w].attached, mem[h][w].port).drg
                      = mem[h][w].drg
    <3>1. mem[h][w] \in WorkerConfigs
      BY <1>2, MemberFacts DEF Shaped
    <3>2. QED
      BY <3>1, ConfigFields DEF WorkerConfig, WorkerConfigs
  <2>3. /\ Shaped(Learned(h, seen, read, resolved))
        /\ \A w \in Workers : Learned(h, seen, read, resolved)[w].drg = mem[h][w].drg
    <3>1. ASSUME NEW w \in Workers
          PROVE  /\ Learned(h, seen, read, resolved)[w] \in WorkerConfigs
                 /\ Learned(h, seen, read, resolved)[w].drg = mem[h][w].drg
      BY <1>2, <2>2, MemberFacts DEF Shaped, Learned
    <3>2. Learned(h, seen, read, resolved)[Primary] \in PrimaryConfigs
      BY <1>2, <2>1, MemberFacts DEF Shaped, Learned
    <3>3. Learned(h, seen, read, resolved) = [m \in Members |-> Learned(h, seen, read, resolved)[m]]
      BY DEF Learned
    <3>4. QED
      BY <3>1, <3>2, <3>3, MemberFacts DEF Shaped
  <2>4. /\ Learned(h, seen, read, resolved)[Primary].admits = p.admits
        /\ read # {} => /\ Learned(h, seen, read, resolved)[Primary].vcns = read
                        /\ Learned(h, seen, read, resolved)[Primary].ips = Addresses(read, resolved)
    BY <1>2, MemberFacts DEF PrimaryConfig, Learned
  <2>5. mem'[h] = Learned(h, seen, read, resolved) /\ MemTyped'
    BY <1>3, <2>3 DEF MemTyped, Shaped, Learn
  <2>6. Shaped(row')
    BY <1>3, <2>3, Saved DEF Learn
  <2>7. /\ known'[h] = Known(known[h].outputs, read, resolved)
        /\ known[h].outputs \in BOOLEAN
        /\ read \in SUBSET Workers /\ resolved \in SUBSET Workers
    BY <1>2, <1>3, KnownFields DEF WorkTyped, Learn
  <2>8. WorkTyped'
    <3>1. known' \in [Handlers -> KnownOnes]
      BY <1>3, <2>7, KnownFields DEF WorkTyped, Learn
    <3>2. todo' \in [Handlers -> SUBSET Members]
      BY <1>2, <1>3, MemberFacts DEF WorkTyped, Learn
    <3>3. tries' \in [Handlers -> 0..MaxAttempts]
      BY <1>3, CountAssumption DEF WorkTyped, Learn
    <3>4. QED
      BY <1>3, <3>1, <3>2, <3>3 DEF WorkTyped, AfterWorkers
  <2>9. pc'[h] \in {"up4", "leave"} /\ (pc'[h] = "up4" => read # {})
    BY <1>3 DEF Finish, Goto, ControlTyped, Learn
  <2>10. todo'[h] = WorkersOf(h)
    BY <1>3 DEF WorkTyped, Learn
  <2>11. QED
    BY <2>3, <2>4, <2>5, <2>6, <2>7, <2>8, <2>9, <2>10, KnownFields DEF WorkersOf
<1>4. ASSUME ~(Finish(h, "partial") /\ UNCHANGED <<row, mem, todo, known, tries>>)
      PROVE  \E seen, read, resolved \in SUBSET WorkersOf(h) : Learn(h, seen, read, resolved)
  BY <1>4 DEF AfterWorkers
<1>5. QED
  BY <1>1, <1>3, <1>4

\* Phase 5 changes the next worker's configuration only.
LEMMA RouteConfigs ==
  ASSUME MemTyped, Shaped(row), WorkTyped, NEW h \in Handlers, todo[h] \subseteq Workers, Route(h)
  PROVE  /\ MemTyped' /\ Shaped(row') /\ WorkTyped'
         /\ NextWorker(h) \in todo[h]
         /\ \A m \in Members : m # NextWorker(h) => /\ mem'[h][m] = mem[h][m]
                                                    /\ row'[m] = row[m]
         /\ mem'[h][NextWorker(h)].drg = mem[h][NextWorker(h)].drg
         /\ mem'[h][NextWorker(h)].attached
         /\ known'[h].outputs =>
               known[h].outputs /\ mem'[h][NextWorker(h)].port = Position(h, NextWorker(h))
         /\ known'[h].read = known[h].read /\ known'[h].resolved = known[h].resolved
         /\ ~WritesMayFail => row'[NextWorker(h)] = mem'[h][NextWorker(h)]
<1> DEFINE w == NextWorker(h)
<1> DEFINE c == mem[h][w]
<1> DEFINE new(o) == WorkerConfig(c.pool, c.drg, TRUE, IF o THEN Position(h, w) ELSE c.port)
<1>1. w \in todo[h] /\ w \in Workers
  BY NextWorkerFirst DEF Route
<1> HIDE DEF w
<1>2. PICK o \in BOOLEAN :
         /\ Config(h, w, new(o)) /\ Save(h, {w}, [mem[h] EXCEPT ![w] = new(o)])
         /\ known' = [known EXCEPT ![h] = Known(@.outputs /\ o, @.read, @.resolved)]
  <2>1. MayMiss(h) \in BOOLEAN \/ TRUE
    OBVIOUS
  <2>2. QED
    BY DEF Route, w
<1>3. Position(h, w) \in Nat
  <2>1. IsFiniteSet(Workers)
    BY CountAssumption, FS_Interval DEF Workers
  <2>2. WorkersOf(h) \subseteq Workers
    BY MemberFacts, ConfigFields DEF WorkersOf, MemTyped, Shaped
  <2>3. QED
    BY <2>1, <2>2, FS_Subset, FS_CardinalityType DEF Position
<1>4. c \in WorkerConfigs
  BY <1>1, MemberFacts DEF MemTyped, Shaped
<1>5. /\ new(o) \in WorkerConfigs /\ new(o).drg = c.drg /\ new(o).attached
      /\ o => new(o).port = Position(h, w)
  BY <1>3, <1>4, ConfigFields DEF WorkerConfig, WorkerConfigs
<1> HIDE DEF new
<1>6. w \in Members /\ ConfigsOf(w) = WorkerConfigs
  BY <1>1, MemberFacts
<1>7. /\ MemTyped' /\ mem'[h][w] = new(o)
      /\ \A m \in Members : m # w => mem'[h][m] = mem[h][m]
  BY <1>2, <1>5, <1>6, Remembered
<1>8. /\ Shaped(row') /\ \A m \in Members : m # w => row'[m] = row[m]
      /\ ~WritesMayFail => row'[w] = new(o)
  <2>1. /\ Shaped([mem[h] EXCEPT ![w] = new(o)])
        /\ [mem[h] EXCEPT ![w] = new(o)][w] = new(o)
    BY <1>5, <1>6, ReShaped DEF MemTyped
  <2> DEFINE configs == [mem[h] EXCEPT ![w] = new(o)]
  <2>2. Shaped(configs) /\ configs[w] = new(o) /\ Save(h, {w}, configs)
    BY <1>2, <2>1
  <2> HIDE DEF configs
  <2>3. QED
    BY <1>6, <2>2, Saved
<1>9. /\ known'[h] = Known(known[h].outputs /\ o, known[h].read, known[h].resolved)
      /\ known[h] \in KnownOnes
  BY <1>2 DEF WorkTyped
<1>10. WorkTyped'
  <2>1. (known[h].outputs /\ o) \in BOOLEAN
    BY <1>2
  <2>2. known' \in [Handlers -> KnownOnes]
    BY <1>2, <1>9, <2>1, KnownFields DEF WorkTyped
  <2>3. QED
    BY <2>2 DEF WorkTyped, Route
<1>11. QED
  BY <1>1, <1>5, <1>7, <1>8, <1>9, <1>10, KnownFields DEF w

\* Operations leave configurations of the stack's kind.
LEMMA UpEnded ==
  ASSUME CloudTyped, MemTyped, ControlTyped,
         NEW h \in Handlers, NEW m \in Members, NEW ok \in BOOLEAN, Up(h, m, ok)
  PROVE  /\ CloudTyped' /\ \A n \in Members : n # m => cloud'[n] = cloud[n]
         /\ cloud'[m] \in {cloud[m], mem[h][m]} /\ ok => cloud'[m] = mem[h][m]
<1>1. mem[h][m] \in ConfigsOf(m) \cup {Down} /\ End(h, m, mem[h][m], ok)
  BY DEF MemTyped, Shaped, Up
<1>2. QED
  BY <1>1, Ended

\* A panic leaves an operation or some rows half done, and keeps their kinds.
LEMMA PanicTyped ==
  ASSUME Shaped(row), CloudTyped, MemTyped, ControlTyped, WorkTyped,
         NEW h \in Handlers, DeployPanics(h)
  PROVE  Shaped(row)' /\ CloudTyped' /\ MemTyped' /\ WorkTyped'
<1>1. MemTyped' /\ WorkTyped'
  BY DEF DeployPanics, MemTyped, WorkTyped, Shaped
<1>2. CloudTyped'
  <2>1. \/ UNCHANGED cloud
        \/ Up(h, Primary, TRUE)
        \/ \E ok \in BOOLEAN : End(h, Primary, cloud[Primary], ok)
    BY DEF DeployPanics
  <2>2. Primary \in Members /\ cloud[Primary] \in ConfigsOf(Primary) \cup {Down}
    BY MemberFacts DEF CloudTyped
  <2>3. QED
    BY <2>1, <2>2, UpEnded, Ended DEF CloudTyped
<1>3. Shaped(row')
  <2>1. ASSUME NEW seen \in SUBSET WorkersOf(h), Save(h, seen, Learned(h, seen, {}, {}))
        PROVE  Shaped(row')
    <3>1. Shaped(mem[h]) /\ mem[h][Primary] \in PrimaryConfigs
      BY MemberFacts DEF MemTyped, Shaped
    <3>2. ASSUME NEW m \in Members
          PROVE  Learned(h, seen, {}, {})[m] \in ConfigsOf(m)
      <4>1. CASE m = Primary
        <5>1. seen \subseteq Workers
          BY <3>1, ConfigFields DEF WorkersOf
        <5>2. QED
          BY <3>1, <4>1, <5>1, MemberFacts DEF Learned, Shaped
      <4>2. CASE m # Primary
        <5>1. mem[h][m] \in WorkerConfigs /\ ConfigsOf(m) = WorkerConfigs
          BY <3>1, <4>2, MemberFacts DEF Shaped
        <5>2. WorkerConfig(TRUE, mem[h][m].drg, mem[h][m].attached, mem[h][m].port) \in WorkerConfigs
          BY <5>1, WorkerFields, ConfigFields
        <5>3. QED
          BY <4>2, <5>1, <5>2 DEF Learned
      <4>3. QED
        BY <4>1, <4>2
    <3>3. Shaped(Learned(h, seen, {}, {}))
      <4>1. Learned(h, seen, {}, {}) = [m \in Members |-> Learned(h, seen, {}, {})[m]]
        BY DEF Learned
      <4>2. QED
        BY <3>2, <4>1, MemberFacts DEF Shaped
    <3>4. QED
      BY <2>1, <3>3, Saved
  <2>2. UNCHANGED row \/ \E seen \in SUBSET WorkersOf(h) : Save(h, seen, Learned(h, seen, {}, {}))
    BY DEF DeployPanics
  <2>3. QED
    BY <2>1, <2>2 DEF Shaped
<1>4. QED
  BY <1>1, <1>2, <1>3

\* A step of a deployment keeps the types.
LEMMA PhaseTyped ==
  ASSUME TypeOK, PlacesInv, NEW h \in Deploys, TodoInv(h), Phase(h)
  PROVE  Shaped(row)' /\ CloudTyped' /\ MemTyped' /\ WorkTyped'
<1> USE HandlerFacts
<1>1. h \in Handlers /\ PlainTyped /\ Shaped(row) /\ CloudTyped /\ MemTyped /\ ControlTyped /\ WorkTyped
  BY Types
<1>2. /\ pc[h] # "resolve" /\ pc[h] \in DeployPhases => todo[h] \subseteq Workers
      /\ Primary \in Members /\ Workers \subseteq Members
  BY MemberFacts DEF TodoInv
<1>3. CASE Resolve(h)
  <2>1. MemTyped'
    BY <1>1, <1>3, ResolveConfigs
  <2>2. WorkTyped'
    BY <1>1, <1>3, ZenonT(30) DEF Resolve, WorkTyped
  <2>3. QED
    BY <1>1, <1>3, <2>1, <2>2 DEF Resolve, CloudTyped, Shaped
<1>4. CASE BeginUp(h)
  BY <1>1, <1>4 DEF BeginUp, CloudTyped, MemTyped, WorkTyped, Shaped
<1>5. CASE Phase1(h)
  <2>1. MemTyped' /\ Shaped(row')
    BY <1>1, <1>5, Phase1Configs
  <2>2. CloudTyped'
    <3>1. \E ok \in BOOLEAN : Up(h, Primary, ok)
      BY <1>5 DEF Phase1
    <3>2. QED
      BY <1>1, <1>2, <3>1, UpEnded
  <2>3. WorkTyped'
    BY <1>1, <1>5 DEF Phase1, WorkTyped
  <2>4. QED
    BY <2>1, <2>2, <2>3
<1>6. CASE Phase15(h)
  <2>1. MemTyped' /\ Shaped(row')
    BY <1>1, <1>2, <1>6, Phase15Configs DEF Phase15, DeployPhases
  <2>2. CloudTyped'
    <3>1. \E ok \in BOOLEAN : Up(h, Primary, ok)
      BY <1>6 DEF Phase15
    <3>2. QED
      BY <1>1, <1>2, <3>1, UpEnded
  <2>3. WorkTyped'
    <3>1. PICK o \in {TRUE, ~MayMiss(h)} : known' = [known EXCEPT ![h] = Known(o, {}, {})]
      BY <1>6 DEF Phase15
    <3>2. Known(o, {}, {}) \in KnownOnes
      BY DEF Known, KnownOnes
    <3>3. QED
      BY <1>1, <1>6, <3>1, <3>2 DEF Phase15, WorkTyped
  <2>4. QED
    BY <2>1, <2>2, <2>3
<1>7. CASE Phase2(h)
  <2>1. MemTyped' /\ Shaped(row')
    BY <1>1, <1>2, <1>7, Phase2Configs DEF Phase2, DeployPhases
  <2>2. CloudTyped'
    <3>1. \E ok \in BOOLEAN : Up(h, Primary, ok)
      BY <1>7 DEF Phase2
    <3>2. QED
      BY <1>1, <1>2, <3>1, UpEnded
  <2>3. WorkTyped'
    BY <1>1, <1>7 DEF Phase2, WorkTyped
  <2>4. QED
    BY <2>1, <2>2, <2>3
<1>8. ASSUME NEW w \in Workers, WorkerUp(h, w)
      PROVE  Shaped(row)' /\ CloudTyped' /\ MemTyped' /\ WorkTyped'
  <2>1. CloudTyped'
    <3>1. \E ok \in BOOLEAN : Up(h, w, ok)
      BY <1>8 DEF WorkerUp
    <3>2. QED
      BY <1>1, <1>2, <3>1, UpEnded
  <2>2. WorkTyped'
    BY <1>1, <1>8 DEF WorkerUp, WorkTyped
  <2>3. QED
    BY <1>1, <1>8, <2>1, <2>2 DEF WorkerUp, MemTyped, Shaped
<1>9. CASE AfterWorkers(h)
  <2>1. MemTyped' /\ Shaped(row') /\ WorkTyped'
    BY <1>1, <1>9, AfterWorkersConfigs
  <2>2. QED
    BY <1>1, <1>9, <2>1 DEF AfterWorkers, CloudTyped
<1>10. CASE Phase4(h)
  <2>1. CloudTyped'
    <3>1. \E ok \in BOOLEAN : Up(h, Primary, ok)
      BY <1>10 DEF Phase4
    <3>2. QED
      BY <1>1, <1>2, <3>1, UpEnded
  <2>2. QED
    BY <1>1, <1>10, <2>1 DEF Phase4, MemTyped, WorkTyped, Shaped
<1>11. CASE Retry4(h)
  <2>1. tries[h] + 1 \in 0..MaxAttempts
    BY <1>1, <1>11, CountAssumption DEF Retry4, TodoInv, WorkTyped
  <2>2. QED
    BY <1>1, <1>11, <2>1 DEF Retry4, CloudTyped, MemTyped, WorkTyped, Shaped
<1>12. CASE Route(h)
  <2>1. MemTyped' /\ Shaped(row') /\ WorkTyped'
    BY <1>1, <1>2, <1>12, RouteConfigs DEF Route, DeployPhases
  <2>2. QED
    BY SMTT(30), <1>1, <1>12, <2>1 DEF Route, CloudTyped
<1>13. CASE Phase5(h)
  <2>1. NextWorker(h) \in Workers
    BY <1>2, <1>13, NextWorkerFirst DEF Phase5, TodoInv, DeployPhases
  <2>2. CloudTyped'
    <3>1. \E ok \in BOOLEAN : Up(h, NextWorker(h), ok)
      BY <1>13 DEF Phase5
    <3>2. QED
      BY <1>1, <1>2, <2>1, <3>1, UpEnded
  <2>3. WorkTyped'
    <3>1. \E ok \in BOOLEAN :
             failed' = [failed EXCEPT ![h] = IF ok THEN @ ELSE @ \cup {NextWorker(h)}]
      BY <1>13 DEF Phase5
    <3>2. todo' = [todo EXCEPT ![h] = @ \ {NextWorker(h)}]
      BY <1>13 DEF Phase5
    <3>3. QED
      BY <1>1, <1>13, <2>1, <3>1, <3>2 DEF Phase5, WorkTyped
  <2>4. QED
    BY <1>1, <1>13, <2>2, <2>3 DEF Phase5, MemTyped, Shaped
<1>14. CASE Wait6(h)
  BY <1>1, <1>14 DEF Wait6, CloudTyped, MemTyped, WorkTyped, Shaped
<1>15. CASE Apps(h)
  <2>1. CloudTyped'
    <3>1. \E ok \in BOOLEAN : End(h, Primary, cloud[Primary], ok)
      BY <1>15 DEF Apps
    <3>2. cloud[Primary] \in ConfigsOf(Primary) \cup {Down}
      BY <1>1, <1>2 DEF CloudTyped
    <3>3. QED
      BY <1>1, <1>2, <3>1, <3>2, Ended
  <2>2. QED
    BY <1>1, <1>15, <2>1 DEF Apps, MemTyped, WorkTyped, Shaped
<1>16. CASE DeployPanics(h)
  BY <1>1, <1>2, <1>16, PanicTyped
<1>17. QED
  BY <1>3, <1>4, <1>5, <1>6, <1>7, <1>8, <1>9, <1>10, <1>11, <1>12, <1>13, <1>14, <1>15, <1>16
     DEF Phase

LEMMA DownEnded ==
  ASSUME CloudTyped, NEW h, NEW m \in Members, NEW ok, End(h, m, Down, ok)
  PROVE  CloudTyped'
BY MemberFacts DEF CloudTyped, End

----------------------------------------------------------------------------
\* The types, step by step.
LEMMA TypeStep ==
  ASSUME TypeOK, PlacesInv, \A h \in Deploys : DeployInv(h), [Next]_vars
  PROVE  TypeOK'
<1> USE HandlerFacts, MemberFacts DEF group, registry, history, Over
<1>1. PlainTyped /\ Shaped(row) /\ CloudTyped /\ MemTyped /\ ControlTyped /\ WorkTyped
  BY Types
<1>2. CASE CreateGroup
  <2>1. PlainTyped'
    BY <1>1, <1>2 DEF CreateGroup, PlainTyped
  <2>2. Shaped(row)'
    BY <1>1, <1>2 DEF CreateGroup, Shaped
  <2>3. CloudTyped'
    BY <1>1, <1>2 DEF CreateGroup, CloudTyped
  <2>4. MemTyped'
    BY <1>1, <1>2 DEF CreateGroup, MemTyped, Shaped
  <2>5. ControlTyped'
    BY <1>1, <1>2 DEF CreateGroup, ControlTyped
  <2>6. WorkTyped'
    BY <1>1, <1>2 DEF CreateGroup, WorkTyped
  <2>7. QED
    BY <2>1, <2>2, <2>3, <2>4, <2>5, <2>6, TypesNext
<1>3. ASSUME NEW m \in Members, AddMember(m)
      PROVE  TypeOK'
  <2>1. PlainTyped'
    BY <1>1, <1>3 DEF AddMember, PlainTyped
  <2>2. Shaped(row)'
    BY <1>1, <1>3, NewConfigShaped DEF AddMember, Shaped
  <2>3. CloudTyped'
    BY <1>1, <1>3 DEF AddMember, CloudTyped
  <2>4. MemTyped'
    BY <1>1, <1>3 DEF AddMember, MemTyped, Shaped
  <2>5. ControlTyped'
    BY <1>1, <1>3 DEF AddMember, ControlTyped
  <2>6. WorkTyped'
    BY <1>1, <1>3 DEF AddMember, WorkTyped
  <2>7. QED
    BY <2>1, <2>2, <2>3, <2>4, <2>5, <2>6, TypesNext
<1>4. CASE CreateFails
  <2>1. PlainTyped'
    BY <1>1, <1>4 DEF CreateFails, PlainTyped
  <2>2. Shaped(row)'
    BY <1>1, <1>4 DEF CreateFails, Shaped
  <2>3. CloudTyped'
    BY <1>1, <1>4 DEF CreateFails, CloudTyped
  <2>4. MemTyped'
    BY <1>1, <1>4 DEF CreateFails, MemTyped, Shaped
  <2>5. ControlTyped'
    BY <1>1, <1>4 DEF CreateFails, ControlTyped
  <2>6. WorkTyped'
    BY <1>1, <1>4 DEF CreateFails, WorkTyped
  <2>7. QED
    BY <2>1, <2>2, <2>3, <2>4, <2>5, <2>6, TypesNext
<1>5. CASE DeleteGroup
  <2>1. PlainTyped'
    BY <1>1, <1>5 DEF DeleteGroup, PlainTyped
  <2>2. Shaped(row)'
    BY <1>1, <1>5 DEF DeleteGroup, Shaped
  <2>3. CloudTyped'
    BY <1>1, <1>5 DEF DeleteGroup, CloudTyped
  <2>4. MemTyped'
    BY <1>1, <1>5 DEF DeleteGroup, MemTyped, Shaped
  <2>5. ControlTyped'
    BY <1>1, <1>5 DEF DeleteGroup, ControlTyped
  <2>6. WorkTyped'
    BY <1>1, <1>5 DEF DeleteGroup, WorkTyped
  <2>7. QED
    BY <2>1, <2>2, <2>3, <2>4, <2>5, <2>6, TypesNext
<1>6. CASE CancelGroup
  <2>1. PlainTyped'
    BY <1>1, <1>6 DEF CancelGroup, PlainTyped
  <2>2. Shaped(row)'
    BY <1>1, <1>6 DEF CancelGroup, Shaped
  <2>3. CloudTyped'
    BY <1>1, <1>6 DEF CancelGroup, CloudTyped
  <2>4. MemTyped'
    BY <1>1, <1>6 DEF CancelGroup, MemTyped, Shaped
  <2>5. ControlTyped'
    BY <1>1, <1>6 DEF CancelGroup, ControlTyped
  <2>6. WorkTyped'
    BY <1>1, <1>6 DEF CancelGroup, WorkTyped
  <2>7. QED
    BY <2>1, <2>2, <2>3, <2>4, <2>5, <2>6, TypesNext
<1>7. CASE Restart
  <2>1. PlainTyped'
    <3>1. crashes' \in 0..MaxCrashes
      BY <1>1, <1>7, CountAssumption DEF Restart, PlainTyped
    <3>2. status' \in {status, "failed"}
      BY <1>7 DEF Restart
    <3>3. QED
      BY <1>1, <3>1, <3>2, <1>7 DEF Restart, PlainTyped
  <2>2. Shaped(row)'
    BY <1>1, <1>7 DEF Restart, Shaped
  <2>3. CloudTyped'
    <3>1. ASSUME NEW m \in Members, busy[m] # Nobody, busy[m] \notin Destroys
          PROVE  mem[busy[m]][m] \in ConfigsOf(m)
      BY <1>1, <3>1 DEF ControlTyped, MemTyped, Shaped
    <3>2. PICK applied \in SUBSET {m \in Members : busy[m] # Nobody} :
             cloud' = [m \in Members |->
                         IF m \notin applied THEN cloud[m]
                         ELSE IF busy[m] \in Destroys THEN Down ELSE mem[busy[m]][m]]
      BY <1>7 DEF Restart
    <3>3. ASSUME NEW m \in Members
          PROVE  cloud'[m] \in ConfigsOf(m) \cup {Down}
      BY <1>1, <3>1, <3>2 DEF CloudTyped
    <3>4. QED
      BY <3>2, <3>3 DEF CloudTyped
  <2>4. MemTyped'
    BY <1>7, NewConfigShaped DEF Restart, MemTyped, Shaped
  <2>5. ControlTyped'
    BY <1>1, <1>7 DEF Restart, ControlTyped, DeployPhases
  <2>6. WorkTyped'
    <3>1. Known(FALSE, {}, {}) \in KnownOnes
      BY DEF Known, KnownOnes
    <3>2. 0 \in 0..MaxAttempts
      BY CountAssumption
    <3>3. QED
      BY <3>1, <3>2, <1>7 DEF Restart, WorkTyped
  <2>7. QED
    BY <2>1, <2>2, <2>3, <2>4, <2>5, <2>6, TypesNext
<1>8. ASSUME NEW h \in Deploys, BeginDeploy(h)
      PROVE  TypeOK'
  <2>1. PlainTyped'
    BY <1>1, <1>8 DEF BeginDeploy, PlainTyped
  <2>2. Shaped(row)'
    BY <1>1, <1>8 DEF BeginDeploy, Shaped
  <2>3. CloudTyped'
    BY <1>1, <1>8 DEF BeginDeploy, CloudTyped
  <2>4. MemTyped'
    BY <1>1, <1>8 DEF BeginDeploy, MemTyped, Shaped
  <2>5. ControlTyped'
    BY <1>1, <1>8 DEF BeginDeploy, ControlTyped, Goto, DeployPhases, InFlight, Destroying
  <2>6. WorkTyped'
    BY <1>1, <1>8 DEF BeginDeploy, PlainTyped, WorkTyped
  <2>7. QED
    BY <2>1, <2>2, <2>3, <2>4, <2>5, <2>6, TypesNext
<1>9. ASSUME NEW h \in Deploys, Phase(h)
      PROVE  TypeOK'
  <2>1. Shaped(row)' /\ CloudTyped' /\ MemTyped' /\ WorkTyped'
    BY <1>1, <1>9, PhaseTyped DEF DeployInv
  <2>2. ControlTyped'
    BY <1>1, <1>9, PhaseGoes, PhaseHolds DEF ControlTyped
  <2>3. PlainTyped'
    BY <1>1, <1>9, PhaseGoes, PhaseReports DEF PlainTyped
  <2>4. QED
    BY <2>1, <2>2, <2>3, TypesNext
<1>10. ASSUME NEW h \in Handlers, Leave(h)
      PROVE  TypeOK'
  <2>1. PlainTyped'
    BY <1>1, <1>10 DEF Leave, ForgetCancel, PlainTyped
  <2>2. Shaped(row)'
    BY <1>1, <1>10 DEF Leave, Shaped
  <2>3. CloudTyped'
    BY <1>1, <1>10 DEF Leave, CloudTyped
  <2>4. MemTyped'
    BY <1>1, <1>10, NewConfigShaped DEF Leave, MemTyped, Shaped
  <2>5. ControlTyped'
    BY <1>1, <1>10 DEF Leave, ControlTyped, Goto, DeployPhases
  <2>6. WorkTyped'
    <3>1. known' \in [Handlers -> KnownOnes]
      <4>1. Known(FALSE, {}, {}) \in KnownOnes
        BY DEF Known, KnownOnes
      <4>2. QED
        BY <1>1, <4>1, <1>10 DEF Leave, WorkTyped
    <3>2. tries' \in [Handlers -> 0..MaxAttempts]
      <4>1. 0 \in 0..MaxAttempts
        BY CountAssumption
      <4>2. QED
        BY <1>1, <4>1, <1>10 DEF Leave, WorkTyped
    <3>3. todo' \in [Handlers -> SUBSET Members] /\ failed' \in [Handlers -> SUBSET Workers]
      BY <1>1, <1>10 DEF Leave, WorkTyped
    <3>4. QED
      BY <3>1, <3>2, <3>3 DEF WorkTyped
  <2>7. QED
    BY <2>1, <2>2, <2>3, <2>4, <2>5, <2>6, TypesNext
<1>11. ASSUME NEW h \in Destroys, AskDestroy(h)
      PROVE  TypeOK'
  <2>1. PlainTyped'
    BY <1>1, <1>11 DEF AskDestroy, PlainTyped
  <2>2. Shaped(row)'
    BY <1>1, <1>11 DEF AskDestroy, Shaped
  <2>3. CloudTyped'
    BY <1>1, <1>11 DEF AskDestroy, CloudTyped
  <2>4. MemTyped'
    BY <1>1, <1>11 DEF AskDestroy, MemTyped, Shaped
  <2>5. ControlTyped'
    BY <1>1, <1>11 DEF AskDestroy, ControlTyped, Goto, DeployPhases, InFlight, Destroying
  <2>6. WorkTyped'
    BY <1>1, <1>11 DEF AskDestroy, WorkTyped
  <2>7. QED
    BY <2>1, <2>2, <2>3, <2>4, <2>5, <2>6, TypesNext
<1>12. ASSUME NEW h \in Destroys, Register(h)
      PROVE  TypeOK'
  <2>1. PlainTyped'
    BY <1>1, <1>12 DEF Register, PlainTyped, SetStatus
  <2>2. Shaped(row)'
    BY <1>1, <1>12 DEF Register, Shaped
  <2>3. CloudTyped'
    BY <1>1, <1>12 DEF Register, CloudTyped
  <2>4. MemTyped'
    BY <1>1, <1>12 DEF Register, MemTyped, Shaped
  <2>5. ControlTyped'
    BY <1>1, <1>12 DEF Register, ControlTyped, Goto, DeployPhases
  <2>6. WorkTyped'
    BY <1>1, <1>12 DEF Register, WorkTyped
  <2>7. QED
    BY <2>1, <2>2, <2>3, <2>4, <2>5, <2>6, TypesNext
<1>13. ASSUME NEW h \in Destroys, StartJob(h)
      PROVE  TypeOK'
  <2>1. PlainTyped'
    BY <1>1, <1>13 DEF StartJob, PlainTyped, SetStatus, Finish
  <2>2. Shaped(row)'
    BY <1>1, <1>13 DEF StartJob, Shaped
  <2>3. CloudTyped'
    BY <1>1, <1>13 DEF StartJob, CloudTyped
  <2>4. MemTyped'
    BY <1>1, <1>13 DEF StartJob, MemTyped, Shaped
  <2>5. ControlTyped'
    BY <1>1, <1>13 DEF StartJob, ControlTyped, Goto, Finish, DeployPhases
  <2>6. WorkTyped'
    <3>1. members \subseteq Members
      BY <1>1 DEF PlainTyped
    <3>2. \/ UNCHANGED todo
          \/ \E found \in SUBSET members : todo' = [todo EXCEPT ![h] = found \ {Primary}]
      BY <1>13 DEF StartJob
    <3>3. todo' \in [Handlers -> SUBSET Members]
      <4>1. ASSUME NEW found \in SUBSET members, todo' = [todo EXCEPT ![h] = found \ {Primary}]
            PROVE  todo' \in [Handlers -> SUBSET Members]
        <5>1. found \ {Primary} \in SUBSET Members
          BY <3>1
        <5>2. QED
          BY <1>1, <4>1, <5>1 DEF WorkTyped
      <4>2. QED
        BY <1>1, <3>2, <4>1 DEF WorkTyped
    <3>4. QED
      BY <1>1, <3>3, <1>13 DEF StartJob, WorkTyped
  <2>7. QED
    BY <2>1, <2>2, <2>3, <2>4, <2>5, <2>6, TypesNext
<1>14. ASSUME NEW h \in Destroys, NEW w \in Workers, BeginWorkerDown(h, w)
      PROVE  TypeOK'
  <2>1. PlainTyped'
    BY <1>1, <1>14 DEF BeginWorkerDown, PlainTyped
  <2>2. Shaped(row)'
    BY <1>1, <1>14 DEF BeginWorkerDown, Shaped
  <2>3. CloudTyped'
    BY <1>1, <1>14 DEF BeginWorkerDown, CloudTyped
  <2>4. MemTyped'
    BY <1>1, <1>14 DEF BeginWorkerDown, MemTyped, Shaped
  <2>5. ControlTyped'
    BY <1>1, <1>14 DEF BeginWorkerDown, ControlTyped, Begin
  <2>6. WorkTyped'
    BY <1>1, <1>14 DEF BeginWorkerDown, WorkTyped
  <2>7. QED
    BY <2>1, <2>2, <2>3, <2>4, <2>5, <2>6, TypesNext
<1>15. ASSUME NEW h \in Destroys, NEW w \in Workers, EndWorkerDown(h, w)
      PROVE  TypeOK'
  <2>1. PlainTyped'
    BY <1>1, <1>15 DEF EndWorkerDown, PlainTyped
  <2>2. Shaped(row)'
    BY <1>1, <1>15 DEF EndWorkerDown, Shaped
  <2>3. CloudTyped'
    <3>1. PICK ok \in BOOLEAN : End(h, w, Down, ok)
      BY <1>15 DEF EndWorkerDown
    <3>2. QED
      BY <1>1, <3>1, DownEnded
  <2>4. MemTyped'
    BY <1>1, <1>15 DEF EndWorkerDown, MemTyped, Shaped
  <2>5. ControlTyped'
    BY <1>1, <1>15 DEF EndWorkerDown, ControlTyped, End
  <2>6. WorkTyped'
    BY <1>1, <1>15 DEF EndWorkerDown, WorkTyped
  <2>7. QED
    BY <2>1, <2>2, <2>3, <2>4, <2>5, <2>6, TypesNext
<1>16. ASSUME NEW h \in Destroys, BeginPrimaryDown(h)
      PROVE  TypeOK'
  <2>1. PlainTyped'
    BY <1>1, <1>16 DEF BeginPrimaryDown, PlainTyped
  <2>2. Shaped(row)'
    BY <1>1, <1>16 DEF BeginPrimaryDown, Shaped
  <2>3. CloudTyped'
    BY <1>1, <1>16 DEF BeginPrimaryDown, CloudTyped
  <2>4. MemTyped'
    BY <1>1, <1>16 DEF BeginPrimaryDown, MemTyped, Shaped
  <2>5. ControlTyped'
    BY <1>1, <1>16 DEF BeginPrimaryDown, ControlTyped, Begin
  <2>6. WorkTyped'
    BY <1>1, <1>16 DEF BeginPrimaryDown, WorkTyped
  <2>7. QED
    BY <2>1, <2>2, <2>3, <2>4, <2>5, <2>6, TypesNext
<1>17. ASSUME NEW h \in Destroys, EndPrimaryDown(h)
      PROVE  TypeOK'
  <2>1. PlainTyped'
    BY <1>1, <1>17 DEF EndPrimaryDown, PlainTyped, SetStatus
  <2>2. Shaped(row)'
    BY <1>1, <1>17 DEF EndPrimaryDown, Shaped
  <2>3. CloudTyped'
    <3>1. (\E ok \in BOOLEAN : End(h, Primary, Down, ok)) \/ UNCHANGED cloud
      BY <1>17 DEF EndPrimaryDown
    <3>2. Down \in ConfigsOf(Primary) \cup {Down}
      OBVIOUS
    <3>3. QED
      BY <1>1, <3>1, <3>2, Ended DEF CloudTyped
  <2>4. MemTyped'
    BY <1>1, <1>17 DEF EndPrimaryDown, MemTyped, Shaped
  <2>5. ControlTyped'
    BY <1>1, <1>17 DEF EndPrimaryDown, ControlTyped, End
  <2>6. WorkTyped'
    BY <1>1, <1>17 DEF EndPrimaryDown, WorkTyped
  <2>7. QED
    BY <2>1, <2>2, <2>3, <2>4, <2>5, <2>6, TypesNext
<1>18. ASSUME NEW h \in Destroys, Answer(h)
      PROVE  TypeOK'
  <2>1. PlainTyped'
    BY <1>1, <1>18 DEF Answer, PlainTyped
  <2>2. Shaped(row)'
    BY <1>1, <1>18 DEF Answer, Shaped
  <2>3. CloudTyped'
    BY <1>1, <1>18 DEF Answer, CloudTyped
  <2>4. MemTyped'
    BY <1>1, <1>18 DEF Answer, MemTyped, Shaped
  <2>5. ControlTyped'
    BY <1>1, <1>18 DEF Answer, ControlTyped, Goto, DeployPhases
  <2>6. WorkTyped'
    BY <1>1, <1>18 DEF Answer, WorkTyped
  <2>7. QED
    BY <2>1, <2>2, <2>3, <2>4, <2>5, <2>6, TypesNext
<1>19. ASSUME NEW h \in Destroys, Disconnect(h)
      PROVE  TypeOK'
  <2>1. PlainTyped'
    BY <1>1, <1>19 DEF Disconnect, PlainTyped
  <2>2. Shaped(row)'
    BY <1>1, <1>19 DEF Disconnect, Shaped
  <2>3. CloudTyped'
    BY <1>1, <1>19 DEF Disconnect, CloudTyped
  <2>4. MemTyped'
    BY <1>1, <1>19 DEF Disconnect, MemTyped, Shaped
  <2>5. ControlTyped'
    BY <1>1, <1>19 DEF Disconnect, ControlTyped
  <2>6. WorkTyped'
    BY <1>1, <1>19 DEF Disconnect, WorkTyped
  <2>7. QED
    BY <2>1, <2>2, <2>3, <2>4, <2>5, <2>6, TypesNext
<1>20. ASSUME NEW h \in Destroys, DestroyPanics(h)
      PROVE  TypeOK'
  <2>1. PlainTyped'
    BY <1>1, <1>20 DEF DestroyPanics, PlainTyped
  <2>2. Shaped(row)'
    BY <1>1, <1>20 DEF DestroyPanics, Shaped
  <2>3. CloudTyped'
    BY <1>1, <1>20 DEF DestroyPanics, CloudTyped
  <2>4. MemTyped'
    BY <1>1, <1>20 DEF DestroyPanics, MemTyped, Shaped
  <2>5. ControlTyped'
    BY <1>1, <1>20 DEF DestroyPanics, ControlTyped, Goto, DeployPhases
  <2>6. WorkTyped'
    BY <1>1, <1>20 DEF DestroyPanics, WorkTyped
  <2>7. QED
    BY <2>1, <2>2, <2>3, <2>4, <2>5, <2>6, TypesNext
<1>21. CASE UNCHANGED vars
  BY <1>21 DEF vars, TypeOK
<1>22. QED
  BY <1>2, <1>3, <1>4, <1>5, <1>6, <1>7, <1>8, <1>9, <1>10, <1>11, <1>12, <1>13,
     <1>14, <1>15, <1>16, <1>17, <1>18, <1>19, <1>20, <1>21
     DEF Next, DeployStep, DestroyStep, Phase

\* Every step keeps the places.
LEMMA PlacesStep ==
  ASSUME TypeOK, PlacesInv, [Next]_vars
  PROVE  PlacesInv'
<1> USE HandlerFacts, MemberFacts DEF group, registry, history, Over
<1>1. PlainTyped /\ Shaped(row) /\ CloudTyped /\ MemTyped /\ ControlTyped /\ WorkTyped
  BY Types
<1>2. CASE CreateGroup
  BY <1>1, <1>2 DEF CreateGroup, Goto, Finish, SetStatus, PlacesInv, ControlTyped, DeployPhases
<1>3. ASSUME NEW m \in Members, AddMember(m)
      PROVE  PlacesInv'
  BY <1>1, <1>3 DEF AddMember, Goto, Finish, SetStatus, PlacesInv, ControlTyped, DeployPhases
<1>4. CASE CreateFails
  BY <1>1, <1>4 DEF CreateFails, Goto, Finish, SetStatus, PlacesInv, ControlTyped, DeployPhases
<1>5. CASE DeleteGroup
  BY <1>1, <1>5 DEF DeleteGroup, Goto, Finish, SetStatus, PlacesInv, ControlTyped, DeployPhases
<1>6. CASE CancelGroup
  BY <1>1, <1>6 DEF CancelGroup, Goto, Finish, SetStatus, PlacesInv, ControlTyped, DeployPhases
<1>7. CASE Restart
  BY <1>1, <1>7 DEF Restart, Goto, Finish, SetStatus, PlacesInv, ControlTyped, DeployPhases
<1>8. ASSUME NEW h \in Deploys, BeginDeploy(h)
      PROVE  PlacesInv'
  BY <1>1, <1>8 DEF BeginDeploy, Goto, Finish, SetStatus, PlacesInv, ControlTyped, DeployPhases
<1>9. ASSUME NEW h \in Deploys, Phase(h)
      PROVE  PlacesInv'
  BY <1>1, <1>9, PhaseGoes, PhaseReports DEF PlacesInv, ControlTyped, Deploying, DeployPhases
<1>10. ASSUME NEW h \in Handlers, Leave(h)
      PROVE  PlacesInv'
  BY <1>1, <1>10 DEF Leave, Goto, Finish, SetStatus, PlacesInv, ControlTyped, DeployPhases
<1>11. ASSUME NEW h \in Destroys, AskDestroy(h)
      PROVE  PlacesInv'
  BY <1>1, <1>11 DEF AskDestroy, Goto, Finish, SetStatus, PlacesInv, ControlTyped, DeployPhases
<1>12. ASSUME NEW h \in Destroys, Register(h)
      PROVE  PlacesInv'
  BY <1>1, <1>12 DEF Register, Goto, Finish, SetStatus, PlacesInv, ControlTyped, DeployPhases
<1>13. ASSUME NEW h \in Destroys, StartJob(h)
      PROVE  PlacesInv'
  BY <1>1, <1>13 DEF StartJob, Goto, Finish, SetStatus, PlacesInv, ControlTyped, DeployPhases
<1>14. ASSUME NEW h \in Destroys, NEW w \in Workers, BeginWorkerDown(h, w)
      PROVE  PlacesInv'
  BY <1>1, <1>14 DEF BeginWorkerDown, Goto, Finish, SetStatus, PlacesInv, ControlTyped, DeployPhases
<1>15. ASSUME NEW h \in Destroys, NEW w \in Workers, EndWorkerDown(h, w)
      PROVE  PlacesInv'
  BY <1>1, <1>15 DEF EndWorkerDown, Goto, Finish, SetStatus, PlacesInv, ControlTyped, DeployPhases
<1>16. ASSUME NEW h \in Destroys, BeginPrimaryDown(h)
      PROVE  PlacesInv'
  BY <1>1, <1>16 DEF BeginPrimaryDown, Goto, Finish, SetStatus, PlacesInv, ControlTyped, DeployPhases
<1>17. ASSUME NEW h \in Destroys, EndPrimaryDown(h)
      PROVE  PlacesInv'
  BY <1>1, <1>17 DEF EndPrimaryDown, Goto, Finish, SetStatus, PlacesInv, ControlTyped, DeployPhases
<1>18. ASSUME NEW h \in Destroys, Answer(h)
      PROVE  PlacesInv'
  BY <1>1, <1>18 DEF Answer, Goto, Finish, SetStatus, PlacesInv, ControlTyped, DeployPhases
<1>19. ASSUME NEW h \in Destroys, Disconnect(h)
      PROVE  PlacesInv'
  BY <1>1, <1>19 DEF Disconnect, Goto, Finish, SetStatus, PlacesInv, ControlTyped, DeployPhases
<1>20. ASSUME NEW h \in Destroys, DestroyPanics(h)
      PROVE  PlacesInv'
  BY <1>1, <1>20 DEF DestroyPanics, Goto, Finish, SetStatus, PlacesInv, ControlTyped, DeployPhases
<1>21. CASE UNCHANGED vars
  BY <1>21 DEF vars, PlacesInv
<1>22. QED
  BY <1>2, <1>3, <1>4, <1>5, <1>6, <1>7, <1>8, <1>9, <1>10, <1>11, <1>12, <1>13,
     <1>14, <1>15, <1>16, <1>17, <1>18, <1>19, <1>20, <1>21
     DEF Next, DeployStep, DestroyStep, Phase

\* A destruction's hold on the stacks, step by step.
LEMMA HoldStep ==
  ASSUME TypeOK, PlacesInv, HoldInv, [Next]_vars
  PROVE  HoldInv'
<1> USE HandlerFacts, MemberFacts DEF group, registry, history, Over
<1>1. PlainTyped /\ Shaped(row) /\ CloudTyped /\ MemTyped /\ ControlTyped /\ WorkTyped
  BY Types
<1>2. CASE CreateGroup
  BY <1>1, <1>2 DEF CreateGroup, Begin, End, HoldInv, PlacesInv, ControlTyped, WorkTyped
<1>3. ASSUME NEW m \in Members, AddMember(m)
      PROVE  HoldInv'
  BY <1>1, <1>3 DEF AddMember, Begin, End, HoldInv, PlacesInv, ControlTyped, WorkTyped
<1>4. CASE CreateFails
  BY <1>1, <1>4 DEF CreateFails, Begin, End, HoldInv, PlacesInv, ControlTyped, WorkTyped
<1>5. CASE DeleteGroup
  BY <1>1, <1>5 DEF DeleteGroup, Begin, End, HoldInv, PlacesInv, ControlTyped, WorkTyped
<1>6. CASE CancelGroup
  BY <1>1, <1>6 DEF CancelGroup, Begin, End, HoldInv, PlacesInv, ControlTyped, WorkTyped
<1>7. CASE Restart
  BY <1>1, <1>7 DEF Restart, Begin, End, HoldInv, PlacesInv, ControlTyped, WorkTyped
<1>8. ASSUME NEW h \in Deploys, BeginDeploy(h)
      PROVE  HoldInv'
  BY <1>1, <1>8 DEF BeginDeploy, Begin, End, HoldInv, PlacesInv, ControlTyped, WorkTyped
<1>9. ASSUME NEW h \in Deploys, Phase(h)
      PROVE  HoldInv'
  BY <1>1, <1>9, PhaseGoes, PhaseHolds, PhaseApart DEF HoldInv, ControlTyped, Remembers
<1>10. ASSUME NEW h \in Handlers, Leave(h)
      PROVE  HoldInv'
  BY <1>1, <1>10 DEF Leave, Begin, End, HoldInv, PlacesInv, ControlTyped, WorkTyped
<1>11. ASSUME NEW h \in Destroys, AskDestroy(h)
      PROVE  HoldInv'
  BY <1>1, <1>11 DEF AskDestroy, Begin, End, HoldInv, PlacesInv, ControlTyped, WorkTyped
<1>12. ASSUME NEW h \in Destroys, Register(h)
      PROVE  HoldInv'
  BY <1>1, <1>12 DEF Register, Begin, End, HoldInv, PlacesInv, ControlTyped, WorkTyped
<1>13. ASSUME NEW h \in Destroys, StartJob(h)
      PROVE  HoldInv'
  <2>1. pc[h] = "begun" /\ job[h] = "none" /\ UNCHANGED busy
    BY <1>13 DEF StartJob, PlacesInv
  <2>2. \A y \in Destroys : y # h => job'[y] = job[y] /\ todo'[y] = todo[y]
    BY <1>1, <1>13 DEF StartJob, ControlTyped, WorkTyped
  <2>3. \A m \in Members : busy[m] # h
    BY <2>1 DEF HoldInv
  <2>4. /\ job'[h] \in {"none", "workers"}
        /\ todo'[h] = todo[h] \/ \E found \in SUBSET members : todo'[h] = found \ {Primary}
    BY <1>1, <2>1, <1>13, ZenonT(30) DEF StartJob, ControlTyped, WorkTyped
  <2>5. todo'[h] \subseteq Workers
    BY <1>1, <2>4 DEF HoldInv, PlainTyped
  <2>6. ASSUME NEW y \in Destroys
        PROVE  /\ todo'[y] \subseteq Workers
               /\ \A v \in Workers : busy[v] = y => job'[y] = "workers" /\ v \in todo'[y]
               /\ busy[Primary] = y => job'[y] = "primary"
               /\ job'[y] = "primary" => todo'[y] = {}
    <3>1. CASE y = h
      BY <2>3, <2>4, <2>5, <3>1
    <3>2. CASE y # h
      BY <2>2, <3>2 DEF HoldInv
    <3>3. QED
      BY <3>1, <3>2
  <2>7. QED
    BY <2>1, <2>6 DEF HoldInv
<1>14. ASSUME NEW h \in Destroys, NEW w \in Workers, BeginWorkerDown(h, w)
      PROVE  HoldInv'
  BY <1>1, <1>14 DEF BeginWorkerDown, Begin, End, HoldInv, PlacesInv, ControlTyped, WorkTyped
<1>15. ASSUME NEW h \in Destroys, NEW w \in Workers, EndWorkerDown(h, w)
      PROVE  HoldInv'
  BY <1>1, <1>15 DEF EndWorkerDown, Begin, End, HoldInv, PlacesInv, ControlTyped, WorkTyped
<1>16. ASSUME NEW h \in Destroys, BeginPrimaryDown(h)
      PROVE  HoldInv'
  <2>1. /\ job' = [job EXCEPT ![h] = "primary"] /\ UNCHANGED todo
        /\ job[h] = "workers" /\ todo[h] = {}
    BY <1>16 DEF BeginPrimaryDown, WorkersTried
  <2>2. \A w \in Workers : busy[w] # h /\ busy'[w] = busy[w]
    BY <1>1, <2>1, <1>16 DEF BeginPrimaryDown, Begin, HoldInv, ControlTyped
  <2>3. busy'[Primary] \in {busy[Primary], h}
    BY <1>1, <1>16 DEF BeginPrimaryDown, Begin, ControlTyped
  <2>4. ASSUME NEW y \in Destroys, y # h
        PROVE  job'[y] = job[y] /\ (busy'[Primary] = y => busy[Primary] = y)
    BY <1>1, <2>1, <2>3, <2>4 DEF ControlTyped
  <2>5. job'[h] = "primary"
    BY <1>1, <2>1 DEF ControlTyped
  <2>6. QED
    BY <2>1, <2>2, <2>4, <2>5 DEF HoldInv
<1>17. ASSUME NEW h \in Destroys, EndPrimaryDown(h)
      PROVE  HoldInv'
  BY <1>1, <1>17 DEF EndPrimaryDown, Begin, End, HoldInv, PlacesInv, ControlTyped, WorkTyped
<1>18. ASSUME NEW h \in Destroys, Answer(h)
      PROVE  HoldInv'
  BY <1>1, <1>18 DEF Answer, Begin, End, HoldInv, PlacesInv, ControlTyped, WorkTyped
<1>19. ASSUME NEW h \in Destroys, Disconnect(h)
      PROVE  HoldInv'
  BY <1>1, <1>19 DEF Disconnect, Begin, End, HoldInv, PlacesInv, ControlTyped, WorkTyped
<1>20. ASSUME NEW h \in Destroys, DestroyPanics(h)
      PROVE  HoldInv'
  BY <1>1, <1>20 DEF DestroyPanics, Begin, End, HoldInv, PlacesInv, ControlTyped, WorkTyped
<1>21. CASE UNCHANGED vars
  BY <1>21 DEF vars, HoldInv
<1>22. QED
  BY <1>2, <1>3, <1>4, <1>5, <1>6, <1>7, <1>8, <1>9, <1>10, <1>11, <1>12, <1>13,
     <1>14, <1>15, <1>16, <1>17, <1>18, <1>19, <1>20, <1>21
     DEF Next, DeployStep, DestroyStep, Phase

\* The registered request, step by step.
LEMMA RegStep ==
  ASSUME TypeOK, PlacesInv, RegInv, [Next]_vars
  PROVE  RegInv'
<1> USE HandlerFacts, MemberFacts DEF group, registry, history, Over
<1>1. PlainTyped /\ Shaped(row) /\ CloudTyped /\ MemTyped /\ ControlTyped /\ WorkTyped
  BY Types
<1>2. CASE CreateGroup
  BY <1>1, <1>2 DEF CreateGroup, Goto, Finish, RegInv, PlacesInv, ControlTyped, PlainTyped, InFlight, Destroying, Deploying, DeployPhases, ForgetCancel
<1>3. ASSUME NEW m \in Members, AddMember(m)
      PROVE  RegInv'
  BY <1>1, <1>3 DEF AddMember, Goto, Finish, RegInv, PlacesInv, ControlTyped, PlainTyped, InFlight, Destroying, Deploying, DeployPhases, ForgetCancel
<1>4. CASE CreateFails
  BY <1>1, <1>4 DEF CreateFails, Goto, Finish, RegInv, PlacesInv, ControlTyped, PlainTyped, InFlight, Destroying, Deploying, DeployPhases, ForgetCancel
<1>5. CASE DeleteGroup
  BY <1>1, <1>5 DEF DeleteGroup, Goto, Finish, RegInv, PlacesInv, ControlTyped, PlainTyped, InFlight, Destroying, Deploying, DeployPhases, ForgetCancel
<1>6. CASE CancelGroup
  BY <1>1, <1>6 DEF CancelGroup, Goto, Finish, RegInv, PlacesInv, ControlTyped, PlainTyped, InFlight, Destroying, Deploying, DeployPhases, ForgetCancel
<1>7. CASE Restart
  BY <1>1, <1>7 DEF Restart, Goto, Finish, RegInv, PlacesInv, ControlTyped, PlainTyped, InFlight, Destroying, Deploying, DeployPhases, ForgetCancel
<1>8. ASSUME NEW h \in Deploys, BeginDeploy(h)
      PROVE  RegInv'
  BY <1>1, <1>8, ZenonT(30) DEF BeginDeploy, Goto, Finish, RegInv, PlacesInv, ControlTyped, PlainTyped, InFlight, Destroying, Deploying, DeployPhases, ForgetCancel
<1>9. ASSUME NEW h \in Deploys, Phase(h)
      PROVE  RegInv'
  BY <1>1, <1>9, PhaseGoes DEF RegInv, ControlTyped, PlainTyped, InFlight, Destroying, Deploying, DeployPhases
<1>10. ASSUME NEW h \in Handlers, Leave(h)
      PROVE  RegInv'
  BY <1>1, <1>10 DEF Leave, Goto, Finish, RegInv, PlacesInv, ControlTyped, PlainTyped, InFlight, Destroying, Deploying, DeployPhases, ForgetCancel
<1>11. ASSUME NEW h \in Destroys, AskDestroy(h)
      PROVE  RegInv'
  BY <1>1, <1>11, ZenonT(30) DEF AskDestroy, Goto, Finish, RegInv, PlacesInv, ControlTyped, PlainTyped, InFlight, Destroying, Deploying, DeployPhases, ForgetCancel
<1>12. ASSUME NEW h \in Destroys, Register(h)
      PROVE  RegInv'
  <2>1. /\ pc[h] = "register" /\ UNCHANGED <<alone, job, mapNil>>
        /\ \/ mapNil /\ pc' = [pc EXCEPT ![h] = "done"] /\ UNCHANGED cancels
           \/ ~mapNil /\ pc' = [pc EXCEPT ![h] = "begun"] /\ cancels' = h
    BY <1>12 DEF Register, Goto
  <2>2. InFlight(h) /\ \A y \in Handlers : InFlight(y)' => InFlight(y)
    BY <1>1, <2>1 DEF InFlight, Destroying, ControlTyped
  <2>3. \A y \in Deploys : Deploying(y)' => Deploying(y) /\ InFlight(y)
    BY <1>1, <2>1 DEF InFlight, Deploying, DeployPhases, ControlTyped
  <2>4. \A x, y \in Handlers : alone'[x] /\ InFlight(x)' /\ InFlight(y)' => y = x
    BY <2>1, <2>2 DEF RegInv
  <2>5. \A x \in Deploys : alone'[x] /\ Deploying(x)' => cancels' = x
    BY <2>1, <2>2, <2>3 DEF RegInv
  <2>6. /\ mapNil' => cancels' = Nobody
        /\ cancels' # Nobody => pc'[cancels'] \notin {"idle"} \cup Over
    BY <1>1, <2>1 DEF RegInv, ControlTyped, PlainTyped
  <2>7. QED
    BY <2>4, <2>5, <2>6 DEF RegInv
<1>13. ASSUME NEW h \in Destroys, StartJob(h)
      PROVE  RegInv'
  BY <1>1, <1>13 DEF StartJob, Goto, Finish, RegInv, PlacesInv, ControlTyped, PlainTyped, InFlight, Destroying, Deploying, DeployPhases, ForgetCancel
<1>14. ASSUME NEW h \in Destroys, NEW w \in Workers, BeginWorkerDown(h, w)
      PROVE  RegInv'
  BY <1>1, <1>14 DEF BeginWorkerDown, Goto, Finish, RegInv, PlacesInv, ControlTyped, PlainTyped, InFlight, Destroying, Deploying, DeployPhases, ForgetCancel
<1>15. ASSUME NEW h \in Destroys, NEW w \in Workers, EndWorkerDown(h, w)
      PROVE  RegInv'
  BY <1>1, <1>15 DEF EndWorkerDown, Goto, Finish, RegInv, PlacesInv, ControlTyped, PlainTyped, InFlight, Destroying, Deploying, DeployPhases, ForgetCancel
<1>16. ASSUME NEW h \in Destroys, BeginPrimaryDown(h)
      PROVE  RegInv'
  BY <1>1, <1>16 DEF BeginPrimaryDown, Goto, Finish, RegInv, PlacesInv, ControlTyped, PlainTyped, InFlight, Destroying, Deploying, DeployPhases, ForgetCancel
<1>17. ASSUME NEW h \in Destroys, EndPrimaryDown(h)
      PROVE  RegInv'
  BY <1>1, <1>17 DEF EndPrimaryDown, Goto, Finish, RegInv, PlacesInv, ControlTyped, PlainTyped, InFlight, Destroying, Deploying, DeployPhases, ForgetCancel
<1>18. ASSUME NEW h \in Destroys, Answer(h)
      PROVE  RegInv'
  BY <1>1, <1>18 DEF Answer, Goto, Finish, RegInv, PlacesInv, ControlTyped, PlainTyped, InFlight, Destroying, Deploying, DeployPhases, ForgetCancel
<1>19. ASSUME NEW h \in Destroys, Disconnect(h)
      PROVE  RegInv'
  BY <1>1, <1>19 DEF Disconnect, Goto, Finish, RegInv, PlacesInv, ControlTyped, PlainTyped, InFlight, Destroying, Deploying, DeployPhases, ForgetCancel
<1>20. ASSUME NEW h \in Destroys, DestroyPanics(h)
      PROVE  RegInv'
  BY <1>1, <1>20 DEF DestroyPanics, Goto, Finish, RegInv, PlacesInv, ControlTyped, PlainTyped, InFlight, Destroying, Deploying, DeployPhases, ForgetCancel
<1>21. CASE UNCHANGED vars
  BY <1>21 DEF vars, RegInv, InFlight, Destroying, Deploying, DeployPhases
<1>22. QED
  BY <1>2, <1>3, <1>4, <1>5, <1>6, <1>7, <1>8, <1>9, <1>10, <1>11, <1>12, <1>13,
     <1>14, <1>15, <1>16, <1>17, <1>18, <1>19, <1>20, <1>21
     DEF Next, DeployStep, DestroyStep, Phase

\* The status, step by step.
LEMMA QuietStep ==
  ASSUME TypeOK, PlacesInv, QuietStatusFinal, [Next]_vars
  PROVE  QuietStatusFinal'
<1> USE HandlerFacts, MemberFacts DEF group, registry, history, Over, Panicked
<1>1. PlainTyped /\ Shaped(row) /\ CloudTyped /\ MemTyped /\ ControlTyped /\ WorkTyped
  BY Types
<1>2. CASE CreateGroup
  BY <1>1, <1>2 DEF CreateGroup, Goto, Finish, SetStatus, QuietStatusFinal, PlacesInv, ControlTyped, PlainTyped, Destroying, Deploying, DeployPhases
<1>3. ASSUME NEW m \in Members, AddMember(m)
      PROVE  QuietStatusFinal'
  BY <1>1, <1>3 DEF AddMember, Goto, Finish, SetStatus, QuietStatusFinal, PlacesInv, ControlTyped, PlainTyped, Destroying, Deploying, DeployPhases
<1>4. CASE CreateFails
  BY <1>1, <1>4 DEF CreateFails, Goto, Finish, SetStatus, QuietStatusFinal, PlacesInv, ControlTyped, PlainTyped, Destroying, Deploying, DeployPhases
<1>5. CASE DeleteGroup
  BY <1>1, <1>5 DEF DeleteGroup, Goto, Finish, SetStatus, QuietStatusFinal, PlacesInv, ControlTyped, PlainTyped, Destroying, Deploying, DeployPhases
<1>6. CASE CancelGroup
  BY <1>1, <1>6 DEF CancelGroup, Goto, Finish, SetStatus, QuietStatusFinal, PlacesInv, ControlTyped, PlainTyped, Destroying, Deploying, DeployPhases
<1>7. CASE Restart
  BY <1>1, <1>7 DEF Restart, Goto, Finish, SetStatus, QuietStatusFinal, PlacesInv, ControlTyped, PlainTyped, Destroying, Deploying, DeployPhases
<1>8. ASSUME NEW h \in Deploys, BeginDeploy(h)
      PROVE  QuietStatusFinal'
  BY <1>1, <1>8 DEF BeginDeploy, Goto, Finish, SetStatus, QuietStatusFinal, PlacesInv, ControlTyped, PlainTyped, Destroying, Deploying, DeployPhases
<1>9. ASSUME NEW h \in Deploys, Phase(h)
      PROVE  QuietStatusFinal'
  BY <1>1, <1>9, PhaseGoes, PhaseReports DEF QuietStatusFinal, ControlTyped, PlainTyped, Destroying, Deploying, DeployPhases
<1>10. ASSUME NEW h \in Handlers, Leave(h)
      PROVE  QuietStatusFinal'
  BY <1>1, <1>10 DEF Leave, Goto, Finish, SetStatus, QuietStatusFinal, PlacesInv, ControlTyped, PlainTyped, Destroying, Deploying, DeployPhases
<1>11. ASSUME NEW h \in Destroys, AskDestroy(h)
      PROVE  QuietStatusFinal'
  BY <1>1, <1>11 DEF AskDestroy, Goto, Finish, SetStatus, QuietStatusFinal, PlacesInv, ControlTyped, PlainTyped, Destroying, Deploying, DeployPhases
<1>12. ASSUME NEW h \in Destroys, Register(h)
      PROVE  QuietStatusFinal'
  BY <1>1, <1>12 DEF Register, Goto, Finish, SetStatus, QuietStatusFinal, PlacesInv, ControlTyped, PlainTyped, Destroying, Deploying, DeployPhases
<1>13. ASSUME NEW h \in Destroys, StartJob(h)
      PROVE  QuietStatusFinal'
  BY <1>1, <1>13 DEF StartJob, Goto, Finish, SetStatus, QuietStatusFinal, PlacesInv, ControlTyped, PlainTyped, Destroying, Deploying, DeployPhases
<1>14. ASSUME NEW h \in Destroys, NEW w \in Workers, BeginWorkerDown(h, w)
      PROVE  QuietStatusFinal'
  BY <1>1, <1>14 DEF BeginWorkerDown, Goto, Finish, SetStatus, QuietStatusFinal, PlacesInv, ControlTyped, PlainTyped, Destroying, Deploying, DeployPhases
<1>15. ASSUME NEW h \in Destroys, NEW w \in Workers, EndWorkerDown(h, w)
      PROVE  QuietStatusFinal'
  BY <1>1, <1>15 DEF EndWorkerDown, Goto, Finish, SetStatus, QuietStatusFinal, PlacesInv, ControlTyped, PlainTyped, Destroying, Deploying, DeployPhases
<1>16. ASSUME NEW h \in Destroys, BeginPrimaryDown(h)
      PROVE  QuietStatusFinal'
  BY <1>1, <1>16 DEF BeginPrimaryDown, Goto, Finish, SetStatus, QuietStatusFinal, PlacesInv, ControlTyped, PlainTyped, Destroying, Deploying, DeployPhases
<1>17. ASSUME NEW h \in Destroys, EndPrimaryDown(h)
      PROVE  QuietStatusFinal'
  BY <1>1, <1>17 DEF EndPrimaryDown, Goto, Finish, SetStatus, QuietStatusFinal, PlacesInv, ControlTyped, PlainTyped, Destroying, Deploying, DeployPhases
<1>18. ASSUME NEW h \in Destroys, Answer(h)
      PROVE  QuietStatusFinal'
  BY <1>1, <1>18 DEF Answer, Goto, Finish, SetStatus, QuietStatusFinal, PlacesInv, ControlTyped, PlainTyped, Destroying, Deploying, DeployPhases
<1>19. ASSUME NEW h \in Destroys, Disconnect(h)
      PROVE  QuietStatusFinal'
  BY <1>1, <1>19 DEF Disconnect, Goto, Finish, SetStatus, QuietStatusFinal, PlacesInv, ControlTyped, PlainTyped, Destroying, Deploying, DeployPhases
<1>20. ASSUME NEW h \in Destroys, DestroyPanics(h)
      PROVE  QuietStatusFinal'
  BY <1>1, <1>20 DEF DestroyPanics, Goto, Finish, SetStatus, QuietStatusFinal, PlacesInv, ControlTyped, PlainTyped, Destroying, Deploying, DeployPhases
<1>21. CASE UNCHANGED vars
  BY <1>21 DEF vars, QuietStatusFinal, Destroying, Deploying, DeployPhases
<1>22. QED
  BY <1>2, <1>3, <1>4, <1>5, <1>6, <1>7, <1>8, <1>9, <1>10, <1>11, <1>12, <1>13,
     <1>14, <1>15, <1>16, <1>17, <1>18, <1>19, <1>20, <1>21
     DEF Next, DeployStep, DestroyStep, Phase
----------------------------------------------------------------------------
\* The workers of a deployment stay the same while the primary's policies do.
LEMMA SameWorkers ==
  ASSUME NEW h, mem'[h][Primary].admits = mem[h][Primary].admits
  PROVE  WorkersOf(h)' = WorkersOf(h) /\ \A w : Position(h, w)' = Position(h, w)
BY DEF WorkersOf, Position

LEMMA SameNext ==
  ASSUME NEW h, todo'[h] = todo[h]
  PROVE  NextWorker(h)' = NextWorker(h)
BY DEF NextWorker

LEMMA WorkersTyped ==
  ASSUME MemTyped, NEW h \in Handlers
  PROVE  WorkersOf(h) \subseteq Workers
BY MemberFacts, ConfigFields DEF WorkersOf, MemTyped, Shaped

\* A request that is not deploying has nothing to keep.
LEMMA Away ==
  ASSUME NEW h, pc'[h] \notin DeployPhases
  PROVE  DeployInv(h)'
BY DEF DeployInv, TodoInv, ConfigInv, CloudInv, DeployPhases, Started, Routed

\* Before phase 3 a deployment answers for its list of members only.
LEMMA Early ==
  ASSUME NEW h, pc'[h] \notin Started, TodoInv(h)'
  PROVE  DeployInv(h)'
BY DEF DeployInv, ConfigInv, CloudInv, Started, Routed

\* What a deployment keeps while others are at work.
LEMMA Kept ==
  ASSUME NEW h, Remembers(h), pc'[h] = pc[h], TodoInv(h), ConfigInv(h),
         creating' => creating /\ members \subseteq members'
  PROVE  /\ TodoInv(h)' /\ ConfigInv(h)' /\ mem'[h] = mem[h] /\ WorkersOf(h)' = WorkersOf(h)
         /\ todo'[h] = todo[h] /\ failed'[h] = failed[h] /\ NextWorker(h)' = NextWorker(h)
<1>1. /\ WorkersOf(h)' = WorkersOf(h) /\ \A w : Position(h, w)' = Position(h, w)
      /\ NextWorker(h)' = NextWorker(h)
  BY SameWorkers, SameNext DEF Remembers
<1>2. TodoInv(h)'
  BY <1>1 DEF Remembers, TodoInv, DeployPhases, Started
<1>3. \A w : Configured(h, w)' <=> Configured(h, w)
  BY <1>1 DEF Remembers, Configured
<1>4. ConfigInv(h)'
  BY <1>1, <1>3 DEF Remembers, ConfigInv
<1>5. QED
  BY <1>1, <1>2, <1>4 DEF Remembers

LEMMA CloudKept ==
  ASSUME NEW h \in Deploys, MemTyped, Remembers(h), pc'[h] = pc[h], DeployInv(h),
         creating' => creating /\ members \subseteq members',
         alone'[h] /\ pc[h] \in Started =>
            /\ alone[h] /\ cloud' = cloud
            /\ \A w \in WorkersOf(h) : row'[w] = row[w]
  PROVE  DeployInv(h)'
<1>1. /\ TodoInv(h)' /\ ConfigInv(h)' /\ mem'[h] = mem[h] /\ WorkersOf(h)' = WorkersOf(h)
      /\ todo'[h] = todo[h] /\ failed'[h] = failed[h] /\ NextWorker(h)' = NextWorker(h)
  BY Kept DEF DeployInv
<1>2. CASE alone'[h] /\ pc[h] \in Started
  <2>1. alone[h] /\ cloud' = cloud /\ \A w \in WorkersOf(h) : row'[w] = row[w]
    BY <1>2
  <2>2. pc[h] = "up5" => NextWorker(h) \in WorkersOf(h)
    <3>1. pc[h] = "up5" => /\ todo[h] # {} /\ todo[h] \subseteq WorkersOf(h)
                           /\ todo[h] \subseteq Workers
      BY DEF DeployInv, TodoInv, DeployPhases, Started
    <3>2. QED
      BY <3>1, NextWorkerFirst
  <2>3. CloudInv(h)
    BY DEF DeployInv
  <2>4. CloudInv(h)'
    BY <1>1, <1>2, <2>1, <2>2, <2>3 DEF CloudInv
  <2>5. QED
    BY <1>1, <2>4 DEF DeployInv
<1>3. CASE ~(alone'[h] /\ pc[h] \in Started)
  BY <1>1, <1>3 DEF DeployInv, CloudInv
<1>4. QED
  BY <1>2, <1>3

LEMMA UpSucceeds ==
  ASSUME CloudTyped, NEW h \in Handlers, NEW m \in Members, Up(h, m, TRUE)
  PROVE  /\ cloud'[m] = mem[h][m] /\ \A n \in Members : n # m => cloud'[n] = cloud[n]
BY DEF Up, End, CloudTyped

LEMMA UpMay ==
  ASSUME CloudTyped, NEW h \in Handlers, NEW m \in Members, \E ok \in BOOLEAN : Up(h, m, ok)
  PROVE  /\ cloud'[m] \in {cloud[m], mem[h][m]}
         /\ \A n \in Members : n # m => cloud'[n] = cloud[n]
BY DEF Up, End, CloudTyped

\* A deployment's own steps, one by one.
LEMMA ResolveKeeps ==
  ASSUME TypeOK, PlacesInv, NEW h \in Deploys, DeployInv(h), Resolve(h)
  PROVE  DeployInv(h)'
<1>1. ControlTyped /\ WorkTyped /\ h \in Handlers
  BY Types, HandlerFacts
<1>2. /\ UNCHANGED <<creating, members>>
      /\ \/ pc'[h] = "leave"
         \/ pc'[h] = "up1" /\ todo'[h] = todo[h] \ {Primary} /\ pc[h] = "resolve"
  BY <1>1 DEF Resolve, Finish, Goto, ControlTyped, WorkTyped, group
<1>3. CASE pc'[h] = "leave"
  BY <1>3, Away DEF DeployPhases
<1>4. CASE pc'[h] = "up1" /\ todo'[h] = todo[h] \ {Primary} /\ pc[h] = "resolve"
  <2>1. TodoInv(h)'
    BY <1>1, <1>2, <1>4, MemberFacts DEF DeployInv, TodoInv, WorkTyped, Started
  <2>2. QED
    BY <1>4, <2>1, Early DEF Started
<1>5. QED
  BY <1>2, <1>3, <1>4

LEMMA BeginUpKeeps ==
  ASSUME TypeOK, PlacesInv, NEW h \in Deploys, DeployInv(h), BeginUp(h)
  PROVE  DeployInv(h)'
<1>1. MemTyped
  BY Types
<1>2. /\ Remembers(h) /\ UNCHANGED <<pc, cloud, row, alone, creating, members>>
  BY DEF BeginUp, Remembers, group, history
<1>3. QED
  BY <1>1, <1>2, CloudKept

LEMMA Phase1Keeps ==
  ASSUME TypeOK, PlacesInv, NEW h \in Deploys, DeployInv(h), Phase1(h)
  PROVE  DeployInv(h)'
<1>1. ControlTyped /\ h \in Handlers
  BY Types, HandlerFacts
<1>2. /\ UNCHANGED <<creating, members, todo>> /\ pc[h] = "up1"
      /\ pc'[h] \in {"leave", "up15"}
  BY <1>1 DEF Phase1, Finish, Goto, ControlTyped, group
<1>3. CASE pc'[h] = "leave"
  BY <1>3, Away DEF DeployPhases
<1>4. CASE pc'[h] = "up15"
  <2>1. TodoInv(h)'
    BY <1>2, <1>4 DEF DeployInv, TodoInv, Started, DeployPhases
  <2>2. QED
    BY <1>4, <2>1, Early DEF Started
<1>5. QED
  BY <1>2, <1>3, <1>4

LEMMA Phase15Keeps ==
  ASSUME TypeOK, PlacesInv, NEW h \in Deploys, DeployInv(h), Phase15(h)
  PROVE  DeployInv(h)'
<1>1. ControlTyped /\ MemTyped /\ Shaped(row) /\ h \in Handlers
  BY Types, HandlerFacts
<1>2. UNCHANGED <<creating, members, todo>> /\ pc[h] = "up15" /\ pc'[h] = "up2"
  BY <1>1 DEF Phase15, Goto, ControlTyped, group
<1>3. todo[h] \subseteq Workers /\ (creating => todo[h] \subseteq members)
  BY <1>2 DEF DeployInv, TodoInv, DeployPhases
<1>4. WorkersOf(h)' = todo[h]
  BY <1>1, <1>3, Phase15Configs DEF WorkersOf
<1>5. TodoInv(h)'
  BY <1>2, <1>3, <1>4 DEF TodoInv, Started
<1>6. QED
  BY <1>2, <1>5, Early DEF Started

LEMMA Phase2Keeps ==
  ASSUME TypeOK, PlacesInv, NEW h \in Deploys, DeployInv(h), Phase2(h)
  PROVE  DeployInv(h)'
<1>1. CloudTyped /\ ControlTyped /\ MemTyped /\ Shaped(row) /\ h \in Handlers
  BY Types, HandlerFacts
<1>2. /\ UNCHANGED <<creating, members, todo, known>> /\ pc[h] = "up2"
      /\ pc'[h] \in {"leave", "workers"}
  BY <1>1 DEF Phase2, Finish, Goto, ControlTyped, group
<1>3. CASE pc'[h] = "leave"
  BY <1>3, Away DEF DeployPhases
<1>4. CASE pc'[h] = "workers"
  <2>1. /\ todo[h] \subseteq Workers /\ WorkersOf(h) = todo[h]
        /\ creating => todo[h] \subseteq members
    BY <1>2 DEF DeployInv, TodoInv, DeployPhases
  <2>2. /\ mem'[h][Primary] = mem[h][Primary]
        /\ known[h].outputs => \A w \in todo[h] : mem'[h][w].drg
    BY <1>1, <1>4, <2>1, Phase2Configs
  <2>3. WorkersOf(h)' = WorkersOf(h)
    BY <2>2, SameWorkers
  <2>4. TodoInv(h)'
    BY <1>2, <1>4, <2>1, <2>3 DEF TodoInv, Started, DeployPhases
  <2>5. ConfigInv(h)'
    BY <1>2, <1>4, <2>1, <2>2, <2>3 DEF ConfigInv, Started, Routed
  <2>6. cloud'[Primary] = mem[h][Primary]
    <3>1. Up(h, Primary, TRUE)
      BY <1>1, <1>4 DEF Phase2, Finish, Goto, ControlTyped
    <3>2. QED
      BY <1>1, <3>1, MemberFacts, UpSucceeds
  <2>7. mem[h][Primary] # Down
    BY <1>1, MemberFacts DEF MemTyped, Shaped
  <2>8. CloudInv(h)'
    BY <1>4, <2>2, <2>3, <2>6, <2>7 DEF CloudInv, WorkersOf, Routed
  <2>9. QED
    BY <2>4, <2>5, <2>8 DEF DeployInv
<1>5. QED
  BY <1>2, <1>3, <1>4

LEMMA WorkerUpKeeps ==
  ASSUME TypeOK, PlacesInv, NEW h \in Deploys, DeployInv(h), NEW w \in Workers, WorkerUp(h, w)
  PROVE  DeployInv(h)'
<1>1. CloudTyped /\ ControlTyped /\ MemTyped /\ WorkTyped /\ h \in Handlers /\ w \in Members
  BY Types, HandlerFacts, MemberFacts
<1>2. /\ UNCHANGED <<creating, members, mem, known, row, pc, alone>> /\ pc[h] = "workers"
      /\ todo'[h] = todo[h] \ {w}
  BY <1>1 DEF WorkerUp, WorkTyped, group, history
<1>3. WorkersOf(h)' = WorkersOf(h)
  BY <1>2, SameWorkers
<1>4. TodoInv(h)'
  BY <1>2, <1>3 DEF DeployInv, TodoInv, Started, DeployPhases
<1>5. ConfigInv(h)'
  BY <1>2, <1>3 DEF DeployInv, ConfigInv, Started, Routed
<1>6. cloud'[Primary] = cloud[Primary]
  <2>1. \E ok \in BOOLEAN : Up(h, w, ok)
    BY DEF WorkerUp
  <2>2. QED
    BY <1>1, <2>1, MemberFacts, UpEnded
<1>7. CloudInv(h)'
  BY <1>2, <1>3, <1>6 DEF DeployInv, CloudInv, Routed
<1>8. QED
  BY <1>4, <1>5, <1>7 DEF DeployInv

LEMMA AfterWorkersKeeps ==
  ASSUME TypeOK, PlacesInv, NEW h \in Deploys, DeployInv(h), AfterWorkers(h)
  PROVE  DeployInv(h)'
<1>1. ControlTyped /\ MemTyped /\ WorkTyped /\ Shaped(row) /\ h \in Handlers
  BY Types, HandlerFacts
<1>2. UNCHANGED <<creating, members, cloud, alone>> /\ pc[h] = "workers"
  BY DEF AfterWorkers, group, history
<1>3. /\ mem'[h][Primary].admits = WorkersOf(h)
      /\ \A w \in Workers : mem'[h][w].drg = mem[h][w].drg
      /\ known'[h].outputs = known[h].outputs
      /\ pc'[h] \in {"up4", "leave"}
      /\ pc'[h] = "up4" =>
            /\ mem'[h][Primary].vcns = known'[h].read
            /\ mem'[h][Primary].ips = Addresses(known'[h].read, known'[h].resolved)
            /\ todo'[h] = WorkersOf(h)
  BY <1>1, AfterWorkersConfigs
<1>4. CASE pc'[h] = "leave"
  BY <1>4, Away DEF DeployPhases
<1>5. CASE pc'[h] = "up4"
  <2>1. WorkersOf(h)' = WorkersOf(h) /\ WorkersOf(h) \subseteq Workers
    BY <1>1, <1>3, WorkersTyped DEF WorkersOf
  <2>2. TodoInv(h)'
    BY <1>2, <1>3, <1>5, <2>1 DEF DeployInv, TodoInv, Started, DeployPhases
  <2>3. ConfigInv(h)'
    BY <1>2, <1>3, <1>5, <2>1 DEF DeployInv, ConfigInv, Started, Routed
  <2>4. CloudInv(h)'
    BY <1>2, <1>5, <2>1 DEF DeployInv, CloudInv, Started, Routed
  <2>5. QED
    BY <2>2, <2>3, <2>4 DEF DeployInv
<1>6. QED
  BY <1>3, <1>4, <1>5

LEMMA Phase4Keeps ==
  ASSUME TypeOK, PlacesInv, NEW h \in Deploys, DeployInv(h), Phase4(h)
  PROVE  DeployInv(h)'
<1>1. /\ CloudTyped /\ ControlTyped /\ MemTyped /\ Shaped(row) /\ h \in Handlers
      /\ Primary \in Members
  BY Types, HandlerFacts, MemberFacts
<1>2. /\ UNCHANGED <<creating, members, mem, todo, failed, known, tries, row, alone>>
      /\ pc[h] = "up4"
  BY DEF Phase4, group, history
<1>3. /\ WorkersOf(h)' = WorkersOf(h) /\ NextWorker(h)' = NextWorker(h)
      /\ todo[h] = WorkersOf(h)
  BY <1>2, SameWorkers, SameNext DEF DeployInv, TodoInv
<1>4. pc'[h] \in {"route", "wait4", "leave"} /\ (pc'[h] = "wait4" => tries[h] < MaxAttempts)
  BY <1>1 DEF Phase4, Goto, Finish, ControlTyped, MayRetry
<1>5. /\ cloud'[Primary] \in {cloud[Primary], mem[h][Primary]}
      /\ pc'[h] = "route" => cloud'[Primary] = mem[h][Primary]
  <2>1. \E ok \in BOOLEAN : Up(h, Primary, ok)
    BY DEF Phase4
  <2>2. cloud'[Primary] \in {cloud[Primary], mem[h][Primary]}
    BY <1>1, <2>1, UpMay
  <2>3. pc'[h] = "route" => Up(h, Primary, TRUE)
    BY <1>1 DEF Phase4, Goto, Finish, ControlTyped
  <2>4. QED
    BY <1>1, <2>2, <2>3, UpSucceeds
<1>6. mem[h][Primary] # Down
  BY <1>1, MemberFacts DEF MemTyped, Shaped
<1>7. CASE pc'[h] = "leave"
  BY <1>7, Away DEF DeployPhases
<1>8. CASE pc'[h] \in {"route", "wait4"}
  <2>1. TodoInv(h)'
    BY <1>2, <1>3, <1>4, <1>8 DEF DeployInv, TodoInv, Started, DeployPhases
  <2>2. ConfigInv(h)'
    BY <1>2, <1>3, <1>8 DEF DeployInv, ConfigInv, Started, Routed
  <2>3. CloudInv(h)'
    BY <1>2, <1>3, <1>5, <1>6, <1>8 DEF DeployInv, CloudInv, Started, Routed, WorkersOf
  <2>4. QED
    BY <2>1, <2>2, <2>3 DEF DeployInv
<1>9. QED
  BY <1>4, <1>7, <1>8

LEMMA Retry4Keeps ==
  ASSUME TypeOK, PlacesInv, NEW h \in Deploys, DeployInv(h), Retry4(h)
  PROVE  DeployInv(h)'
<1>1. ControlTyped /\ h \in Handlers
  BY Types, HandlerFacts
<1>2. /\ UNCHANGED <<creating, members, mem, todo, failed, known, cloud, row, alone>>
      /\ pc[h] = "wait4" /\ pc'[h] = "up4"
  BY <1>1 DEF Retry4, Goto, ControlTyped, group, history
<1>3. WorkersOf(h)' = WorkersOf(h)
  BY <1>2, SameWorkers
<1>4. TodoInv(h)'
  BY <1>2, <1>3 DEF DeployInv, TodoInv, Started, DeployPhases
<1>5. ConfigInv(h)'
  BY <1>2, <1>3 DEF DeployInv, ConfigInv, Started, Routed
<1>6. CloudInv(h)'
  BY <1>2, <1>3 DEF DeployInv, CloudInv, Started, Routed
<1>7. QED
  BY <1>4, <1>5, <1>6 DEF DeployInv

LEMMA RouteKeeps ==
  ASSUME TypeOK, PlacesInv, NEW h \in Deploys, DeployInv(h), Route(h)
  PROVE  DeployInv(h)'
<1>1. /\ ControlTyped /\ MemTyped /\ WorkTyped /\ Shaped(row) /\ h \in Handlers
      /\ Primary \in Members /\ Primary \notin Workers /\ Workers \subseteq Members
  BY Types, HandlerFacts, MemberFacts
<1>2. /\ UNCHANGED <<creating, members, todo, failed, cloud, alone>> /\ todo[h] # {}
      /\ pc[h] = "route" /\ pc'[h] = "up5"
  BY <1>1 DEF Route, Goto, ControlTyped, group, history
<1>3. /\ todo[h] \subseteq Workers /\ todo[h] \subseteq WorkersOf(h) /\ WorkersOf(h) \subseteq Workers
  BY <1>1, <1>2, WorkersTyped DEF DeployInv, TodoInv, DeployPhases, Started
<1> DEFINE next == NextWorker(h)
<1>4. /\ next \in todo[h]
      /\ \A m \in Members : m # next => mem'[h][m] = mem[h][m] /\ row'[m] = row[m]
      /\ mem'[h][next].drg = mem[h][next].drg /\ mem'[h][next].attached
      /\ known'[h].outputs => known[h].outputs /\ mem'[h][next].port = Position(h, next)
      /\ known'[h].read = known[h].read /\ known'[h].resolved = known[h].resolved
      /\ ~WritesMayFail => row'[next] = mem'[h][next]
  BY <1>1, <1>3, RouteConfigs
<1>5. mem'[h][Primary] = mem[h][Primary]
  BY <1>1, <1>3, <1>4
<1>6. /\ WorkersOf(h)' = WorkersOf(h) /\ NextWorker(h)' = next
      /\ \A w : Position(h, w)' = Position(h, w)
  BY <1>2, <1>5, SameWorkers, SameNext
<1>7. TodoInv(h)'
  BY <1>2, <1>6 DEF DeployInv, TodoInv, Started, DeployPhases
<1>8. \A w \in WorkersOf(h) \ todo[h] : Configured(h, w) => Configured(h, w)'
  <2>1. ASSUME NEW w \in WorkersOf(h) \ todo[h]
        PROVE  mem'[h][w] = mem[h][w]
    BY <1>1, <1>3, <1>4
  <2>2. QED
    BY <1>4, <1>6, <2>1 DEF Configured
<1>9. Configured(h, NextWorker(h))'
  BY <1>4, <1>6 DEF Configured
<1> HIDE DEF next
<1>10. ConfigInv(h)'
  <2>1. known'[h].outputs => \A w \in WorkersOf(h) : mem'[h][w].drg
    BY <1>1, <1>2, <1>3, <1>4 DEF DeployInv, ConfigInv, Started
  <2>2. /\ mem'[h][Primary].vcns = known'[h].read
        /\ mem'[h][Primary].ips = Addresses(known'[h].read, known'[h].resolved)
    BY <1>2, <1>4, <1>5 DEF DeployInv, ConfigInv, Started
  <2>3. \A w \in WorkersOf(h) \ todo[h] : Configured(h, w)'
    BY <1>2, <1>8 DEF DeployInv, ConfigInv, Routed
  <2>4. QED
    BY <1>2, <1>6, <1>9, <2>1, <2>2, <2>3 DEF ConfigInv
<1>11. CloudInv(h)'
  <2>1. SUFFICES ASSUME alone[h]
                 PROVE  CloudInv(h)'
    BY <1>2 DEF CloudInv
  <2>2. /\ cloud[Primary] # Down /\ cloud[Primary].admits = WorkersOf(h)
        /\ cloud[Primary] = mem[h][Primary]
        /\ \A w \in WorkersOf(h) \ (todo[h] \cup failed[h]) : cloud[w] = mem[h][w]
        /\ ~WritesMayFail => \A w \in WorkersOf(h) \ todo[h] : row[w] = mem[h][w]
    BY <1>2, <2>1 DEF DeployInv, CloudInv, Started, Routed
  <2>3. \A w \in WorkersOf(h) \ todo[h] : mem'[h][w] = mem[h][w] /\ row'[w] = row[w]
    BY <1>1, <1>3, <1>4
  <2>4. QED
    BY <1>2, <1>4, <1>5, <1>6, <2>2, <2>3 DEF CloudInv
<1>12. QED
  BY <1>7, <1>10, <1>11 DEF DeployInv

LEMMA Phase5Keeps ==
  ASSUME TypeOK, PlacesInv, NEW h \in Deploys, DeployInv(h), Phase5(h)
  PROVE  DeployInv(h)'
<1>1. /\ CloudTyped /\ ControlTyped /\ MemTyped /\ WorkTyped /\ h \in Handlers
      /\ Primary \in Members /\ Primary \notin Workers /\ Workers \subseteq Members
  BY Types, HandlerFacts, MemberFacts
<1>2. UNCHANGED <<creating, members, mem, known, row, alone>> /\ pc[h] = "up5"
  BY DEF Phase5, group, history
<1>3. /\ todo[h] \subseteq Workers /\ todo[h] \subseteq WorkersOf(h) /\ todo[h] # {}
  BY <1>1, <1>2 DEF DeployInv, TodoInv, DeployPhases, Started
<1> DEFINE next == NextWorker(h)
<1>4. next \in todo[h] /\ next \in Workers /\ next \in Members /\ next # Primary
  BY <1>1, <1>3, NextWorkerFirst
<1>5. /\ todo'[h] = todo[h] \ {next}
      /\ pc'[h] \in {"route", "wait6", "leave"}
      /\ pc'[h] \in {"wait6", "apps"} => todo'[h] = {} /\ failed'[h] = {}
  BY <1>1 DEF Phase5, Goto, Finish, ControlTyped, WorkTyped
<1>6. /\ WorkersOf(h)' = WorkersOf(h)
      /\ \A w : Configured(h, w)' <=> Configured(h, w)
  BY <1>2, SameWorkers DEF Configured
<1>7. /\ cloud'[Primary] = cloud[Primary]
      /\ \A m \in Members : m # next => cloud'[m] = cloud[m]
      /\ next \notin failed'[h] => cloud'[next] = mem[h][next]
      /\ \A w : w \notin failed'[h] => w \notin failed[h]
  <2>1. \/ Up(h, next, TRUE) /\ failed'[h] = failed[h]
        \/ (\E ok \in BOOLEAN : Up(h, next, ok)) /\ failed'[h] = failed[h] \cup {next}
    BY <1>1 DEF Phase5, WorkTyped
  <2> HIDE DEF next
  <2>2. CASE Up(h, next, TRUE) /\ failed'[h] = failed[h]
    BY <1>1, <1>4, <2>2, UpSucceeds
  <2>3. CASE (\E ok \in BOOLEAN : Up(h, next, ok)) /\ failed'[h] = failed[h] \cup {next}
    BY <1>1, <1>4, <2>3, UpMay
  <2>4. QED
    BY <2>1, <2>2, <2>3
<1>8. Configured(h, next) /\ (alone[h] /\ ~WritesMayFail => row[next] = mem[h][next])
  BY <1>2 DEF DeployInv, ConfigInv, CloudInv, Started
<1> HIDE DEF next
<1>9. CASE pc'[h] = "leave"
  BY <1>9, Away DEF DeployPhases
<1>10. CASE pc'[h] \in {"route", "wait6"}
  <2>1. TodoInv(h)'
    BY <1>2, <1>3, <1>5, <1>6, <1>10 DEF DeployInv, TodoInv, Started, DeployPhases
  <2>2. ConfigInv(h)'
    <3>1. \A w \in WorkersOf(h) \ todo'[h] : Configured(h, w)'
      BY <1>2, <1>5, <1>6, <1>8 DEF DeployInv, ConfigInv, Routed
    <3>2. QED
      BY <1>2, <1>6, <1>10, <3>1 DEF DeployInv, ConfigInv, Started
  <2>3. CloudInv(h)'
    <3>1. SUFFICES ASSUME alone[h]
                   PROVE  CloudInv(h)'
      BY <1>2 DEF CloudInv
    <3>2. /\ cloud[Primary] # Down /\ cloud[Primary].admits = WorkersOf(h)
          /\ cloud[Primary] = mem[h][Primary]
          /\ \A w \in WorkersOf(h) \ (todo[h] \cup failed[h]) : cloud[w] = mem[h][w]
          /\ ~WritesMayFail => \A w \in WorkersOf(h) \ todo[h] : row[w] = mem[h][w]
      BY <1>2, <3>1 DEF DeployInv, CloudInv, Started, Routed
    <3>3. ASSUME NEW w \in WorkersOf(h) \ (todo'[h] \cup failed'[h])
          PROVE  cloud'[w] = mem[h][w]
      <4>1. CASE w = next
        BY <1>7, <3>3, <4>1
      <4>2. CASE w # next
        <5>1. w \in Workers
          BY <1>1, WorkersTyped
        <5>2. QED
          BY <1>1, <1>5, <1>7, <3>2, <3>3, <4>2, <5>1
      <4>3. QED
        BY <4>1, <4>2
    <3>4. ~WritesMayFail => \A w \in WorkersOf(h) \ todo'[h] : row[w] = mem[h][w]
      BY <1>5, <1>8, <3>1, <3>2
    <3>5. QED
      BY <1>2, <1>6, <1>7, <1>10, <3>2, <3>3, <3>4 DEF CloudInv
  <2>4. QED
    BY <2>1, <2>2, <2>3 DEF DeployInv
<1>11. QED
  BY <1>5, <1>9, <1>10

\* What is left after phase 5: the wait and the applications.
LEMMA LastKeeps ==
  ASSUME TypeOK, PlacesInv, NEW h \in Deploys, DeployInv(h), Wait6(h) \/ Apps(h)
  PROVE  DeployInv(h)' /\ cloud' = cloud /\ UNCHANGED <<mem, known, todo, failed, row>>
<1>1. CloudTyped /\ ControlTyped /\ MemTyped /\ h \in Handlers
  BY Types, HandlerFacts
<1>2. /\ UNCHANGED <<creating, members, mem, todo, failed, known, row, alone>>
      /\ pc[h] \in {"wait6", "apps"} /\ pc'[h] \in {"apps", "leave"}
  BY <1>1 DEF Wait6, Apps, Goto, Finish, ControlTyped, group, history
<1>3. cloud' = cloud
  <2>1. \/ UNCHANGED cloud
        \/ cloud' = [cloud EXCEPT ![Primary] = cloud[Primary]]
    BY <1>1, MemberFacts DEF Wait6, Apps, End
  <2>2. QED
    BY <1>1, <2>1 DEF CloudTyped
<1>4. /\ WorkersOf(h)' = WorkersOf(h) /\ \A w : Configured(h, w)' <=> Configured(h, w)
  BY <1>2, SameWorkers DEF Configured
<1>5. CASE pc'[h] = "leave"
  BY <1>2, <1>3, <1>5, Away DEF DeployPhases
<1>6. CASE pc'[h] = "apps"
  <2>1. TodoInv(h)'
    BY <1>2, <1>4, <1>6 DEF DeployInv, TodoInv, Started, DeployPhases
  <2>2. ConfigInv(h)'
    BY <1>2, <1>4, <1>6 DEF DeployInv, ConfigInv, Started, Routed
  <2>3. CloudInv(h)'
    BY <1>2, <1>3, <1>4, <1>6 DEF DeployInv, CloudInv, Started, Routed
  <2>4. QED
    BY <1>2, <1>3, <2>1, <2>2, <2>3 DEF DeployInv
<1>7. QED
  BY <1>2, <1>5, <1>6

LEMMA PanicKeeps ==
  ASSUME TypeOK, NEW h \in Deploys, DeployPanics(h)
  PROVE  DeployInv(h)'
<1>1. pc'[h] = "panicked"
  BY Types, HandlerFacts DEF DeployPanics, Goto, ControlTyped
<1>2. QED
  BY <1>1, Away DEF DeployPhases

\* What deployments keep, step by step.
LEMMA DeploysStep ==
  ASSUME TypeOK, PlacesInv, RegInv, NEW d \in Deploys, DeployInv(d), [Next]_vars
  PROVE  DeployInv(d)'
<1> USE HandlerFacts, MemberFacts DEF group, registry, history, Over
<1>1. PlainTyped /\ Shaped(row) /\ CloudTyped /\ MemTyped /\ ControlTyped /\ WorkTyped /\ d \in Handlers
  BY Types
<1>2. \A y \in Handlers : y # d /\ InFlight(y) => ~(alone[d] /\ Deploying(d))
  BY <1>1 DEF RegInv, InFlight, Deploying, DeployPhases
<1>3. CASE CreateGroup
  <2>1. pc[d] = "idle" /\ UNCHANGED pc
    BY <1>1, <1>3 DEF CreateGroup, PlacesInv
  <2>2. QED
    BY <2>1, Away DEF DeployPhases
<1>4. ASSUME NEW m \in Members, AddMember(m)
      PROVE  DeployInv(d)'
  <2>1. Remembers(d) /\ UNCHANGED <<pc, alone, cloud>>
    BY <1>4 DEF AddMember, Remembers
  <2>2. creating' => creating /\ members \subseteq members'
    BY <1>4 DEF AddMember
  <2>3. pc[d] \in Started => WorkersOf(d) \subseteq members
    BY <1>4 DEF AddMember, DeployInv, TodoInv
  <2>4. \A v \in Members : v # m => row'[v] = row[v]
    BY <1>1, <1>4 DEF AddMember, Shaped
  <2>5. pc[d] \in Started => \A v \in WorkersOf(d) : row'[v] = row[v]
    BY <1>1, <1>4, <2>3, <2>4, WorkersTyped DEF AddMember
  <2>6. QED
    BY <1>1, <2>1, <2>2, <2>5, CloudKept
<1>5. CASE CreateFails
  <2>1. Remembers(d) /\ pc'[d] = pc[d]
    BY <1>1, <1>5 DEF CreateFails, Remembers, Goto, Finish, ControlTyped, MemTyped, WorkTyped
  <2>2. creating' => creating /\ members \subseteq members'
    BY <1>5 DEF CreateFails
  <2>3. alone'[d] /\ pc[d] \in Started =>
           alone[d] /\ cloud' = cloud /\ \A v \in WorkersOf(d) : row'[v] = row[v]
    BY <1>1, <1>5 DEF CreateFails
  <2>4. QED
    BY <1>1, <2>1, <2>2, <2>3, CloudKept
<1>6. CASE DeleteGroup
  <2>1. Remembers(d) /\ pc'[d] = pc[d]
    BY <1>1, <1>6 DEF DeleteGroup, Remembers, Goto, Finish, ControlTyped, MemTyped, WorkTyped
  <2>2. creating' => creating /\ members \subseteq members'
    BY <1>6 DEF DeleteGroup
  <2>3. alone'[d] /\ pc[d] \in Started =>
           alone[d] /\ cloud' = cloud /\ \A v \in WorkersOf(d) : row'[v] = row[v]
    BY <1>1, <1>6 DEF DeleteGroup
  <2>4. QED
    BY <1>1, <2>1, <2>2, <2>3, CloudKept
<1>7. CASE CancelGroup
  <2>1. Remembers(d) /\ pc'[d] = pc[d]
    BY <1>1, <1>7 DEF CancelGroup, Remembers, Goto, Finish, ControlTyped, MemTyped, WorkTyped
  <2>2. creating' => creating /\ members \subseteq members'
    BY <1>7 DEF CancelGroup
  <2>3. alone'[d] /\ pc[d] \in Started =>
           alone[d] /\ cloud' = cloud /\ \A v \in WorkersOf(d) : row'[v] = row[v]
    BY <1>1, <1>7 DEF CancelGroup
  <2>4. QED
    BY <1>1, <2>1, <2>2, <2>3, CloudKept
<1>8. CASE Restart
  <2>1. pc'[d] \in {"idle", "done"}
    BY <1>1, <1>8 DEF Restart
  <2>2. QED
    BY <2>1, Away DEF DeployPhases, Over
<1>9. ASSUME NEW h \in Deploys, BeginDeploy(h)
      PROVE  DeployInv(d)'
  <2>1. CASE d = h
    <3>1. /\ pc'[d] = "resolve" /\ todo'[d] = members /\ UNCHANGED <<creating, members>>
      BY <1>1, <1>9, <2>1 DEF BeginDeploy, Goto, ControlTyped, WorkTyped
    <3>2. TodoInv(d)'
      BY <3>1 DEF TodoInv, Started
    <3>3. QED
      BY <3>1, <3>2, Early DEF Started
  <2>2. CASE d # h
    <3>1. Remembers(d) /\ pc'[d] = pc[d]
      BY <1>1, <1>9, <2>2 DEF BeginDeploy, Remembers, Goto, ControlTyped, WorkTyped
    <3>2. UNCHANGED <<creating, members, cloud, row>> /\ (alone'[d] => alone[d])
      BY <1>1, <1>9, <2>2 DEF BeginDeploy, ControlTyped
    <3>3. QED
      BY <1>1, <3>1, <3>2, CloudKept
  <2>3. QED
    BY <2>1, <2>2
<1>10. ASSUME NEW h \in Deploys, Phase(h)
      PROVE  DeployInv(d)'
  <2>1. CASE d = h
    <3>1. DeployInv(h)
      BY <2>1
    <3>2. \A w \in Workers : WorkerUp(h, w) => DeployInv(h)'
      BY <3>1, WorkerUpKeeps
    <3>3. DeployInv(h)'
      BY <1>10, <3>1, <3>2, ResolveKeeps, BeginUpKeeps, Phase1Keeps, Phase15Keeps, Phase2Keeps,
         AfterWorkersKeeps, Phase4Keeps, Retry4Keeps, RouteKeeps, Phase5Keeps, LastKeeps, PanicKeeps DEF Phase
    <3>4. QED
      BY <2>1, <3>3
  <2>2. CASE d # h
    <3>1. Remembers(d) /\ pc'[d] = pc[d] /\ UNCHANGED <<creating, members, alone>> /\ InFlight(h)
      BY <1>1, <1>10, <2>2, PhaseApart, PhaseGoes DEF ControlTyped, InFlight, Deploying, DeployPhases
    <3>2. pc[d] \in Started => ~alone[d]
      BY <1>1, <1>2, <2>2, <3>1 DEF Started, Deploying, DeployPhases
    <3>3. QED
      BY <1>1, <3>1, <3>2, CloudKept
  <2>3. QED
    BY <2>1, <2>2
<1>11. ASSUME NEW h \in Handlers, Leave(h)
      PROVE  DeployInv(d)'
  <2>1. CASE d = h
    <3>1. pc'[d] \in Over
      BY <1>1, <1>11, <2>1 DEF Leave, Goto, ControlTyped, Over
    <3>2. QED
      BY <3>1, Away DEF DeployPhases, Over
  <2>2. CASE d # h
    <3>1. Remembers(d) /\ pc'[d] = pc[d]
      BY <1>1, <1>11, <2>2 DEF Leave, Remembers, Goto, ControlTyped, MemTyped, WorkTyped
    <3>2. UNCHANGED <<creating, members, cloud, row>> /\ (alone'[d] => alone[d])
      BY <1>1, <1>11, <2>2 DEF Leave, ControlTyped
    <3>3. QED
      BY <1>1, <3>1, <3>2, CloudKept
  <2>3. QED
    BY <2>1, <2>2
<1>12. ASSUME NEW h \in Destroys, AskDestroy(h)
      PROVE  DeployInv(d)'
  <2>1. Remembers(d) /\ pc'[d] = pc[d]
    BY <1>1, <1>12 DEF AskDestroy, Remembers, Goto, Finish, ControlTyped, MemTyped, WorkTyped
  <2>2. creating' => creating /\ members \subseteq members'
    BY <1>12 DEF AskDestroy
  <2>3. alone'[d] /\ pc[d] \in Started =>
           alone[d] /\ cloud' = cloud /\ \A v \in WorkersOf(d) : row'[v] = row[v]
    BY <1>1, <1>12 DEF AskDestroy, ControlTyped
  <2>4. QED
    BY <1>1, <2>1, <2>2, <2>3, CloudKept
<1>13. ASSUME NEW h \in Destroys, Register(h)
      PROVE  DeployInv(d)'
  <2>1. /\ h # d /\ UNCHANGED <<todo, failed, known, tries, mem, creating, members, alone, cloud, row>>
        /\ \E x \in {"done", "begun"} : pc' = [pc EXCEPT ![h] = x]
    BY <1>13 DEF Register, Goto
  <2>2. Remembers(d) /\ pc'[d] = pc[d]
    BY <1>1, <2>1 DEF Remembers, ControlTyped
  <2>3. QED
    BY <1>1, <2>1, <2>2, CloudKept
<1>14. ASSUME NEW h \in Destroys, StartJob(h)
      PROVE  DeployInv(d)'
  <2>1. Remembers(d) /\ pc'[d] = pc[d]
    BY <1>1, <1>14 DEF StartJob, Remembers, Goto, Finish, ControlTyped, MemTyped, WorkTyped
  <2>2. creating' => creating /\ members \subseteq members'
    BY <1>14 DEF StartJob
  <2>3. alone'[d] /\ pc[d] \in Started =>
           alone[d] /\ cloud' = cloud /\ \A v \in WorkersOf(d) : row'[v] = row[v]
    BY <1>1, <1>14 DEF StartJob
  <2>4. QED
    BY <1>1, <2>1, <2>2, <2>3, CloudKept
<1>15. ASSUME NEW h \in Destroys, NEW w \in Workers, BeginWorkerDown(h, w)
      PROVE  DeployInv(d)'
  <2>1. Remembers(d) /\ pc'[d] = pc[d]
    BY <1>1, <1>15 DEF BeginWorkerDown, Remembers, Goto, Finish, ControlTyped, MemTyped, WorkTyped
  <2>2. creating' => creating /\ members \subseteq members'
    BY <1>15 DEF BeginWorkerDown
  <2>3. alone'[d] /\ pc[d] \in Started =>
           alone[d] /\ cloud' = cloud /\ \A v \in WorkersOf(d) : row'[v] = row[v]
    BY <1>1, <1>15 DEF BeginWorkerDown
  <2>4. QED
    BY <1>1, <2>1, <2>2, <2>3, CloudKept
<1>16. ASSUME NEW h \in Destroys, NEW w \in Workers, EndWorkerDown(h, w)
      PROVE  DeployInv(d)'
  <2>1. Remembers(d) /\ UNCHANGED <<pc, creating, members, alone, row>> /\ InFlight(h) /\ h # d
    BY <1>1, <1>16 DEF EndWorkerDown, Remembers, WorkTyped, InFlight, Destroying
  <2>2. pc[d] \in Started => ~alone[d]
    BY <1>1, <1>2, <2>1 DEF Started, Deploying, DeployPhases
  <2>3. QED
    BY <1>1, <2>1, <2>2, CloudKept
<1>17. ASSUME NEW h \in Destroys, BeginPrimaryDown(h)
      PROVE  DeployInv(d)'
  <2>1. Remembers(d) /\ pc'[d] = pc[d]
    BY <1>1, <1>17 DEF BeginPrimaryDown, Remembers, Goto, Finish, ControlTyped, MemTyped, WorkTyped
  <2>2. creating' => creating /\ members \subseteq members'
    BY <1>17 DEF BeginPrimaryDown
  <2>3. alone'[d] /\ pc[d] \in Started =>
           alone[d] /\ cloud' = cloud /\ \A v \in WorkersOf(d) : row'[v] = row[v]
    BY <1>1, <1>17 DEF BeginPrimaryDown
  <2>4. QED
    BY <1>1, <2>1, <2>2, <2>3, CloudKept
<1>18. ASSUME NEW h \in Destroys, EndPrimaryDown(h)
      PROVE  DeployInv(d)'
  <2>1. Remembers(d) /\ UNCHANGED <<pc, creating, members, alone, row>> /\ InFlight(h) /\ h # d
    BY <1>1, <1>18 DEF EndPrimaryDown, Remembers, WorkTyped, InFlight, Destroying
  <2>2. pc[d] \in Started => ~alone[d]
    BY <1>1, <1>2, <2>1 DEF Started, Deploying, DeployPhases
  <2>3. QED
    BY <1>1, <2>1, <2>2, CloudKept
<1>19. ASSUME NEW h \in Destroys, Answer(h)
      PROVE  DeployInv(d)'
  <2>1. Remembers(d) /\ pc'[d] = pc[d]
    BY <1>1, <1>19 DEF Answer, Remembers, Goto, Finish, ControlTyped, MemTyped, WorkTyped
  <2>2. creating' => creating /\ members \subseteq members'
    BY <1>19 DEF Answer
  <2>3. alone'[d] /\ pc[d] \in Started =>
           alone[d] /\ cloud' = cloud /\ \A v \in WorkersOf(d) : row'[v] = row[v]
    BY <1>1, <1>19 DEF Answer
  <2>4. QED
    BY <1>1, <2>1, <2>2, <2>3, CloudKept
<1>20. ASSUME NEW h \in Destroys, Disconnect(h)
      PROVE  DeployInv(d)'
  <2>1. Remembers(d) /\ pc'[d] = pc[d]
    BY <1>1, <1>20 DEF Disconnect, Remembers, Goto, Finish, ControlTyped, MemTyped, WorkTyped
  <2>2. creating' => creating /\ members \subseteq members'
    BY <1>20 DEF Disconnect
  <2>3. alone'[d] /\ pc[d] \in Started =>
           alone[d] /\ cloud' = cloud /\ \A v \in WorkersOf(d) : row'[v] = row[v]
    BY <1>1, <1>20 DEF Disconnect
  <2>4. QED
    BY <1>1, <2>1, <2>2, <2>3, CloudKept
<1>21. ASSUME NEW h \in Destroys, DestroyPanics(h)
      PROVE  DeployInv(d)'
  <2>1. Remembers(d) /\ pc'[d] = pc[d]
    BY <1>1, <1>21 DEF DestroyPanics, Remembers, Goto, Finish, ControlTyped, MemTyped, WorkTyped
  <2>2. creating' => creating /\ members \subseteq members'
    BY <1>21 DEF DestroyPanics
  <2>3. alone'[d] /\ pc[d] \in Started =>
           alone[d] /\ cloud' = cloud /\ \A v \in WorkersOf(d) : row'[v] = row[v]
    BY <1>1, <1>21 DEF DestroyPanics
  <2>4. QED
    BY <1>1, <2>1, <2>2, <2>3, CloudKept
<1>22. CASE UNCHANGED vars
  <2>1. Remembers(d) /\ UNCHANGED <<pc, creating, members, alone, cloud, row>>
    BY <1>22 DEF vars, Remembers, group, history
  <2>2. QED
    BY <1>1, <2>1, CloudKept
<1>23. QED
  BY <1>3, <1>4, <1>5, <1>6, <1>7, <1>8, <1>9, <1>10, <1>11, <1>12, <1>13, <1>14,
     <1>15, <1>16, <1>17, <1>18, <1>19, <1>20, <1>21, <1>22
     DEF Next, DeployStep, DestroyStep, Phase

\* Only a deployment's own step begins an operation of its.
LEMMA OwnBegin ==
  ASSUME TypeOK, NEW d \in Deploys, NEW v \in Members, busy[v] # d, busy'[v] = d, [Next]_vars
  PROVE  BeginUp(d) /\ v \in Subject(d)
<1> USE HandlerFacts, MemberFacts DEF group, registry, history
<1>1. PlainTyped /\ Shaped(row) /\ CloudTyped /\ MemTyped /\ ControlTyped /\ WorkTyped /\ d \in Handlers
  BY Types
<1>2. CASE CreateGroup
  BY <1>1, <1>2 DEF CreateGroup, Begin, End, ControlTyped
<1>3. ASSUME NEW m \in Members, AddMember(m)
      PROVE  BeginUp(d) /\ v \in Subject(d)
  BY <1>1, <1>3 DEF AddMember, Begin, End, ControlTyped
<1>4. CASE CreateFails
  BY <1>1, <1>4 DEF CreateFails, Begin, End, ControlTyped
<1>5. CASE DeleteGroup
  BY <1>1, <1>5 DEF DeleteGroup, Begin, End, ControlTyped
<1>6. CASE CancelGroup
  BY <1>1, <1>6 DEF CancelGroup, Begin, End, ControlTyped
<1>7. CASE Restart
  BY <1>1, <1>7 DEF Restart
<1>8. ASSUME NEW h \in Deploys, BeginDeploy(h)
      PROVE  BeginUp(d) /\ v \in Subject(d)
  BY <1>1, <1>8 DEF BeginDeploy, Begin, End, ControlTyped
<1>9. ASSUME NEW h \in Deploys, Phase(h)
      PROVE  BeginUp(d) /\ v \in Subject(d)
  BY <1>1, <1>9, PhaseHolds DEF ControlTyped
<1>10. ASSUME NEW h \in Handlers, Leave(h)
      PROVE  BeginUp(d) /\ v \in Subject(d)
  BY <1>1, <1>10 DEF Leave, Begin, End, ControlTyped
<1>11. ASSUME NEW h \in Destroys, AskDestroy(h)
      PROVE  BeginUp(d) /\ v \in Subject(d)
  BY <1>1, <1>11 DEF AskDestroy, Begin, End, ControlTyped
<1>12. ASSUME NEW h \in Destroys, Register(h)
      PROVE  BeginUp(d) /\ v \in Subject(d)
  BY <1>1, <1>12 DEF Register, Begin, End, ControlTyped
<1>13. ASSUME NEW h \in Destroys, StartJob(h)
      PROVE  BeginUp(d) /\ v \in Subject(d)
  BY <1>1, <1>13 DEF StartJob, Begin, End, ControlTyped
<1>14. ASSUME NEW h \in Destroys, NEW w \in Workers, BeginWorkerDown(h, w)
      PROVE  BeginUp(d) /\ v \in Subject(d)
  BY <1>1, <1>14 DEF BeginWorkerDown, Begin, End, ControlTyped
<1>15. ASSUME NEW h \in Destroys, NEW w \in Workers, EndWorkerDown(h, w)
      PROVE  BeginUp(d) /\ v \in Subject(d)
  BY <1>1, <1>15 DEF EndWorkerDown, Begin, End, ControlTyped
<1>16. ASSUME NEW h \in Destroys, BeginPrimaryDown(h)
      PROVE  BeginUp(d) /\ v \in Subject(d)
  BY <1>1, <1>16 DEF BeginPrimaryDown, Begin, End, ControlTyped
<1>17. ASSUME NEW h \in Destroys, EndPrimaryDown(h)
      PROVE  BeginUp(d) /\ v \in Subject(d)
  BY <1>1, <1>17 DEF EndPrimaryDown, Begin, End, ControlTyped
<1>18. ASSUME NEW h \in Destroys, Answer(h)
      PROVE  BeginUp(d) /\ v \in Subject(d)
  BY <1>1, <1>18 DEF Answer, Begin, End, ControlTyped
<1>19. ASSUME NEW h \in Destroys, Disconnect(h)
      PROVE  BeginUp(d) /\ v \in Subject(d)
  BY <1>1, <1>19 DEF Disconnect, Begin, End, ControlTyped
<1>20. ASSUME NEW h \in Destroys, DestroyPanics(h)
      PROVE  BeginUp(d) /\ v \in Subject(d)
  BY <1>1, <1>20 DEF DestroyPanics, Begin, End, ControlTyped
<1>21. CASE UNCHANGED vars
  BY <1>21 DEF vars
<1>22. QED
  BY <1>2, <1>3, <1>4, <1>5, <1>6, <1>7, <1>8, <1>9, <1>10, <1>11, <1>12, <1>13,
     <1>14, <1>15, <1>16, <1>17, <1>18, <1>19, <1>20, <1>21
     DEF Next, DeployStep, DestroyStep, Phase

\* Only a deployment's own step reports it deployed.
LEMMA OwnReport ==
  ASSUME TypeOK, PlacesInv, NEW d \in Deploys, ReportsDeployed(d), [Next]_vars
  PROVE  Phase(d)
<1> USE HandlerFacts, MemberFacts DEF group, registry, history
<1>1. PlainTyped /\ Shaped(row) /\ CloudTyped /\ MemTyped /\ ControlTyped /\ WorkTyped /\ d \in Handlers
  BY Types
<1>2. pc[d] \in DeployPhases /\ pc'[d] = "leave" /\ status # "deployed" /\ status' = "deployed"
  BY DEF ReportsDeployed, Deploying
<1>3. CASE CreateGroup
  BY <1>1, <1>2, <1>3 DEF CreateGroup, Goto, Finish, SetStatus, ControlTyped, DeployPhases
<1>4. ASSUME NEW m \in Members, AddMember(m)
      PROVE  Phase(d)
  BY <1>1, <1>2, <1>4 DEF AddMember, Goto, Finish, SetStatus, ControlTyped, DeployPhases
<1>5. CASE CreateFails
  BY <1>1, <1>2, <1>5 DEF CreateFails, Goto, Finish, SetStatus, ControlTyped, DeployPhases
<1>6. CASE DeleteGroup
  BY <1>1, <1>2, <1>6 DEF DeleteGroup, Goto, Finish, SetStatus, ControlTyped, DeployPhases
<1>7. CASE CancelGroup
  BY <1>1, <1>2, <1>7 DEF CancelGroup, Goto, Finish, SetStatus, ControlTyped, DeployPhases
<1>8. CASE Restart
  BY <1>1, <1>2, <1>8 DEF Restart, Goto, Finish, SetStatus, ControlTyped, DeployPhases
<1>9. ASSUME NEW h \in Deploys, BeginDeploy(h)
      PROVE  Phase(d)
  BY <1>1, <1>2, <1>9 DEF BeginDeploy, Goto, Finish, SetStatus, ControlTyped, DeployPhases
<1>10. ASSUME NEW h \in Deploys, Phase(h)
      PROVE  Phase(d)
  <2>1. d = h
    BY <1>1, <1>2, <1>10, PhaseGoes DEF ControlTyped, DeployPhases
  <2>2. QED
    BY <1>10, <2>1
<1>11. ASSUME NEW h \in Handlers, Leave(h)
      PROVE  Phase(d)
  BY <1>1, <1>2, <1>11 DEF Leave, Goto, Finish, SetStatus, ControlTyped, DeployPhases
<1>12. ASSUME NEW h \in Destroys, AskDestroy(h)
      PROVE  Phase(d)
  BY <1>1, <1>2, <1>12 DEF AskDestroy, Goto, Finish, SetStatus, ControlTyped, DeployPhases
<1>13. ASSUME NEW h \in Destroys, Register(h)
      PROVE  Phase(d)
  BY <1>1, <1>2, <1>13 DEF Register, Goto, Finish, SetStatus, ControlTyped, DeployPhases
<1>14. ASSUME NEW h \in Destroys, StartJob(h)
      PROVE  Phase(d)
  BY <1>1, <1>2, <1>14 DEF StartJob, Goto, Finish, SetStatus, ControlTyped, DeployPhases
<1>15. ASSUME NEW h \in Destroys, NEW w \in Workers, BeginWorkerDown(h, w)
      PROVE  Phase(d)
  BY <1>1, <1>2, <1>15 DEF BeginWorkerDown, Goto, Finish, SetStatus, ControlTyped, DeployPhases
<1>16. ASSUME NEW h \in Destroys, NEW w \in Workers, EndWorkerDown(h, w)
      PROVE  Phase(d)
  BY <1>1, <1>2, <1>16 DEF EndWorkerDown, Goto, Finish, SetStatus, ControlTyped, DeployPhases
<1>17. ASSUME NEW h \in Destroys, BeginPrimaryDown(h)
      PROVE  Phase(d)
  BY <1>1, <1>2, <1>17 DEF BeginPrimaryDown, Goto, Finish, SetStatus, ControlTyped, DeployPhases
<1>18. ASSUME NEW h \in Destroys, EndPrimaryDown(h)
      PROVE  Phase(d)
  BY <1>1, <1>2, <1>18 DEF EndPrimaryDown, Goto, Finish, SetStatus, ControlTyped, DeployPhases
<1>19. ASSUME NEW h \in Destroys, Answer(h)
      PROVE  Phase(d)
  BY <1>1, <1>2, <1>19 DEF Answer, Goto, Finish, SetStatus, ControlTyped, DeployPhases
<1>20. ASSUME NEW h \in Destroys, Disconnect(h)
      PROVE  Phase(d)
  BY <1>1, <1>2, <1>20 DEF Disconnect, Goto, Finish, SetStatus, ControlTyped, DeployPhases
<1>21. ASSUME NEW h \in Destroys, DestroyPanics(h)
      PROVE  Phase(d)
  BY <1>1, <1>2, <1>21 DEF DestroyPanics, Goto, Finish, SetStatus, ControlTyped, DeployPhases
<1>22. CASE UNCHANGED vars
  BY <1>2, <1>22 DEF vars
<1>23. QED
  BY <1>3, <1>4, <1>5, <1>6, <1>7, <1>8, <1>9, <1>10, <1>11, <1>12, <1>13, <1>14,
     <1>15, <1>16, <1>17, <1>18, <1>19, <1>20, <1>21, <1>22
     DEF Next, DeployStep, DestroyStep, Phase

\* What is up when a deployment reports: all it has in memory.
LEMMA ReportsWhat ==
  ASSUME TypeOK, PlacesInv, NEW h \in Deploys, DeployInv(h), [Next]_vars,
         ReportsDeployed(h), alone[h], NEW w \in WorkersOf(h)
  PROVE  /\ pc[h] \in Routed
         /\ cloud'[Primary] = mem[h][Primary] /\ cloud'[w] = mem[h][w]
         /\ Configured(h, w) /\ (~WritesMayFail => row'[w] = mem[h][w])
<1>1. /\ CloudTyped /\ ControlTyped /\ MemTyped /\ WorkTyped /\ h \in Handlers
      /\ w \in Workers /\ w \in Members /\ Primary \in Members /\ Primary \notin Workers
  BY Types, HandlerFacts, MemberFacts, WorkersTyped
<1>2. Phase(h) /\ status # "deployed" /\ status' = "deployed"
  BY SMTT(30), OwnReport DEF ReportsDeployed
<1>3. Phase5(h) \/ Wait6(h) \/ Apps(h)
  <2>1. \A v \in Workers : ~WorkerUp(h, v)
    BY <1>2 DEF WorkerUp
  <2>2. QED
    BY <1>2, <2>1 DEF Phase, Resolve, BeginUp, Phase1, Phase15, Phase2, AfterWorkers, Learn, Phase4,
          Retry4, Route, DeployPanics, Finish, SetStatus
<1>4. CASE Wait6(h) \/ Apps(h)
  <2>1. cloud' = cloud /\ row' = row /\ pc[h] \in {"wait6", "apps"}
    BY <1>4, LastKeeps DEF Wait6, Apps
  <2>2. todo[h] = {} /\ failed[h] = {}
    BY <2>1 DEF DeployInv, TodoInv
  <2>3. Configured(h, w)
    BY <2>1, <2>2 DEF DeployInv, ConfigInv, Routed
  <2>4. /\ cloud[Primary] = mem[h][Primary] /\ cloud[w] = mem[h][w]
        /\ ~WritesMayFail => row[w] = mem[h][w]
    BY <2>1, <2>2 DEF DeployInv, CloudInv, Started, Routed
  <2>5. QED
    BY <2>1, <2>3, <2>4 DEF Routed
<1>5. CASE Phase5(h)
  <2> DEFINE next == NextWorker(h)
  <2>1. /\ pc[h] = "up5" /\ pc'[h] = "leave" /\ row' = row
        /\ todo' = [todo EXCEPT ![h] = @ \ {next}]
        /\ todo'[h] = {} /\ failed'[h] = {}
    BY <1>1, <1>2, <1>5 DEF Phase5, Goto, Finish, SetStatus, ControlTyped, ReportsDeployed
  <2>2. todo[h] \subseteq {next} /\ next \in todo[h] /\ next \in Members /\ next # Primary
    <3>1. todo[h] \subseteq Workers /\ todo[h] # {}
      BY <2>1 DEF DeployInv, TodoInv, DeployPhases
    <3>2. next \in todo[h]
      BY <3>1, NextWorkerFirst
    <3> HIDE DEF next
    <3>3. QED
      BY <1>1, <2>1, <3>1, <3>2, MemberFacts DEF WorkTyped
  <2>3. Up(h, next, TRUE) /\ failed[h] = {}
    BY <1>1, <1>5, <2>1 DEF Phase5, WorkTyped
  <2>4. Configured(h, next) /\ (~WritesMayFail => row[next] = mem[h][next])
    BY <2>1 DEF DeployInv, ConfigInv, CloudInv, Started
  <2>5. /\ cloud[Primary] = mem[h][Primary]
        /\ \A v \in WorkersOf(h) \ todo[h] : cloud[v] = mem[h][v] /\ Configured(h, v)
        /\ ~WritesMayFail => \A v \in WorkersOf(h) \ todo[h] : row[v] = mem[h][v]
    BY <2>1, <2>3 DEF DeployInv, ConfigInv, CloudInv, Started, Routed
  <2> HIDE DEF next
  <2>6. cloud'[next] = mem[h][next] /\ \A n \in Members : n # next => cloud'[n] = cloud[n]
    BY <1>1, <2>2, <2>3, UpSucceeds
  <2>7. CASE w = next
    BY <1>1, <2>1, <2>2, <2>4, <2>5, <2>6, <2>7 DEF Routed
  <2>8. CASE w # next
    BY <1>1, <2>1, <2>2, <2>5, <2>6, <2>8 DEF Routed
  <2>9. QED
    BY <2>7, <2>8
<1>6. QED
  BY <1>3, <1>4, <1>5

----------------------------------------------------------------------------
LEMMA InitIInv == Init => IInv
<1> SUFFICES ASSUME Init
             PROVE  IInv
  OBVIOUS
<1> USE HandlerFacts, MemberFacts
<1>1. TypeOK
  <2>1. Shaped(row) /\ MemTyped
    BY NewConfigShaped DEF Init, MemTyped, Shaped
  <2>2. Known(FALSE, {}, {}) \in KnownOnes /\ 0 \in 0..MaxAttempts /\ 0 \in 0..MaxCrashes
    BY CountAssumption DEF Known, KnownOnes
  <2>3. cloud \in [Members -> Configs \cup {Down}] /\ \A m \in Members : cloud[m] = Down
    BY DEF Init
  <2>4. known \in [Handlers -> KnownOnes]
    BY <2>2 DEF Init
  <2>5. QED
    BY <2>1, <2>2, <2>3, <2>4 DEF Init, TypeOK, MemTyped, Shaped, KnownOnes, DeployPhases
<1>2. PlacesInv
  BY DEF Init, PlacesInv
<1>3. HoldInv /\ RegInv /\ QuietStatusFinal
  BY DEF Init, HoldInv, RegInv, InFlight, Destroying, Deploying, DeployPhases, QuietStatusFinal, Over
<1>4. ASSUME NEW h \in Deploys
      PROVE  DeployInv(h)
  BY DEF Init, DeployInv, TodoInv, ConfigInv, CloudInv, Started, Routed, DeployPhases
<1>5. QED
  BY <1>1, <1>2, <1>3, <1>4 DEF IInv

LEMMA NextIInv == IInv /\ [Next]_vars => IInv'
<1> SUFFICES ASSUME IInv, [Next]_vars
             PROVE  IInv'
  OBVIOUS
<1>1. TypeOK'
  BY TypeStep DEF IInv
<1>2. PlacesInv'
  BY PlacesStep DEF IInv
<1>3. HoldInv'
  BY HoldStep DEF IInv
<1>4. RegInv'
  BY RegStep DEF IInv
<1>5. QuietStatusFinal'
  BY QuietStep DEF IInv
<1>6. \A h \in Deploys : DeployInv(h)'
  BY DeploysStep DEF IInv
<1>7. QED
  BY <1>1, <1>2, <1>3, <1>4, <1>5, <1>6 DEF IInv

\* The invariant holds throughout.
THEOREM Inductive == Spec => []IInv
<1>1. Init => IInv
  BY InitIInv
<1>2. IInv /\ [Next]_vars => IInv'
  BY NextIInv
<1>3. QED
  BY <1>1, <1>2, PTL DEF Spec

\* Every variable keeps its type; in particular every configuration a
\* handler computes is one of its stack's kind, and phase 4 is tried
\* MaxAttempts times at most.
THEOREM TypeCorrect == Spec => []TypeOK
<1>1. IInv => TypeOK
  BY DEF IInv
<1>2. QED
  BY <1>1, Inductive, PTL

\* The primary goes down last, whatever handlers, cancellations and restarts
\* come between (DestroyGroup's goroutine).
THEOREM PrimaryGoesLast == Spec => []PrimaryLast
<1>1. IInv => PrimaryLast
  BY DEF IInv, HoldInv, PrimaryLast
<1>2. QED
  BY <1>1, Inductive, PTL

\* A deployment that is alone can be cancelled, and no entry of groupCancels
\* outlives every request.
THEOREM StaysRegistered == Spec => []AloneIsRegistered
<1>1. IInv => AloneIsRegistered
  <2> SUFFICES ASSUME IInv
               PROVE  AloneIsRegistered
    OBVIOUS
  <2>1. ControlTyped /\ PlainTyped
    BY Types DEF IInv
  <2>2. cancels # Nobody => cancels \in Handlers /\ InFlight(cancels)
    BY <2>1 DEF IInv, RegInv, PlainTyped, InFlight
  <2>3. QED
    BY <2>2 DEF IInv, RegInv, AloneIsRegistered
<1>2. QED
  BY <1>1, Inductive, PTL

\* A group is "deploying" or "destroying" while somebody is at it, or once a
\* handler panicked, or, for "destroying", after a restart.
THEOREM StatusFinal == Spec => []QuietStatusFinal
<1>1. IInv => QuietStatusFinal
  BY DEF IInv
<1>2. QED
  BY <1>1, Inductive, PTL

\* A deployment that is alone begins no operation on a worker before the
\* primary admits it, nor phase 5's before the worker's VCN is attached.
THEOREM PrimaryFirst == Spec => WorkersAfterPrimary
<1> DEFINE Admitted == \A h \in Deploys, w \in Workers :
         busy[w] # h /\ busy'[w] = h /\ alone[h] =>
            /\ w \in cloud[Primary].admits
            /\ pc[h] = "up5" => w \in cloud[Primary].vcns \/ w \notin known[h].read
<1>1. IInv /\ [Next]_vars => Admitted
  <2> SUFFICES ASSUME IInv, [Next]_vars, NEW h \in Deploys, NEW w \in Workers,
                      busy[w] # h, busy'[w] = h, alone[h]
               PROVE  /\ w \in cloud[Primary].admits
                      /\ pc[h] = "up5" => w \in cloud[Primary].vcns \/ w \notin known[h].read
    OBVIOUS
  <2>1. ControlTyped /\ h \in Handlers /\ w \in Members /\ w # Primary /\ TypeOK /\ DeployInv(h)
    BY Types, HandlerFacts, MemberFacts DEF IInv
  <2>2. BeginUp(h) /\ w \in Subject(h)
    BY <2>1, OwnBegin
  <2>3. /\ (pc[h] = "up5" /\ w = NextWorker(h) /\ todo[h] # {}) \/ pc[h] = "workers"
        /\ pc[h] = "workers" => w \in todo[h]
    BY <2>1, <2>2 DEF Subject, DeployInv, TodoInv
  <2>4. pc[h] \in Started /\ todo[h] \subseteq WorkersOf(h) /\ todo[h] \subseteq Workers
    BY <2>1, <2>3 DEF DeployInv, TodoInv, Started, DeployPhases
  <2>5. w \in todo[h]
    BY <2>3, <2>4, NextWorkerFirst
  <2>6. cloud[Primary].admits = WorkersOf(h)
    BY <2>1, <2>4 DEF DeployInv, CloudInv
  <2>7. pc[h] = "up5" => cloud[Primary].vcns = known[h].read
    BY <2>1 DEF DeployInv, CloudInv, ConfigInv, Started, Routed
  <2>8. QED
    BY <2>4, <2>5, <2>6, <2>7
<1>2. QED
  BY <1>1, Inductive, PTL DEF WorkersAfterPrimary, Spec

\* A deployment that was alone and read everything wired what it reports.
THEOREM WiredWhenDeployed == Spec => DeployedIsWired
<1> DEFINE Reported == \A h \in Deploys :
         /\ ReportsDeployed(h) /\ alone[h] /\ known[h].outputs
         /\ \A w \in Workers : NodeCount[w] = 1
         /\ known[h].read = WorkersOf(h) /\ known[h].resolved = WorkersOf(h)
         => \A w \in WorkersOf(h) :
              Wired(w)' /\ (~WritesMayFail => row'[w] = cloud'[w])
<1>1. IInv /\ [Next]_vars => Reported
  <2> SUFFICES ASSUME IInv, [Next]_vars, NEW h \in Deploys,
                      ReportsDeployed(h), alone[h], known[h].outputs,
                      \A v \in Workers : NodeCount[v] = 1,
                      known[h].read = WorkersOf(h), known[h].resolved = WorkersOf(h),
                      NEW w \in WorkersOf(h)
               PROVE  Wired(w)' /\ (~WritesMayFail => row'[w] = cloud'[w])
    OBVIOUS
  <2>1. ControlTyped /\ MemTyped /\ CloudTyped /\ h \in Handlers /\ TypeOK /\ DeployInv(h) /\ PlacesInv
    BY Types, HandlerFacts DEF IInv
  <2>2. WorkersOf(h) \subseteq Workers /\ w \in Workers /\ w \in Members /\ Primary \in Members
        /\ w # Primary
    BY <2>1, WorkersTyped, MemberFacts
  <2>3. /\ pc[h] \in Routed
        /\ cloud'[Primary] = mem[h][Primary] /\ cloud'[w] = mem[h][w]
        /\ Configured(h, w) /\ (~WritesMayFail => row'[w] = mem[h][w])
    BY <2>1, <2>2, ReportsWhat
  <2>4. /\ mem[h][w].drg /\ mem[h][w].attached /\ mem[h][w].port = Position(h, w)
        /\ mem[h][Primary].vcns = WorkersOf(h)
        /\ mem[h][Primary].ips = Addresses(WorkersOf(h), WorkersOf(h))
    BY <2>1, <2>3 DEF DeployInv, ConfigInv, Configured, Started, Routed
  <2>5. /\ Position(h, w) \in DOMAIN Addresses(WorkersOf(h), WorkersOf(h))
        /\ Addresses(WorkersOf(h), WorkersOf(h))[Position(h, w)] = <<w, 1>>
    BY <2>2, PositionLeads DEF Position
  <2>6. mem[h][w] # Down /\ mem[h][Primary] # Down
    BY <2>1, <2>2, MemberFacts DEF MemTyped, Shaped
  <2>7. mem[h][w].port \in Nat
    BY <2>1, <2>2, MemberFacts, ConfigFields DEF MemTyped, Shaped
  <2>8. ReachedThrough(w)'
    <3>1. \A k \in 1..NodeCount[w] : k = 1
      BY <2>2
    <3>2. mem[h][w].port + 1 - 1 = mem[h][w].port
      BY <2>7
    <3>3. QED
      BY <2>3, <2>4, <2>5, <3>1, <3>2 DEF ReachedThrough
  <2>9. QED
    BY <2>3, <2>4, <2>6, <2>8 DEF Wired
<1>2. QED
  BY <1>1, Inductive, PTL DEF DeployedIsWired, Spec
=============================================================================
