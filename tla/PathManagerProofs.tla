-------------------------- MODULE PathManagerProofs --------------------------
(***************************************************************************)
(* Theorems about PathManager, for any names, configurations, clients and  *)
(* bounds: the maps of the manager list exactly the paths that serve, and  *)
(* no two paths of a name serve at once, whatever reloads, clients and the *)
(* closing paths do to each other.                                         *)
(***************************************************************************)
EXTENDS PathManager, TLAPS

\* What the maps hold is a path that was created, that no reload has removed,
\* and that is the last one created for its name; while the manager is up its
\* context is not cancelled.
ListedAreCurrent ==
    \A n \in Names : paths[n] # 0 =>
        /\ paths[n] \in Born /\ ~path[paths[n]].awaited
        /\ \A j \in Born : path[j].name = n => j <= paths[n]
        /\ pmCtx => path[paths[n]].ctx

\* A path serves until the manager has removed it.
ServingAreListed ==
    \A i \in Ids : Serving(i) /\ ~path[i].awaited => paths[path[i].name] = i

\* What a reload has still to remove is in the maps.
RemovalsAreListed ==
    /\ toRemove # {} => mpc \in {"reload", "await"}
    /\ \A i \in toRemove : paths[path[i].name] = i

\* The manager goes on only when the path that it waits for has ended.
AwaitedHaveEnded ==
    \A i \in Ids : path[i].awaited =>
        /\ ~path[i].ctx
        /\ mpc # "await" => path[i].pc = "done"

\* The inductive invariant.
ManagerInv ==
    /\ TypeOK
    /\ PathsAreListed
    /\ OnePathPerName
    /\ ListedAreCurrent
    /\ ServingAreListed
    /\ RemovalsAreListed
    /\ AwaitedHaveEnded

-----------------------------------------------------------------------------
(***************************************************************************)
(* The helpers of path_manager.go.                                         *)
(***************************************************************************)
\* The parts of the invariant that are not types.
MapsInv ==
    /\ PathsAreListed
    /\ OnePathPerName
    /\ ListedAreCurrent
    /\ ServingAreListed
    /\ RemovalsAreListed
    /\ AwaitedHaveEnded

PathRecord ==
    [name : Names, confName : ConfNames, conf : Settings,
     ctx : BOOLEAN, awaited : BOOLEAN, pc : PathControl]

\* FindPathConf() returns entries that exist.
LEMMA FindPathConfType ==
    ASSUME NEW confs \in ConfMap, NEW n \in Names, NEW cn \in FindPathConf(confs, n)
    PROVE  cn \in ConfNames /\ confs[cn] # None /\ confs[cn] \in Settings
<1>1. cn \in ConfNames /\ confs[cn] # None
  BY DEF FindPathConf
<1> QED
  BY <1>1 DEF ConfMap

\* What createPath() leaves: a path of its own for each name, numbered after
\* every path that exists, and everything else as it was.
Created(S, confs, confName, id) ==
    /\ \A m, n \in S : id[m] = id[n] => m = n
    /\ \A n \in S, i \in Born : i < id[n]
    /\ path' = [i \in Ids |-> path'[i]]
    /\ \A n \in S : path'[id[n]] =
          [name |-> n, confName |-> confName[n], conf |-> confs[confName[n]],
           ctx |-> pmCtx, awaited |-> FALSE, pc |-> "run"]
    /\ \A i \in Ids : (\A n \in S : id[n] # i) => path'[i] = path[i]
    /\ paths' = [n \in Names |-> IF n \in S THEN id[n] ELSE paths[n]]
    /\ pathsByConf' = [cn \in ConfNames |->
          pathsByConf[cn] \cup {id[n] : n \in {m \in S : confName[m] = cn}}]

\* createPath() leaves just that.
LEMMA CreatedPaths ==
    ASSUME NEW S, NEW confs, NEW confName, CreatePaths(S, confs, confName)
    PROVE  \E id \in [S -> Ids] : Created(S, confs, confName, id)
<1> DEFINE nameOf(id, i) == CHOOSE n \in S : id[n] = i
<1>1. PICK id \in NumberingsOf(S, Born) :
        /\ path' = [i \in Ids |->
              IF \E n \in S : id[n] = i
              THEN [name |-> nameOf(id, i), confName |-> confName[nameOf(id, i)],
                    conf |-> confs[confName[nameOf(id, i)]],
                    ctx |-> pmCtx, awaited |-> FALSE, pc |-> "run"]
              ELSE path[i]]
        /\ paths' = [n \in Names |-> IF n \in S THEN id[n] ELSE paths[n]]
        /\ pathsByConf' = [cn \in ConfNames |->
              pathsByConf[cn] \cup {id[n] : n \in {m \in S : confName[m] = cn}}]
  BY Zenon DEF CreatePaths
<1>2. /\ id \in [S -> Ids]
      /\ \A m, n \in S : id[m] = id[n] => m = n
      /\ \A n \in S, i \in Born : i < id[n]
  BY DEF NumberingsOf
<1>3. \A n \in S : nameOf(id, id[n]) = n
  BY <1>2
<1> HIDE DEF nameOf
<1>4. \A n \in S : path'[id[n]] =
          [name |-> n, confName |-> confName[n], conf |-> confs[confName[n]],
           ctx |-> pmCtx, awaited |-> FALSE, pc |-> "run"]
  <2> TAKE n \in S
  <2>1. id[n] \in Ids /\ \E m \in S : id[m] = id[n]
    BY <1>2
  <2>2. path'[id[n]] =
          [name |-> nameOf(id, id[n]), confName |-> confName[nameOf(id, id[n])],
           conf |-> confs[confName[nameOf(id, id[n])]],
           ctx |-> pmCtx, awaited |-> FALSE, pc |-> "run"]
    BY <1>1, <2>1, Zenon
  <2> QED
    BY <1>3, <2>2, Zenon
<1>5. \A i \in Ids : (\A n \in S : id[n] # i) => path'[i] = path[i]
  BY <1>1, Zenon
<1>6. path' = [i \in Ids |-> path'[i]]
  BY <1>1, Zenon
<1> QED
  BY <1>1, <1>2, <1>4, <1>5, <1>6, Zenon DEF Created

\* createPath() keeps the types of the three maps of paths.
LEMMA CreatePathsType ==
    ASSUME TypeOK, NEW S \in SUBSET Names, NEW confs \in ConfMap, NEW confName \in [S -> ConfNames],
           \A n \in S : confs[confName[n]] # None, CreatePaths(S, confs, confName)
    PROVE  /\ path' \in [Ids -> PathRecord]
           /\ paths' \in [Names -> 0..MaxPaths]
           /\ pathsByConf' \in [ConfNames -> SUBSET Ids]
<1>1. PICK id \in [S -> Ids] : Created(S, confs, confName, id)
  BY CreatedPaths
<1>2. paths' \in [Names -> 0..MaxPaths]
  <2>1. \A i \in Ids : i \in 0..MaxPaths
    BY DEF Ids
  <2>2. \A n \in S : id[n] \in 0..MaxPaths
    BY <2>1
  <2>3. \A n \in Names : paths[n] \in 0..MaxPaths
    BY DEF TypeOK
  <2>4. paths' = [n \in Names |-> IF n \in S THEN id[n] ELSE paths[n]]
    BY <1>1 DEF Created
  <2> QED
    BY <2>2, <2>3, <2>4
<1>3. pathsByConf' \in [ConfNames -> SUBSET Ids]
  BY <1>1 DEF Created, TypeOK
<1>4. \A n \in S : path'[id[n]] \in PathRecord
  <2> TAKE n \in S
  <2>1. confs[confName[n]] \in Settings
    BY DEF ConfMap
  <2>2. pmCtx \in BOOLEAN /\ "run" \in PathControl
    BY DEF TypeOK, PathControl
  <2>3. n \in Names /\ confName[n] \in ConfNames
    OBVIOUS
  <2>4. path'[id[n]] =
          [name |-> n, confName |-> confName[n], conf |-> confs[confName[n]],
           ctx |-> pmCtx, awaited |-> FALSE, pc |-> "run"]
    BY <1>1 DEF Created
  <2> QED
    BY <2>1, <2>2, <2>3, <2>4 DEF PathRecord
<1>5. \A i \in Ids : path'[i] \in PathRecord
  <2> TAKE i \in Ids
  <2>1. CASE \E n \in S : id[n] = i
    BY <1>4, <2>1
  <2>2. CASE \A n \in S : id[n] # i
    BY <1>1, <2>2 DEF Created, TypeOK, PathRecord
  <2> QED
    BY <2>1, <2>2
<1>6. path' \in [Ids -> PathRecord]
  BY <1>1, <1>5 DEF Created
<1> QED
  BY <1>2, <1>3, <1>6

\* removePath() keeps the types of the two maps.
LEMMA RemovePathType ==
    ASSUME TypeOK, NEW i \in Ids, RemovePath(i)
    PROVE  paths' \in [Names -> 0..MaxPaths] /\ pathsByConf' \in [ConfNames -> SUBSET Ids]
BY PathManagerAssumption DEF TypeOK, RemovePath

\* Every step keeps the types.
LEMMA NextType == TypeOK /\ [Next]_vars => TypeOK'
<1> SUFFICES ASSUME TypeOK, [Next]_vars PROVE TypeOK'
  OBVIOUS
<1> USE PathManagerAssumption
<1>0. path \in [Ids -> PathRecord]
  BY DEF TypeOK, PathRecord
<1>a. ASSUME path' \in [Ids -> PathRecord],
             UNCHANGED <<pathConfs, paths, pathsByConf, pmCtx, mpc, newConfs, toRemove, reloaded, client>>,
             reloaders' \subseteq reloaders
      PROVE  TypeOK'
  BY <1>a DEF TypeOK, PathRecord
<1>1. ASSUME NEW confs \in Configurations, ReloadBegins(confs) PROVE TypeOK'
  <2> DEFINE changed == {cn \in ConfNames : pathConfs[cn] # None /\ ~Equal(confs[cn], pathConfs[cn])}
             updated == {cn \in changed : confs[cn] # None /\ CanBeUpdated(pathConfs[cn], confs[cn])}
             fresh == UNION {{[path |-> i, conf |-> confs[cn], order |-> reloaded + 1] :
                                 i \in pathsByConf[cn]} : cn \in updated}
  <2>1. /\ newConfs' = confs /\ reloaded' = reloaded + 1 /\ mpc' = "reload" /\ reloaded < MaxReloads
        /\ toRemove' = UNION {pathsByConf[cn] : cn \in changed \ updated}
        /\ reloaders' = reloaders \cup fresh
        /\ UNCHANGED <<pathConfs, paths, pathsByConf, pmCtx, path, client>>
    BY <1>1 DEF ReloadBegins
  <2>2. confs \in ConfMap
    OBVIOUS
  <2>3. toRemove' \subseteq Ids
    BY <2>1 DEF TypeOK
  <2>4. reloaded' \in 0..MaxReloads /\ reloaded + 1 \in 1..MaxReloads
    BY <2>1 DEF TypeOK
  <2>5. fresh \subseteq [path : Ids, conf : Settings, order : 1..MaxReloads]
    <3> SUFFICES ASSUME NEW cn \in updated, NEW i \in pathsByConf[cn]
                 PROVE  [path |-> i, conf |-> confs[cn], order |-> reloaded + 1]
                            \in [path : Ids, conf : Settings, order : 1..MaxReloads]
      OBVIOUS
    <3>1. i \in Ids /\ confs[cn] \in Settings
      BY <2>2 DEF TypeOK, ConfMap
    <3> QED
      BY <2>4, <3>1
  <2> HIDE DEF changed, updated, fresh
  <2> QED
    BY <2>1, <2>2, <2>3, <2>4, <2>5 DEF TypeOK, ManagerControl
<1>2. ASSUME NEW i \in Ids, ReloadRemoves(i) PROVE TypeOK'
  <2>1. path' \in [Ids -> PathRecord]
    BY <1>0, <1>2 DEF ReloadRemoves, PathRecord
  <2>2. paths' \in [Names -> 0..MaxPaths] /\ pathsByConf' \in [ConfNames -> SUBSET Ids]
    BY <1>2, RemovePathType DEF ReloadRemoves
  <2> QED
    BY <1>2, <2>1, <2>2 DEF ReloadRemoves, TypeOK, PathRecord, ManagerControl
<1>3. CASE WaitReturns
  BY <1>3 DEF WaitReturns, TypeOK, ManagerControl
<1>4. CASE ReloadEnds
  <2> DEFINE S == {n \in Names : newConfs[n] # None /\ paths[n] = 0}
             f == [n \in S |-> n]
  <2>1. CreatePaths(S, newConfs, f)
    BY <1>4 DEF ReloadEnds
  <2>2. newConfs \in ConfMap /\ f \in [S -> ConfNames] /\ \A n \in S : newConfs[f[n]] # None
    BY DEF TypeOK, ConfNames
  <2>3. S \in SUBSET Names
    OBVIOUS
  <2> HIDE DEF S, f
  <2>4. /\ path' \in [Ids -> PathRecord] /\ paths' \in [Names -> 0..MaxPaths]
        /\ pathsByConf' \in [ConfNames -> SUBSET Ids]
    BY <2>1, <2>2, <2>3, CreatePathsType
  <2> QED
    BY <1>4, <2>4 DEF ReloadEnds, TypeOK, PathRecord, ManagerControl
<1>5. ASSUME NEW i \in Ids, ReceiveClosePath(i) PROVE TypeOK'
  <2>1. path' \in [Ids -> PathRecord]
    BY <1>0, <1>5, ZenonT(40) DEF ReceiveClosePath, PathRecord, PathControl
  <2>2. paths' \in [Names -> 0..MaxPaths] /\ pathsByConf' \in [ConfNames -> SUBSET Ids]
    BY <1>5, RemovePathType DEF ReceiveClosePath, TypeOK
  <2> QED
    BY <1>5, <2>1, <2>2 DEF ReceiveClosePath, TypeOK, PathRecord
<1>6. ASSUME NEW i \in Ids, ReceiveNotification(i) \/ PathStep(i) PROVE TypeOK'
  <2>1. path' \in [Ids -> PathRecord]
    BY <1>0, <1>6 DEF ReceiveNotification, PathStep, Notify, SkipNotification, CloseUnused, Terminated,
                      SkipClosePath, PathEnds, PathMoves, PathRecord, PathControl
  <2> QED
    BY <1>6, <1>a, <2>1 DEF ReceiveNotification, PathStep, Notify, SkipNotification, CloseUnused,
                            Terminated, SkipClosePath, PathEnds, PathMoves
<1>7. CASE ManagerEnds
  BY <1>7 DEF ManagerEnds, TypeOK, ManagerControl
<1>8. ASSUME NEW c \in Clients, NEW n \in Names, GivePath(c, n) PROVE TypeOK'
  BY <1>8 DEF GivePath, TypeOK
<1>9. ASSUME NEW c \in Clients, NEW n \in Names, CreateAndGivePath(c, n) PROVE TypeOK'
  <2>1. PICK cn \in FindPathConf(pathConfs, n) : CreatePaths({n}, pathConfs, [m \in {n} |-> cn])
    BY <1>9 DEF CreateAndGivePath
  <2>2. pathConfs \in ConfMap
    BY DEF TypeOK
  <2>3. cn \in ConfNames /\ pathConfs[cn] # None
    BY <2>2, FindPathConfType
  <2> DEFINE f == [m \in {n} |-> cn]
  <2>4. f \in [{n} -> ConfNames] /\ \A m \in {n} : pathConfs[f[m]] # None
    BY <2>3
  <2>5. CreatePaths({n}, pathConfs, f) /\ {n} \in SUBSET Names
    BY <2>1
  <2> HIDE DEF f
  <2>6. /\ path' \in [Ids -> PathRecord] /\ paths' \in [Names -> 0..MaxPaths]
        /\ pathsByConf' \in [ConfNames -> SUBSET Ids]
    BY <2>2, <2>4, <2>5, CreatePathsType
  <2> QED
    BY <1>9, <2>6 DEF CreateAndGivePath, TypeOK, PathRecord
<1>10. ASSUME NEW c \in Clients, CallReturns(c) PROVE TypeOK'
  BY <1>10 DEF CallReturns, TypeOK
<1>11. ASSUME NEW x \in reloaders, DeliverReload(x) PROVE TypeOK'
  <2>1. x.path \in Ids /\ x.conf \in Settings
    BY DEF TypeOK
  <2>2. path' \in [Ids -> PathRecord]
    BY <1>0, <1>11, <2>1 DEF DeliverReload, PathRecord
  <2> QED
    BY <1>11, <1>a, <2>2 DEF DeliverReload
<1>12. ASSUME NEW x \in reloaders, DropReload(x) PROVE TypeOK'
  BY <1>0, <1>12, <1>a DEF DropReload
<1>13. CASE Close
  <2>1. path' \in [Ids -> PathRecord]
    BY <1>0, <1>13 DEF Close, PathRecord
  <2> QED
    BY <1>13, <2>1 DEF Close, TypeOK, PathRecord
<1>14. CASE UNCHANGED vars
  BY <1>14 DEF vars, TypeOK
<1> QED
  BY <1>1, <1>2, <1>3, <1>4, <1>5, <1>6, <1>7, <1>8, <1>9, <1>10, <1>11, <1>12, <1>13, <1>14
     DEF Next, ManagerStep, ClientStep, ReloaderStep

-----------------------------------------------------------------------------
(***************************************************************************)
(* The steps of the manager and of the paths keep the maps right.          *)
(***************************************************************************)
\* Steps that touch neither the maps nor the paths.
LEMMA QuietKeepsMaps ==
    ASSUME MapsInv, UNCHANGED <<paths, pathsByConf, pmCtx, path>>,
           RemovalsAreListed', AwaitedHaveEnded'
    PROVE  MapsInv'
BY DEF MapsInv, PathsAreListed, OnePathPerName, ListedAreCurrent, ServingAreListed, Born, Serving

\* What a step that moves one path leaves.
LEMMA MovedFields ==
    ASSUME TypeOK, NEW i \in Ids, NEW to, path' = [path EXCEPT ![i].pc = to]
    PROVE  /\ \A j \in Ids : j # i => path'[j] = path[j]
           /\ path'[i].pc = to
           /\ \A j \in Ids : /\ path'[j].name = path[j].name
                             /\ path'[j].confName = path[j].confName
                             /\ path'[j].ctx = path[j].ctx
                             /\ path'[j].awaited = path[j].awaited
BY DEF TypeOK

\* A path that moves through its life: it does not start serving again, and it
\* is not listed by a manager that is up when it ends.
LEMMA MoveKeepsMaps ==
    ASSUME TypeOK, MapsInv, NEW i \in Ids, NEW to, path' = [path EXCEPT ![i].pc = to],
           UNCHANGED <<paths, pathsByConf, pmCtx, mpc, toRemove>>,
           path[i].pc \notin {"unborn", "done"}, to # "unborn",
           to \in {"run", "notify"} => Serving(i),
           to \in {"teardown", "done"} /\ pmCtx => paths[path[i].name] # i
    PROVE  MapsInv'
<1>1. /\ \A j \in Ids : j # i => path'[j] = path[j]
      /\ path'[i].pc = to
      /\ \A j \in Ids : /\ path'[j].name = path[j].name
                        /\ path'[j].confName = path[j].confName
                        /\ path'[j].ctx = path[j].ctx
                        /\ path'[j].awaited = path[j].awaited
  BY MovedFields
<1>2. paths \in [Names -> 0..MaxPaths] /\ \A n \in Names : paths[n] # 0 => paths[n] \in Ids
  BY DEF TypeOK, Ids
<1>3. \A cn \in ConfNames : pathsByConf[cn] \subseteq Ids
  BY DEF TypeOK
<1>4. Born' = Born /\ Born \subseteq Ids
  BY <1>1 DEF Born
<1>5. \A j \in Ids : path[j].name \in Names /\ path[j].confName \in ConfNames
  BY DEF TypeOK
<1>6. \A j \in Ids : Serving(j)' => Serving(j)
  BY <1>1 DEF Serving
<1>7. PathsAreListed'
  <2>1. \A n \in Names : paths'[n] # 0 =>
          path'[paths'[n]].name = n /\ paths'[n] \in pathsByConf'[path'[paths'[n]].confName]
    BY <1>1, <1>2 DEF MapsInv, PathsAreListed
  <2>2. \A cn \in ConfNames : \A j \in pathsByConf'[cn] :
          path'[j].confName = cn /\ paths'[path'[j].name] = j
    BY <1>1, <1>3 DEF MapsInv, PathsAreListed
  <2>3. \A j \in Ids : Serving(j)' /\ path'[j].ctx => paths'[path'[j].name] = j
    BY <1>1, <1>6 DEF MapsInv, PathsAreListed
  <2>4. pmCtx' => \A n \in Names : paths'[n] # 0 => path'[paths'[n]].pc \notin {"teardown", "done"}
    BY <1>1, <1>2 DEF MapsInv, PathsAreListed
  <2> QED
    BY <2>1, <2>2, <2>3, <2>4 DEF PathsAreListed
<1>8. OnePathPerName'
  BY <1>1, <1>4, <1>6 DEF MapsInv, OnePathPerName
<1>9. ListedAreCurrent' /\ ServingAreListed'
  BY <1>1, <1>2, <1>4, <1>6 DEF MapsInv, ListedAreCurrent, ServingAreListed
<1>10. RemovalsAreListed' /\ AwaitedHaveEnded'
  BY <1>1 DEF MapsInv, RemovalsAreListed, AwaitedHaveEnded, TypeOK
<1> QED
  BY <1>7, <1>8, <1>9, <1>10 DEF MapsInv

\* removePath(), close() and, in a reload, the call of wait().
LEMMA RemoveKeepsMaps ==
    ASSUME TypeOK, MapsInv, NEW i \in Ids, paths[path[i].name] = i, RemovePath(i),
           \A j \in Ids : j # i => path'[j] = path[j],
           path'[i].name = path[i].name, path'[i].confName = path[i].confName,
           ~path'[i].ctx, path'[i].pc # "unborn", path[i].pc # "unborn",
           \/ ~path'[i].awaited /\ path'[i].pc \notin {"run", "notify"} /\ mpc' = mpc
           \/ path'[i].awaited /\ path'[i].pc = path[i].pc /\ mpc' = "await",
           mpc # "await", UNCHANGED pmCtx,
           i \notin toRemove', toRemove' \subseteq toRemove, toRemove' # {} => mpc' \in {"reload", "await"}
    PROVE  MapsInv'
<1>1. /\ \A n \in Names : paths'[n] = IF n = path[i].name THEN 0 ELSE paths[n]
      /\ \A cn \in ConfNames : pathsByConf'[cn] = IF cn = path[i].confName THEN pathsByConf[cn] \ {i}
                                                  ELSE pathsByConf[cn]
  BY DEF RemovePath, TypeOK
<1>2. \A n \in Names : paths[n] # 0 => paths[n] \in Ids
  BY DEF TypeOK, Ids
<1>3. \A cn \in ConfNames : pathsByConf[cn] \subseteq Ids
  BY DEF TypeOK
<1>4. Born' = Born /\ Born \subseteq Ids
  BY DEF Born
<1>5. \A j \in Ids : /\ path[j].name \in Names /\ path[j].confName \in ConfNames
                     /\ path'[j].name = path[j].name /\ path'[j].confName = path[j].confName
  BY DEF TypeOK
<1>6. 0 \notin Ids
  BY DEF Ids
<1>7. \A n \in Names : paths[n] = i => n = path[i].name
  BY <1>6 DEF MapsInv, PathsAreListed
<1>8. i \in pathsByConf[path[i].confName]
  BY <1>5, <1>6 DEF MapsInv, PathsAreListed
<1>9. PathsAreListed'
  <2>1. ASSUME NEW n \in Names, paths'[n] # 0
        PROVE  /\ path'[paths'[n]].name = n
               /\ paths'[n] \in pathsByConf'[path'[paths'[n]].confName]
               /\ pmCtx' => path'[paths'[n]].pc \notin {"teardown", "done"}
    <3>1. n # path[i].name /\ paths'[n] = paths[n] /\ paths[n] # i /\ paths[n] \in Ids
      BY <1>1, <1>2, <1>7, <2>1
    <3>2. path'[paths[n]] = path[paths[n]]
      BY <3>1
    <3>3. paths[n] \in pathsByConf[path[paths[n]].confName] /\ path[paths[n]].name = n
      BY <3>1, <2>1 DEF MapsInv, PathsAreListed
    <3>4. paths[n] \in pathsByConf'[path[paths[n]].confName]
      BY <1>1, <1>5, <3>1, <3>3
    <3>5. pmCtx => path[paths[n]].pc \notin {"teardown", "done"}
      BY <3>1, <2>1 DEF MapsInv, PathsAreListed
    <3> QED
      BY <3>1, <3>2, <3>3, <3>4, <3>5
  <2>2. ASSUME NEW cn \in ConfNames, NEW j \in pathsByConf'[cn]
        PROVE  path'[j].confName = cn /\ paths'[path'[j].name] = j
    <3>1. j \in pathsByConf[cn] /\ j \in Ids
      BY <1>1, <1>3
    <3>2. path[j].confName = cn /\ paths[path[j].name] = j
      BY <3>1 DEF MapsInv, PathsAreListed
    <3>3. j # i
      BY <1>1, <3>2
    <3>4. path[j].name # path[i].name
      BY <3>2, <3>3
    <3> QED
      BY <1>1, <1>5, <3>1, <3>2, <3>3, <3>4
  <2>3. ASSUME NEW j \in Ids, Serving(j)', path'[j].ctx PROVE paths'[path'[j].name] = j
    <3>1. j # i /\ Serving(j) /\ path[j].ctx
      BY <2>3 DEF Serving
    <3>2. paths[path[j].name] = j
      BY <3>1 DEF MapsInv, PathsAreListed
    <3> QED
      BY <1>1, <1>5, <3>1, <3>2
  <2> QED
    BY <2>1, <2>2, <2>3 DEF PathsAreListed
<1>10. ListedAreCurrent'
  <2> SUFFICES ASSUME NEW n \in Names, paths'[n] # 0
               PROVE  /\ paths'[n] \in Born' /\ ~path'[paths'[n]].awaited
                      /\ \A j \in Born' : path'[j].name = n => j <= paths'[n]
                      /\ pmCtx' => path'[paths'[n]].ctx
    BY DEF ListedAreCurrent
  <2>1. paths'[n] = paths[n] /\ paths[n] # i /\ paths[n] \in Ids /\ path'[paths[n]] = path[paths[n]]
    BY <1>1, <1>2, <1>7
  <2> QED
    BY <1>4, <1>5, <2>1 DEF MapsInv, ListedAreCurrent
<1>11. ServingAreListed'
  <2> SUFFICES ASSUME NEW j \in Ids, Serving(j)', ~path'[j].awaited PROVE paths'[path'[j].name] = j
    BY DEF ServingAreListed
  <2>1. j # i /\ Serving(j) /\ ~path[j].awaited
    BY DEF Serving
  <2>2. paths[path[j].name] = j
    BY <2>1 DEF MapsInv, ServingAreListed
  <2> QED
    BY <1>1, <1>5, <2>1, <2>2
<1>12. RemovalsAreListed'
  <2> SUFFICES ASSUME NEW j \in toRemove' PROVE paths'[path'[j].name] = j
    BY DEF RemovalsAreListed
  <2>1. j # i /\ j \in Ids /\ paths[path[j].name] = j
    BY DEF MapsInv, RemovalsAreListed, TypeOK
  <2> QED
    BY <1>1, <1>5, <2>1
<1>13. AwaitedHaveEnded'
  BY DEF MapsInv, AwaitedHaveEnded
<1>14. OnePathPerName'
  <2> SUFFICES ASSUME NEW j \in Born, NEW k \in Born, j # k, path[j].name = path[k].name
               PROVE  /\ ~(Serving(j)' /\ Serving(k)')
                      /\ j < k /\ path'[j].awaited => path'[j].pc = "done"
    BY <1>4, <1>5 DEF OnePathPerName
  <2>0. j \in Ids /\ k \in Ids
    BY <1>4
  <2>1. Serving(j)' => Serving(j)
    BY <2>0 DEF Serving
  <2>2. Serving(k)' => Serving(k)
    BY <2>0 DEF Serving
  <2>3. ~(Serving(j)' /\ Serving(k)')
    BY <2>1, <2>2 DEF MapsInv, OnePathPerName
  <2>4. ASSUME j < k, path'[j].awaited PROVE path'[j].pc = "done"
    <3>1. CASE j = i
      <4>1. k <= i
        BY <1>5, <1>6, <2>0, <3>1 DEF MapsInv, ListedAreCurrent
      <4> QED
        BY <2>0, <2>4, <3>1, <4>1 DEF Ids
    <3>2. CASE j # i
      BY <2>0, <2>4, <3>2 DEF MapsInv, OnePathPerName
    <3> QED
      BY <3>1, <3>2
  <2> QED
    BY <2>3, <2>4
<1> QED
  BY <1>9, <1>10, <1>11, <1>12, <1>13, <1>14 DEF MapsInv

\* createPath() for names that have no path, while the manager waits for none.
LEMMA CreateKeepsMaps ==
    ASSUME TypeOK, MapsInv, NEW S \in SUBSET Names, NEW confs, NEW confName \in [S -> ConfNames],
           CreatePaths(S, confs, confName), \A n \in S : paths[n] = 0,
           mpc # "await", toRemove = {}, toRemove' = {}, UNCHANGED pmCtx
    PROVE  MapsInv'
<1>1. PICK id \in [S -> Ids] : Created(S, confs, confName, id)
  BY CreatedPaths
<1>2. \A n \in S : /\ path'[id[n]].name = n /\ path'[id[n]].confName = confName[n]
                   /\ path'[id[n]].ctx = pmCtx /\ path'[id[n]].awaited = FALSE
                   /\ path'[id[n]].pc = "run" /\ id[n] \in Ids
  <2> TAKE n \in S
  <2>1. path'[id[n]] =
          [name |-> n, confName |-> confName[n], conf |-> confs[confName[n]],
           ctx |-> pmCtx, awaited |-> FALSE, pc |-> "run"]
    BY <1>1, Zenon DEF Created
  <2>2. id[n] \in Ids
    OBVIOUS
  <2> QED
    BY <2>1, <2>2
<1>3. \A i \in Ids : (\A n \in S : id[n] # i) => path'[i] = path[i]
  BY <1>1 DEF Created
<1>4. /\ \A n \in Names : paths'[n] = IF n \in S THEN id[n] ELSE paths[n]
      /\ \A cn \in ConfNames : pathsByConf'[cn] = pathsByConf[cn] \cup {id[n] : n \in {m \in S : confName[m] = cn}}
  BY <1>1 DEF Created
<1>5. /\ \A n \in Names : paths[n] # 0 => paths[n] \in Ids
      /\ 0 \notin Ids
  BY DEF TypeOK, Ids
<1>6. Born \subseteq Ids /\ \A n \in S, i \in Born : i < id[n] /\ i # id[n]
  <2>1. Born \subseteq Ids /\ \A n \in S, i \in Born : i < id[n]
    BY <1>1 DEF Created, Born
  <2> QED
    BY <1>2, <2>1 DEF Ids
<1>7. \A i \in Born : path'[i] = path[i]
  BY <1>3, <1>6
<1>8. Born' = Born \cup {id[n] : n \in S}
  <2>1. ASSUME NEW i \in Ids PROVE path'[i].pc # "unborn" <=> i \in Born \/ \E n \in S : id[n] = i
    <3>1. CASE \E n \in S : id[n] = i
      BY <1>2, <3>1
    <3>2. CASE \A n \in S : id[n] # i
      BY <1>3, <3>2 DEF Born
    <3> QED
      BY <3>1, <3>2
  <2>2. Born' = {i \in Ids : path'[i].pc # "unborn"}
    BY DEF Born
  <2> QED
    BY <1>2, <1>6, <2>1, <2>2
<1>9. \A i \in Ids : i \notin Born => path[i].pc = "unborn"
  BY DEF Born
<1>10. \A i \in Ids : path[i].name \in Names /\ path[i].confName \in ConfNames
  BY DEF TypeOK
<1>11. \A n \in Names : paths[n] # 0 => paths[n] \in Born
  BY DEF MapsInv, ListedAreCurrent
<1>12. \A cn \in ConfNames : pathsByConf[cn] \subseteq Born
  <2> SUFFICES ASSUME NEW cn \in ConfNames, NEW i \in pathsByConf[cn] PROVE i \in Born
    OBVIOUS
  <2>1. i \in Ids /\ paths[path[i].name] = i
    BY DEF TypeOK, MapsInv, PathsAreListed
  <2> QED
    BY <1>5, <1>10, <1>11, <2>1
<1>13. \A i \in Born : Serving(i) => ~path[i].awaited /\ paths[path[i].name] = i /\ path[i].name \notin S
  <2> TAKE i \in Born
  <2> HAVE Serving(i)
  <2>1. i \in Ids /\ ~path[i].awaited
    BY <1>6 DEF MapsInv, AwaitedHaveEnded, Serving
  <2>2. paths[path[i].name] = i
    BY <2>1 DEF MapsInv, ServingAreListed
  <2> QED
    BY <1>5, <2>1, <2>2
<1>14. \A i \in Ids : Serving(i)' => (i \in Born /\ Serving(i)) \/ \E n \in S : i = id[n]
  <2> TAKE i \in Ids
  <2>1. CASE \A n \in S : id[n] # i
    <3>1. path'[i] = path[i]
      BY <1>3, <2>1
    <3> QED
      BY <3>1 DEF Serving, Born
  <2> QED
    BY <2>1
<1>15. PathsAreListed'
  <2>1. ASSUME NEW n \in Names, paths'[n] # 0
        PROVE  /\ path'[paths'[n]].name = n
               /\ paths'[n] \in pathsByConf'[path'[paths'[n]].confName]
               /\ pmCtx' => path'[paths'[n]].pc \notin {"teardown", "done"}
    <3>1. CASE n \in S
      BY <1>2, <1>4, <3>1
    <3>2. CASE n \notin S
      <4>1. paths'[n] = paths[n] /\ paths[n] \in Born /\ path'[paths[n]] = path[paths[n]]
        BY <1>4, <1>7, <1>11, <2>1, <3>2
      <4>2. /\ path[paths[n]].name = n /\ paths[n] \in pathsByConf[path[paths[n]].confName]
            /\ pmCtx => path[paths[n]].pc \notin {"teardown", "done"}
        BY <2>1, <4>1 DEF MapsInv, PathsAreListed
      <4>3. paths[n] \in pathsByConf'[path[paths[n]].confName]
        BY <1>4, <1>6, <1>10, <4>1, <4>2
      <4> QED
        BY <4>1, <4>2, <4>3
    <3> QED
      BY <3>1, <3>2
  <2>2. ASSUME NEW cn \in ConfNames, NEW i \in pathsByConf'[cn]
        PROVE  path'[i].confName = cn /\ paths'[path'[i].name] = i
    <3>1. CASE i \in pathsByConf[cn]
      <4>1. i \in Born /\ path[i].confName = cn /\ paths[path[i].name] = i /\ path'[i] = path[i]
        BY <1>7, <1>12, <3>1 DEF MapsInv, PathsAreListed
      <4>2. path[i].name \in Names /\ path[i].name \notin S
        BY <1>5, <1>6, <1>10, <4>1
      <4> QED
        BY <1>4, <4>1, <4>2
    <3>2. CASE \E n \in S : confName[n] = cn /\ i = id[n]
      BY <1>2, <1>4, <3>2
    <3> QED
      BY <1>4, <3>1, <3>2
  <2>3. ASSUME NEW i \in Ids, Serving(i)', path'[i].ctx PROVE paths'[path'[i].name] = i
    <3>1. CASE i \in Born /\ Serving(i)
      BY <1>4, <1>6, <1>7, <1>10, <1>13, <3>1
    <3>2. CASE \E n \in S : i = id[n]
      BY <1>2, <1>4, <3>2
    <3> QED
      BY <1>14, <2>3, <3>1, <3>2
  <2> QED
    BY <2>1, <2>2, <2>3 DEF PathsAreListed
<1>16. ListedAreCurrent'
  <2> SUFFICES ASSUME NEW n \in Names, paths'[n] # 0
               PROVE  /\ paths'[n] \in Born' /\ ~path'[paths'[n]].awaited
                      /\ \A j \in Born' : path'[j].name = n => j <= paths'[n]
                      /\ pmCtx' => path'[paths'[n]].ctx
    BY DEF ListedAreCurrent
  <2>1. CASE n \in S
    <3>1. paths'[n] = id[n] /\ id[n] \in Born' /\ ~path'[id[n]].awaited /\ (pmCtx' => path'[id[n]].ctx)
      BY <1>2, <1>4, <1>8, <2>1
    <3>2. ASSUME NEW j \in Born', path'[j].name = n PROVE j <= id[n]
      <4>1. CASE j \in Born
        BY <1>2, <1>6, <2>1, <4>1 DEF Ids
      <4>2. CASE \E m \in S : j = id[m]
        <5>1. j = id[n]
          BY <1>2, <3>2, <4>2
        <5> QED
          BY <1>2, <2>1, <5>1 DEF Ids
      <4> QED
        BY <1>8, <4>1, <4>2
    <3> QED
      BY <3>1, <3>2
  <2>2. CASE n \notin S
    <3>1. paths'[n] = paths[n] /\ paths[n] \in Born /\ path'[paths[n]] = path[paths[n]] /\ paths[n] # 0
      BY <1>4, <1>7, <1>11, <2>2
    <3>2. ~path[paths[n]].awaited /\ (pmCtx => path[paths[n]].ctx)
      BY <3>1 DEF MapsInv, ListedAreCurrent
    <3>3. ASSUME NEW j \in Born', path'[j].name = n PROVE j <= paths[n]
      <4>1. j \in Born
        BY <1>2, <1>8, <2>2, <3>3
      <4> QED
        BY <1>7, <3>1, <3>3, <4>1 DEF MapsInv, ListedAreCurrent
    <3> QED
      BY <1>8, <3>1, <3>2, <3>3
  <2> QED
    BY <2>1, <2>2
<1>17. ServingAreListed'
  <2> SUFFICES ASSUME NEW i \in Ids, Serving(i)' PROVE paths'[path'[i].name] = i
    BY DEF ServingAreListed
  <2>1. CASE i \in Born /\ Serving(i)
    BY <1>4, <1>6, <1>7, <1>10, <1>13, <2>1
  <2>2. CASE \E n \in S : i = id[n]
    BY <1>2, <1>4, <2>2
  <2> QED
    BY <1>14, <2>1, <2>2
<1>18. RemovalsAreListed'
  BY DEF RemovalsAreListed
<1>19. AwaitedHaveEnded'
  <2> SUFFICES ASSUME NEW i \in Ids, path'[i].awaited PROVE ~path'[i].ctx /\ path'[i].pc = "done"
    BY DEF AwaitedHaveEnded
  <2>1. path'[i] = path[i]
    BY <1>2, <1>3
  <2> QED
    BY <2>1 DEF MapsInv, AwaitedHaveEnded
<1>20. OnePathPerName'
  <2> SUFFICES ASSUME NEW i \in Born', NEW j \in Born', i # j, path'[i].name = path'[j].name
               PROVE  /\ ~(Serving(i)' /\ Serving(j)')
                      /\ path'[i].awaited => path'[i].pc = "done"
    BY DEF OnePathPerName
  <2>1. i \in Ids /\ j \in Ids
    BY DEF Born
  <2>2. path'[i].awaited => path'[i].pc = "done"
    <3>1. path'[i].awaited => path'[i] = path[i]
      BY <1>2, <1>3, <2>1
    <3> QED
      BY <2>1, <3>1 DEF MapsInv, AwaitedHaveEnded
  <2>3. Serving(i)' => paths'[path'[i].name] = i
    BY <1>17, <1>19, <2>1, <2>2 DEF ServingAreListed, Serving
  <2>4. path'[j].awaited => path'[j].pc = "done"
    <3>1. path'[j].awaited => path'[j] = path[j]
      BY <1>2, <1>3, <2>1
    <3> QED
      BY <2>1, <3>1 DEF MapsInv, AwaitedHaveEnded
  <2>5. Serving(j)' => paths'[path'[j].name] = j
    BY <1>17, <1>19, <2>1, <2>4 DEF ServingAreListed, Serving
  <2> QED
    BY <2>2, <2>3, <2>5
<1> QED
  BY <1>15, <1>16, <1>17, <1>18, <1>19, <1>20 DEF MapsInv

\* Every step keeps the maps right.
LEMMA NextMaps == TypeOK /\ MapsInv /\ [Next]_vars => MapsInv'
<1> SUFFICES ASSUME TypeOK, MapsInv, [Next]_vars PROVE MapsInv'
  OBVIOUS
<1>0. path \in [Ids -> PathRecord]
  BY DEF TypeOK, PathRecord
<1>a. RemovalsAreListed /\ AwaitedHaveEnded
  BY DEF MapsInv
<1>1. ASSUME NEW confs \in Configurations, ReloadBegins(confs) PROVE MapsInv'
  <2>1. /\ mpc = "select" /\ mpc' = "reload" /\ UNCHANGED <<paths, pathsByConf, pmCtx, path>>
        /\ \A i \in toRemove' : \E cn \in ConfNames : i \in pathsByConf[cn]
    BY <1>1 DEF ReloadBegins
  <2>2. RemovalsAreListed'
    BY <2>1 DEF RemovalsAreListed, MapsInv, PathsAreListed
  <2>3. AwaitedHaveEnded'
    BY <1>a, <2>1 DEF AwaitedHaveEnded
  <2> QED
    BY <2>1, <2>2, <2>3, QuietKeepsMaps
<1>2. ASSUME NEW i \in Ids, ReloadRemoves(i) PROVE MapsInv'
  <2>1. /\ mpc = "reload" /\ mpc' = "await" /\ RemovePath(i) /\ UNCHANGED pmCtx
        /\ i \in toRemove /\ toRemove' = toRemove \ {i}
        /\ path' = [path EXCEPT ![i].ctx = FALSE, ![i].awaited = TRUE]
    BY <1>2 DEF ReloadRemoves
  <2>2. /\ \A j \in Ids : j # i => path'[j] = path[j]
        /\ path'[i].name = path[i].name /\ path'[i].confName = path[i].confName
        /\ ~path'[i].ctx /\ path'[i].awaited /\ path'[i].pc = path[i].pc
    BY <1>0, <2>1 DEF PathRecord
  <2>3. paths[path[i].name] = i
    BY <1>a, <2>1 DEF RemovalsAreListed
  <2>4. path[i].pc # "unborn"
    <3>1. path[i].name \in Names /\ i # 0
      BY <1>0 DEF PathRecord, Ids
    <3> QED
      BY <2>3, <3>1 DEF MapsInv, ListedAreCurrent, Born
  <2> QED
    BY <2>1, <2>2, <2>3, <2>4, RemoveKeepsMaps
<1>3. CASE WaitReturns
  <2>1. /\ mpc = "await" /\ mpc' = "reload" /\ UNCHANGED <<paths, pathsByConf, pmCtx, path, toRemove>>
        /\ \A i \in Ids : path[i].awaited => path[i].pc = "done"
    BY <1>3 DEF WaitReturns
  <2> QED
    BY <1>a, <2>1, QuietKeepsMaps DEF RemovalsAreListed, AwaitedHaveEnded
<1>4. CASE ReloadEnds
  <2> DEFINE S == {n \in Names : newConfs[n] # None /\ paths[n] = 0}
             f == [n \in S |-> n]
  <2>1. /\ CreatePaths(S, newConfs, f) /\ mpc = "reload" /\ toRemove = {} /\ toRemove' = {}
        /\ UNCHANGED pmCtx
    BY <1>4 DEF ReloadEnds
  <2>2. f \in [S -> ConfNames] /\ S \in SUBSET Names /\ \A n \in S : paths[n] = 0
    BY DEF ConfNames
  <2> HIDE DEF S, f
  <2> QED
    BY <2>1, <2>2, CreateKeepsMaps
<1>5. ASSUME NEW i \in Ids, ReceiveClosePath(i) PROVE MapsInv'
  <2>1. /\ mpc = "select" /\ path[i].pc = "closePath" /\ UNCHANGED <<pmCtx, mpc, toRemove>>
        /\ path' = [path EXCEPT ![i].pc = "teardown", ![i].ctx = FALSE]
    BY <1>5 DEF ReceiveClosePath
  <2>2. toRemove = {}
    BY <1>a, <2>1 DEF RemovalsAreListed
  <2>3. CASE paths[path[i].name] = i
    <3>1. RemovePath(i)
      BY <1>5, <2>3 DEF ReceiveClosePath
    <3>2. ~path[i].awaited
      BY <1>a, <2>1 DEF AwaitedHaveEnded
    <3>3. /\ \A j \in Ids : j # i => path'[j] = path[j]
          /\ path'[i].name = path[i].name /\ path'[i].confName = path[i].confName
          /\ ~path'[i].ctx /\ ~path'[i].awaited /\ path'[i].pc = "teardown"
      BY <1>0, <2>1, <3>2 DEF PathRecord
    <3> QED
      BY <2>1, <2>2, <2>3, <3>1, <3>3, RemoveKeepsMaps
  <2>4. CASE paths[path[i].name] # i
    <3>1. UNCHANGED <<paths, pathsByConf>>
      BY <1>5, <2>4 DEF ReceiveClosePath
    <3>2. /\ \A j \in Ids : j # i => path'[j] = path[j]
          /\ path'[i].name = path[i].name /\ path'[i].confName = path[i].confName
          /\ ~path'[i].ctx /\ path'[i].awaited = path[i].awaited /\ path'[i].pc = "teardown"
      BY <1>0, <2>1 DEF PathRecord
    <3>3. Born' = Born /\ \A j \in Ids : Serving(j)' => Serving(j) /\ path'[j] = path[j]
      BY <2>1, <3>2 DEF Born, Serving
    <3>4. \A n \in Names : paths[n] # 0 => paths[n] \in Ids /\ paths[n] # i
      <4>1. \A n \in Names : paths[n] # 0 => paths[n] \in Ids
        BY DEF TypeOK, Ids
      <4> QED
        BY <2>4, <4>1 DEF MapsInv, PathsAreListed
    <3>a. \A n \in Names : paths[n] # 0 => path'[paths[n]] = path[paths[n]]
      BY <3>2, <3>4
    <3>5. \A cn \in ConfNames : pathsByConf[cn] \subseteq Ids \ {i}
      BY <2>4 DEF TypeOK, MapsInv, PathsAreListed
    <3>6. PathsAreListed'
      <4>1. \A n \in Names : paths'[n] # 0 =>
              /\ path'[paths'[n]].name = n /\ paths'[n] \in pathsByConf'[path'[paths'[n]].confName]
              /\ pmCtx' => path'[paths'[n]].pc \notin {"teardown", "done"}
        <5> TAKE n \in Names
        <5> HAVE paths'[n] # 0
        <5>1. paths'[n] = paths[n] /\ path'[paths[n]] = path[paths[n]] /\ pathsByConf' = pathsByConf
          BY <3>1, <3>a
        <5>2. /\ path[paths[n]].name = n /\ paths[n] \in pathsByConf[path[paths[n]].confName]
              /\ pmCtx => path[paths[n]].pc \notin {"teardown", "done"}
          BY <5>1 DEF MapsInv, PathsAreListed
        <5> QED
          BY <2>1, <5>1, <5>2
      <4>2. \A cn \in ConfNames : \A j \in pathsByConf'[cn] :
              path'[j].confName = cn /\ paths'[path'[j].name] = j
        BY <3>1, <3>2, <3>5 DEF MapsInv, PathsAreListed
      <4>3. \A j \in Ids : Serving(j)' /\ path'[j].ctx => paths'[path'[j].name] = j
        BY <3>1, <3>3 DEF MapsInv, PathsAreListed
      <4> QED
        BY <4>1, <4>2, <4>3 DEF PathsAreListed
    <3>7. OnePathPerName'
      <4>1. \A j \in Ids : path'[j].name = path[j].name /\ path'[j].awaited = path[j].awaited
        BY <3>2
      <4>2. \A j \in Ids : path[j].pc = "done" => path'[j].pc = "done"
        BY <2>1, <3>2
      <4>3. Born \subseteq Ids
        BY DEF Born
      <4> QED
        BY <3>3, <4>1, <4>2, <4>3 DEF MapsInv, OnePathPerName
    <3>8. ListedAreCurrent'
      <4>1. \A j \in Ids : path'[j].name = path[j].name
        BY <3>2
      <4>2. Born \subseteq Ids
        BY DEF Born
      <4> QED
        BY <2>1, <3>1, <3>a, <3>3, <4>1, <4>2 DEF MapsInv, ListedAreCurrent
    <3>9. ServingAreListed'
      BY <3>1, <3>3 DEF MapsInv, ServingAreListed
    <3>10. RemovalsAreListed' /\ AwaitedHaveEnded'
      BY <1>a, <2>1, <2>2, <3>2 DEF RemovalsAreListed, AwaitedHaveEnded
    <3> QED
      BY <3>6, <3>7, <3>8, <3>9, <3>10 DEF MapsInv
  <2> QED
    BY <2>3, <2>4
<1>6. ASSUME NEW i \in Ids, NEW to, path' = [path EXCEPT ![i].pc = to],
             UNCHANGED <<paths, pathsByConf, pmCtx, mpc, toRemove>>,
             path[i].pc \notin {"unborn", "done"}, to # "unborn",
             to \in {"run", "notify"} => Serving(i),
             to = "teardown" => ~path[i].ctx \/ ~pmCtx,
             to = "done" => path[i].pc = "teardown"
      PROVE  MapsInv'
  <2>1. path[i].name \in Names /\ i # 0
    BY <1>0 DEF PathRecord, Ids
  <2>2. to \in {"teardown", "done"} /\ pmCtx => paths[path[i].name] # i
    BY <1>6, <2>1 DEF MapsInv, ListedAreCurrent, PathsAreListed
  <2> QED
    BY <1>6, <2>2, MoveKeepsMaps
<1>7. ASSUME NEW i \in Ids, ReceiveNotification(i) \/ Notify(i) \/ SkipNotification(i) PROVE MapsInv'
  BY <1>6, <1>7 DEF ReceiveNotification, Notify, SkipNotification, PathMoves, Serving
<1>8. ASSUME NEW i \in Ids, CloseUnused(i) \/ Terminated(i) PROVE MapsInv'
  BY <1>6, <1>8 DEF CloseUnused, Terminated, PathMoves
<1>9. ASSUME NEW i \in Ids, SkipClosePath(i) \/ PathEnds(i) PROVE MapsInv'
  BY <1>6, <1>9 DEF SkipClosePath, PathEnds, PathMoves
<1>10. CASE ManagerEnds
  BY <1>10, <1>a, QuietKeepsMaps DEF ManagerEnds, RemovalsAreListed, AwaitedHaveEnded
<1>11. ASSUME UNCHANGED <<paths, pathsByConf, pmCtx, path, mpc, toRemove>> PROVE MapsInv'
  BY <1>11, <1>a, QuietKeepsMaps DEF RemovalsAreListed, AwaitedHaveEnded
<1>12. ASSUME NEW c \in Clients, NEW n \in Names, CreateAndGivePath(c, n) PROVE MapsInv'
  <2>1. PICK cn \in FindPathConf(pathConfs, n) : CreatePaths({n}, pathConfs, [m \in {n} |-> cn])
    BY <1>12 DEF CreateAndGivePath
  <2>2. cn \in ConfNames
    BY FindPathConfType DEF TypeOK
  <2> DEFINE f == [m \in {n} |-> cn]
  <2>3. f \in [{n} -> ConfNames] /\ CreatePaths({n}, pathConfs, f) /\ {n} \in SUBSET Names
    BY <2>1, <2>2
  <2> HIDE DEF f
  <2>4. /\ mpc = "select" /\ UNCHANGED <<pmCtx, toRemove>> /\ \A m \in {n} : paths[m] = 0
    BY <1>12 DEF CreateAndGivePath
  <2>5. toRemove = {}
    BY <1>a, <2>4 DEF RemovalsAreListed
  <2> QED
    BY <2>3, <2>4, <2>5, CreateKeepsMaps
<1>13. ASSUME UNCHANGED <<paths, pathsByConf, mpc, toRemove>>, pmCtx' => pmCtx,
              \A i \in Ids : /\ path'[i].name = path[i].name /\ path'[i].confName = path[i].confName
                             /\ path'[i].awaited = path[i].awaited /\ path'[i].pc = path[i].pc
                             /\ path'[i].ctx => path[i].ctx
                             /\ pmCtx' => path'[i].ctx = path[i].ctx
       PROVE  MapsInv'
  <2>1. Born' = Born /\ Born \subseteq Ids /\ \A i \in Ids : Serving(i)' <=> Serving(i)
    BY <1>13 DEF Born, Serving
  <2>2. \A n \in Names : paths[n] # 0 => paths[n] \in Ids
    BY DEF TypeOK, Ids
  <2>3. \A cn \in ConfNames : pathsByConf[cn] \subseteq Ids
    BY DEF TypeOK
  <2>4. PathsAreListed'
    <3>1. \A n \in Names : paths'[n] # 0 =>
            path'[paths'[n]].name = n /\ paths'[n] \in pathsByConf'[path'[paths'[n]].confName]
      BY <1>13, <2>2 DEF MapsInv, PathsAreListed
    <3>2. \A cn \in ConfNames : \A i \in pathsByConf'[cn] :
            path'[i].confName = cn /\ paths'[path'[i].name] = i
      BY <1>13, <2>3 DEF MapsInv, PathsAreListed
    <3>3. \A i \in Ids : Serving(i)' /\ path'[i].ctx => paths'[path'[i].name] = i
      BY <1>13, <2>1 DEF MapsInv, PathsAreListed
    <3>4. pmCtx' => \A n \in Names : paths'[n] # 0 => path'[paths'[n]].pc \notin {"teardown", "done"}
      BY <1>13, <2>2 DEF MapsInv, PathsAreListed
    <3> QED
      BY <3>1, <3>2, <3>3, <3>4 DEF PathsAreListed
  <2>5. OnePathPerName'
    BY <1>13, <2>1 DEF MapsInv, OnePathPerName
  <2>6. ListedAreCurrent'
    BY <1>13, <2>1, <2>2 DEF MapsInv, ListedAreCurrent
  <2>7. ServingAreListed'
    BY <1>13, <2>1 DEF MapsInv, ServingAreListed
  <2>8. RemovalsAreListed' /\ AwaitedHaveEnded'
    BY <1>13, <1>a DEF RemovalsAreListed, AwaitedHaveEnded, TypeOK
  <2> QED
    BY <2>4, <2>5, <2>6, <2>7, <2>8 DEF MapsInv
<1>14. ASSUME NEW x \in reloaders, DeliverReload(x) PROVE MapsInv'
  <2>1. x.path \in Ids
    BY DEF TypeOK
  <2>2. \A i \in Ids : /\ path'[i].name = path[i].name /\ path'[i].confName = path[i].confName
                       /\ path'[i].awaited = path[i].awaited /\ path'[i].pc = path[i].pc
                       /\ path'[i].ctx = path[i].ctx
    BY <1>0, <1>14, <2>1 DEF DeliverReload, PathRecord
  <2> QED
    BY <1>13, <1>14, <2>2 DEF DeliverReload
<1>15. CASE Close
  <2>1. \A i \in Ids : /\ path'[i].name = path[i].name /\ path'[i].confName = path[i].confName
                       /\ path'[i].awaited = path[i].awaited /\ path'[i].pc = path[i].pc
                       /\ ~path'[i].ctx
    BY <1>0, <1>15 DEF Close, PathRecord
  <2> QED
    BY <1>13, <1>15, <2>1 DEF Close
<1>16. ASSUME NEW c \in Clients, NEW n \in Names, GivePath(c, n) PROVE MapsInv'
  BY <1>11, <1>16 DEF GivePath
<1>17. ASSUME NEW c \in Clients, CallReturns(c) PROVE MapsInv'
  BY <1>11, <1>17 DEF CallReturns
<1>18. ASSUME NEW x \in reloaders, DropReload(x) PROVE MapsInv'
  BY <1>11, <1>18 DEF DropReload
<1>19. CASE UNCHANGED vars
  BY <1>11, <1>19 DEF vars
<1> QED
  BY <1>1, <1>2, <1>3, <1>4, <1>5, <1>7, <1>8, <1>9, <1>10, <1>12, <1>14, <1>15, <1>16, <1>17, <1>18, <1>19
     DEF Next, ManagerStep, PathStep, ClientStep, ReloaderStep

\* initialize() establishes the invariant.
LEMMA InitManagerInv == Init => ManagerInv
<1> SUFFICES ASSUME Init PROVE ManagerInv
  OBVIOUS
<1> DEFINE S == {n \in Names : pathConfs[n] # None}
           nameOf(id, i) == CHOOSE n \in S : id[n] = i
           anyName == CHOOSE n \in Names : TRUE
           anyConf == CHOOSE c \in Settings : TRUE
<1>1. PICK id \in NumberingsOf(S, {}) :
        /\ paths = [n \in Names |-> IF n \in S THEN id[n] ELSE 0]
        /\ pathsByConf = [cn \in ConfNames |-> IF cn \in S THEN {id[cn]} ELSE {}]
        /\ path = [i \in Ids |->
              IF \E n \in S : id[n] = i
              THEN [name |-> nameOf(id, i), confName |-> nameOf(id, i), conf |-> pathConfs[nameOf(id, i)],
                    ctx |-> TRUE, awaited |-> FALSE, pc |-> "run"]
              ELSE [name |-> anyName, confName |-> AllOthers, conf |-> anyConf,
                    ctx |-> FALSE, awaited |-> FALSE, pc |-> "unborn"]]
  BY Zenon DEF Init
<1>2. id \in [S -> Ids] /\ \A m, n \in S : id[m] = id[n] => m = n
  BY DEF NumberingsOf
<1>3. \A n \in S : nameOf(id, id[n]) = n
  BY <1>2
<1>4. anyName \in Names /\ anyConf \in Settings
  <2>1. \E n \in Names : TRUE
    BY PathManagerAssumption
  <2>2. \E c \in Settings : TRUE
    BY PathManagerAssumption
  <2> QED
    BY <2>1, <2>2
<1>5. pathConfs \in ConfMap
  BY PathManagerAssumption DEF Init
<1> HIDE DEF nameOf, anyName, anyConf
<1>6. \A n \in S : path[id[n]] =
          [name |-> n, confName |-> n, conf |-> pathConfs[n],
           ctx |-> TRUE, awaited |-> FALSE, pc |-> "run"]
  <2> TAKE n \in S
  <2>1. id[n] \in Ids /\ \E m \in S : id[m] = id[n]
    BY <1>2
  <2>2. path[id[n]] =
          [name |-> nameOf(id, id[n]), confName |-> nameOf(id, id[n]), conf |-> pathConfs[nameOf(id, id[n])],
           ctx |-> TRUE, awaited |-> FALSE, pc |-> "run"]
    BY <1>1, <2>1, Zenon
  <2> QED
    BY <1>3, <2>2, Zenon
<1>7. \A i \in Ids : (\A n \in S : id[n] # i) =>
          path[i] = [name |-> anyName, confName |-> AllOthers, conf |-> anyConf,
                     ctx |-> FALSE, awaited |-> FALSE, pc |-> "unborn"]
  BY <1>1, Zenon
<1>8. \A n \in S : /\ id[n] \in Ids /\ n \in Names /\ n \in ConfNames /\ pathConfs[n] \in Settings
                   /\ id[n] \in 0..MaxPaths /\ id[n] # 0
  BY <1>2, <1>5 DEF ConfNames, ConfMap, Ids
<1> HIDE DEF S
<1>9. path \in [Ids -> PathRecord]
  <2>1. ASSUME NEW n \in S PROVE path[id[n]] \in PathRecord
    <3>1. path[id[n]] = [name |-> n, confName |-> n, conf |-> pathConfs[n],
                         ctx |-> TRUE, awaited |-> FALSE, pc |-> "run"]
      BY <1>6
    <3>2. n \in Names /\ n \in ConfNames /\ pathConfs[n] \in Settings /\ "run" \in PathControl
      BY <1>8 DEF PathControl
    <3> QED
      BY <3>1, <3>2 DEF PathRecord
  <2>2. ASSUME NEW i \in Ids, \A n \in S : id[n] # i PROVE path[i] \in PathRecord
    <3>1. path[i] = [name |-> anyName, confName |-> AllOthers, conf |-> anyConf,
                     ctx |-> FALSE, awaited |-> FALSE, pc |-> "unborn"]
      BY <1>7, <2>2
    <3>2. AllOthers \in ConfNames /\ "unborn" \in PathControl
      BY DEF PathControl, ConfNames
    <3> QED
      BY <1>4, <3>1, <3>2 DEF PathRecord
  <2>3. \A i \in Ids : path[i] \in PathRecord
    BY <2>1, <2>2
  <2>4. path = [i \in Ids |-> path[i]]
    BY <1>1, Zenon
  <2> QED
    BY <2>3, <2>4
<1>10. paths \in [Names -> 0..MaxPaths] /\ pathsByConf \in [ConfNames -> SUBSET Ids]
  <2>1. paths = [n \in Names |-> IF n \in S THEN id[n] ELSE 0]
    BY <1>1
  <2>2. pathsByConf = [cn \in ConfNames |-> IF cn \in S THEN {id[cn]} ELSE {}]
    BY <1>1
  <2>3. 0 \in 0..MaxPaths
    BY PathManagerAssumption
  <2> QED
    BY <1>8, <2>1, <2>2, <2>3
<1>11. TypeOK
  <2>1. 0 \in 0..MaxReloads /\ 0 \in 0..MaxPaths
    BY PathManagerAssumption
  <2> QED
    BY <1>5, <1>9, <1>10, <2>1 DEF Init, TypeOK, PathRecord, ManagerControl
<1>12. /\ \A n \in Names : paths[n] = IF n \in S THEN id[n] ELSE 0
       /\ \A cn \in ConfNames : pathsByConf[cn] = IF cn \in S THEN {id[cn]} ELSE {}
  BY <1>1
<1>13. \A n \in S : /\ path[id[n]].name = n /\ path[id[n]].confName = n
                    /\ path[id[n]].ctx /\ ~path[id[n]].awaited /\ path[id[n]].pc = "run"
  <2> TAKE n \in S
  <2>1. path[id[n]] = [name |-> n, confName |-> n, conf |-> pathConfs[n],
                       ctx |-> TRUE, awaited |-> FALSE, pc |-> "run"]
    BY <1>6
  <2> QED
    BY <2>1
<1>14. \A i \in Ids : (\A n \in S : id[n] # i) => path[i].pc = "unborn" /\ ~path[i].awaited
  BY <1>7
<1>15. \A i \in Ids : ~path[i].awaited
  BY <1>13, <1>14
<1>16. \A i \in Ids : Serving(i) \/ i \in Born => \E n \in S : id[n] = i
  BY <1>14 DEF Serving, Born
<1>17. PathsAreListed
  <2>1. \A n \in Names : paths[n] # 0 =>
          /\ path[paths[n]].name = n /\ paths[n] \in pathsByConf[path[paths[n]].confName]
          /\ path[paths[n]].pc \notin {"teardown", "done"}
    <3> SUFFICES ASSUME NEW n \in S
                 PROVE  /\ path[id[n]].name = n /\ id[n] \in pathsByConf[path[id[n]].confName]
                        /\ path[id[n]].pc \notin {"teardown", "done"}
      BY <1>12
    <3>1. n \in ConfNames /\ path[id[n]].name = n /\ path[id[n]].confName = n /\ path[id[n]].pc = "run"
      BY <1>8, <1>13
    <3> QED
      BY <1>12, <3>1
  <2>2. \A cn \in ConfNames : \A i \in pathsByConf[cn] : path[i].confName = cn /\ paths[path[i].name] = i
    <3> TAKE cn \in ConfNames
    <3> TAKE i \in pathsByConf[cn]
    <3>1. cn \in S /\ i = id[cn]
      BY <1>12
    <3> QED
      BY <1>8, <1>12, <1>13, <3>1
  <2>3. \A i \in Ids : Serving(i) => paths[path[i].name] = i
    BY <1>8, <1>12, <1>13, <1>16
  <2> QED
    BY <2>1, <2>2, <2>3 DEF PathsAreListed
<1>18. OnePathPerName
  <2>1. Born \subseteq Ids
    BY DEF Born
  <2>2. \A i, j \in Born : path[i].name = path[j].name => i = j
    BY <1>13, <1>16, <2>1
  <2> QED
    BY <2>2 DEF OnePathPerName
<1>19. ListedAreCurrent
  <2>1. \A n \in S : id[n] \in Born
    BY <1>8, <1>13 DEF Born
  <2>2. \A n \in S, j \in Born : path[j].name = n => j = id[n]
    BY <1>13, <1>16 DEF Born
  <2>3. \A n \in S : id[n] <= id[n]
    BY <1>8
  <2> QED
    BY <1>12, <1>13, <2>1, <2>2, <2>3 DEF ListedAreCurrent
<1>20. ServingAreListed
  BY <1>8, <1>12, <1>13, <1>16 DEF ServingAreListed
<1>21. RemovalsAreListed /\ AwaitedHaveEnded
  BY <1>15 DEF Init, RemovalsAreListed, AwaitedHaveEnded
<1> QED
  BY <1>11, <1>17, <1>18, <1>19, <1>20, <1>21 DEF ManagerInv

\* The invariant holds in every reachable state.
LEMMA AlwaysManagerInv == Spec => []ManagerInv
<1>1. ManagerInv <=> TypeOK /\ MapsInv
  BY DEF ManagerInv, MapsInv
<1>2. ManagerInv /\ [Next]_vars => ManagerInv'
  <2>1. ManagerInv' <=> TypeOK' /\ MapsInv'
    BY DEF ManagerInv, MapsInv
  <2> QED
    BY <1>1, <2>1, NextType, NextMaps
<1> QED
  BY <1>2, InitManagerInv, PTL DEF Spec

-----------------------------------------------------------------------------
\* Every reachable state of path_manager.go is well typed; in particular a
\* path is never created from an entry that does not exist.
THEOREM ManagerTypeCorrect == Spec => []TypeOK
<1>1. ManagerInv => TypeOK
  BY DEF ManagerInv
<1> QED
  BY <1>1, AlwaysManagerInv, PTL

\* pm.paths and pm.pathsByConf always agree, list every path that serves and
\* never a path that has ended, in whatever order reloads, closePath() and
\* clients reach the manager.
THEOREM PathsAreListedAlways == Spec => []PathsAreListed
<1>1. ManagerInv => PathsAreListed
  BY DEF ManagerInv
<1> QED
  BY <1>1, AlwaysManagerInv, PTL

\* Two paths of one name never serve at once: a reload waits for the path that
\* it replaces, and a path that closes by itself has left the maps by then.
THEOREM OnePathPerNameAlways == Spec => []OnePathPerName
<1>1. ManagerInv => OnePathPerName
  BY DEF ManagerInv
<1> QED
  BY <1>1, AlwaysManagerInv, PTL
=============================================================================
