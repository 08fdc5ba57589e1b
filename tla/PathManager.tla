----------------------------- MODULE PathManager -----------------------------
(***************************************************************************)
(* internal/core/path_manager.go and the life of the paths it manages, at  *)
(* the granularity of goroutines and unbuffered channels.                  *)
(*                                                                         *)
(* The path manager is a goroutine that owns the two maps of paths.  Paths *)
(* are goroutines of their own: they serve clients, announce to the        *)
(* manager that they became ready or not ready, and close by themselves    *)
(* when nobody uses them.  A client first asks the manager for a path and  *)
(* then calls the path, so the path may end in between.  A reload closes   *)
(* paths and waits for them inside the manager's goroutine, while those    *)
(* paths may be trying to talk to the manager.                             *)
(*                                                                         *)
(* What a path does between two such events is the subject of Path; here a *)
(* path is its name, its configuration and where its goroutine is.         *)
(***************************************************************************)
EXTENDS Naturals, FiniteSets

CONSTANTS
    Names,       \* path names
    Regexps,     \* names of the regular expressions in the configuration
    Matches,     \* subset of Regexps \X Names: which of them match
    AllOthers,   \* the name "all_others"
    Settings,    \* the possible settings of an entry, see CanBeUpdated
    None,        \* no such entry
    Clients,
    Configurations,  \* the path entries that the configuration file may hold
    MaxPaths,    \* bound on the paths created
    MaxReloads   \* bound on the reloads

ConfNames == Names \cup Regexps \cup {AllOthers}

\* conf.Conf.Paths
ConfMap == [ConfNames -> Settings \cup {None}]

\* An entry is settings that force a path to be recreated and settings that
\* can be updated in place (record and the camera parameters).
ASSUME SettingsAssumption == Settings \subseteq [fixed : Nat, hot : Nat]

ASSUME PathManagerAssumption ==
    /\ Names # {} /\ Settings # {}
    /\ Matches \subseteq Regexps \X Names
    /\ None \notin Settings
    /\ Configurations \subseteq ConfMap
    /\ MaxPaths \in Nat /\ MaxReloads \in Nat
    /\ MaxPaths >= Cardinality(Names) * (MaxReloads + 1)

Ids == 1..MaxPaths

VARIABLES
    pathConfs,    \* pm.pathConfs
    paths,        \* pm.paths: the path of a name, 0 if there is none
    pathsByConf,  \* pm.pathsByConf
    pmCtx,        \* pm.ctx is not cancelled
    mpc,          \* the goroutine of the path manager
    newConfs,     \* the argument of doReloadConf()
    toRemove,     \* paths that doReloadConf() has still to remove
    reloaded,     \* number of reloads
    path,         \* the paths created so far
    reloaders,    \* goroutines in path.reloadConf()
    client        \* the path that a client is calling, 0 if none

vars == <<pathConfs, paths, pathsByConf, pmCtx, mpc, newConfs, toRemove, reloaded,
          path, reloaders, client>>

\* "await": in path.wait().
ManagerControl == {"select", "reload", "await", "gone"}

\* "notify": blocked in pathReady() or pathNotReady(); "closePath": runInner()
\* has returned, blocked in closePath(); "teardown": the tail of run().
PathControl == {"unborn", "run", "notify", "closePath", "teardown", "done"}

TypeOK ==
    /\ pathConfs \in ConfMap /\ newConfs \in ConfMap
    /\ paths \in [Names -> 0..MaxPaths]
    /\ pathsByConf \in [ConfNames -> SUBSET Ids]
    /\ pmCtx \in BOOLEAN
    /\ mpc \in ManagerControl
    /\ toRemove \subseteq Ids
    /\ reloaded \in 0..MaxReloads
    /\ path \in [Ids -> [name : Names, confName : ConfNames, conf : Settings,
                         ctx : BOOLEAN, awaited : BOOLEAN, pc : PathControl]]
    /\ reloaders \subseteq [path : Ids, conf : Settings, order : 1..MaxReloads]
    /\ client \in [Clients -> 0..MaxPaths]

-----------------------------------------------------------------------------
Equal(a, b) == a = b

\* pathConfCanBeUpdated()
CanBeUpdated(a, b) == a.fixed = b.fixed

\* Mutant of FindPathConf: all_others is taken for granted.
FindPathConfAssumesAllOthers(confs, n) ==
    IF confs[n] # None THEN {n} ELSE {AllOthers}

\* conf.FindPathConf(): the entry of that name, else any regular expression
\* that matches (maps are iterated in random order), else all_others.
FindPathConf(confs, n) ==
    LET present  == {cn \in ConfNames : confs[cn] # None}
        matching == {re \in Regexps \cap present : <<re, n>> \in Matches}
    IN  IF n \in present THEN {n}
        ELSE IF matching # {} THEN matching
        ELSE present \cap {AllOthers}

Born == {i \in Ids : path[i].pc # "unborn"}

\* The numbers of the paths created for the names in S: paths are numbered in
\* the order in which they are created, and a map is iterated in any order.
NumberingsOf(S, born) ==
    {id \in [S -> Ids] :
        /\ \A m, n \in S : id[m] = id[n] => m = n
        /\ \A n \in S, i \in born : i < id[n]
        /\ \A n \in S, i \in Ids : i < id[n] => i \in born \/ \E m \in S : id[m] = i}

\* MaxPaths leaves room for the paths that the reloads still to come create.
RoomForOneMore ==
    Cardinality(Born) + Cardinality(Names) * (MaxReloads - reloaded) < MaxPaths

\* createPath() for the names in S; confName gives the entry of each.
CreatePaths(S, confs, confName) ==
    \E id \in NumberingsOf(S, Born) :
        LET nameOf(i) == CHOOSE n \in S : id[n] = i
        IN  /\ path' = [i \in Ids |->
                  IF \E n \in S : id[n] = i
                  THEN [name |-> nameOf(i), confName |-> confName[nameOf(i)],
                        conf |-> confs[confName[nameOf(i)]],
                        ctx |-> pmCtx, awaited |-> FALSE, pc |-> "run"]
                  ELSE path[i]]
            /\ paths' = [n \in Names |-> IF n \in S THEN id[n] ELSE paths[n]]
            /\ pathsByConf' = [cn \in ConfNames |->
                  pathsByConf[cn] \cup {id[n] : n \in {m \in S : confName[m] = cn}}]

\* Mutant of RemovePath: pathsByConf is not updated.
RemovePathFromOneMap(i) ==
    /\ paths' = [paths EXCEPT ![path[i].name] = 0]
    /\ UNCHANGED pathsByConf

\* removePath()
RemovePath(i) ==
    /\ pathsByConf' = [pathsByConf EXCEPT ![path[i].confName] = @ \ {i}]
    /\ paths' = [paths EXCEPT ![path[i].name] = 0]

\* initialize(): every entry that is a plain name gets a path.
Init ==
    /\ pathConfs \in Configurations
    /\ LET S == {n \in Names : pathConfs[n] # None}
       IN  \E id \in NumberingsOf(S, {}) :
           /\ paths = [n \in Names |-> IF n \in S THEN id[n] ELSE 0]
           /\ pathsByConf = [cn \in ConfNames |-> IF cn \in S THEN {id[cn]} ELSE {}]
           /\ path = [i \in Ids |->
                 IF \E n \in S : id[n] = i
                 THEN LET n == CHOOSE m \in S : id[m] = i
                      IN  [name |-> n, confName |-> n, conf |-> pathConfs[n],
                           ctx |-> TRUE, awaited |-> FALSE, pc |-> "run"]
                 ELSE [name |-> CHOOSE n \in Names : TRUE, confName |-> AllOthers,
                       conf |-> CHOOSE c \in Settings : TRUE,
                       ctx |-> FALSE, awaited |-> FALSE, pc |-> "unborn"]]
    /\ pmCtx = TRUE
    /\ mpc = "select"
    /\ newConfs = pathConfs
    /\ toRemove = {}
    /\ reloaded = 0
    /\ reloaders = {}
    /\ client = [c \in Clients |-> 0]

-----------------------------------------------------------------------------
(***************************************************************************)
(* The path manager.                                                       *)
(***************************************************************************)
\* doReloadConf(), first loop.  A path whose entry changed is updated by a
\* goroutine of its own if it can be, otherwise it has to be removed.
ReloadBegins(confs) ==
    LET changed  == {cn \in ConfNames : pathConfs[cn] # None /\ ~Equal(confs[cn], pathConfs[cn])}
        updated  == {cn \in changed : confs[cn] # None /\ CanBeUpdated(pathConfs[cn], confs[cn])}
    IN  /\ mpc = "select" /\ pmCtx /\ reloaded < MaxReloads
        /\ mpc' = "reload"
        /\ newConfs' = confs
        /\ reloaded' = reloaded + 1
        /\ toRemove' = UNION {pathsByConf[cn] : cn \in changed \ updated}
        /\ reloaders' = reloaders \cup
              UNION {{[path |-> i, conf |-> confs[cn], order |-> reloaded + 1] :
                        i \in pathsByConf[cn]} : cn \in updated}
        /\ UNCHANGED <<pathConfs, paths, pathsByConf, pmCtx, path, client>>

\* removePath(), close() and the call of wait().
ReloadRemoves(i) ==
    /\ mpc = "reload" /\ i \in toRemove
    /\ RemovePath(i)
    /\ path' = [path EXCEPT ![i].ctx = FALSE, ![i].awaited = TRUE]
    /\ toRemove' = toRemove \ {i}
    /\ mpc' = "await"
    /\ UNCHANGED <<pathConfs, pmCtx, newConfs, reloaded, reloaders, client>>

\* Mutant of WaitReturns: the path may still be running.
WaitReturnsEarly ==
    /\ mpc = "await"
    /\ mpc' = "reload"
    /\ UNCHANGED <<pathConfs, paths, pathsByConf, pmCtx, newConfs, toRemove, reloaded,
                   path, reloaders, client>>

WaitReturns ==
    /\ mpc = "await"
    /\ \A i \in Ids : path[i].awaited => path[i].pc = "done"
    /\ mpc' = "reload"
    /\ UNCHANGED <<pathConfs, paths, pathsByConf, pmCtx, newConfs, toRemove, reloaded,
                   path, reloaders, client>>

\* The rest of doReloadConf(): plain names that have no path get one.
ReloadEnds ==
    LET S == {n \in Names : newConfs[n] # None /\ paths[n] = 0}
    IN  /\ mpc = "reload" /\ toRemove = {}
        /\ pathConfs' = newConfs
        /\ CreatePaths(S, newConfs, [n \in S |-> n])
        /\ mpc' = "select"
        /\ UNCHANGED <<pmCtx, newConfs, toRemove, reloaded, reloaders, client>>

\* doDescribe(), doAddReader(), doAddPublisher(): the client is given the path
\* of that name, which is created if there is none.
GivePath(c, n) ==
    /\ mpc = "select" /\ client[c] = 0
    /\ paths[n] # 0 /\ FindPathConf(pathConfs, n) # {}
    /\ client' = [client EXCEPT ![c] = paths[n]]
    /\ UNCHANGED <<pathConfs, paths, pathsByConf, pmCtx, mpc, newConfs, toRemove, reloaded,
                   path, reloaders>>

CreateAndGivePath(c, n) ==
    /\ mpc = "select" /\ client[c] = 0
    /\ paths[n] = 0 /\ RoomForOneMore
    /\ \E cn \in FindPathConf(pathConfs, n) : CreatePaths({n}, pathConfs, [m \in {n} |-> cn])
    /\ client' = [client EXCEPT ![c] = paths'[n]]
    /\ UNCHANGED <<pathConfs, pmCtx, mpc, newConfs, toRemove, reloaded, reloaders>>

\* doClosePath()
ReceiveClosePath(i) ==
    /\ mpc = "select" /\ path[i].pc = "closePath"
    /\ IF paths[path[i].name] = i THEN RemovePath(i) ELSE UNCHANGED <<paths, pathsByConf>>
    /\ path' = [path EXCEPT ![i].pc = "teardown", ![i].ctx = FALSE]
    /\ UNCHANGED <<pathConfs, pmCtx, mpc, newConfs, toRemove, reloaded, reloaders, client>>

\* doPathReady() and doPathNotReady() call the HLS server and return.
ReceiveNotification(i) ==
    /\ mpc = "select" /\ path[i].pc = "notify"
    /\ path' = [path EXCEPT ![i].pc = "run"]
    /\ UNCHANGED <<pathConfs, paths, pathsByConf, pmCtx, mpc, newConfs, toRemove, reloaded,
                   reloaders, client>>

\* Mutant of Close: the contexts of the paths do not descend from pm.ctx.
CloseManagerOnly ==
    /\ pmCtx
    /\ pmCtx' = FALSE
    /\ UNCHANGED <<pathConfs, paths, pathsByConf, mpc, newConfs, toRemove, reloaded,
                   path, reloaders, client>>

\* close(): the context of the manager is the parent of those of the paths.
Close ==
    /\ pmCtx
    /\ pmCtx' = FALSE
    /\ path' = [i \in Ids |-> [path[i] EXCEPT !.ctx = FALSE]]
    /\ UNCHANGED <<pathConfs, paths, pathsByConf, mpc, newConfs, toRemove, reloaded,
                   reloaders, client>>

ManagerEnds ==
    /\ mpc = "select" /\ ~pmCtx
    /\ mpc' = "gone"
    /\ UNCHANGED <<pathConfs, paths, pathsByConf, pmCtx, newConfs, toRemove, reloaded,
                   path, reloaders, client>>

-----------------------------------------------------------------------------
(***************************************************************************)
(* Paths, clients and reloading goroutines.                                *)
(***************************************************************************)
PathMoves(i, from, to) ==
    /\ path[i].pc = from
    /\ path' = [path EXCEPT ![i].pc = to]
    /\ UNCHANGED <<pathConfs, paths, pathsByConf, pmCtx, mpc, newConfs, toRemove, reloaded,
                   reloaders, client>>

Notify(i) == PathMoves(i, "run", "notify")

\* Mutant of SkipNotification: pa.ctx.Done() is not watched.
SkipNotificationOnlyForManager(i) == ~pmCtx /\ PathMoves(i, "notify", "run")

\* pa.ctx.Done() or pm.ctx.Done(), "in case pathManager is blocked by path.wait()".
SkipNotification(i) == (~path[i].ctx \/ ~pmCtx) /\ PathMoves(i, "notify", "run")

\* shouldClose(): only a path that was created from a regular expression.
CloseUnused(i) == path[i].confName \notin Names /\ PathMoves(i, "run", "closePath")

\* runInner() sees pa.ctx.Done().
Terminated(i) == ~path[i].ctx /\ PathMoves(i, "run", "closePath")

SkipClosePath(i) == (~path[i].ctx \/ ~pmCtx) /\ PathMoves(i, "closePath", "teardown")

PathEnds(i) == PathMoves(i, "teardown", "done")

\* Mutant of CallReturns: pa.ctx.Done() is not watched.
CallReturnsOnlyServed(c) ==
    /\ client[c] # 0
    /\ path[client[c]].pc = "run"
    /\ client' = [client EXCEPT ![c] = 0]
    /\ UNCHANGED <<pathConfs, paths, pathsByConf, pmCtx, mpc, newConfs, toRemove, reloaded,
                   path, reloaders>>

\* The call of a client is served, or fails with "terminated".
CallReturns(c) ==
    /\ client[c] # 0
    /\ path[client[c]].pc = "run" \/ ~path[client[c]].ctx
    /\ client' = [client EXCEPT ![c] = 0]
    /\ UNCHANGED <<pathConfs, paths, pathsByConf, pmCtx, mpc, newConfs, toRemove, reloaded,
                   path, reloaders>>

\* path.reloadConf(): chReloadConf, or pa.ctx.Done().
DeliverReload(x) ==
    /\ path[x.path].pc = "run"
    /\ path' = [path EXCEPT ![x.path].conf = x.conf]
    /\ reloaders' = reloaders \ {x}
    /\ UNCHANGED <<pathConfs, paths, pathsByConf, pmCtx, mpc, newConfs, toRemove, reloaded, client>>

DropReload(x) ==
    /\ ~path[x.path].ctx
    /\ reloaders' = reloaders \ {x}
    /\ UNCHANGED <<pathConfs, paths, pathsByConf, pmCtx, mpc, newConfs, toRemove, reloaded,
                   path, client>>

-----------------------------------------------------------------------------
ManagerStep ==
    \/ \E confs \in Configurations : ReloadBegins(confs)
    \/ \E i \in Ids : ReloadRemoves(i)
    \/ WaitReturns
    \/ ReloadEnds
    \/ \E i \in Ids : ReceiveClosePath(i) \/ ReceiveNotification(i)
    \/ ManagerEnds

PathStep(i) ==
    \/ Notify(i) \/ SkipNotification(i)
    \/ CloseUnused(i) \/ Terminated(i) \/ SkipClosePath(i) \/ PathEnds(i)

ClientStep(c) ==
    \/ \E n \in Names : GivePath(c, n) \/ CreateAndGivePath(c, n)
    \/ CallReturns(c)

ReloaderStep == \E x \in reloaders : DeliverReload(x) \/ DropReload(x)

Next ==
    \/ ManagerStep
    \/ \E i \in Ids : PathStep(i)
    \/ \E c \in Clients : ClientStep(c)
    \/ ReloaderStep
    \/ Close

Spec == Init /\ [][Next]_vars

(***************************************************************************)
(* Fairness.  Goroutines that can go on do; the manager serves its select; *)
(* select picks at random among ready cases, so a path whose context is    *)
(* cancelled, and a manager whose context is cancelled, do not pass over   *)
(* Done() for ever.                                                        *)
(***************************************************************************)
Fairness ==
    /\ WF_vars((\E i \in Ids : ReloadRemoves(i)) \/ WaitReturns \/ ReloadEnds)
    /\ SF_vars(ManagerEnds)
    /\ \A i \in Ids :
          /\ SF_vars(ReceiveClosePath(i) \/ ReceiveNotification(i))
          /\ SF_vars(Terminated(i))
          /\ WF_vars(SkipNotification(i) \/ SkipClosePath(i) \/ PathEnds(i))
    /\ \A c \in Clients : SF_vars(CallReturns(c))

FairSpec == Spec /\ Fairness

-----------------------------------------------------------------------------
(***************************************************************************)
(* Properties.                                                             *)
(***************************************************************************)
Serving(i) == path[i].pc \in {"run", "notify"}

\* The two maps of the manager describe the same paths, and those that run: a
\* path that is not being closed is listed under its name, so that clients and
\* reloads find it, and leaves the maps before it ends ("call before destroying
\* context"), so that clients are never sent to a path that has ended.
PathsAreListed ==
    /\ \A n \in Names : paths[n] # 0 =>
          path[paths[n]].name = n /\ paths[n] \in pathsByConf[path[paths[n]].confName]
    /\ \A cn \in ConfNames : \A i \in pathsByConf[cn] :
          path[i].confName = cn /\ paths[path[i].name] = i
    /\ \A i \in Ids : Serving(i) /\ path[i].ctx => paths[path[i].name] = i
    /\ pmCtx => \A n \in Names : paths[n] # 0 => path[paths[n]].pc \notin {"teardown", "done"}

\* "avoid conflicts between sources": two paths of the same name never serve
\* at once, and one that a reload removed has ended before another is created.
OnePathPerName ==
    \A i, j \in Born : i # j /\ path[i].name = path[j].name =>
        /\ ~(Serving(i) /\ Serving(j))
        /\ i < j /\ path[i].awaited => path[i].pc = "done"

\* A reload finishes: the manager, waiting for a path, and the path, trying to
\* reach the manager, never wait for each other.
ReloadFinishes == mpc = "await" ~> mpc # "await"

\* close() finishes: all goroutines under the wait group end.
CloseFinishes == ~pmCtx ~> (mpc = "gone" /\ \A i \in Born : path[i].pc = "done")

\* A client that was given a path gets an answer, even when the path ends
\* before it is called.
ClientsAreAnswered == \A c \in Clients : client[c] # 0 ~> client[c] = 0

\* README.md on hot reloading: "Changes are detected and applied".  Once the
\* reloading goroutines have ended, a path has the settings of its entry.
ReloadIsApplied ==
    mpc = "select" /\ reloaders = {} =>
        \A i \in Ids : Serving(i) /\ path[i].ctx => path[i].conf = pathConfs[path[i].confName]
=============================================================================
