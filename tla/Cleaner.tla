------------------------------ MODULE Cleaner ------------------------------
(***************************************************************************)
(* The janitor of the shared KV-offload directory                          *)
(* (scripts/kv_cache_lru_cleaner.py) among the engines that write, read    *)
(* and hold open the *.bin pages it evicts.                                *)
(*                                                                         *)
(* A cleaner takes the directory's flock, then polls the filesystem usage; *)
(* at the trigger it scans the tree, unlinks pages in the order of the     *)
(* access times the scan read, and prunes empty directories.  Every system *)
(* call is a step, so engines, an operator who removes files or the whole  *)
(* directory, a second cleaner, signals and kills interleave with it.      *)
(*                                                                         *)
(* Bounds: MaxStamp (uses of pages and removals by others), MaxWipes (lock *)
(* files removed), MaxFaults (system calls that fail although the file is  *)
(* there), MaxCrashes (cleaners killed).                                   *)
(***************************************************************************)
EXTENDS Integers, FiniteSets

CONSTANTS
    Cleaners,     \* cleaner processes that may be started on the directory
    Pages,        \* names of KV pages
    Dirs,         \* directories below the root that hold pages
    DirOf,        \* [Pages -> Dirs]
    SizeOf,       \* [Pages -> Nat \ {0}], st_size of a page
    Provisioned,  \* directories made at set-up time, which no engine makes
    Foreign,      \* bytes used on the filesystem by anything else
    Trigger,      \* --trigger-used-gb
    Target,       \* --target-used-gb
    NoAtime,      \* mounted noatime: reads leave st_atime alone
    MaxStamp, MaxWipes, MaxFaults, MaxCrashes   \* see above

ASSUME CleanerAssumption ==
    /\ DirOf \in [Pages -> Dirs]
    /\ SizeOf \in [Pages -> Nat \ {0}]
    /\ Provisioned \subseteq Dirs
    /\ Foreign \in Nat /\ Trigger \in Nat /\ Target \in Nat
    /\ Target < Trigger               \* parse_args refuses anything else
    /\ NoAtime \in BOOLEAN
    /\ MaxStamp \in Nat /\ MaxWipes \in Nat /\ MaxFaults \in Nat /\ MaxCrashes \in Nat

VARIABLES
    root,      \* the cache directory exists
    dirs,      \* the directories that exist below it
    present,   \* the files that exist: <<page, "bin">> or <<page, "tmp">>
    opened,    \* pages an engine holds open for reading
    ghosts,    \* unlinked pages that are still open: their blocks are still used
    used,      \* what statvfs reports
    atime,     \* st_atime of each page
    lastUse,   \* when an engine last wrote or read the page (history)
    clock,     \* orders the uses of pages
    lock,      \* inode of the lock file, 0 when the path does not exist
    inodes,    \* lock inodes created so far
    fd,        \* per cleaner: inode its lock descriptor refers to, 0 for none
    holds,     \* per cleaner: it holds the flock of that inode
    pc, once, stop,   \* per cleaner: control point, --once, the handler's flag
    unseen,    \* per cleaner: pages whose directory entry the scan has yet to reach
    todo,      \* per cleaner: scanned files still to unlink, <<st_atime, file>>
    unpruned,  \* per cleaner: directories its prune has yet to try
    need, batch,      \* per cleaner: compact()'s need and batch_est
    credit,    \* per cleaner: bytes freed by others since its last statvfs (history)
    since,     \* per cleaner: the clock when its scan began (history)
    armed,     \* per cleaner: usage has been at the trigger since compact last read it
               \* at or below the target (history)
    faults, crashes

treeVars == <<root, dirs>>
useVars  == <<atime, lastUse, clock>>
openVars == <<opened, ghosts>>
lockVars == <<lock, inodes, fd, holds>>
procVars == <<pc, once, stop>>
scanVars == <<unseen, todo, unpruned, need, batch, since>>
markVars == <<armed, faults, crashes>>
vars == <<treeVars, present, openVars, used, useVars, lockVars, procVars, scanVars,
          credit, markVars>>

Bin(p) == <<p, "bin">>
Tmp(p) == <<p, "tmp">>
Files == Pages \X {"bin", "tmp"}
Stamps == 0..MaxStamp
Completed == {p \in Pages : Bin(p) \in present}
PathsUnder(d) == {f \in present : DirOf[f[1]] = d}

Compacting == {"scan", "unlink", "recheck"}
Looping == {"loop", "poll", "stat", "walk", "prune", "final", "idle", "sleep"}
             \union Compacting
Labels == {"off", "mkdir", "open", "flock", "watch", "exit"} \union Looping

At(c, label) == pc[c] = label
Goto(c, label) == pc' = [pc EXCEPT ![c] = label]

\* n bytes become free in a step that is not an unlink by the cleaners in self.
Freed(n, self) ==
    credit' = [c \in Cleaners |->
                 IF c \notin self /\ pc[c] \in Compacting
                 THEN credit[c] + n ELSE credit[c]]

(***************************************************************************)
(* The engines and the operator (external to src/): vLLM's FS tier and     *)
(* SGLang's HiCache file backend write a temp file and rename it; readers  *)
(* look a page up by existence and hold it open while they load it.        *)
(***************************************************************************)
MakeDir(d) ==
    /\ d \notin dirs \union Provisioned
    /\ dirs' = dirs \union {d}
    /\ root' = TRUE
    /\ UNCHANGED <<present, openVars, used, useVars, lockVars, procVars, scanVars,
                   credit, markVars>>

WriteTemp(p) ==
    /\ clock < MaxStamp
    /\ DirOf[p] \in dirs
    /\ {Bin(p), Tmp(p)} \intersect present = {} /\ p \notin ghosts
    /\ present' = present \union {Tmp(p)}
    /\ used' = used + SizeOf[p]
    /\ armed' = [c \in Cleaners |-> armed[c] \/ used' >= Trigger]
    /\ UNCHANGED <<treeVars, openVars, useVars, lockVars, procVars, scanVars, credit,
                   faults, crashes>>

Use(p, reading) ==
    /\ clock < MaxStamp
    /\ clock' = clock + 1
    /\ lastUse' = [lastUse EXCEPT ![p] = clock + 1]
    /\ IF reading /\ NoAtime THEN UNCHANGED atime
                             ELSE atime' = [atime EXCEPT ![p] = clock + 1]

Publish(p) ==
    /\ Tmp(p) \in present
    /\ present' = (present \ {Tmp(p)}) \union {Bin(p)}
    /\ Use(p, FALSE)
    /\ UNCHANGED <<treeVars, openVars, used, lockVars, procVars, scanVars, credit,
                   markVars>>

ReadOpen(p) ==
    /\ Bin(p) \in present /\ p \notin opened
    /\ opened' = opened \union {p}
    /\ Use(p, TRUE)
    /\ UNCHANGED <<treeVars, present, ghosts, used, lockVars, procVars, scanVars,
                   credit, markVars>>

ReadClose(p) ==
    /\ p \in opened
    /\ opened' = opened \ {p}
    /\ ghosts' = ghosts \ {p}
    /\ IF p \in ghosts THEN used' = used - SizeOf[p] /\ Freed(SizeOf[p], {})
                       ELSE UNCHANGED <<used, credit>>
    /\ UNCHANGED <<treeVars, present, useVars, lockVars, procVars, scanVars, markVars>>

\* unlink(2) of f, called by the cleaners in self: the blocks of an open page stay.
Unlink(f, self) ==
    /\ present' = present \ {f}
    /\ IF f = Bin(f[1]) /\ f[1] \in opened
       THEN /\ ghosts' = ghosts \union {f[1]}
            /\ credit' = [c \in Cleaners |->
                            IF c \in self THEN credit[c] - SizeOf[f[1]] ELSE credit[c]]
            /\ UNCHANGED used
       ELSE /\ used' = used - SizeOf[f[1]]
            /\ Freed(SizeOf[f[1]], self)
            /\ UNCHANGED ghosts

Remove(f) ==
    /\ f \in present
    /\ clock < MaxStamp /\ clock' = clock + 1
    /\ Unlink(f, {})
    /\ UNCHANGED <<treeVars, opened, atime, lastUse, lockVars, procVars, scanVars,
                   markVars>>

RemoveLock ==
    /\ lock # 0 /\ inodes <= MaxWipes
    /\ lock' = 0
    /\ UNCHANGED <<treeVars, present, openVars, used, useVars, inodes, fd, holds,
                   procVars, scanVars, credit, markVars>>

RemoveRoot ==
    /\ root /\ lock = 0 /\ present = {} /\ inodes \in 1..MaxWipes
    /\ root' = FALSE
    /\ dirs' = {}
    /\ UNCHANGED <<present, openVars, used, useVars, lockVars, procVars, scanVars,
                   credit, markVars>>

(***************************************************************************)
(* Start-up: main and acquire_lock.                                        *)
(***************************************************************************)
Start(c) ==
    /\ At(c, "off")
    /\ Goto(c, "mkdir")
    /\ \E b \in BOOLEAN : once' = [once EXCEPT ![c] = b]
    /\ UNCHANGED <<treeVars, present, openVars, used, useVars, lockVars, stop, scanVars,
                   credit, markVars>>

MkdirRoot(c) ==
    /\ At(c, "mkdir")
    /\ root' = TRUE
    /\ Goto(c, "open")
    /\ UNCHANGED <<dirs, present, openVars, used, useVars, lockVars, once, stop,
                   scanVars, credit, markVars>>

\* O_CREAT without O_EXCL: the existing inode is opened, else a new one is made.
OpenLock(c) ==
    /\ At(c, "open")
    /\ IF root
       THEN /\ lock' = IF lock = 0 THEN inodes + 1 ELSE lock
            /\ inodes' = IF lock = 0 THEN inodes + 1 ELSE inodes
            /\ fd' = [fd EXCEPT ![c] = lock']
            /\ Goto(c, "flock")
       ELSE /\ Goto(c, "exit")
            /\ UNCHANGED <<lock, inodes, fd>>
    /\ UNCHANGED <<treeVars, present, openVars, used, useVars, holds, once, stop,
                   scanVars, credit, markVars>>

\* Mutant: LOCK_NB's failure ignored.
LockedNever(i) == FALSE

Locked(i) == \E d \in Cleaners : holds[d] /\ fd[d] = i

FlockLock(c) ==
    /\ At(c, "flock")
    /\ IF Locked(fd[c])
       THEN Goto(c, "exit") /\ UNCHANGED holds
       ELSE Goto(c, "watch") /\ holds' = [holds EXCEPT ![c] = TRUE]
    /\ UNCHANGED <<treeVars, present, openVars, used, useVars, lock, inodes, fd, once,
                   stop, scanVars, credit, markVars>>

Watch(c) ==
    /\ At(c, "watch")
    /\ Goto(c, IF root THEN "loop" ELSE "exit")
    /\ UNCHANGED <<treeVars, present, openVars, used, useVars, lockVars, once, stop,
                   scanVars, credit, markVars>>

\* The process is gone: the kernel closes its descriptors and drops its flock.
Gone(c) ==
    /\ Goto(c, "off")
    /\ fd' = [fd EXCEPT ![c] = 0]
    /\ holds' = [holds EXCEPT ![c] = FALSE]
    /\ once' = [once EXCEPT ![c] = FALSE]
    /\ stop' = [stop EXCEPT ![c] = FALSE]

ClearLocals(c) ==
    /\ unseen' = [unseen EXCEPT ![c] = {}]
    /\ todo' = [todo EXCEPT ![c] = {}]
    /\ unpruned' = [unpruned EXCEPT ![c] = {}]
    /\ need' = [need EXCEPT ![c] = 0]
    /\ batch' = [batch EXCEPT ![c] = 0]
    /\ since' = [since EXCEPT ![c] = 0]
    /\ credit' = [credit EXCEPT ![c] = 0]

Exit(c) ==
    /\ At(c, "exit")
    /\ Gone(c)
    /\ UNCHANGED <<treeVars, present, openVars, used, useVars, lock, inodes, scanVars,
                   credit, markVars>>

Crash(c) ==
    /\ ~At(c, "off") /\ crashes < MaxCrashes
    /\ crashes' = crashes + 1
    /\ Gone(c)
    /\ ClearLocals(c)
    /\ UNCHANGED <<treeVars, present, openVars, used, useVars, lock, inodes, armed,
                   faults>>

(***************************************************************************)
(* run_loop, poll_once and compact.                                        *)
(***************************************************************************)
SignalStop(c) ==
    /\ pc[c] \in Looping /\ ~stop[c]
    /\ stop' = [stop EXCEPT ![c] = TRUE]
    /\ UNCHANGED <<treeVars, present, openVars, used, useVars, lockVars, pc, once,
                   scanVars, credit, markVars>>

\* A step of a cleaner that only moves its control point.
Move(c, from, to) ==
    /\ At(c, from)
    /\ Goto(c, to)
    /\ UNCHANGED <<treeVars, present, openVars, used, useVars, lockVars, once, stop,
                   scanVars, credit, markVars>>

\* while not stop
LoopTest(c) == Move(c, "loop", IF stop[c] THEN "exit" ELSE "poll")

\* if once or stop: break; time.sleep is resumed after a handler returns.
EndCycle(c) == Move(c, "idle", IF once[c] \/ stop[c] THEN "exit" ELSE "sleep")

Wake(c) == Move(c, "sleep", "loop")

\* Where an OSError raised in a cycle leads: logged, and raised again under --once.
Failed(c) == IF once[c] THEN "exit" ELSE "idle"

\* Mutant: one threshold for both ends.
PollOnceTarget(c) ==
    Move(c, "poll", IF ~root THEN Failed(c)
                    ELSE IF used > Target THEN "stat" ELSE "idle")

\* Mutant: > for >=.
PollOnceAbove(c) ==
    Move(c, "poll", IF ~root THEN Failed(c)
                    ELSE IF used > Trigger THEN "stat" ELSE "idle")

PollOnce(c) ==
    Move(c, "poll", IF ~root THEN Failed(c)
                    ELSE IF used >= Trigger THEN "stat" ELSE "idle")

\* compact reads the usage.
ReadUsage(c) == armed' = [armed EXCEPT ![c] = @ /\ used > Target]

CompactStat(c) ==
    /\ At(c, "stat") /\ ReadUsage(c)
    /\ IF root /\ used > Target
       THEN /\ Goto(c, "scan")
            /\ need' = [need EXCEPT ![c] = used - Target]
            /\ unseen' = [unseen EXCEPT ![c] = Pages]
            /\ since' = [since EXCEPT ![c] = clock]
       ELSE /\ Goto(c, IF root THEN "idle" ELSE Failed(c))
            /\ UNCHANGED <<need, unseen, since>>
    /\ UNCHANGED <<treeVars, present, openVars, used, useVars, lockVars, once, stop, todo,
                   unpruned, batch, credit, faults, crashes>>

\* The names iter_bin_files yields.
Evictable(f) == f[2] = "bin"

ScanEntry(c, p) ==
    /\ At(c, "scan") /\ p \in unseen[c]
    /\ unseen' = [unseen EXCEPT ![c] = @ \ {p}]
    /\ todo' = [todo EXCEPT ![c] = @ \union
                  {<<atime[p], f>> : f \in {g \in present : g[1] = p /\ Evictable(g)}}]
    /\ UNCHANGED <<treeVars, present, openVars, used, useVars, lockVars, procVars,
                   unpruned, need, batch, since, credit, markVars>>

\* scandir or stat fails: the rest of the directory is skipped.
ScanFault(c, d) ==
    /\ At(c, "scan") /\ faults < MaxFaults
    /\ \E p \in unseen[c] : DirOf[p] = d
    /\ unseen' = [unseen EXCEPT ![c] = {p \in @ : DirOf[p] # d}]
    /\ faults' = faults + 1
    /\ UNCHANGED <<treeVars, present, openVars, used, useVars, lockVars, procVars, todo,
                   unpruned, need, batch, since, credit, armed, crashes>>

ScanDone(c) ==
    /\ At(c, "scan") /\ unseen[c] = {}
    /\ IF todo[c] = {} THEN Goto(c, "idle") /\ ClearLocals(c)
                       ELSE Goto(c, "unlink") /\ UNCHANGED <<scanVars, credit>>
    /\ UNCHANGED <<treeVars, present, openVars, used, useVars, lockVars, once, stop,
                   markVars>>

\* Mutant: sorted in reverse.
IsNewest(c, e) == e \in todo[c] /\ \A o \in todo[c] : e[1] >= o[1]

\* The next element of the sorted snapshot.
IsOldest(c, e) == e \in todo[c] /\ \A o \in todo[c] : e[1] <= o[1]

\* Mutant: the batch goes on when its estimate meets the need exactly.
AfterUnlinkLate(c, estimate) == IF estimate <= need[c] THEN "unlink" ELSE "recheck"

AfterUnlink(c, estimate) == IF estimate < need[c] THEN "unlink" ELSE "recheck"

UnlinkOldest(c, e) ==
    /\ At(c, "unlink") /\ IsOldest(c, e) /\ e[2] \in present
    /\ Unlink(e[2], {c})
    /\ todo' = [todo EXCEPT ![c] = @ \ {e}]
    /\ batch' = [batch EXCEPT ![c] = @ + SizeOf[e[2][1]]]
    /\ Goto(c, AfterUnlink(c, batch'[c]))
    /\ UNCHANGED <<treeVars, opened, useVars, lockVars, once, stop, unseen, unpruned,
                   need, since, markVars>>

\* Mutant: a file that is gone is tried again.
UnlinkRetry(c, e) ==
    /\ At(c, "unlink") /\ IsOldest(c, e)
    /\ e[2] \in present /\ faults < MaxFaults /\ faults' = faults + 1
    /\ todo' = [todo EXCEPT ![c] = @ \ {e}]
    /\ UNCHANGED <<treeVars, present, openVars, used, useVars, lockVars, procVars, unseen,
                   unpruned, need, batch, since, credit, armed, crashes>>

\* FileNotFoundError: somebody else removed it.  OSError: warn and go on.
UnlinkSkip(c, e) ==
    /\ At(c, "unlink") /\ IsOldest(c, e)
    /\ \/ e[2] \notin present /\ UNCHANGED faults
       \/ e[2] \in present /\ faults < MaxFaults /\ faults' = faults + 1
    /\ todo' = [todo EXCEPT ![c] = @ \ {e}]
    /\ UNCHANGED <<treeVars, present, openVars, used, useVars, lockVars, procVars, unseen,
                   unpruned, need, batch, since, credit, armed, crashes>>

\* The for loop's else clause: every file of the snapshot was tried.
SnapshotDone(c) ==
    /\ At(c, "unlink") /\ todo[c] = {}
    /\ Goto(c, IF root THEN "walk" ELSE Failed(c))
    /\ ClearLocals(c)
    /\ UNCHANGED <<treeVars, present, openVars, used, useVars, lockVars, once, stop,
                   markVars>>

Recheck(c) ==
    /\ At(c, "recheck") /\ ReadUsage(c)
    /\ IF root /\ used > Target
       THEN /\ Goto(c, "unlink")
            /\ need' = [need EXCEPT ![c] = used - Target]
            /\ batch' = [batch EXCEPT ![c] = 0]
            /\ credit' = [credit EXCEPT ![c] = 0]
            /\ UNCHANGED <<unseen, todo, unpruned, since>>
       ELSE /\ Goto(c, IF root THEN "walk" ELSE Failed(c))
            /\ ClearLocals(c)
    /\ UNCHANGED <<treeVars, present, openVars, used, useVars, lockVars, once, stop,
                   faults, crashes>>


\* Mutant: the root is not skipped.
PruneWalkRoot(c) ==
    /\ At(c, "walk")
    /\ Goto(c, "prune")
    /\ unpruned' = [unpruned EXCEPT ![c] = dirs \union {"root"}]
    /\ UNCHANGED <<treeVars, present, openVars, used, useVars, lockVars, once, stop,
                   unseen, todo, need, batch, since, credit, markVars>>

\* os.walk(topdown=False) lists the tree; rmdir then refuses a directory in use.
PruneWalk(c) ==
    /\ At(c, "walk")
    /\ Goto(c, "prune")
    /\ unpruned' = [unpruned EXCEPT ![c] = dirs]
    /\ UNCHANGED <<treeVars, present, openVars, used, useVars, lockVars, once, stop,
                   unseen, todo, need, batch, since, credit, markVars>>

\* Mutant: a directory without pages goes, temps or not.
RemovableWithTemps(d) == \A f \in PathsUnder(d) : f[2] = "tmp"

Removable(d) == PathsUnder(d) = {}

PruneDir(c, d) ==
    /\ At(c, "prune") /\ d \in unpruned[c]
    /\ unpruned' = [unpruned EXCEPT ![c] = @ \ {d}]
    /\ dirs' = IF Removable(d) THEN dirs \ {d} ELSE dirs
    /\ UNCHANGED <<root, present, openVars, used, useVars, lockVars, procVars, unseen,
                   todo, need, batch, since, credit, markVars>>

PruneDone(c) == unpruned[c] = {} /\ Move(c, "prune", "final")

\* The closing statvfs; above the target it logs that no page is left to remove.
CompactEnd(c) ==
    /\ At(c, "final") /\ ReadUsage(c)
    /\ Goto(c, IF root THEN "idle" ELSE Failed(c))
    /\ UNCHANGED <<treeVars, present, openVars, used, useVars, lockVars, once, stop,
                   scanVars, credit, faults, crashes>>

Init ==
    /\ root = TRUE /\ dirs = Provisioned /\ present = {} /\ opened = {} /\ ghosts = {}
    /\ used = Foreign /\ clock = 0
    /\ atime = [p \in Pages |-> 0] /\ lastUse = [p \in Pages |-> 0]
    /\ lock = 0 /\ inodes = 0
    /\ fd = [c \in Cleaners |-> 0] /\ holds = [c \in Cleaners |-> FALSE]
    /\ pc = [c \in Cleaners |-> "off"]
    /\ once = [c \in Cleaners |-> FALSE] /\ stop = [c \in Cleaners |-> FALSE]
    /\ unseen = [c \in Cleaners |-> {}] /\ todo = [c \in Cleaners |-> {}]
    /\ unpruned = [c \in Cleaners |-> {}]
    /\ need = [c \in Cleaners |-> 0] /\ batch = [c \in Cleaners |-> 0]
    /\ credit = [c \in Cleaners |-> 0] /\ since = [c \in Cleaners |-> 0]
    /\ armed = [c \in Cleaners |-> Foreign >= Trigger] /\ faults = 0 /\ crashes = 0

Engine ==
    \/ \E d \in Dirs : MakeDir(d)
    \/ \E p \in Pages : WriteTemp(p) \/ Publish(p) \/ ReadOpen(p) \/ ReadClose(p)

Operator ==
    \/ \E f \in Files : Remove(f)
    \/ RemoveLock
    \/ RemoveRoot

Startup(c) == MkdirRoot(c) \/ OpenLock(c) \/ FlockLock(c) \/ Watch(c)

Loop(c) == LoopTest(c) \/ PollOnce(c) \/ EndCycle(c) \/ Wake(c) \/ Exit(c)

Compact(c) ==
    \/ CompactStat(c)
    \/ \E p \in Pages : ScanEntry(c, p)
    \/ \E d \in Dirs : ScanFault(c, d)
    \/ ScanDone(c)
    \/ \E e \in todo[c] : UnlinkOldest(c, e) \/ UnlinkSkip(c, e)
    \/ SnapshotDone(c)
    \/ Recheck(c)
    \/ PruneWalk(c)
    \/ \E d \in Dirs : PruneDir(c, d)
    \/ PruneDone(c)
    \/ CompactEnd(c)

Step(c) == Startup(c) \/ Loop(c) \/ Compact(c)

Next ==
    \/ Engine
    \/ Operator
    \/ \E c \in Cleaners : Start(c) \/ SignalStop(c) \/ Crash(c) \/ Step(c)

Spec == Init /\ [][Next]_vars

\* A started process is scheduled: each of its steps is a system call that returns.
FairSpec == Spec /\ \A c \in Cleaners : WF_vars(Step(c))

(***************************************************************************)
(* Properties.                                                             *)
(***************************************************************************)

\* Every variable keeps its type; a lock inode number never exceeds those created.
TypeOK ==
    /\ root \in BOOLEAN /\ dirs \subseteq Dirs /\ present \subseteq Files
    /\ opened \subseteq Pages /\ ghosts \subseteq Pages /\ used \in Int
    /\ atime \in [Pages -> Stamps] /\ lastUse \in [Pages -> Stamps] /\ clock \in Stamps
    /\ inodes \in Nat /\ lock \in 0..inodes /\ fd \in [Cleaners -> 0..inodes]
    /\ holds \in [Cleaners -> BOOLEAN] /\ pc \in [Cleaners -> Labels]
    /\ once \in [Cleaners -> BOOLEAN] /\ stop \in [Cleaners -> BOOLEAN]
    /\ unseen \in [Cleaners -> SUBSET Pages]
    /\ todo \in [Cleaners -> SUBSET (Stamps \X Files)]
    /\ unpruned \in [Cleaners -> SUBSET Dirs]
    /\ need \in [Cleaners -> Int] /\ batch \in [Cleaners -> Int]
    /\ credit \in [Cleaners -> Int] /\ since \in [Cleaners -> Stamps]
    /\ armed \in [Cleaners -> BOOLEAN]
    /\ faults \in 0..MaxFaults /\ crashes \in 0..MaxCrashes

\* acquire_lock keeps cleaners apart: two that got past it hold different lock
\* inodes, which takes somebody having removed the lock file in between.
MutualExclusion ==
    \A c, d \in Cleaners :
        c # d /\ pc[c] \in Looping /\ pc[d] \in Looping => fd[c] # fd[d] /\ inodes > 1

\* compact never unlinks past its target: whenever it may unlink, usage would be
\* above the target even if others had freed nothing since its last statvfs and the
\* open pages it unlinked had been closed.
NoOverEviction ==
    \A c \in Cleaners : At(c, "unlink") /\ todo[c] # {} => used + credit[c] > Target

\* Eviction starts at the trigger and not at the target: once compact has read a usage at
\* or below the target, the cleaner unlinks nothing until usage has been at the trigger
\* again, however it wanders between the two, whoever frees pages between the readings,
\* and whatever the last cycle left undone.
EvictsFromTrigger == \A c \in Cleaners : At(c, "unlink") => armed[c]

Untouched(c, e) == lastUse[e[2][1]] <= since[c]

\* The page compact unlinks is the least recently used of its snapshot, among the
\* pages nobody has used since the scan began.
LRUOrder ==
    [][\A c \in Cleaners : \A e, o \in todo[c] :
          /\ At(c, "unlink") /\ e[2] \in present \ present'
          /\ todo'[c] = todo[c] \ {e}
          /\ Untouched(c, e) /\ Untouched(c, o)
          => lastUse[e[2][1]] <= lastUse[o[2][1]]]_vars

\* prune_empty_dirs never takes the directory from under a page or a temp file that
\* an engine put there after the walk listed it as empty.
FilesHaveDirs == \A f \in present : root /\ DirOf[f[1]] \in dirs

\* A cleaner that got SIGINT or SIGTERM finishes its cycle, exits and drops the lock.
StopExits == \A c \in Cleaners : stop[c] ~> At(c, "off")

\* A cleaner that keeps running brings usage below the trigger again and again, or
\* leaves no page: a page that vanished or cannot be unlinked does not stop it.
PressureRelieved ==
    \A c \in Cleaners :
        <>[](pc[c] \in Looping /\ ~stop[c]) => []<>(used < Trigger \/ Completed = {})

(***************************************************************************)
(* The inductive invariant behind the safety properties (CleanerProofs).   *)
(***************************************************************************)

\* Past acquire_lock a cleaner holds the flock of its inode, and nobody else does.
LockInv ==
    \A c \in Cleaners :
        /\ pc[c] \in Looping \union {"watch"} => holds[c]
        /\ holds[c] => pc[c] \in Looping \union {"watch", "exit"}
        /\ holds[c] \/ At(c, "flock") => fd[c] > 0
        /\ \A d \in Cleaners : c # d /\ holds[c] /\ holds[d] => fd[c] # fd[d]

\* Outside compact its locals are empty.
LocalsInv ==
    \A c \in Cleaners :
        pc[c] \notin Compacting => todo[c] = {} /\ batch[c] = 0 /\ credit[c] = 0

\* Up to the end of a batch, usage has fallen from the last statvfs by at most the
\* batch and what others freed, and the batch alone does not reach the target.
BudgetInv ==
    \A c \in Cleaners :
        /\ At(c, "scan") => batch[c] = 0
        /\ pc[c] \in {"scan", "unlink"} =>
              batch[c] < need[c] /\ used + credit[c] + batch[c] >= Target + need[c]

\* A cleaner gets into compact at the trigger only, and stays there above the target.
ArmedInv ==
    \A c \in Cleaners :
        /\ used >= Trigger => armed[c]
        /\ pc[c] \in Compacting \union {"stat"} => armed[c]

\* Where reads update st_atime, a snapshot lists a page not used since the scan began
\* under the time of its last use.
SnapshotInv ==
    /\ \A p \in Pages : lastUse[p] <= clock /\ (NoAtime \/ atime[p] = lastUse[p])
    /\ \A c \in Cleaners :
          /\ since[c] <= clock
          /\ \A e \in todo[c] : NoAtime \/ ~Untouched(c, e) \/ e[1] = lastUse[e[2][1]]

DirInv == FilesHaveDirs /\ (dirs = {} \/ root)

IInv == LockInv /\ LocalsInv /\ BudgetInv /\ ArmedInv /\ SnapshotInv /\ DirInv
=============================================================================
