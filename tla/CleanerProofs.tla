--------------------------- MODULE CleanerProofs ---------------------------
(***************************************************************************)
(* Safety of Cleaner for every set of cleaners, pages and directories and  *)
(* every value of the bounds.  The inductive invariant IInv has one named  *)
(* part per concern; each part is shown stable under every action, using   *)
(* the type invariant and, where it needs them, the other parts.           *)
(***************************************************************************)
EXTENDS Cleaner, TLAPS

(***************************************************************************)
(* The type invariant.                                                     *)
(***************************************************************************)
LEMMA TypeEngine == TypeOK /\ (Engine \/ Operator) => TypeOK'
<1> SUFFICES ASSUME TypeOK, Engine \/ Operator PROVE TypeOK'
  OBVIOUS
<1> USE CleanerAssumption DEF TypeOK, treeVars, useVars, openVars, lockVars, procVars,
        scanVars, markVars, Stamps, Files, Bin, Tmp
<1>1. ASSUME NEW d \in Dirs, MakeDir(d) PROVE TypeOK'
  BY <1>1 DEF MakeDir
<1>2. ASSUME NEW p \in Pages, WriteTemp(p) PROVE TypeOK'
  BY <1>2 DEF WriteTemp
<1>3. ASSUME NEW p \in Pages, Publish(p) PROVE TypeOK'
  BY <1>3 DEF Publish, Use
<1>4. ASSUME NEW p \in Pages, ReadOpen(p) PROVE TypeOK'
  BY <1>4 DEF ReadOpen, Use
<1>5. ASSUME NEW p \in Pages, ReadClose(p) PROVE TypeOK'
  BY <1>5 DEF ReadClose, Freed
<1>6. ASSUME NEW f \in Files, Remove(f) PROVE TypeOK'
  BY <1>6 DEF Remove, Unlink, Freed
<1>7. CASE RemoveLock
  BY <1>7 DEF RemoveLock
<1>8. CASE RemoveRoot
  BY <1>8 DEF RemoveRoot
<1> QED
  BY <1>1, <1>2, <1>3, <1>4, <1>5, <1>6, <1>7, <1>8 DEF Engine, Operator

LEMMA TypeControl ==
  ASSUME TypeOK, NEW c \in Cleaners,
         Start(c) \/ SignalStop(c) \/ Crash(c) \/ Startup(c) \/ Loop(c)
  PROVE  TypeOK'
<1> USE CleanerAssumption DEF TypeOK, treeVars, useVars, openVars, lockVars, procVars,
        scanVars, markVars, Stamps, Labels, Looping, Compacting, At, Goto
<1>1. CASE Start(c)
  BY <1>1 DEF Start
<1>2. CASE SignalStop(c)
  BY <1>2 DEF SignalStop
<1>3. CASE Crash(c)
  BY <1>3 DEF Crash, Gone, ClearLocals
<1>4. CASE MkdirRoot(c)
  BY <1>4 DEF MkdirRoot
<1>5. CASE OpenLock(c)
  BY <1>5 DEF OpenLock
<1>6. CASE FlockLock(c)
  BY <1>6 DEF FlockLock
<1>7. CASE Watch(c)
  BY <1>7 DEF Watch
<1>8. CASE LoopTest(c) \/ EndCycle(c) \/ Wake(c) \/ PollOnce(c)
  BY <1>8 DEF LoopTest, EndCycle, Wake, PollOnce, Move, Failed
<1>9. CASE Exit(c)
  BY <1>9 DEF Exit, Gone
<1> QED
  BY <1>1, <1>2, <1>3, <1>4, <1>5, <1>6, <1>7, <1>8, <1>9 DEF Startup, Loop

LEMMA TypeCompact ==
  ASSUME TypeOK, NEW c \in Cleaners, Compact(c) PROVE TypeOK'
<1> USE CleanerAssumption DEF TypeOK, treeVars, useVars, openVars, lockVars, procVars,
        scanVars, markVars, Stamps, Labels, Looping, Compacting, Files, At, Goto
<1>1. CASE CompactStat(c)
  BY <1>1 DEF CompactStat, ReadUsage, Failed
<1>2. ASSUME NEW p \in Pages, ScanEntry(c, p) PROVE TypeOK'
  BY <1>2 DEF ScanEntry
<1>3. ASSUME NEW d \in Dirs, ScanFault(c, d) PROVE TypeOK'
  BY <1>3 DEF ScanFault
<1>4. CASE ScanDone(c)
  <2>1. CASE todo[c] = {}
    BY <1>4, <2>1 DEF ScanDone, ClearLocals
  <2>2. CASE todo[c] # {}
    BY <1>4, <2>2 DEF ScanDone
  <2> QED
    BY <2>1, <2>2
<1>5. ASSUME NEW e \in todo[c], UnlinkOldest(c, e) PROVE TypeOK'
  <2>1. e \in Stamps \X Files /\ e[2][1] \in Pages
    BY <1>5
  <2> QED
    BY <1>5, <2>1 DEF UnlinkOldest, AfterUnlink, Unlink, Freed
<1>6. ASSUME NEW e \in todo[c], UnlinkSkip(c, e) PROVE TypeOK'
  BY <1>6 DEF UnlinkSkip
<1>7. CASE SnapshotDone(c)
  BY <1>7, SMTT(60) DEF SnapshotDone, ClearLocals, Failed
<1>8. CASE Recheck(c)
  <2>1. CASE root /\ used > Target
    BY <1>8, <2>1 DEF Recheck, ReadUsage
  <2>2. CASE ~(root /\ used > Target)
    BY <1>8, <2>2, SMTT(60) DEF Recheck, ReadUsage, ClearLocals, Failed
  <2> QED
    BY <2>1, <2>2
<1>9. CASE PruneWalk(c)
  BY <1>9 DEF PruneWalk
<1>10. ASSUME NEW d \in Dirs, PruneDir(c, d) PROVE TypeOK'
  BY <1>10 DEF PruneDir, Removable
<1>11. CASE PruneDone(c) \/ CompactEnd(c)
  BY <1>11 DEF PruneDone, CompactEnd, ReadUsage, Move, Failed
<1> QED
  BY <1>1, <1>2, <1>3, <1>4, <1>5, <1>6, <1>7, <1>8, <1>9, <1>10, <1>11 DEF Compact

LEMMA TypeNext == TypeOK /\ [Next]_vars => TypeOK'
<1> SUFFICES ASSUME TypeOK, [Next]_vars PROVE TypeOK'
  OBVIOUS
<1>1. CASE UNCHANGED vars
  BY <1>1 DEF vars, treeVars, useVars, openVars, lockVars, procVars, scanVars, markVars,
              TypeOK
<1> QED
  BY <1>1, TypeEngine, TypeControl, TypeCompact DEF Next, Step

\* Every reachable state of Cleaner is well typed: in particular the flag, the counters
\* and the snapshot of each cleaner, and the lock inodes its descriptors refer to.
THEOREM TypeCorrect == Spec => []TypeOK
<1>1. Init => TypeOK
  BY CleanerAssumption DEF Init, TypeOK, Stamps, Labels
<1> QED
  BY <1>1, TypeNext, PTL DEF Spec

LEMMA LockStep == TypeOK /\ TypeOK' /\ LockInv /\ [Next]_vars => LockInv'
<1> SUFFICES ASSUME TypeOK, TypeOK', LockInv, [Next]_vars PROVE LockInv'
  OBVIOUS
<1> USE CleanerAssumption DEF LockInv, Looping, Compacting, TypeOK, treeVars, useVars, openVars, lockVars, procVars, scanVars, markVars, At, Goto
<1>1. ASSUME NEW d \in Dirs, MakeDir(d) PROVE LockInv'
  BY <1>1 DEF MakeDir
<1>2. ASSUME NEW p \in Pages, WriteTemp(p) PROVE LockInv'
  BY <1>2 DEF WriteTemp
<1>3. ASSUME NEW p \in Pages, Publish(p) PROVE LockInv'
  BY <1>3 DEF Publish, Use
<1>4. ASSUME NEW p \in Pages, ReadOpen(p) PROVE LockInv'
  BY <1>4 DEF ReadOpen, Use
<1>5. ASSUME NEW p \in Pages, ReadClose(p) PROVE LockInv'
  BY <1>5 DEF ReadClose, Freed
<1>6. ASSUME NEW f \in Files, Remove(f) PROVE LockInv'
  BY <1>6 DEF Remove, Unlink, Freed
<1>7. CASE RemoveLock
  BY <1>7 DEF RemoveLock
<1>8. CASE RemoveRoot
  BY <1>8 DEF RemoveRoot
<1>9. ASSUME NEW c \in Cleaners, Start(c) PROVE LockInv'
  BY <1>9 DEF Start
<1>10. ASSUME NEW c \in Cleaners, SignalStop(c) PROVE LockInv'
  BY <1>10 DEF SignalStop
<1>11. ASSUME NEW c \in Cleaners, Crash(c) PROVE LockInv'
  BY <1>11 DEF Crash, Gone, ClearLocals
<1>12. ASSUME NEW c \in Cleaners, MkdirRoot(c) PROVE LockInv'
  BY <1>12 DEF MkdirRoot
<1>13. ASSUME NEW c \in Cleaners, OpenLock(c) PROVE LockInv'
  <2>1. CASE root
    <3>1. fd' = [fd EXCEPT ![c] = lock'] /\ lock' > 0 /\ holds' = holds
      BY <1>13, <2>1 DEF OpenLock
    <3>2. ~holds[c] \/ fd'[c] = fd[c]
      BY <1>13, <2>1 DEF OpenLock
    <3> QED
      BY <1>13, <2>1, <3>1, <3>2 DEF OpenLock
  <2>2. CASE ~root
    BY <1>13, <2>2 DEF OpenLock
  <2> QED
    BY <2>1, <2>2
<1>14. ASSUME NEW c \in Cleaners, FlockLock(c) PROVE LockInv'
  BY <1>14 DEF FlockLock, Locked
<1>15. ASSUME NEW c \in Cleaners, Watch(c) PROVE LockInv'
  BY <1>15 DEF Watch
<1>16. ASSUME NEW c \in Cleaners, LoopTest(c) \/ EndCycle(c) \/ Wake(c) \/ PollOnce(c) PROVE LockInv'
  BY <1>16 DEF LoopTest, EndCycle, Wake, PollOnce, Move, Failed
<1>17. ASSUME NEW c \in Cleaners, Exit(c) PROVE LockInv'
  BY <1>17 DEF Exit, Gone
<1>18. ASSUME NEW c \in Cleaners, CompactStat(c) PROVE LockInv'
  BY <1>18 DEF CompactStat, ReadUsage, Failed
<1>19. ASSUME NEW c \in Cleaners, NEW p \in Pages, ScanEntry(c, p) PROVE LockInv'
  BY <1>19 DEF ScanEntry, Evictable
<1>20. ASSUME NEW c \in Cleaners, NEW d \in Dirs, ScanFault(c, d) PROVE LockInv'
  BY <1>20 DEF ScanFault
<1>21. ASSUME NEW c \in Cleaners, ScanDone(c) PROVE LockInv'
  BY <1>21 DEF ScanDone, ClearLocals
<1>22. ASSUME NEW c \in Cleaners, NEW e \in todo[c], UnlinkOldest(c, e) PROVE LockInv'
  BY <1>22 DEF UnlinkOldest, AfterUnlink, Unlink, Freed
<1>23. ASSUME NEW c \in Cleaners, NEW e \in todo[c], UnlinkSkip(c, e) PROVE LockInv'
  BY <1>23 DEF UnlinkSkip
<1>24. ASSUME NEW c \in Cleaners, SnapshotDone(c) PROVE LockInv'
  BY <1>24 DEF SnapshotDone, ClearLocals, Failed
<1>25. ASSUME NEW c \in Cleaners, Recheck(c) PROVE LockInv'
  BY <1>25 DEF Recheck, ReadUsage, ClearLocals, Failed
<1>26. ASSUME NEW c \in Cleaners, PruneWalk(c) PROVE LockInv'
  BY <1>26 DEF PruneWalk
<1>27. ASSUME NEW c \in Cleaners, NEW d \in Dirs, PruneDir(c, d) PROVE LockInv'
  BY <1>27 DEF PruneDir, Removable
<1>28. ASSUME NEW c \in Cleaners, PruneDone(c) \/ CompactEnd(c) PROVE LockInv'
  BY <1>28 DEF PruneDone, CompactEnd, ReadUsage, Move, Failed
<1>29. CASE UNCHANGED vars
  BY <1>29 DEF vars
<1> QED
  BY <1>1, <1>2, <1>3, <1>4, <1>5, <1>6, <1>7, <1>8, <1>9, <1>10, <1>11, <1>12, <1>13, <1>14, <1>15, <1>16, <1>17, <1>18, <1>19, <1>20, <1>21, <1>22, <1>23, <1>24, <1>25, <1>26, <1>27, <1>28, <1>29
  DEF Next, Engine, Operator, Step, Startup, Loop, Compact

LEMMA LocalsStep == TypeOK /\ TypeOK' /\ LocalsInv /\ [Next]_vars => LocalsInv'
<1> SUFFICES ASSUME TypeOK, TypeOK', LocalsInv, [Next]_vars PROVE LocalsInv'
  OBVIOUS
<1> USE CleanerAssumption DEF LocalsInv, Compacting, Looping, TypeOK, treeVars, useVars, openVars, lockVars, procVars, scanVars, markVars, At, Goto
<1>1. ASSUME NEW d \in Dirs, MakeDir(d) PROVE LocalsInv'
  BY <1>1 DEF MakeDir
<1>2. ASSUME NEW p \in Pages, WriteTemp(p) PROVE LocalsInv'
  BY <1>2 DEF WriteTemp
<1>3. ASSUME NEW p \in Pages, Publish(p) PROVE LocalsInv'
  BY <1>3 DEF Publish, Use
<1>4. ASSUME NEW p \in Pages, ReadOpen(p) PROVE LocalsInv'
  BY <1>4 DEF ReadOpen, Use
<1>5. ASSUME NEW p \in Pages, ReadClose(p) PROVE LocalsInv'
  BY <1>5 DEF ReadClose, Freed
<1>6. ASSUME NEW f \in Files, Remove(f) PROVE LocalsInv'
  BY <1>6 DEF Remove, Unlink, Freed
<1>7. CASE RemoveLock
  BY <1>7 DEF RemoveLock
<1>8. CASE RemoveRoot
  BY <1>8 DEF RemoveRoot
<1>9. ASSUME NEW c \in Cleaners, Start(c) PROVE LocalsInv'
  BY <1>9 DEF Start
<1>10. ASSUME NEW c \in Cleaners, SignalStop(c) PROVE LocalsInv'
  BY <1>10 DEF SignalStop
<1>11. ASSUME NEW c \in Cleaners, Crash(c) PROVE LocalsInv'
  BY <1>11 DEF Crash, Gone, ClearLocals
<1>12. ASSUME NEW c \in Cleaners, MkdirRoot(c) PROVE LocalsInv'
  BY <1>12 DEF MkdirRoot
<1>13. ASSUME NEW c \in Cleaners, OpenLock(c) PROVE LocalsInv'
  BY <1>13 DEF OpenLock
<1>14. ASSUME NEW c \in Cleaners, FlockLock(c) PROVE LocalsInv'
  BY <1>14 DEF FlockLock, Locked
<1>15. ASSUME NEW c \in Cleaners, Watch(c) PROVE LocalsInv'
  BY <1>15 DEF Watch
<1>16. ASSUME NEW c \in Cleaners, LoopTest(c) \/ EndCycle(c) \/ Wake(c) \/ PollOnce(c) PROVE LocalsInv'
  BY <1>16 DEF LoopTest, EndCycle, Wake, PollOnce, Move, Failed
<1>17. ASSUME NEW c \in Cleaners, Exit(c) PROVE LocalsInv'
  BY <1>17 DEF Exit, Gone
<1>18. ASSUME NEW c \in Cleaners, CompactStat(c) PROVE LocalsInv'
  BY <1>18 DEF CompactStat, ReadUsage, Failed
<1>19. ASSUME NEW c \in Cleaners, NEW p \in Pages, ScanEntry(c, p) PROVE LocalsInv'
  BY <1>19 DEF ScanEntry, Evictable
<1>20. ASSUME NEW c \in Cleaners, NEW d \in Dirs, ScanFault(c, d) PROVE LocalsInv'
  BY <1>20 DEF ScanFault
<1>21. ASSUME NEW c \in Cleaners, ScanDone(c) PROVE LocalsInv'
  BY <1>21 DEF ScanDone, ClearLocals
<1>22. ASSUME NEW c \in Cleaners, NEW e \in todo[c], UnlinkOldest(c, e) PROVE LocalsInv'
  BY <1>22 DEF UnlinkOldest, AfterUnlink, Unlink, Freed
<1>23. ASSUME NEW c \in Cleaners, NEW e \in todo[c], UnlinkSkip(c, e) PROVE LocalsInv'
  BY <1>23 DEF UnlinkSkip
<1>24. ASSUME NEW c \in Cleaners, SnapshotDone(c) PROVE LocalsInv'
  BY <1>24 DEF SnapshotDone, ClearLocals, Failed
<1>25. ASSUME NEW c \in Cleaners, Recheck(c) PROVE LocalsInv'
  BY <1>25 DEF Recheck, ReadUsage, ClearLocals, Failed
<1>26. ASSUME NEW c \in Cleaners, PruneWalk(c) PROVE LocalsInv'
  BY <1>26 DEF PruneWalk
<1>27. ASSUME NEW c \in Cleaners, NEW d \in Dirs, PruneDir(c, d) PROVE LocalsInv'
  BY <1>27 DEF PruneDir, Removable
<1>28. ASSUME NEW c \in Cleaners, PruneDone(c) \/ CompactEnd(c) PROVE LocalsInv'
  BY <1>28 DEF PruneDone, CompactEnd, ReadUsage, Move, Failed
<1>29. CASE UNCHANGED vars
  BY <1>29 DEF vars
<1> QED
  BY <1>1, <1>2, <1>3, <1>4, <1>5, <1>6, <1>7, <1>8, <1>9, <1>10, <1>11, <1>12, <1>13, <1>14, <1>15, <1>16, <1>17, <1>18, <1>19, <1>20, <1>21, <1>22, <1>23, <1>24, <1>25, <1>26, <1>27, <1>28, <1>29
  DEF Next, Engine, Operator, Step, Startup, Loop, Compact

\* What an unlink does to the sum a cleaner's budget is about: its own unlinks lower
\* it by the page's size, those of others leave it alone.
LEMMA UnlinkEffect ==
  ASSUME TypeOK, NEW f \in Files, NEW S \in SUBSET Cleaners, Unlink(f, S)
  PROVE  /\ SizeOf[f[1]] \in Nat \ {0}
         /\ \A c \in S : used' + credit'[c] = used + credit[c] - SizeOf[f[1]]
         /\ \A c \in Cleaners \ S :
               pc[c] \in Compacting => used' + credit'[c] = used + credit[c]
<1>1. f[1] \in Pages /\ SizeOf[f[1]] \in Nat \ {0}
  BY CleanerAssumption DEF Files
<1>2. CASE f = Bin(f[1]) /\ f[1] \in opened
  BY <1>1, <1>2 DEF Unlink, TypeOK
<1>3. CASE ~(f = Bin(f[1]) /\ f[1] \in opened)
  BY <1>1, <1>3 DEF Unlink, Freed, TypeOK
<1> QED
  BY <1>1, <1>2, <1>3

LEMMA BudgetStep == TypeOK /\ TypeOK' /\ LocalsInv /\ BudgetInv /\ [Next]_vars => BudgetInv'
<1> SUFFICES ASSUME TypeOK, TypeOK', LocalsInv, BudgetInv, [Next]_vars PROVE BudgetInv'
  OBVIOUS
<1> USE CleanerAssumption DEF BudgetInv, LocalsInv, Compacting, TypeOK, treeVars, useVars, openVars, lockVars, procVars, scanVars, markVars, At, Goto
<1>1. ASSUME NEW d \in Dirs, MakeDir(d) PROVE BudgetInv'
  BY <1>1 DEF MakeDir
<1>2. ASSUME NEW p \in Pages, WriteTemp(p) PROVE BudgetInv'
  BY <1>2 DEF WriteTemp
<1>3. ASSUME NEW p \in Pages, Publish(p) PROVE BudgetInv'
  BY <1>3 DEF Publish, Use
<1>4. ASSUME NEW p \in Pages, ReadOpen(p) PROVE BudgetInv'
  BY <1>4 DEF ReadOpen, Use
<1>5. ASSUME NEW p \in Pages, ReadClose(p) PROVE BudgetInv'
  BY <1>5 DEF ReadClose, Freed
<1>6. ASSUME NEW f \in Files, Remove(f) PROVE BudgetInv'
  <2>1. \A c \in Cleaners : pc[c] \in Compacting => used' + credit'[c] = used + credit[c]
    BY <1>6, UnlinkEffect DEF Remove
  <2> QED
    BY <1>6, <2>1 DEF Remove
<1>7. CASE RemoveLock
  BY <1>7 DEF RemoveLock
<1>8. CASE RemoveRoot
  BY <1>8 DEF RemoveRoot
<1>9. ASSUME NEW c \in Cleaners, Start(c) PROVE BudgetInv'
  BY <1>9 DEF Start
<1>10. ASSUME NEW c \in Cleaners, SignalStop(c) PROVE BudgetInv'
  BY <1>10 DEF SignalStop
<1>11. ASSUME NEW c \in Cleaners, Crash(c) PROVE BudgetInv'
  BY <1>11 DEF Crash, Gone, ClearLocals
<1>12. ASSUME NEW c \in Cleaners, MkdirRoot(c) PROVE BudgetInv'
  BY <1>12 DEF MkdirRoot
<1>13. ASSUME NEW c \in Cleaners, OpenLock(c) PROVE BudgetInv'
  BY <1>13 DEF OpenLock
<1>14. ASSUME NEW c \in Cleaners, FlockLock(c) PROVE BudgetInv'
  BY <1>14 DEF FlockLock, Locked
<1>15. ASSUME NEW c \in Cleaners, Watch(c) PROVE BudgetInv'
  BY <1>15 DEF Watch
<1>16. ASSUME NEW c \in Cleaners, LoopTest(c) \/ EndCycle(c) \/ Wake(c) \/ PollOnce(c) PROVE BudgetInv'
  <2>1. UNCHANGED <<used, credit, batch, need>>
    BY <1>16 DEF LoopTest, EndCycle, Wake, PollOnce, Move
  <2>2. \A d \in Cleaners : pc'[d] \in Compacting => pc[d] = pc'[d]
    BY <1>16 DEF LoopTest, EndCycle, Wake, PollOnce, Move, Failed
  <2> QED
    BY <2>1, <2>2
<1>17. ASSUME NEW c \in Cleaners, Exit(c) PROVE BudgetInv'
  BY <1>17 DEF Exit, Gone
<1>18. ASSUME NEW c \in Cleaners, CompactStat(c) PROVE BudgetInv'
  <2>1. /\ UNCHANGED <<used, credit, batch>> /\ batch[c] = 0 /\ credit[c] = 0
        /\ used \in Int /\ Target \in Nat
    BY <1>18 DEF CompactStat
  <2>2. \A d \in Cleaners \ {c} : pc'[d] = pc[d] /\ need'[d] = need[d]
    BY <1>18 DEF CompactStat
  <2>3. \/ pc'[c] \in {"idle", "exit"}
        \/ pc'[c] = "scan" /\ need'[c] = used - Target /\ used > Target
    BY <1>18 DEF CompactStat, Failed
  <2> QED
    BY <2>1, <2>2, <2>3
<1>19. ASSUME NEW c \in Cleaners, NEW p \in Pages, ScanEntry(c, p) PROVE BudgetInv'
  BY <1>19 DEF ScanEntry, Evictable
<1>20. ASSUME NEW c \in Cleaners, NEW d \in Dirs, ScanFault(c, d) PROVE BudgetInv'
  BY <1>20 DEF ScanFault
<1>21. ASSUME NEW c \in Cleaners, ScanDone(c) PROVE BudgetInv'
  BY <1>21 DEF ScanDone, ClearLocals
<1>22. ASSUME NEW c \in Cleaners, NEW e \in todo[c], UnlinkOldest(c, e) PROVE BudgetInv'
  <2>1. e[2] \in Files /\ SizeOf[e[2][1]] \in Nat
    BY <1>22 DEF Files
  <2>2. /\ used' + credit'[c] = used + credit[c] - SizeOf[e[2][1]]
        /\ \A d \in Cleaners \ {c} :
              pc[d] \in Compacting => used' + credit'[d] = used + credit[d]
    BY <1>22, <2>1, UnlinkEffect DEF UnlinkOldest
  <2>3. batch' = [batch EXCEPT ![c] = @ + SizeOf[e[2][1]]] /\ need' = need
    BY <1>22 DEF UnlinkOldest
  <2>4. ASSUME NEW d \in Cleaners, d # c, pc[d] \in {"scan", "unlink"}
        PROVE  batch'[d] < need'[d] /\ used' + credit'[d] + batch'[d] >= Target + need'[d]
    BY <2>2, <2>3, <2>4
  <2>5. /\ At(c, "unlink")
        /\ pc' = [pc EXCEPT ![c] = IF batch'[c] < need[c] THEN "unlink" ELSE "recheck"]
    BY <1>22 DEF UnlinkOldest, AfterUnlink
  <2>6. used' + credit'[c] + batch'[c] >= Target + need'[c]
    <3>1. batch'[c] = batch[c] + SizeOf[e[2][1]] /\ need'[c] = need[c]
      BY <2>3 DEF TypeOK
    <3>2. used + credit[c] + batch[c] >= Target + need[c]
      BY <2>5 DEF At
    <3>3. /\ used \in Int /\ credit[c] \in Int /\ batch[c] \in Int /\ need[c] \in Int
          /\ used' \in Int /\ credit'[c] \in Int /\ Target \in Int
      BY DEF TypeOK
    <3> HIDE DEF TypeOK, BudgetInv
    <3> QED
      BY <2>1, <2>2, <3>1, <3>2, <3>3
  <2>7. \A d \in Cleaners : d # c => pc'[d] = pc[d] /\ batch'[d] = batch[d]
    BY <2>3, <2>5
  <2>8. At(c, "scan")' => batch'[c] = 0
    BY <2>5
  <2>9. (pc'[c] \in {"scan", "unlink"} => batch'[c] < need'[c])
    BY <2>3, <2>5
  <2>10. ASSUME NEW d \in Cleaners, d # c
         PROVE  /\ At(d, "scan")' => batch'[d] = 0
                /\ pc'[d] \in {"scan", "unlink"} =>
                     batch'[d] < need'[d] /\ used' + credit'[d] + batch'[d] >= Target + need'[d]
    BY <2>4, <2>7, <2>10
  <2> QED
    BY <2>6, <2>8, <2>9, <2>10
<1>23. ASSUME NEW c \in Cleaners, NEW e \in todo[c], UnlinkSkip(c, e) PROVE BudgetInv'
  BY <1>23 DEF UnlinkSkip
<1>24. ASSUME NEW c \in Cleaners, SnapshotDone(c) PROVE BudgetInv'
  BY <1>24 DEF SnapshotDone, ClearLocals, Failed
<1>25. ASSUME NEW c \in Cleaners, Recheck(c) PROVE BudgetInv'
  BY <1>25 DEF Recheck, ReadUsage, ClearLocals, Failed
<1>26. ASSUME NEW c \in Cleaners, PruneWalk(c) PROVE BudgetInv'
  BY <1>26 DEF PruneWalk
<1>27. ASSUME NEW c \in Cleaners, NEW d \in Dirs, PruneDir(c, d) PROVE BudgetInv'
  BY <1>27 DEF PruneDir, Removable
<1>28. ASSUME NEW c \in Cleaners, PruneDone(c) \/ CompactEnd(c) PROVE BudgetInv'
  BY <1>28 DEF PruneDone, CompactEnd, ReadUsage, Move, Failed
<1>29. CASE UNCHANGED vars
  BY <1>29 DEF vars
<1> QED
  BY <1>1, <1>2, <1>3, <1>4, <1>5, <1>6, <1>7, <1>8, <1>9, <1>10, <1>11, <1>12, <1>13, <1>14, <1>15, <1>16, <1>17, <1>18, <1>19, <1>20, <1>21, <1>22, <1>23, <1>24, <1>25, <1>26, <1>27, <1>28, <1>29
  DEF Next, Engine, Operator, Step, Startup, Loop, Compact

LEMMA ArmedStep == TypeOK /\ TypeOK' /\ ArmedInv /\ [Next]_vars => ArmedInv'
<1> SUFFICES ASSUME TypeOK, TypeOK', ArmedInv, [Next]_vars PROVE ArmedInv'
  OBVIOUS
<1> USE CleanerAssumption DEF ArmedInv, Compacting, Looping, TypeOK, treeVars, useVars, openVars, lockVars, procVars, scanVars, markVars, At, Goto
<1>1. ASSUME NEW d \in Dirs, MakeDir(d) PROVE ArmedInv'
  BY <1>1 DEF MakeDir
<1>2. ASSUME NEW p \in Pages, WriteTemp(p) PROVE ArmedInv'
  BY <1>2 DEF WriteTemp
<1>3. ASSUME NEW p \in Pages, Publish(p) PROVE ArmedInv'
  BY <1>3 DEF Publish, Use
<1>4. ASSUME NEW p \in Pages, ReadOpen(p) PROVE ArmedInv'
  BY <1>4 DEF ReadOpen, Use
<1>5. ASSUME NEW p \in Pages, ReadClose(p) PROVE ArmedInv'
  BY <1>5 DEF ReadClose, Freed
<1>6. ASSUME NEW f \in Files, Remove(f) PROVE ArmedInv'
  <2>1. SizeOf[f[1]] \in Nat \ {0}
    BY DEF Files
  <2>2. used' <= used
    BY <1>6, <2>1 DEF Remove, Unlink
  <2> QED
    BY <1>6, <2>2 DEF Remove
<1>7. CASE RemoveLock
  BY <1>7 DEF RemoveLock
<1>8. CASE RemoveRoot
  BY <1>8 DEF RemoveRoot
<1>9. ASSUME NEW c \in Cleaners, Start(c) PROVE ArmedInv'
  BY <1>9 DEF Start
<1>10. ASSUME NEW c \in Cleaners, SignalStop(c) PROVE ArmedInv'
  BY <1>10 DEF SignalStop
<1>11. ASSUME NEW c \in Cleaners, Crash(c) PROVE ArmedInv'
  BY <1>11 DEF Crash, Gone, ClearLocals
<1>12. ASSUME NEW c \in Cleaners, MkdirRoot(c) PROVE ArmedInv'
  BY <1>12 DEF MkdirRoot
<1>13. ASSUME NEW c \in Cleaners, OpenLock(c) PROVE ArmedInv'
  BY <1>13 DEF OpenLock
<1>14. ASSUME NEW c \in Cleaners, FlockLock(c) PROVE ArmedInv'
  BY <1>14 DEF FlockLock, Locked
<1>15. ASSUME NEW c \in Cleaners, Watch(c) PROVE ArmedInv'
  BY <1>15 DEF Watch
<1>16. ASSUME NEW c \in Cleaners, LoopTest(c) \/ EndCycle(c) \/ Wake(c) \/ PollOnce(c) PROVE ArmedInv'
  BY <1>16 DEF LoopTest, EndCycle, Wake, PollOnce, Move, Failed
<1>17. ASSUME NEW c \in Cleaners, Exit(c) PROVE ArmedInv'
  BY <1>17 DEF Exit, Gone
<1>18. ASSUME NEW c \in Cleaners, CompactStat(c) PROVE ArmedInv'
  BY <1>18 DEF CompactStat, ReadUsage, Failed
<1>19. ASSUME NEW c \in Cleaners, NEW p \in Pages, ScanEntry(c, p) PROVE ArmedInv'
  BY <1>19 DEF ScanEntry, Evictable
<1>20. ASSUME NEW c \in Cleaners, NEW d \in Dirs, ScanFault(c, d) PROVE ArmedInv'
  BY <1>20 DEF ScanFault
<1>21. ASSUME NEW c \in Cleaners, ScanDone(c) PROVE ArmedInv'
  BY <1>21 DEF ScanDone, ClearLocals
<1>22. ASSUME NEW c \in Cleaners, NEW e \in todo[c], UnlinkOldest(c, e) PROVE ArmedInv'
  <2>1. e \in Stamps \X Files
    OBVIOUS
  <2>2. SizeOf[e[2][1]] \in Nat \ {0}
    BY <2>1 DEF Files
  <2>3. used' <= used
    BY <1>22, <2>2 DEF UnlinkOldest, Unlink
  <2> QED
    BY <1>22, <2>3 DEF UnlinkOldest, AfterUnlink
<1>23. ASSUME NEW c \in Cleaners, NEW e \in todo[c], UnlinkSkip(c, e) PROVE ArmedInv'
  BY <1>23 DEF UnlinkSkip
<1>24. ASSUME NEW c \in Cleaners, SnapshotDone(c) PROVE ArmedInv'
  BY <1>24 DEF SnapshotDone, ClearLocals, Failed
<1>25. ASSUME NEW c \in Cleaners, Recheck(c) PROVE ArmedInv'
  BY <1>25 DEF Recheck, ReadUsage, ClearLocals, Failed
<1>26. ASSUME NEW c \in Cleaners, PruneWalk(c) PROVE ArmedInv'
  BY <1>26 DEF PruneWalk
<1>27. ASSUME NEW c \in Cleaners, NEW d \in Dirs, PruneDir(c, d) PROVE ArmedInv'
  BY <1>27 DEF PruneDir, Removable
<1>28. ASSUME NEW c \in Cleaners, PruneDone(c) \/ CompactEnd(c) PROVE ArmedInv'
  BY <1>28 DEF PruneDone, CompactEnd, ReadUsage, Move, Failed
<1>29. CASE UNCHANGED vars
  BY <1>29 DEF vars
<1> QED
  BY <1>1, <1>2, <1>3, <1>4, <1>5, <1>6, <1>7, <1>8, <1>9, <1>10, <1>11, <1>12, <1>13, <1>14, <1>15, <1>16, <1>17, <1>18, <1>19, <1>20, <1>21, <1>22, <1>23, <1>24, <1>25, <1>26, <1>27, <1>28, <1>29
  DEF Next, Engine, Operator, Step, Startup, Loop, Compact

\* Snapshots that only shrink, or are of an older scan and empty.
LEMMA SnapshotsShrink ==
  ASSUME TypeOK, SnapshotInv, UNCHANGED useVars,
         \A c \in Cleaners : since'[c] \in {since[c], clock, 0},
         \A c \in Cleaners :
            todo'[c] = {} \/ (todo'[c] \subseteq todo[c] /\ since'[c] = since[c])
  PROVE  SnapshotInv'
<1>1. clock \in Nat
  BY CleanerAssumption DEF TypeOK, Stamps
<1> QED
  BY <1>1 DEF SnapshotInv, Untouched, useVars

LEMMA SnapshotStep == TypeOK /\ TypeOK' /\ LocalsInv /\ SnapshotInv /\ [Next]_vars => SnapshotInv'
<1> SUFFICES ASSUME TypeOK, TypeOK', LocalsInv, SnapshotInv, [Next]_vars PROVE SnapshotInv'
  OBVIOUS
<1> USE CleanerAssumption DEF SnapshotInv, LocalsInv, Untouched, Compacting, Bin, Tmp, Files, Stamps, TypeOK, treeVars, useVars, openVars, lockVars, procVars, scanVars, markVars, At, Goto
<1>1. ASSUME NEW d \in Dirs, MakeDir(d) PROVE SnapshotInv'
  BY <1>1 DEF MakeDir
<1>2. ASSUME NEW p \in Pages, WriteTemp(p) PROVE SnapshotInv'
  BY <1>2 DEF WriteTemp
<1>3. ASSUME NEW p \in Pages, Publish(p) PROVE SnapshotInv'
  BY <1>3 DEF Publish, Use
<1>4. ASSUME NEW p \in Pages, ReadOpen(p) PROVE SnapshotInv'
  BY <1>4 DEF ReadOpen, Use
<1>5. ASSUME NEW p \in Pages, ReadClose(p) PROVE SnapshotInv'
  BY <1>5 DEF ReadClose, Freed
<1>6. ASSUME NEW f \in Files, Remove(f) PROVE SnapshotInv'
  BY <1>6 DEF Remove, Unlink, Freed
<1>7. CASE RemoveLock
  BY <1>7 DEF RemoveLock
<1>8. CASE RemoveRoot
  BY <1>8 DEF RemoveRoot
<1>9. ASSUME NEW c \in Cleaners, Start(c) PROVE SnapshotInv'
  BY <1>9 DEF Start
<1>10. ASSUME NEW c \in Cleaners, SignalStop(c) PROVE SnapshotInv'
  BY <1>10 DEF SignalStop
<1>11. ASSUME NEW c \in Cleaners, Crash(c) PROVE SnapshotInv'
  BY <1>11 DEF Crash, Gone, ClearLocals
<1>12. ASSUME NEW c \in Cleaners, MkdirRoot(c) PROVE SnapshotInv'
  BY <1>12 DEF MkdirRoot
<1>13. ASSUME NEW c \in Cleaners, OpenLock(c) PROVE SnapshotInv'
  BY <1>13 DEF OpenLock
<1>14. ASSUME NEW c \in Cleaners, FlockLock(c) PROVE SnapshotInv'
  BY <1>14 DEF FlockLock, Locked
<1>15. ASSUME NEW c \in Cleaners, Watch(c) PROVE SnapshotInv'
  BY <1>15 DEF Watch
<1>16. ASSUME NEW c \in Cleaners, LoopTest(c) \/ EndCycle(c) \/ Wake(c) \/ PollOnce(c) PROVE SnapshotInv'
  <2>1. UNCHANGED <<useVars, todo, since>>
    BY <1>16 DEF LoopTest, EndCycle, Wake, PollOnce, Move
  <2> QED
    BY ONLY <2>1, TypeOK, SnapshotInv, SnapshotsShrink
<1>17. ASSUME NEW c \in Cleaners, Exit(c) PROVE SnapshotInv'
  BY <1>17 DEF Exit, Gone
<1>18. ASSUME NEW c \in Cleaners, CompactStat(c) PROVE SnapshotInv'
  <2>1. UNCHANGED <<useVars, todo>> /\ todo[c] = {}
    BY <1>18 DEF CompactStat
  <2>2. \A d \in Cleaners : since'[d] \in {since[d], clock} /\ (d # c => since'[d] = since[d])
    BY <1>18 DEF CompactStat
  <2> QED
    BY ONLY <2>1, <2>2, TypeOK, SnapshotInv, SnapshotsShrink
<1>19. ASSUME NEW c \in Cleaners, NEW p \in Pages, ScanEntry(c, p) PROVE SnapshotInv'
  BY <1>19 DEF ScanEntry, Evictable
<1>20. ASSUME NEW c \in Cleaners, NEW d \in Dirs, ScanFault(c, d) PROVE SnapshotInv'
  BY <1>20 DEF ScanFault
<1>21. ASSUME NEW c \in Cleaners, ScanDone(c) PROVE SnapshotInv'
  <2>1. UNCHANGED useVars
    BY <1>21 DEF ScanDone
  <2>2. \A d \in Cleaners \ {c} : todo'[d] = todo[d] /\ since'[d] = since[d]
    BY <1>21 DEF ScanDone, ClearLocals
  <2>3. since'[c] \in {since[c], 0} /\ (todo'[c] = {} \/ UNCHANGED <<todo, since>>)
    BY <1>21 DEF ScanDone, ClearLocals
  <2> QED
    BY ONLY <2>1, <2>2, <2>3, TypeOK, SnapshotInv, SnapshotsShrink
<1>22. ASSUME NEW c \in Cleaners, NEW e \in todo[c], UnlinkOldest(c, e) PROVE SnapshotInv'
  BY <1>22 DEF UnlinkOldest, AfterUnlink, Unlink, Freed
<1>23. ASSUME NEW c \in Cleaners, NEW e \in todo[c], UnlinkSkip(c, e) PROVE SnapshotInv'
  BY <1>23 DEF UnlinkSkip
<1>24. ASSUME NEW c \in Cleaners, SnapshotDone(c) PROVE SnapshotInv'
  <2>1. UNCHANGED useVars
    BY <1>24 DEF SnapshotDone
  <2>2. \A d \in Cleaners \ {c} : todo'[d] = todo[d] /\ since'[d] = since[d]
    BY <1>24 DEF SnapshotDone, ClearLocals, Failed
  <2>3. since'[c] \in {since[c], 0} /\ (todo'[c] = {} \/ UNCHANGED <<todo, since>>)
    BY <1>24 DEF SnapshotDone, ClearLocals, Failed
  <2> QED
    BY ONLY <2>1, <2>2, <2>3, TypeOK, SnapshotInv, SnapshotsShrink
<1>25. ASSUME NEW c \in Cleaners, Recheck(c) PROVE SnapshotInv'
  <2>1. UNCHANGED useVars
    BY <1>25 DEF Recheck
  <2>2. \A d \in Cleaners \ {c} : todo'[d] = todo[d] /\ since'[d] = since[d]
    BY <1>25 DEF Recheck, ReadUsage, ClearLocals, Failed
  <2>3. since'[c] \in {since[c], 0} /\ (todo'[c] = {} \/ UNCHANGED <<todo, since>>)
    BY <1>25 DEF Recheck, ReadUsage, ClearLocals, Failed
  <2> QED
    BY ONLY <2>1, <2>2, <2>3, TypeOK, SnapshotInv, SnapshotsShrink
<1>26. ASSUME NEW c \in Cleaners, PruneWalk(c) PROVE SnapshotInv'
  BY <1>26 DEF PruneWalk
<1>27. ASSUME NEW c \in Cleaners, NEW d \in Dirs, PruneDir(c, d) PROVE SnapshotInv'
  BY <1>27 DEF PruneDir, Removable
<1>28. ASSUME NEW c \in Cleaners, PruneDone(c) \/ CompactEnd(c) PROVE SnapshotInv'
  BY <1>28 DEF PruneDone, CompactEnd, ReadUsage, Move, Failed
<1>29. CASE UNCHANGED vars
  BY <1>29 DEF vars
<1> QED
  BY <1>1, <1>2, <1>3, <1>4, <1>5, <1>6, <1>7, <1>8, <1>9, <1>10, <1>11, <1>12, <1>13, <1>14, <1>15, <1>16, <1>17, <1>18, <1>19, <1>20, <1>21, <1>22, <1>23, <1>24, <1>25, <1>26, <1>27, <1>28, <1>29
  DEF Next, Engine, Operator, Step, Startup, Loop, Compact

LEMMA DirStep == TypeOK /\ TypeOK' /\ DirInv /\ [Next]_vars => DirInv'
<1> SUFFICES ASSUME TypeOK, TypeOK', DirInv, [Next]_vars PROVE DirInv'
  OBVIOUS
<1> USE CleanerAssumption DEF DirInv, FilesHaveDirs, PathsUnder, Bin, Tmp, Files, TypeOK, treeVars, useVars, openVars, lockVars, procVars, scanVars, markVars, At, Goto
<1>1. ASSUME NEW d \in Dirs, MakeDir(d) PROVE DirInv'
  BY <1>1 DEF MakeDir
<1>2. ASSUME NEW p \in Pages, WriteTemp(p) PROVE DirInv'
  BY <1>2 DEF WriteTemp
<1>3. ASSUME NEW p \in Pages, Publish(p) PROVE DirInv'
  BY <1>3 DEF Publish, Use
<1>4. ASSUME NEW p \in Pages, ReadOpen(p) PROVE DirInv'
  BY <1>4 DEF ReadOpen, Use
<1>5. ASSUME NEW p \in Pages, ReadClose(p) PROVE DirInv'
  BY <1>5 DEF ReadClose, Freed
<1>6. ASSUME NEW f \in Files, Remove(f) PROVE DirInv'
  BY <1>6 DEF Remove, Unlink, Freed
<1>7. CASE RemoveLock
  BY <1>7 DEF RemoveLock
<1>8. CASE RemoveRoot
  BY <1>8 DEF RemoveRoot
<1>9. ASSUME NEW c \in Cleaners, Start(c) PROVE DirInv'
  BY <1>9 DEF Start
<1>10. ASSUME NEW c \in Cleaners, SignalStop(c) PROVE DirInv'
  BY <1>10 DEF SignalStop
<1>11. ASSUME NEW c \in Cleaners, Crash(c) PROVE DirInv'
  BY <1>11 DEF Crash, Gone, ClearLocals
<1>12. ASSUME NEW c \in Cleaners, MkdirRoot(c) PROVE DirInv'
  BY <1>12 DEF MkdirRoot
<1>13. ASSUME NEW c \in Cleaners, OpenLock(c) PROVE DirInv'
  BY <1>13 DEF OpenLock
<1>14. ASSUME NEW c \in Cleaners, FlockLock(c) PROVE DirInv'
  BY <1>14 DEF FlockLock, Locked
<1>15. ASSUME NEW c \in Cleaners, Watch(c) PROVE DirInv'
  BY <1>15 DEF Watch
<1>16. ASSUME NEW c \in Cleaners, LoopTest(c) \/ EndCycle(c) \/ Wake(c) \/ PollOnce(c) PROVE DirInv'
  BY <1>16 DEF LoopTest, EndCycle, Wake, PollOnce, Move, Failed
<1>17. ASSUME NEW c \in Cleaners, Exit(c) PROVE DirInv'
  BY <1>17 DEF Exit, Gone
<1>18. ASSUME NEW c \in Cleaners, CompactStat(c) PROVE DirInv'
  BY <1>18 DEF CompactStat, ReadUsage, Failed
<1>19. ASSUME NEW c \in Cleaners, NEW p \in Pages, ScanEntry(c, p) PROVE DirInv'
  BY <1>19 DEF ScanEntry, Evictable
<1>20. ASSUME NEW c \in Cleaners, NEW d \in Dirs, ScanFault(c, d) PROVE DirInv'
  BY <1>20 DEF ScanFault
<1>21. ASSUME NEW c \in Cleaners, ScanDone(c) PROVE DirInv'
  BY <1>21 DEF ScanDone, ClearLocals
<1>22. ASSUME NEW c \in Cleaners, NEW e \in todo[c], UnlinkOldest(c, e) PROVE DirInv'
  BY <1>22 DEF UnlinkOldest, AfterUnlink, Unlink, Freed
<1>23. ASSUME NEW c \in Cleaners, NEW e \in todo[c], UnlinkSkip(c, e) PROVE DirInv'
  BY <1>23 DEF UnlinkSkip
<1>24. ASSUME NEW c \in Cleaners, SnapshotDone(c) PROVE DirInv'
  BY <1>24 DEF SnapshotDone, ClearLocals, Failed
<1>25. ASSUME NEW c \in Cleaners, Recheck(c) PROVE DirInv'
  BY <1>25 DEF Recheck, ReadUsage, ClearLocals, Failed
<1>26. ASSUME NEW c \in Cleaners, PruneWalk(c) PROVE DirInv'
  BY <1>26 DEF PruneWalk
<1>27. ASSUME NEW c \in Cleaners, NEW d \in Dirs, PruneDir(c, d) PROVE DirInv'
  BY <1>27 DEF PruneDir, Removable
<1>28. ASSUME NEW c \in Cleaners, PruneDone(c) \/ CompactEnd(c) PROVE DirInv'
  BY <1>28 DEF PruneDone, CompactEnd, ReadUsage, Move, Failed
<1>29. CASE UNCHANGED vars
  BY <1>29 DEF vars
<1> QED
  BY <1>1, <1>2, <1>3, <1>4, <1>5, <1>6, <1>7, <1>8, <1>9, <1>10, <1>11, <1>12, <1>13, <1>14, <1>15, <1>16, <1>17, <1>18, <1>19, <1>20, <1>21, <1>22, <1>23, <1>24, <1>25, <1>26, <1>27, <1>28, <1>29
  DEF Next, Engine, Operator, Step, Startup, Loop, Compact

LEMMA IInvInit == Init => IInv
<1> SUFFICES ASSUME Init PROVE IInv
  OBVIOUS
<1>1. LockInv /\ LocalsInv /\ BudgetInv /\ SnapshotInv /\ DirInv
  BY CleanerAssumption
  DEF Init, LockInv, LocalsInv, BudgetInv, SnapshotInv, DirInv, FilesHaveDirs, At,
      Looping, Compacting, Untouched
<1>2. ArmedInv
  BY DEF Init, ArmedInv, Compacting
<1> QED
  BY <1>1, <1>2 DEF IInv

\* IInv is inductive.
THEOREM Inductive == Spec => [](TypeOK /\ IInv)
<1>1. TypeOK /\ IInv /\ [Next]_vars => TypeOK' /\ IInv'
  BY TypeNext, LockStep, LocalsStep, BudgetStep, ArmedStep, SnapshotStep, DirStep DEF IInv
<1>2. Init => TypeOK
  BY CleanerAssumption DEF Init, TypeOK, Stamps, Labels
<1> QED
  BY <1>1, <1>2, IInvInit, PTL DEF Spec

\* Two cleaners never run at once on one lock file: acquire_lock excludes them, and
\* only somebody removing the lock file lets a second one in.
THEOREM Mutex == Spec => []MutualExclusion
<1>1. TypeOK /\ IInv => MutualExclusion
  BY DEF TypeOK, IInv, LockInv, MutualExclusion
<1> QED
  BY <1>1, Inductive, PTL

\* compact's batches never carry it past its target, whatever engines write or free
\* between its two readings of the usage.
THEOREM Budget == Spec => []NoOverEviction
<1>1. TypeOK /\ IInv => NoOverEviction
  BY CleanerAssumption DEF TypeOK, IInv, BudgetInv, NoOverEviction, At
<1> QED
  BY <1>1, Inductive, PTL

\* However usage wanders between the two thresholds, eviction starts at the trigger only.
THEOREM FromTrigger == Spec => []EvictsFromTrigger
<1>1. TypeOK /\ IInv => EvictsFromTrigger
  BY DEF TypeOK, IInv, ArmedInv, EvictsFromTrigger, At, Compacting
<1> QED
  BY <1>1, Inductive, PTL

\* prune_empty_dirs never removes a directory an engine has a file in.
THEOREM DirsKept == Spec => []FilesHaveDirs
  BY Inductive, PTL DEF IInv, DirInv


\* Files disappear by a rename, by somebody else's removal or by a cleaner's unlink.
LEMMA Vanishing ==
  ASSUME [Next]_vars, present' # present
  PROVE  \/ \E p \in Pages : WriteTemp(p) \/ Publish(p)
         \/ \E f \in Files : Remove(f)
         \/ \E d \in Cleaners : \E e \in todo[d] : UnlinkOldest(d, e)
<1>1. ASSUME \/ \E d \in Dirs : MakeDir(d)
             \/ \E p \in Pages : ReadOpen(p) \/ ReadClose(p)
             \/ RemoveLock \/ RemoveRoot
      PROVE  FALSE
  BY <1>1 DEF MakeDir, ReadOpen, ReadClose, RemoveLock, RemoveRoot
<1>2. ASSUME NEW c \in Cleaners, Start(c) \/ SignalStop(c) \/ Crash(c) PROVE FALSE
  BY <1>2 DEF Start, SignalStop, Crash
<1>3. ASSUME NEW c \in Cleaners, Startup(c) \/ Loop(c) PROVE FALSE
  BY <1>3 DEF Startup, Loop, MkdirRoot, OpenLock, FlockLock, Watch, LoopTest, PollOnce,
              EndCycle, Wake, Exit, Move
<1>4. ASSUME NEW c \in Cleaners, Compact(c), ~\E e \in todo[c] : UnlinkOldest(c, e)
      PROVE  FALSE
  BY <1>4 DEF Compact, CompactStat, ScanEntry, ScanFault, ScanDone, UnlinkSkip,
              SnapshotDone, Recheck, PruneWalk, PruneDir, PruneDone, CompactEnd, Move
<1>5. CASE UNCHANGED vars
  BY <1>5 DEF vars
<1> QED
  BY <1>1, <1>2, <1>3, <1>4, <1>5 DEF Next, Engine, Operator, Step

\* The unlink of a cleaner's step is the one action that takes a file away and an
\* entry from the snapshot of a cleaner in its unlink loop.
LEMMA UnlinkStep ==
  ASSUME TypeOK, [Next]_vars, NEW c \in Cleaners, todo'[c] # todo[c],
         NEW f \in present \ present'
  PROVE  \E e \in todo[c] : UnlinkOldest(c, e) /\ e[2] = f
<1>1. ASSUME NEW p \in Pages, WriteTemp(p) \/ Publish(p) PROVE FALSE
  BY <1>1 DEF WriteTemp, Publish, scanVars
<1>2. ASSUME NEW g \in Files, Remove(g) PROVE FALSE
  BY <1>2 DEF Remove, scanVars
<1>3. PICK d \in Cleaners : \E e \in todo[d] : UnlinkOldest(d, e)
  BY <1>1, <1>2, Vanishing
<1>4. PICK e \in todo[d] : UnlinkOldest(d, e)
  BY <1>3
<1>5. present' = present \ {e[2]} /\ todo' = [todo EXCEPT ![d] = @ \ {e}]
  BY <1>4 DEF UnlinkOldest, Unlink
<1>6. d = c
  BY <1>5 DEF TypeOK
<1> QED
  BY <1>4, <1>5, <1>6

\* With access times kept by the filesystem, compact unlinks in LRU order.
THEOREM EvictionOrder ==
  ASSUME ~NoAtime
  PROVE  Spec => LRUOrder
<1> DEFINE A == \A c \in Cleaners : \A e, o \in todo[c] :
                  /\ At(c, "unlink") /\ e[2] \in present \ present'
                  /\ todo'[c] = todo[c] \ {e}
                  /\ Untouched(c, e) /\ Untouched(c, o)
                  => lastUse[e[2][1]] <= lastUse[o[2][1]]
<1>1. ASSUME TypeOK, IInv, [Next]_vars, NEW c \in Cleaners,
             NEW e \in todo[c], NEW o \in todo[c],
             e[2] \in present \ present', todo'[c] = todo[c] \ {e},
             Untouched(c, e), Untouched(c, o)
      PROVE  lastUse[e[2][1]] <= lastUse[o[2][1]]
  <2>1. PICK g \in todo[c] : UnlinkOldest(c, g) /\ g[2] = e[2]
    BY <1>1, UnlinkStep
  <2>2. todo'[c] = todo[c] \ {g}
    BY <1>1, <2>1 DEF UnlinkOldest, TypeOK
  <2>3. g = e
    BY <1>1, <2>2
  <2>4. e[1] <= o[1]
    BY <2>1, <2>3 DEF UnlinkOldest, IsOldest
  <2>5. e[1] = lastUse[e[2][1]] /\ o[1] = lastUse[o[2][1]]
    BY <1>1 DEF IInv, SnapshotInv
  <2> QED
    BY <2>4, <2>5
<1>2. TypeOK /\ IInv /\ [Next]_vars => [A]_vars
  BY <1>1
<1> QED
  BY <1>2, Inductive, PTL DEF Spec, LRUOrder
=============================================================================
