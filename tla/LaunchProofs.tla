---------------------------- MODULE LaunchProofs ----------------------------
(***************************************************************************)
(* Proofs about starting and stopping servers: type correctness, and,      *)
(* where no start is given up or orphaned before it has workers, that one  *)
(* server at most has workers and that what is measured is the server of   *)
(* the configuration, for any number of launches and kills.                *)
(***************************************************************************)
EXTENDS Launch, FiniteSetTheorems, TLAPS

USE LaunchAssumption

TypeInv == TypeOK /\ FutureInv

\* A step of a server, whichever it is.
LEMMA ServerTypes ==
    ASSUME TypeInv, NEW k \in Launches, Server(k)
    PROVE  TypeInv'
  <1> USE DEF TypeInv, TypeOK, FutureInv, Launches, sweepVars, Alive
  <1>1. CASE Serve(k)
    BY <1>1 DEF Serve
  <1>2. CASE SpawnWorkers(k)
    BY <1>2 DEF SpawnWorkers
  <1>3. CASE Listen(k)
    BY <1>3 DEF Listen
  <1>4. CASE Dies(k)
    BY <1>4 DEF Dies
  <1>5. CASE Ends(k)
    BY <1>5 DEF Ends, Dies
  <1>6. CASE WorkersExit(k)
    BY <1>6 DEF WorkersExit
  <1>7. CASE ShellExits(k)
    BY <1>7 DEF ShellExits
  <1> QED  BY <1>1, <1>2, <1>3, <1>4, <1>5, <1>6, <1>7 DEF Server

LEMMA TypeStep == TypeInv /\ [Next]_vars => TypeInv'
  <1> SUFFICES ASSUME TypeInv, [Next]_vars PROVE TypeInv'
    OBVIOUS
  <1> USE DEF TypeInv, TypeOK, FutureInv, Launches, procVars
  <1>1. CASE Begin("configs") \/ Begin("off")
    BY <1>1 DEF Begin
  <1>2. CASE Terminate
    BY <1>2 DEF Terminate, Listeners
  <1>3. CASE Drained
    BY <1>3 DEF Drained
  <1>4. CASE DrainTimeout
    BY <1>4 DEF DrainTimeout, Killed, Listeners
  <1>5. CASE KillOrphans
    BY <1>5 DEF KillOrphans, Survivors
  <1>6. CASE Settle
    BY <1>6 DEF Settle
  <1>7. CASE Spawn
    BY <1>7 DEF Spawn
  <1>8. CASE ServerExited \/ GiveUp \/ BenchEnds
    <2>1. Stop /\ launch \in Launches
      BY <1>8 DEF ServerExited, GiveUp, BenchEnds
    <2> QED  BY <2>1 DEF Stop
  <1>9. CASE Healthy
    BY <1>9 DEF Healthy
  <1>10. CASE Finish
    BY <1>10 DEF Finish
  <1>11. CASE Kill
    BY <1>11 DEF Kill
  <1>12. CASE \E k \in Launches : Server(k)
    BY <1>12, ServerTypes
  <1>13. CASE UNCHANGED vars
    BY <1>13 DEF vars, sweepVars
  <1> QED
    BY <1>1, <1>2, <1>3, <1>4, <1>5, <1>6, <1>7, <1>8, <1>9, <1>10, <1>11, <1>12, <1>13
    DEF Next, Step

\* Type correctness: every launch so far has had a shell, and no other one has.
THEOREM TypeCorrect == Spec => []TypeOK
  <1>1. Init => TypeInv
    BY DEF Init, TypeInv, TypeOK, FutureInv, Launches
  <1> QED  BY <1>1, TypeStep, PTL DEF Spec, TypeInv

-----------------------------------------------------------------------------
Inv == TypeOK /\ LaunchInv

\* A step of a server: only the launch that is waited for gets workers and listens.
LEMMA ServerKeeps ==
    ASSUME Inv, NEW k \in Launches, Server(k)
    PROVE  EmbryoInv' /\ WorkersInv' /\ AskedInv' /\ OldServersInv'
  <1> USE DEF Inv, TypeOK, LaunchInv, FutureInv, EmbryoInv, WorkersInv, AskedInv,
              OldServersInv, Launches, sweepVars
  <1>1. CASE Serve(k)
    BY <1>1 DEF Serve
  <1>2. CASE SpawnWorkers(k)
    <2>1. k = launch /\ pc = "wait"
      BY <1>2 DEF SpawnWorkers
    <2> QED  BY <1>2, <2>1 DEF SpawnWorkers
  <1>3. CASE Listen(k)
    BY <1>3 DEF Listen
  <1>4. CASE Dies(k)
    BY <1>4 DEF Dies, Alive
  <1>5. CASE Ends(k)
    BY <1>5 DEF Ends, Dies, Alive
  <1>6. CASE WorkersExit(k)
    BY <1>6 DEF WorkersExit
  <1>7. CASE ShellExits(k)
    BY <1>7 DEF ShellExits
  <1> QED  BY <1>1, <1>2, <1>3, <1>4, <1>5, <1>6, <1>7 DEF Server

LEMMA Inductive ==
    ASSUME ~Early
    PROVE  Inv /\ [Next]_vars => Inv'
  <1> SUFFICES ASSUME Inv, [Next]_vars PROVE Inv'
    OBVIOUS
  <1>0. TypeOK' /\ FutureInv'
    BY TypeStep DEF Inv, TypeInv, LaunchInv
  <1> SUFFICES EmbryoInv' /\ WorkersInv' /\ AskedInv' /\ OldServersInv'
    BY <1>0 DEF Inv, LaunchInv
  <1> USE DEF Inv, TypeOK, LaunchInv, FutureInv, EmbryoInv, WorkersInv, AskedInv,
              OldServersInv, Launches, procVars
  <1>1. CASE Begin("configs") \/ Begin("off")
    BY <1>1 DEF Begin
  <1>2. CASE Terminate
    BY <1>2 DEF Terminate, Listeners
  <1>3. CASE Drained
    BY <1>3 DEF Drained, Listeners
  <1>4. CASE DrainTimeout
    BY <1>4 DEF DrainTimeout, Killed, Listeners
  <1>5. CASE KillOrphans
    BY <1>5 DEF KillOrphans, Survivors
  <1>6. CASE Settle
    BY <1>6 DEF Settle
  <1>7. CASE Spawn
    BY <1>7 DEF Spawn
  <1>8. CASE ServerExited \/ GiveUp \/ BenchEnds
    <2>1. CASE ServerExited
      BY <2>1 DEF ServerExited, Stop, Embryo
    <2>2. CASE GiveUp
      BY <2>2 DEF GiveUp, Stop, Embryo
    <2>3. CASE BenchEnds
      BY <2>3 DEF BenchEnds, Stop, Embryo
    <2> QED
      BY <1>8, <2>1, <2>2, <2>3
  <1>9. CASE Healthy
    BY <1>9 DEF Healthy, Listeners
  <1>10. CASE Finish
    BY <1>10 DEF Finish
  <1>11. CASE Kill
    BY <1>11 DEF Kill, Embryo
  <1>12. CASE \E k \in Launches : Server(k)
    BY <1>12, ServerKeeps
  <1>13. CASE UNCHANGED vars
    BY <1>13 DEF vars, sweepVars
  <1> QED
    BY <1>1, <1>2, <1>3, <1>4, <1>5, <1>6, <1>7, <1>8, <1>9, <1>10, <1>11, <1>12, <1>13
    DEF Next, Step

LEMMA Invariant ==
    ASSUME ~Early
    PROVE  Spec => []Inv
  <1>1. Init => Inv
    BY DEF Init, Inv, TypeOK, LaunchInv, FutureInv, EmbryoInv, WorkersInv, AskedInv,
           OldServersInv, Launches
  <1>2. Inv /\ [Next]_vars => Inv'
    BY Inductive
  <1> QED  BY <1>1, <1>2, PTL DEF Spec

\* The GPUs belong to one server at a time, where no start is given up or orphaned before
\* it has workers.
THEOREM GpusToOne ==
    ASSUME ~Early
    PROVE  Spec => []OneEngine
  <1>1. Inv => OneEngine
    <2> SUFFICES ASSUME Inv PROVE OneEngine
      OBVIOUS
    <2>1. workers \subseteq {launch} /\ IsFiniteSet({launch}) /\ Cardinality({launch}) = 1
      BY FS_Singleton DEF Inv, LaunchInv, WorkersInv
    <2>2. Cardinality(workers) <= Cardinality({launch})
      BY <2>1, FS_Subset
    <2> QED  BY <2>1, <2>2 DEF OneEngine
  <1>2. Spec => []Inv
    BY Invariant
  <1> QED  BY <1>1, <1>2, PTL

\* What answers while a configuration is measured is its own server, under the same
\* condition.
THEOREM OwnServer ==
    ASSUME ~Early
    PROVE  Spec => []MeasuresOwn
  <1>1. Inv => MeasuresOwn
    BY DEF Inv, LaunchInv, OldServersInv, MeasuresOwn, Listeners, Launches
  <1>2. Spec => []Inv
    BY Invariant
  <1> QED  BY <1>1, <1>2, PTL
=============================================================================
