-------------------------- MODULE LifecycleProofs --------------------------
(***************************************************************************)
(* Proofs about Lifecycle, for any set of clients, any set of operations    *)
(* that may fail and any bounds.                                            *)
(***************************************************************************)
EXTENDS Lifecycle, TLAPS, SequenceTheorems

\* The three parts of TypeOK: what commands steer by, what they act on, and
\* the counters.
CtlOK ==
  /\ pc \in [Clients -> Steps \cup {"idle"}]
  /\ todo \in [Clients -> Seq(Stages)]
  /\ cmd \in [Clients -> AllCommands \cup {"none"}]
  /\ res \in [Clients -> {"none", "ok", "err"}]

HostOK ==
  /\ cfg \in {"none", "ok", "torn"}
  /\ net \in {"absent", "inactive", "active"}
  /\ disk \in BOOLEAN
  /\ vm \in {"absent", "off", "running"}
  /\ nwf \in BOOLEAN /\ rules \in BOOLEAN /\ withdrawn \in BOOLEAN
  /\ bound \in BOOLEAN /\ warned \in BOOLEAN
  /\ dmn \in [Kinds -> DaemonStates]
  /\ orphan \in SUBSET Kinds
  /\ lock \in Clients \cup {Nobody}
  /\ fresh \in [Clients -> BOOLEAN]

CountOK ==
  ncmd \in 0..MaxCmds /\ nfault \in 0..MaxFaults /\ nevent \in 0..MaxEvents

\* TypeOK is the conjunction of its three parts.
LEMMA Parts ==
  /\ TypeOK <=> CtlOK /\ HostOK /\ CountOK
  /\ TypeOK' <=> CtlOK' /\ HostOK' /\ CountOK'
BY DEF TypeOK, CtlOK, HostOK, CountOK

\* A step to a label of the code keeps the control state well formed.
LEMMA GotoCtl ==
  ASSUME CtlOK, NEW c \in Clients, NEW l \in Steps, Goto(c, l)
  PROVE  CtlOK'
BY DEF CtlOK, Goto

\* An error ends the command, and keeps the control state well formed.
LEMMA FailCtl ==
  ASSUME CtlOK, NEW c \in Clients, Fail(c)
  PROVE  CtlOK'
<1>1. <<>> \in Seq(Stages) OBVIOUS
<1> QED BY <1>1 DEF CtlOK, Fail

\* The end of a stage enters the next one, and keeps the control state well
\* formed.
LEMMA ReturnCtl ==
  ASSUME CtlOK, NEW c \in Clients, Return(c)
  PROVE  CtlOK'
<1>1. CASE todo[c] = <<>>
  BY <1>1 DEF CtlOK, Return
<1>2. CASE todo[c] # <<>>
  <2>1. todo[c] \in Seq(Stages) BY DEF CtlOK
  <2>2. Head(todo[c]) \in Stages /\ Tail(todo[c]) \in Seq(Stages)
    BY <2>1, <1>2, HeadTailProperties
  <2>3. Stages \subseteq Steps
    BY DEF Stages, Steps, StartSteps, SecureSteps, RemoveSteps
  <2> QED BY <1>2, <2>2, <2>3 DEF CtlOK, Return
<1> QED BY <1>1, <1>2

\* Return ends in idle or at the first step of a stage.
LEMMA ReturnTo ==
  ASSUME CtlOK, NEW c \in Clients, Return(c)
  PROVE  \E l \in Stages \cup {"idle"} : pc' = [pc EXCEPT ![c] = l]
<1>1. CASE todo[c] = <<>>
  BY <1>1 DEF Return
<1>2. CASE todo[c] # <<>>
  <2>1. todo[c] \in Seq(Stages) BY DEF CtlOK
  <2>2. Head(todo[c]) \in Stages BY <2>1, <1>2, HeadTailProperties
  <2> QED BY <1>2, <2>2 DEF Return
<1> QED BY <1>1, <1>2

-----------------------------------------------------------------------------
(* Types.                                                                  *)

\* The tables of successors name steps outside create's and remove's locked
\* sections, except for the two egress steps inside remove.
LEMMA Tables ==
  /\ \A l \in {"st_dns", "st_http", "st_mon", "rc_dns", "rc_http", "rc_mon",
               "s_mon", "s_http"} :
       AfterDaemon[l] \in (StartSteps \cup RecoverSteps \cup SecureSteps
                            \cup StopSteps) \ {"st_apply", "st_fail"}
  /\ \A l \in {"st_dns", "st_http", "st_mon", "rc_dns", "rc_http", "rc_mon",
               "s_mon", "s_http", "s_dns"} : DaemonAt[l] \in Kinds
  /\ \A l \in {"s_flush", "s_undef", "f_flush"} :
       AfterEgress[l] \in {"s_undef", "s_mon", "f_undef"}
  /\ \A l \in {"r_flush", "r_undef"} : AfterEgress[l] \in {"r_undef", "rm_net"}
BY DEF AfterDaemon, DaemonAt, AfterEgress, Kinds, StartSteps, RecoverSteps,
       SecureSteps, StopSteps

\* The initial state has the right types.
LEMMA InitType == Init => TypeOK
<1> SUFFICES ASSUME Init PROVE TypeOK OBVIOUS
<1>1. <<>> \in Seq(Stages) OBVIOUS
<1>2. CtlOK BY <1>1 DEF Init, CtlOK
<1>3. HostOK
  <2>1. cfg \in {"none", "ok", "torn"} BY DEF Init
  <2>2. net \in {"absent", "inactive", "active"} BY DEF Init
  <2>3. vm \in {"absent", "off", "running"} BY DEF Init
  <2>4. disk \in BOOLEAN BY DEF Init
  <2>5. dmn \in [Kinds -> DaemonStates] BY DEF Init, DaemonStates
  <2> QED BY <2>1, <2>2, <2>3, <2>4, <2>5 DEF Init, HostOK
<1>4. CountOK BY BoundAssumption DEF Init, CountOK
<1> QED BY <1>2, <1>3, <1>4, Parts

\* A step of a command leaves the other counters alone and counts at most one
\* fault.
Counted ==
  /\ nfault' = nfault \/ \E op \in Operations : Fault(op)
  /\ UNCHANGED counts

\* Faults stay within their bound.
LEMMA CountedOK == CountOK /\ Counted => CountOK'
<1> SUFFICES ASSUME CountOK, Counted PROVE CountOK' OBVIOUS
<1>1. ncmd' \in 0..MaxCmds /\ nevent' \in 0..MaxEvents
  BY DEF CountOK, Counted, counts
<1>2. CASE nfault' = nfault BY <1>1, <1>2 DEF CountOK
<1>3. CASE \E op \in Operations : Fault(op)
  <2>1. nfault < MaxFaults /\ nfault' = nfault + 1 BY <1>3 DEF Fault
  <2> QED BY <1>1, <2>1, BoundAssumption DEF CountOK
<1> QED BY <1>2, <1>3 DEF Counted

\* A step of a command moves to a step, or ends its stage or the command.
Moves(c) == Return(c) \/ Fail(c) \/ \E l \in Steps : Goto(c, l)

\* Such a step keeps the control state well formed.
LEMMA MovesCtl ==
  ASSUME CtlOK, NEW c \in Clients, Moves(c)
  PROVE  CtlOK'
BY ReturnCtl, FailCtl, GotoCtl DEF Moves

\* Every step of a command keeps the control state well formed.
LEMMA StepCtl ==
  ASSUME CtlOK, NEW c \in Clients, Step(c)
  PROVE  CtlOK'
<1> USE DEF Moves, Steps, CreateSteps, StartSteps, RecoverSteps,
       SecureSteps, StopSteps, RemoveSteps
<1>1. ASSUME Up(c) PROVE CtlOK'
  <2>1. <<"st_load", "f_load">> \in Seq(Stages) BY DEF Stages
  <2>2. CASE Moves(c) BY <2>2, MovesCtl
  <2>3. CASE /\ pc' = [pc EXCEPT ![c] = "c_lock"]
             /\ todo' = [todo EXCEPT ![c] = <<"st_load", "f_load">>]
             /\ UNCHANGED <<cmd, res>>
    BY <2>1, <2>3 DEF CtlOK
  <2> QED BY <1>1, <2>2, <2>3 DEF Up
<1>2. ASSUME Down(c) PROVE CtlOK'
  <2>1. <<>> \in Seq(Stages) OBVIOUS
  <2>2. CASE Moves(c) BY <2>2, MovesCtl
  <2>3. CASE ~Moves(c) BY <1>2, <2>1, <2>3 DEF Down, CtlOK
  <2> QED BY <2>2, <2>3
<1>3. ASSUME CreateLock(c) \/ CreateSave(c) \/ CreateNetwork(c) \/
              CreateDisk(c) \/ CreateVM(c)
      PROVE  CtlOK'
  <2>1. Moves(c)
    BY <1>3 DEF CreateLock, CreateSave, CreateNetwork, CreateDisk, CreateVM
  <2> QED BY <2>1, MovesCtl
<1>4. ASSUME CreateSaveFails(c) \/ CreateFails(c)
      PROVE  CtlOK'
  <2>1. Moves(c)
    BY <1>4 DEF CreateSaveFails, CreateFails
  <2> QED BY <2>1, MovesCtl
<1>5. ASSUME StartLoad(c) \/ EnsureNetwork(c) \/ Redefine(c) \/
              SecureLoad(c)
      PROVE  CtlOK'
  <2>1. Moves(c)
    BY <1>5 DEF StartLoad, EnsureNetwork, Redefine, SecureLoad
  <2> QED BY <2>1, MovesCtl
<1>6. ASSUME StartDaemon(c)
      PROVE  CtlOK'
  <2>1. Moves(c)
    BY <1>6, Tables DEF StartDaemon
  <2> QED BY <2>1, MovesCtl
<1>7. ASSUME StartDaemonFails(c) \/ StatusFails(c)
      PROVE  CtlOK'
  <2>1. Moves(c)
    BY <1>7 DEF StartDaemonFails, StatusFails
  <2> QED BY <2>1, MovesCtl
<1>8. ASSUME SaveFails(c)
      PROVE  CtlOK'
  <2>1. Moves(c)
    BY <1>8, Tables DEF SaveFails
  <2> QED BY <2>1, MovesCtl
<1>9. ASSUME DefineFilter(c) \/ DefineRules(c)
      PROVE  CtlOK'
  <2>1. Moves(c)
    BY <1>9 DEF DefineFilter, DefineRules
  <2> QED BY <2>1, MovesCtl
<1>10. ASSUME Boot(c) \/ BootFails(c) \/ Apply(c) \/ ApplyFails(c) \/
              FailClosed(c)
      PROVE  CtlOK'
  <2>1. Moves(c)
    BY <1>10 DEF Boot, BootFails, Apply, ApplyFails, FailClosed
  <2> QED BY <2>1, MovesCtl
<1>11. ASSUME StopLoad(c) \/ StopVM(c) \/ StopWait(c)
      PROVE  CtlOK'
  <2>1. Moves(c)
    BY <1>11 DEF StopLoad, StopVM, StopWait, Halt
  <2> QED BY <2>1, MovesCtl
<1>12. ASSUME FlushRules(c) \/ UndefineFilter(c) \/ StopDaemon(c)
      PROVE  CtlOK'
  <2>1. Moves(c)
    BY <1>12, Tables DEF FlushRules, UndefineFilter, StopDaemon
  <2> QED BY <2>1, MovesCtl
<1>13. ASSUME RemoveLoad(c) \/ RemoveLock(c) \/ RemoveServices(c) \/
              RemoveVM(c) \/ RemoveNetwork(c) \/ RemoveConfig(c) \/
              RemoveFiles(c)
      PROVE  CtlOK'
  <2>1. Moves(c)
    BY <1>13 DEF RemoveLoad, RemoveLock, RemoveServices, RemoveVM, RemoveNetwork, RemoveConfig, RemoveFiles
  <2> QED BY <2>1, MovesCtl
<1> QED BY <1>1, <1>2, <1>3, <1>4, <1>5, <1>6, <1>7, <1>8, <1>9, <1>10, <1>11, <1>12, <1>13, Zenon DEF Step

\* Every step of a command counts at most one fault.
LEMMA StepCounted ==
  ASSUME HostOK, NEW c \in Clients, Step(c)
  PROVE  Counted
<1> USE DEF Counted, Operations, Ask, Works, counts
<1>1. ASSUME Up(c) \/ Down(c)
      PROVE  Counted
  BY <1>1 DEF Up, Down
<1>2. ASSUME CreateLock(c) \/ CreateSave(c) \/ CreateNetwork(c) \/
             CreateDisk(c) \/ CreateVM(c)
      PROVE  Counted
  BY <1>2 DEF CreateLock, CreateSave, CreateNetwork, CreateDisk, CreateVM
<1>3. ASSUME CreateSaveFails(c) \/ CreateFails(c)
      PROVE  Counted
  BY <1>3 DEF CreateSaveFails, CreateFails
<1>4. ASSUME StartLoad(c) \/ EnsureNetwork(c) \/ StartDaemon(c)
      PROVE  Counted
  BY <1>4 DEF StartLoad, EnsureNetwork, StartDaemon
<1>5. ASSUME StartDaemonFails(c) \/ StatusFails(c) \/ SaveFails(c)
      PROVE  Counted
  BY <1>5 DEF StartDaemonFails, StatusFails, SaveFails
<1>6. ASSUME Redefine(c) \/ DefineFilter(c) \/ DefineRules(c)
      PROVE  Counted
  BY <1>6 DEF Redefine, DefineFilter, DefineRules
<1>7. ASSUME Boot(c) \/ BootFails(c) \/ Apply(c) \/ ApplyFails(c) \/
             FailClosed(c) \/ SecureLoad(c)
      PROVE  Counted
  BY <1>7 DEF Boot, BootFails, Apply, ApplyFails, FailClosed, SecureLoad
<1>8. ASSUME StopLoad(c) \/ StopVM(c) \/ StopWait(c)
      PROVE  Counted
  BY <1>8 DEF StopLoad, StopVM, StopWait
<1>9. ASSUME FlushRules(c) \/ UndefineFilter(c) \/ StopDaemon(c)
      PROVE  Counted
  BY <1>9 DEF FlushRules, UndefineFilter, StopDaemon
<1>10. ASSUME RemoveLoad(c) \/ RemoveLock(c) \/ RemoveServices(c) \/
             RemoveVM(c)
      PROVE  Counted
  BY <1>10 DEF RemoveLoad, RemoveLock, RemoveServices, RemoveVM
<1>11. ASSUME RemoveNetwork(c) \/ RemoveConfig(c) \/ RemoveFiles(c)
      PROVE  Counted
  BY <1>11 DEF RemoveNetwork, RemoveConfig, RemoveFiles
<1> QED BY <1>1, <1>2, <1>3, <1>4, <1>5, <1>6, <1>7, <1>8, <1>9, <1>10,
           <1>11, Zenon DEF Step

\* Every step of a command keeps the host state well formed.
LEMMA StepHost ==
  ASSUME CtlOK, HostOK, NEW c \in Clients, Step(c)
  PROVE  HostOK'
<1> USE DEF HostOK, DaemonStates, host, guest, egress, dmns, Halt
<1>1. ASSUME Up(c)
      PROVE  HostOK'
  BY <1>1 DEF Up
<1>2. ASSUME Down(c)
      PROVE  HostOK'
  BY <1>2 DEF Down
<1>3. ASSUME CreateLock(c)
      PROVE  HostOK'
  BY <1>3 DEF CreateLock
<1>4. ASSUME CreateSave(c)
      PROVE  HostOK'
  BY <1>4 DEF CreateSave
<1>5. ASSUME CreateNetwork(c)
      PROVE  HostOK'
  BY <1>5 DEF CreateNetwork
<1>6. ASSUME CreateDisk(c)
      PROVE  HostOK'
  BY <1>6 DEF CreateDisk
<1>7. ASSUME CreateVM(c)
      PROVE  HostOK'
  BY <1>7 DEF CreateVM
<1>8. ASSUME CreateSaveFails(c)
      PROVE  HostOK'
  BY <1>8 DEF CreateSaveFails
<1>9. ASSUME CreateFails(c)
      PROVE  HostOK'
  BY <1>9 DEF CreateFails
<1>10. ASSUME StartLoad(c)
      PROVE  HostOK'
  BY <1>10 DEF StartLoad
<1>11. ASSUME EnsureNetwork(c)
      PROVE  HostOK'
  BY <1>11 DEF EnsureNetwork
<1>12. ASSUME StartDaemon(c)
      PROVE  HostOK'
  BY <1>12, Tables DEF StartDaemon
<1>13. ASSUME StartDaemonFails(c)
      PROVE  HostOK'
  BY <1>13, Tables DEF StartDaemonFails
<1>14. ASSUME StatusFails(c)
      PROVE  HostOK'
  BY <1>14, Tables DEF StatusFails
<1>15. ASSUME SaveFails(c)
      PROVE  HostOK'
  BY <1>15, Tables DEF SaveFails
<1>16. ASSUME Redefine(c)
      PROVE  HostOK'
  BY <1>16 DEF Redefine
<1>17. ASSUME DefineFilter(c)
      PROVE  HostOK'
  <2>1. /\ nwf' \in BOOLEAN /\ rules' \in BOOLEAN /\ withdrawn' \in BOOLEAN
        /\ bound' \in BOOLEAN /\ warned' \in BOOLEAN
    BY <1>17, Zenon DEF DefineFilter
  <2> QED BY <1>17, <2>1 DEF DefineFilter
<1>18. ASSUME DefineRules(c)
      PROVE  HostOK'
  BY <1>18 DEF DefineRules
<1>19. ASSUME Boot(c)
      PROVE  HostOK'
  BY <1>19 DEF Boot
<1>20. ASSUME BootFails(c)
      PROVE  HostOK'
  BY <1>20 DEF BootFails
<1>21. ASSUME Apply(c)
      PROVE  HostOK'
  BY <1>21 DEF Apply
<1>22. ASSUME ApplyFails(c)
      PROVE  HostOK'
  BY <1>22 DEF ApplyFails
<1>23. ASSUME FailClosed(c)
      PROVE  HostOK'
  BY <1>23 DEF FailClosed
<1>24. ASSUME SecureLoad(c)
      PROVE  HostOK'
  BY <1>24 DEF SecureLoad
<1>25. ASSUME StopLoad(c)
      PROVE  HostOK'
  BY <1>25 DEF StopLoad
<1>26. ASSUME StopVM(c)
      PROVE  HostOK'
  <2>1. /\ nwf' \in BOOLEAN /\ rules' \in BOOLEAN /\ withdrawn' \in BOOLEAN
        /\ bound' \in BOOLEAN /\ warned' \in BOOLEAN
    BY <1>26, Zenon DEF StopVM
  <2> QED BY <1>26, <2>1 DEF StopVM
<1>27. ASSUME StopWait(c)
      PROVE  HostOK'
  <2>1. /\ nwf' \in BOOLEAN /\ rules' \in BOOLEAN /\ withdrawn' \in BOOLEAN
        /\ bound' \in BOOLEAN /\ warned' \in BOOLEAN
    BY <1>27, Zenon DEF StopWait
  <2> QED BY <1>27, <2>1 DEF StopWait
<1>28. ASSUME FlushRules(c)
      PROVE  HostOK'
  BY <1>28 DEF FlushRules
<1>29. ASSUME UndefineFilter(c)
      PROVE  HostOK'
  BY <1>29 DEF UndefineFilter
<1>30. ASSUME StopDaemon(c)
      PROVE  HostOK'
  BY <1>30, Tables DEF StopDaemon
<1>31. ASSUME RemoveLoad(c)
      PROVE  HostOK'
  BY <1>31 DEF RemoveLoad
<1>32. ASSUME RemoveLock(c)
      PROVE  HostOK'
  BY <1>32 DEF RemoveLock
<1>33. ASSUME RemoveServices(c)
      PROVE  HostOK'
  BY <1>33 DEF RemoveServices
<1>34. ASSUME RemoveVM(c)
      PROVE  HostOK'
  BY <1>34 DEF RemoveVM
<1>35. ASSUME RemoveNetwork(c)
      PROVE  HostOK'
  BY <1>35 DEF RemoveNetwork
<1>36. ASSUME RemoveConfig(c)
      PROVE  HostOK'
  BY <1>36 DEF RemoveConfig
<1>37. ASSUME RemoveFiles(c)
      PROVE  HostOK'
  BY <1>37 DEF RemoveFiles
<1> QED BY <1>1, <1>2, <1>3, <1>4, <1>5, <1>6, <1>7, <1>8, <1>9, <1>10,
           <1>11, <1>12, <1>13, <1>14, <1>15, <1>16, <1>17, <1>18, <1>19,
           <1>20, <1>21, <1>22, <1>23, <1>24, <1>25, <1>26, <1>27, <1>28,
           <1>29, <1>30, <1>31, <1>32, <1>33, <1>34, <1>35, <1>36, <1>37,
           Zenon DEF Step

-----------------------------------------------------------------------------
(* The lock.                                                               *)

\* A step of a command stays on its side of the lock, takes the free lock as
\* it enters a locked section, or drops it as it leaves one.
LockMove(c) ==
  /\ \A d \in Clients \ {c} : pc'[d] = pc[d]
  /\ \/ lock' = lock /\ (pc'[c] \in Locked <=> pc[c] \in Locked)
     \/ lock = Nobody /\ lock' = c /\ pc'[c] \in Locked
     \/ lock' = Nobody /\ pc[c] \in Locked /\ pc'[c] \notin Locked

\* Each of the three keeps the lock where it belongs.
LEMMA LockMoveOK ==
  ASSUME LockDiscipline, NEW c \in Clients, LockMove(c)
  PROVE  LockDiscipline'
<1> SUFFICES ASSUME NEW d \in Clients
             PROVE  lock' = d <=> pc'[d] \in Locked
  BY DEF LockDiscipline, Locked, CreateSteps, RemoveSteps
<1>1. (lock = d <=> pc[d] \in Locked) /\ (lock = c <=> pc[c] \in Locked)
  BY DEF LockDiscipline
<1>2. CASE d = c BY <1>1, <1>2, LockAssumption DEF LockMove
<1>3. CASE d # c BY <1>1, <1>3, LockAssumption DEF LockMove
<1> QED BY <1>2, <1>3

\* Every step of a command is one of the three.
LEMMA StepLock ==
  ASSUME CtlOK, NEW c \in Clients, Step(c)
  PROVE  LockMove(c)
<1> USE DEF LockMove, CtlOK, Locked, Goto, Fail, Halt, Stages, CreateSteps,
            RemoveSteps
<1>1. ASSUME Up(c)
      PROVE  LockMove(c)
  BY <1>1, ReturnTo DEF Up
<1>2. ASSUME Down(c)
      PROVE  LockMove(c)
  BY <1>2 DEF Down
<1>3. ASSUME CreateLock(c)
      PROVE  LockMove(c)
  BY <1>3 DEF CreateLock
<1>4. ASSUME CreateSave(c) \/ CreateNetwork(c) \/ CreateDisk(c)
      PROVE  LockMove(c)
  BY <1>4 DEF CreateSave, CreateNetwork, CreateDisk
<1>5. ASSUME CreateVM(c)
      PROVE  LockMove(c)
  BY <1>5, ReturnTo DEF CreateVM
<1>6. ASSUME CreateSaveFails(c) \/ CreateFails(c)
      PROVE  LockMove(c)
  BY <1>6 DEF CreateSaveFails, CreateFails
<1>7. ASSUME StartLoad(c) \/ EnsureNetwork(c)
      PROVE  LockMove(c)
  BY <1>7 DEF StartLoad, EnsureNetwork
<1>8. ASSUME StartDaemon(c)
      PROVE  LockMove(c)
  BY <1>8 DEF StartDaemon, AfterDaemon
<1>9. ASSUME StartDaemonFails(c) \/ StatusFails(c)
      PROVE  LockMove(c)
  BY <1>9 DEF StartDaemonFails, StatusFails
<1>10. ASSUME SaveFails(c)
      PROVE  LockMove(c)
  BY <1>10 DEF SaveFails, AfterDaemon
<1>11. ASSUME Redefine(c) \/ SecureLoad(c)
      PROVE  LockMove(c)
  BY <1>11 DEF Redefine, SecureLoad
<1>12. ASSUME DefineFilter(c) \/ DefineRules(c)
      PROVE  LockMove(c)
  BY <1>12 DEF DefineFilter, DefineRules
<1>13. ASSUME Boot(c) \/ BootFails(c)
      PROVE  LockMove(c)
  BY <1>13 DEF Boot, BootFails
<1>14. ASSUME Apply(c)
      PROVE  LockMove(c)
  BY <1>14, ReturnTo DEF Apply
<1>15. ASSUME ApplyFails(c) \/ FailClosed(c)
      PROVE  LockMove(c)
  BY <1>15 DEF ApplyFails, FailClosed
<1>16. ASSUME StopLoad(c)
      PROVE  LockMove(c)
  BY <1>16, ReturnTo DEF StopLoad
<1>17. ASSUME StopVM(c)
      PROVE  LockMove(c)
  BY <1>17 DEF StopVM
<1>18. ASSUME StopWait(c)
      PROVE  LockMove(c)
  BY <1>18 DEF StopWait
<1>19. ASSUME FlushRules(c)
      PROVE  LockMove(c)
  BY <1>19 DEF FlushRules, AfterEgress
<1>20. ASSUME UndefineFilter(c)
      PROVE  LockMove(c)
  BY <1>20 DEF UndefineFilter, AfterEgress
<1>21. ASSUME StopDaemon(c)
      PROVE  LockMove(c)
  BY <1>21, ReturnTo DEF StopDaemon, AfterDaemon
<1>22. ASSUME RemoveLoad(c) \/ RemoveLock(c) \/ RemoveServices(c)
      PROVE  LockMove(c)
  BY <1>22 DEF RemoveLoad, RemoveLock, RemoveServices
<1>23. ASSUME RemoveVM(c) \/ RemoveNetwork(c)
      PROVE  LockMove(c)
  BY <1>23 DEF RemoveVM, RemoveNetwork
<1>24. ASSUME RemoveConfig(c)
      PROVE  LockMove(c)
  BY <1>24 DEF RemoveConfig
<1>25. ASSUME RemoveFiles(c)
      PROVE  LockMove(c)
  BY <1>25, ReturnTo DEF RemoveFiles
<1> QED BY <1>1, <1>2, <1>3, <1>4, <1>5, <1>6, <1>7, <1>8, <1>9, <1>10,
           <1>11, <1>12, <1>13, <1>14, <1>15, <1>16, <1>17, <1>18, <1>19,
           <1>20, <1>21, <1>22, <1>23, <1>24, <1>25, Zenon DEF Step

-----------------------------------------------------------------------------
(* Enforcement.                                                            *)

Attending == {"st_apply", "st_fail"}

\* A step that leaves a VM running unbound tells the user, or is the start
\* that will see to it, or has not made things worse and is not that start.
Guarded(c) ==
  vm' = "running" /\ ~bound' =>
    \/ warned' \/ pc'[c] \in Attending
    \/ /\ vm = "running" /\ ~bound /\ (warned => warned')
       /\ pc[c] \notin Attending

\* Such a step leaves no VM unattended.
LEMMA GuardedOK ==
  ASSUME NeverUnattended, NEW c \in Clients, Guarded(c),
         LockMove(c)
  PROVE  NeverUnattended'
<1> SUFFICES ASSUME vm' = "running", ~bound', ~warned'
             PROVE  \E d \in Clients : pc'[d] \in Attending
  BY DEF NeverUnattended, Attending
<1>1. CASE pc'[c] \in Attending BY <1>1
<1>2. CASE vm = "running" /\ ~bound /\ ~warned /\ pc[c] \notin Attending
  <2>1. PICK d \in Clients : pc[d] \in Attending
    BY <1>2 DEF NeverUnattended, Attending
  <2>2. pc'[d] = pc[d] BY <1>2, <2>1 DEF LockMove
  <2> QED BY <2>1, <2>2
<1> QED BY <1>1, <1>2 DEF Guarded


\* Every step of a command is such a step.
LEMMA StepGuarded ==
  ASSUME CtlOK, HostOK, NEW c \in Clients, Step(c)
  PROVE  Guarded(c)
<1> USE DEF Guarded, Attending, CtlOK, HostOK, guest, Halt, Goto
<1>1. ASSUME Up(c) \/ Down(c)
      PROVE  Guarded(c)
  BY <1>1 DEF Up, Down
<1>2. ASSUME CreateLock(c) \/ CreateSave(c) \/ CreateNetwork(c) \/
             CreateDisk(c)
      PROVE  Guarded(c)
  BY <1>2 DEF CreateLock, CreateSave, CreateNetwork, CreateDisk
<1>3. ASSUME CreateVM(c)
      PROVE  Guarded(c)
  BY <1>3 DEF CreateVM
<1>4. ASSUME CreateSaveFails(c) \/ CreateFails(c)
      PROVE  Guarded(c)
  BY <1>4 DEF CreateSaveFails, CreateFails
<1>5. ASSUME StartLoad(c) \/ EnsureNetwork(c) \/ StartDaemon(c)
      PROVE  Guarded(c)
  BY <1>5 DEF StartLoad, EnsureNetwork, StartDaemon
<1>6. ASSUME StartDaemonFails(c) \/ StatusFails(c) \/ SaveFails(c)
      PROVE  Guarded(c)
  BY <1>6 DEF StartDaemonFails, StatusFails, SaveFails
<1>7. ASSUME Redefine(c)
      PROVE  Guarded(c)
  BY <1>7 DEF Redefine
<1>8. ASSUME DefineFilter(c) \/ DefineRules(c) \/ SecureLoad(c)
      PROVE  Guarded(c)
  BY <1>8 DEF DefineFilter, DefineRules, SecureLoad
<1>9. ASSUME Boot(c)
      PROVE  Guarded(c)
  BY <1>9 DEF Boot
<1>10. ASSUME BootFails(c)
      PROVE  Guarded(c)
  BY <1>10 DEF BootFails
<1>11. ASSUME Apply(c)
      PROVE  Guarded(c)
  BY <1>11 DEF Apply
<1>12. ASSUME ApplyFails(c)
      PROVE  Guarded(c)
  BY <1>12 DEF ApplyFails
<1>13. ASSUME FailClosed(c)
      PROVE  Guarded(c)
  BY <1>13 DEF FailClosed
<1>14. ASSUME StopLoad(c)
      PROVE  Guarded(c)
  BY <1>14 DEF StopLoad
<1>15. ASSUME StopVM(c)
      PROVE  Guarded(c)
  BY <1>15 DEF StopVM
<1>16. ASSUME StopWait(c)
      PROVE  Guarded(c)
  BY <1>16 DEF StopWait
<1>17. ASSUME FlushRules(c) \/ UndefineFilter(c) \/ StopDaemon(c)
      PROVE  Guarded(c)
  BY <1>17 DEF FlushRules, UndefineFilter, StopDaemon
<1>18. ASSUME RemoveLoad(c) \/ RemoveLock(c) \/ RemoveServices(c)
      PROVE  Guarded(c)
  BY <1>18 DEF RemoveLoad, RemoveLock, RemoveServices
<1>19. ASSUME RemoveVM(c)
      PROVE  Guarded(c)
  BY <1>19 DEF RemoveVM
<1>20. ASSUME RemoveNetwork(c) \/ RemoveConfig(c) \/ RemoveFiles(c)
      PROVE  Guarded(c)
  BY <1>20 DEF RemoveNetwork, RemoveConfig, RemoveFiles
<1> QED BY <1>1, <1>2, <1>3, <1>4, <1>5, <1>6, <1>7, <1>8, <1>9, <1>10,
           <1>11, <1>12, <1>13, <1>14, <1>15, <1>16, <1>17, <1>18, <1>19,
           <1>20, Zenon DEF Step

-----------------------------------------------------------------------------
(* The theorems.                                                           *)

IInv == TypeOK /\ LockDiscipline

\* A command begins with a step outside the locked sections.
LEMMA BeginOK ==
  ASSUME IInv, NEW c \in Clients, Begin(c)
  PROVE  IInv' /\ (NeverUnattended => NeverUnattended')
<1>1. CtlOK /\ HostOK /\ CountOK /\ LockDiscipline BY Parts DEF IInv
<1>2. PICK k \in Commands :
        /\ cmd' = [cmd EXCEPT ![c] = k]
        /\ pc' = [pc EXCEPT ![c] =
             CASE k = "create" -> "c_lock"
               [] k = "start" -> "st_load"
               [] k \in {"stop", "restart"} -> "sp_load"
               [] k = "remove" -> "rm_load"
               [] k = "up" -> "up"
               [] k \in {"down", "downrm"} -> "down"]
        /\ todo' = [todo EXCEPT ![c] =
             CASE k = "restart" -> <<"st_load">>
               [] k = "downrm" -> <<"rm_load">>
               [] OTHER -> <<>>]
  BY DEF Begin
<1>3. k \in AllCommands BY SwitchAssumption
<1>4. PICK l \in {"c_lock", "st_load", "sp_load", "rm_load", "up", "down"} :
        pc' = [pc EXCEPT ![c] = l]
  BY <1>2, <1>3 DEF AllCommands
<1>5. PICK t \in Seq(Stages) : todo' = [todo EXCEPT ![c] = t]
  <2>1. <<>> \in Seq(Stages) OBVIOUS
  <2>2. <<"st_load">> \in Seq(Stages) /\ <<"rm_load">> \in Seq(Stages)
    BY DEF Stages
  <2> QED BY <1>2, <2>1, <2>2
<1>6. l \in Steps /\ l \notin Locked
  BY <1>4 DEF Steps, Locked, CreateSteps, StartSteps, RecoverSteps,
              SecureSteps, StopSteps, RemoveSteps
<1>7. CtlOK'
  <2>1. res' = res BY DEF Begin
  <2>2. cmd' = [cmd EXCEPT ![c] = k] BY <1>2
  <2> QED BY <1>1, <1>3, <1>4, <1>5, <1>6, <2>1, <2>2 DEF CtlOK
<1>8. HostOK'
  BY <1>1 DEF Begin, HostOK, host, guest, egress, dmns
<1>9. CountOK' BY <1>1, BoundAssumption DEF Begin, CountOK
<1>10. LockMove(c) /\ LockDiscipline'
  <2>1. pc[c] \notin Locked
    BY DEF Begin, Locked, CreateSteps, RemoveSteps
  <2>2. lock' = lock BY DEF Begin
  <2>3. LockMove(c) BY <1>1, <1>4, <1>6, <2>1, <2>2 DEF LockMove, CtlOK
  <2>4. LockDiscipline' BY <1>1, <2>3, LockMoveOK
  <2> QED BY <2>3, <2>4
<1>11. Guarded(c) BY DEF Begin, Guarded, guest, Attending
<1>12. NeverUnattended => NeverUnattended'
  BY <1>1, <1>10, <1>11, GuardedOK
<1> QED BY <1>7, <1>8, <1>9, <1>10, <1>12, Parts DEF IInv

\* A step of a command preserves the invariants.
LEMMA StepOK ==
  ASSUME IInv, NEW c \in Clients, Step(c)
  PROVE  IInv' /\ (NeverUnattended => NeverUnattended')
<1>1. CtlOK /\ HostOK /\ CountOK /\ LockDiscipline BY Parts DEF IInv
<1>2. CtlOK' /\ HostOK' BY <1>1, StepCtl, StepHost
<1>3. CountOK' BY <1>1, StepCounted, CountedOK
<1>4. LockMove(c) BY <1>1, StepLock
<1>5. LockDiscipline' BY <1>1, <1>4, LockMoveOK
<1>7. Guarded(c) BY <1>1, StepGuarded
<1>8. NeverUnattended => NeverUnattended'
  BY <1>1, <1>4, <1>7, GuardedOK
<1> QED BY <1>2, <1>3, <1>5, <1>8, Parts DEF IInv

\* So does the environment, except that a killed start attends to nothing.
LEMMA EnvironmentOK ==
  ASSUME IInv, Environment
  PROVE  IInv' /\ ("crash" \notin Events /\ NeverUnattended => NeverUnattended')
<1>1. CtlOK /\ HostOK /\ CountOK /\ LockDiscipline BY Parts DEF IInv
<1>2. CountOK'
  <2>1. nfault' = nfault /\ ncmd' = ncmd
    BY DEF Environment, DaemonDies, FirewallReload, PowerOff, Crash, Reboot
  <2>2. nevent < MaxEvents /\ nevent' = nevent + 1
    BY DEF Environment, DaemonDies, FirewallReload, PowerOff, Crash, Reboot,
           Event
  <2> QED BY <1>1, <2>1, <2>2, BoundAssumption DEF CountOK
<1>3. ASSUME NEW k \in Kinds, DaemonDies(k)
      PROVE  CtlOK' /\ HostOK' /\ LockDiscipline'
               /\ (NeverUnattended => NeverUnattended')
  <2>1. CtlOK' BY <1>1, <1>3 DEF DaemonDies, CtlOK, ctl
  <2>2. HostOK'
    BY <1>1, <1>3 DEF DaemonDies, HostOK, host, guest, egress, DaemonStates
  <2>3. LockDiscipline' /\ (NeverUnattended => NeverUnattended')
    BY <1>1, <1>3 DEF DaemonDies, LockDiscipline, NeverUnattended, ctl, guest,
                      Locked, CreateSteps, RemoveSteps
  <2> QED BY <2>1, <2>2, <2>3
<1>4. ASSUME FirewallReload \/ PowerOff
      PROVE  CtlOK' /\ HostOK' /\ LockDiscipline'
               /\ (NeverUnattended => NeverUnattended')
  <2>1. CtlOK' BY <1>1, <1>4 DEF FirewallReload, PowerOff, CtlOK, ctl
  <2>2. HostOK'
    BY <1>1, <1>4 DEF FirewallReload, PowerOff, HostOK, host, guest, egress, dmns
  <2>3. LockDiscipline' /\ (NeverUnattended => NeverUnattended')
    BY <1>1, <1>4 DEF FirewallReload, PowerOff, LockDiscipline,
         NeverUnattended, ctl, guest, Locked, CreateSteps, RemoveSteps
  <2> QED BY <2>1, <2>2, <2>3
<1>5. ASSUME Reboot
      PROVE  CtlOK' /\ HostOK' /\ LockDiscipline' /\ NeverUnattended'
  <2>1. CtlOK'
    <3>1. <<>> \in Seq(Stages) OBVIOUS
    <3> QED BY <1>1, <1>5, <3>1 DEF Reboot, CtlOK
  <2>2. dmn' \in [Kinds -> DaemonStates]
    BY <1>1, <1>5 DEF Reboot, HostOK, DaemonStates
  <2>3. vm' \in {"absent", "off"} BY <1>1, <1>5 DEF Reboot, HostOK
  <2>4. net' \in {"absent", "inactive", "active"}
    BY <1>1, <1>5 DEF Reboot, HostOK
  <2>5. HostOK' BY <1>1, <1>5, <2>2, <2>3, <2>4 DEF Reboot, HostOK
  <2>6. LockDiscipline'
    BY <1>5, LockAssumption DEF Reboot, LockDiscipline, Locked, CreateSteps,
                                RemoveSteps
  <2> QED BY <2>1, <2>3, <2>5, <2>6 DEF NeverUnattended
<1>6. ASSUME NEW c \in Clients, Crash(c)
      PROVE  CtlOK' /\ HostOK' /\ LockDiscipline' /\ "crash" \in Events
  <2>1. CtlOK' BY <1>1, <1>6, FailCtl DEF Crash
  <2>2. HostOK' BY <1>1, <1>6 DEF Crash, HostOK, host, guest, egress, dmns
  <2>3. CASE pc[c] \in Locked
    <3>1. "idle" \notin Locked BY DEF Locked, CreateSteps, RemoveSteps
    <3>2. lock' = Nobody BY <1>1, <1>6, <2>3 DEF Crash, LockDiscipline
    <3>3. LockMove(c)
      BY <1>1, <1>6, <2>3, <3>1, <3>2 DEF Crash, Fail, LockMove, CtlOK
    <3> QED BY <1>1, <1>6, <2>1, <2>2, <3>3, LockMoveOK DEF Crash, Event
  <2>4. CASE pc[c] \notin Locked
    <3>1. "idle" \notin Locked BY DEF Locked, CreateSteps, RemoveSteps
    <3>2. lock' = lock BY <1>1, <1>6, <2>4 DEF Crash, LockDiscipline
    <3>3. LockMove(c)
      BY <1>1, <1>6, <2>4, <3>1, <3>2 DEF Crash, Fail, LockMove, CtlOK
    <3> QED BY <1>1, <1>6, <2>1, <2>2, <3>3, LockMoveOK DEF Crash, Event
  <2> QED BY <2>3, <2>4
<1> QED
  BY <1>2, <1>3, <1>4, <1>5, <1>6, Parts, Zenon DEF Environment, IInv

\* A stuttering step changes nothing that the invariants mention.
LEMMA Stutter ==
  ASSUME IInv, UNCHANGED vars
  PROVE  IInv' /\ (NeverUnattended => NeverUnattended')
BY DEF IInv, TypeOK, LockDiscipline, NeverUnattended, Locked, vars, host,
       guest, egress, dmns, ctl, counts, CreateSteps, RemoveSteps, Steps,
       StartSteps, RecoverSteps, SecureSteps, StopSteps, Stages, DaemonStates

\* The type invariant and the lock discipline hold in every reachable state,
\* for any number of CLI processes and whatever fails: create and remove hold
\* the global lock exactly in their locked sections.
THEOREM LockSafe == Spec => []IInv
<1>1. Init => IInv
  <2>1. ASSUME Init PROVE LockDiscipline
    BY <2>1, LockAssumption DEF Init, LockDiscipline, Locked, CreateSteps,
                                RemoveSteps
  <2> QED BY <2>1, InitType DEF IInv
<1>2. IInv /\ [Next]_vars => IInv'
  BY BeginOK, StepOK, EnvironmentOK, Stutter, Zenon DEF Next
<1> QED BY <1>1, <1>2, PTL DEF Spec

\* create and remove hold the lock exactly in their locked sections.
THEOREM LockCorrect == Spec => []LockDiscipline
<1>1. IInv => LockDiscipline BY DEF IInv
<1> QED BY <1>1, LockSafe, PTL

\* No behaviour leaves a value of the wrong type.
THEOREM TypeCorrect == Spec => []TypeOK
<1>1. IInv => TypeOK BY DEF IInv
<1> QED BY <1>1, LockSafe, PTL

\* As long as no CLI process is killed, a VM that runs without its nwfilter
\* is being attended to by the start that booted it, or the user was told:
\* startVMAndApplyFilter and failClosedStopVM fail closed, whatever other
\* commands run, whatever fails and however often the host reboots.
THEOREM FailsClosed ==
  ASSUME "crash" \notin Events
  PROVE  Spec => []NeverUnattended
<1>1. Init => NeverUnattended BY DEF Init, NeverUnattended
<1>2. IInv /\ NeverUnattended /\ [Next]_vars => NeverUnattended'
  BY BeginOK, StepOK, EnvironmentOK, Stutter, Zenon DEF Next
<1> QED BY <1>1, <1>2, LockSafe, PTL DEF Spec
=============================================================================
