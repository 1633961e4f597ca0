-------------------------- MODULE AllowlistProofs --------------------------
(***************************************************************************)
(* The filters follow the file: proofs about Allowlist for every value of   *)
(* its constants.  SyncIInv is the inductive invariant.                     *)
(***************************************************************************)
EXTENDS Allowlist, TLAPS

\* Stripping "*." from a permitted line gives a permitted line
\* (canonicalAllowlistEntry).
LEMMA CanonType == ASSUME NEW e \in Entries PROVE Canon(e) \in Entries
  BY EntriesAssumption

\* Stripping "*." twice is stripping it once.
LEMMA CanonIdempotent == ASSUME NEW e \in Entries PROVE Canon(Canon(e)) = Canon(e)
  BY EntriesAssumption, Zenon DEF Canon

\* Parsing a file of permitted lines gives permitted filter keys
\* (parseAllowlistFile).
LEMMA CanonSetType == ASSUME NEW S \in SUBSET Entries PROVE CanonSet(S) \in SUBSET Entries
  BY CanonType DEF CanonSet

\* A domain with no line in the file, in any spelling, is not among the keys
\* that parsing the file gives (RemoveDomain matches as parseAllowlistFile does).
LEMMA NotListed ==
  ASSUME NEW S \in SUBSET Entries, NEW e \in Entries, ~Listed(S, e)
  PROVE  e \notin CanonSet(S)
  BY CanonIdempotent DEF CanonSet, Listed

\* A set that differs from A at most by lacking x, where x is not in A, is A.
LEMMA Squeeze ==
  ASSUME NEW A, NEW B, NEW x, x \notin A, A \ {x} \subseteq B, B \subseteq A
  PROVE  B = A
  OBVIOUS

\* The initial states have the types of TypeOK.
LEMMA InitType == Init => TypeOK
<1> SUFFICES ASSUME Init PROVE TypeOK
  OBVIOUS
<1>1. CanonSet(file) \in SUBSET Entries
  BY InputAssumption, CanonSetType DEF Init
<1>2. (CHOOSE e \in Entries : TRUE) \in Entries
  BY EntriesAssumption
<1>3. filter \in [Daemons -> SUBSET Entries]
  BY <1>1 DEF Init
<1>4. arg \in [Clients -> Entries]
  BY <1>2 DEF Init
<1> QED
  BY <1>3, <1>4, InputAssumption DEF Init, TypeOK, Causes, PCs, Replies, Daemons

\* Every step preserves the types.
LEMMA TypeStep ==
  TypeOK /\ [Next]_vars => TypeOK'
<1> SUFFICES ASSUME TypeOK, [Next]_vars PROVE TypeOK'
  OBVIOUS
<1> USE CanonSetType, InputAssumption DEF TypeOK, Causes, PCs, Replies, Without, Daemons
<1>1. ASSUME NEW d \in Daemons, Boot(d) PROVE TypeOK'
  BY <1>1 DEF Boot, clientVars
<1>2. ASSUME NEW d \in Daemons, Watch(d) PROVE TypeOK'
  BY <1>2 DEF Watch, clientVars
<1>3. ASSUME NEW d \in Daemons, WatchFails(d) PROVE TypeOK'
  BY <1>3 DEF WatchFails, Fault, clientVars
<1>4. ASSUME NEW d \in Daemons, WatchParse(d) PROVE TypeOK'
  BY <1>4 DEF WatchParse, clientVars
<1>5. ASSUME NEW d \in Daemons, WatchParseFails(d) PROVE TypeOK'
  BY <1>5 DEF WatchParseFails, Fault, clientVars
<1>6. ASSUME NEW d \in Daemons, WatchReplace(d) PROVE TypeOK'
  BY <1>6 DEF WatchReplace, clientVars
<1>7. ASSUME NEW d \in Daemons, Exit(d) PROVE TypeOK'
  BY <1>7 DEF Exit, Unlock, InRPC
<1>8. ASSUME NEW c \in Clients, AddFilter(c) PROVE TypeOK'
  BY <1>8 DEF AddFilter, Goto, Lock
<1>9. ASSUME NEW c \in Clients, AddKnown(c) PROVE TypeOK'
  BY <1>9 DEF AddKnown, Goto, Reply, daemonVars
<1>10. ASSUME NEW c \in Clients, AddSave(c) PROVE TypeOK'
  BY <1>10 DEF AddSave, Goto, Reply, Unlock, Write, Contents
<1>11. ASSUME NEW c \in Clients, AddSaveFails(c) PROVE TypeOK'
  BY <1>11 DEF AddSaveFails, Goto, Reply, Unlock, Fault
<1>12. ASSUME NEW c \in Clients, RemoveFilter(c) PROVE TypeOK'
  BY <1>12 DEF RemoveFilter, Goto, Lock
<1>13. ASSUME NEW c \in Clients, RemoveMissing(c) PROVE TypeOK'
  BY <1>13 DEF RemoveMissing, Goto, Reply, daemonVars
<1>14. ASSUME NEW c \in Clients, RemoveRead(c) PROVE TypeOK'
  BY <1>14 DEF RemoveRead, Goto, Reply, Unlock
<1>15. ASSUME NEW c \in Clients, RemoveWrite(c) PROVE TypeOK'
  BY <1>15 DEF RemoveWrite, Goto, Reply, Unlock, Rename, Contents
<1>16. ASSUME NEW c \in Clients, RemoveFails(c) PROVE TypeOK'
  BY <1>16 DEF RemoveFails, Goto, Reply, Unlock, Fault
<1>17. ASSUME NEW c \in Clients, CallReload(c) PROVE TypeOK'
  BY <1>17 DEF CallReload, Goto, Start, daemonVars, Reply
<1>18. ASSUME NEW c \in Clients, ReloadParse(c) PROVE TypeOK'
  BY <1>18 DEF ReloadParse, Goto, Lock, Serving
<1>19. ASSUME NEW c \in Clients, ReloadReplace(c) PROVE TypeOK'
  BY <1>19 DEF ReloadReplace, Unlock, ReloadNext, Goto, Reply
<1>20. ASSUME NEW c \in Clients, ReloadFails(c) PROVE TypeOK'
  BY <1>20 DEF ReloadFails, Fault, ReloadNext, Serving, daemonVars, Goto, Reply
<1>21. ASSUME NEW c \in Clients, EditOpen(c) PROVE TypeOK'
  BY <1>21 DEF EditOpen, Goto, Start, daemonVars, Reply
<1>22. ASSUME NEW c \in Clients, EditCopy(c) PROVE TypeOK'
  BY <1>22 DEF EditCopy, Goto, Edited, daemonVars
<1>23. ASSUME NEW c \in Clients, EditEqual(c) PROVE TypeOK'
  BY <1>23 DEF EditEqual, Goto, daemonVars
<1>24. ASSUME NEW c \in Clients, EditCheck(c) PROVE TypeOK'
  BY <1>24 DEF EditCheck, Goto, daemonVars
<1>25. ASSUME NEW c \in Clients, EditConflict(c) PROVE TypeOK'
  BY <1>25 DEF EditConflict, Goto, Edited, daemonVars
<1>26. ASSUME NEW c \in Clients, EditSave(c) PROVE TypeOK'
  BY <1>26 DEF EditSave, Goto, Rename, Contents
<1>27. ASSUME NEW c \in Clients, UpResolve(c) PROVE TypeOK'
  BY <1>27 DEF UpResolve, Goto, Start, daemonVars, Reply
<1>28. ASSUME NEW c \in Clients, UpTruncate(c) PROVE TypeOK'
  BY <1>28 DEF UpTruncate, Goto, Write, Contents
<1>29. ASSUME NEW c \in Clients, UpWrite(c) PROVE TypeOK'
  <2>1. CASE seen[c] = ino
    BY <1>29, <2>1 DEF UpWrite, Goto, Write, Contents
  <2>2. CASE seen[c] # ino
    BY <1>29, <2>2 DEF UpWrite, Goto
  <2> QED
    BY <2>1, <2>2
<1>30. ASSUME NEW c \in Clients, UpWriteFails(c) PROVE TypeOK'
  BY <1>30 DEF UpWriteFails, Goto, Fault, daemonVars
<1>31. ASSUME NEW c \in Clients, NEW e \in Entries, CallAdd(c, e) PROVE TypeOK'
  BY <1>31 DEF CallAdd, Goto, Start, Serving, daemonVars, Reply
<1>32. ASSUME NEW c \in Clients, NEW e \in Entries, CallRemove(c, e) PROVE TypeOK'
  BY <1>32 DEF CallRemove, Goto, Start, Serving, daemonVars, Reply
<1>33. CASE UNCHANGED vars
  BY <1>33 DEF vars, daemonVars, clientVars
<1> QED
  BY <1>1, <1>2, <1>3, <1>4, <1>5, <1>6, <1>7, <1>8, <1>9, <1>10, <1>11, <1>12, <1>13,
     <1>14, <1>15, <1>16, <1>17, <1>18, <1>19, <1>20, <1>21, <1>22, <1>23, <1>24, <1>25,
     <1>26, <1>27, <1>28, <1>29, <1>30, <1>31, <1>32, <1>33, Zenon
     DEF Next, DaemonStep, HandlerStep, CommandStep, Failure

\* Every step preserves the discipline of writeMu: the client inside a handler
\* holds the daemon's lock, and a lock is held only from inside a handler.
LEMMA LockStep ==
  TypeOK /\ TypeOK' /\ LockInv /\ [Next]_vars => LockInv'
<1> SUFFICES ASSUME TypeOK /\ TypeOK' /\ LockInv, [Next]_vars PROVE LockInv'
  OBVIOUS
<1> USE ProcessAssumption DEF TypeOK, LockInv, Handling, Daemons, Serving
<1>1. ASSUME NEW d \in Daemons, Boot(d) PROVE LockInv'
  BY <1>1 DEF Boot, clientVars
<1>2. ASSUME NEW d \in Daemons, Watch(d) PROVE LockInv'
  BY <1>2 DEF Watch, clientVars
<1>3. ASSUME NEW d \in Daemons, WatchFails(d) PROVE LockInv'
  BY <1>3 DEF WatchFails, Fault, clientVars
<1>4. ASSUME NEW d \in Daemons, WatchParse(d) PROVE LockInv'
  BY <1>4 DEF WatchParse, clientVars
<1>5. ASSUME NEW d \in Daemons, WatchParseFails(d) PROVE LockInv'
  BY <1>5 DEF WatchParseFails, Fault, clientVars
<1>6. ASSUME NEW d \in Daemons, WatchReplace(d) PROVE LockInv'
  BY <1>6 DEF WatchReplace, clientVars
<1>7. ASSUME NEW d \in Daemons, Exit(d) PROVE LockInv'
  BY <1>7 DEF Exit, Unlock, InRPC
<1>8. ASSUME NEW c \in Clients, AddFilter(c) PROVE LockInv'
  BY <1>8 DEF AddFilter, Goto, Lock
<1>9. ASSUME NEW c \in Clients, AddKnown(c) PROVE LockInv'
  BY <1>9 DEF AddKnown, Goto, Reply, daemonVars
<1>10. ASSUME NEW c \in Clients, AddSave(c) PROVE LockInv'
  BY <1>10 DEF AddSave, Goto, Reply, Unlock, Write, Contents
<1>11. ASSUME NEW c \in Clients, AddSaveFails(c) PROVE LockInv'
  BY <1>11 DEF AddSaveFails, Goto, Reply, Unlock, Fault
<1>12. ASSUME NEW c \in Clients, RemoveFilter(c) PROVE LockInv'
  BY <1>12 DEF RemoveFilter, Goto, Lock
<1>13. ASSUME NEW c \in Clients, RemoveMissing(c) PROVE LockInv'
  BY <1>13 DEF RemoveMissing, Goto, Reply, daemonVars
<1>14. ASSUME NEW c \in Clients, RemoveRead(c) PROVE LockInv'
  BY <1>14 DEF RemoveRead, Goto, Reply, Unlock
<1>15. ASSUME NEW c \in Clients, RemoveWrite(c) PROVE LockInv'
  BY <1>15 DEF RemoveWrite, Goto, Reply, Unlock, Rename, Contents
<1>16. ASSUME NEW c \in Clients, RemoveFails(c) PROVE LockInv'
  BY <1>16 DEF RemoveFails, Goto, Reply, Unlock, Fault
<1>17. ASSUME NEW c \in Clients, CallReload(c) PROVE LockInv'
  BY <1>17 DEF CallReload, Goto, Start, daemonVars, Reply
<1>18. ASSUME NEW c \in Clients, ReloadParse(c) PROVE LockInv'
  BY <1>18 DEF ReloadParse, Goto, Lock, Serving
<1>19. ASSUME NEW c \in Clients, ReloadReplace(c) PROVE LockInv'
  BY <1>19 DEF ReloadReplace, Unlock, ReloadNext, Goto, Reply
<1>20. ASSUME NEW c \in Clients, ReloadFails(c) PROVE LockInv'
  BY <1>20 DEF ReloadFails, Fault, ReloadNext, Serving, daemonVars, Goto, Reply
<1>21. ASSUME NEW c \in Clients, EditOpen(c) PROVE LockInv'
  BY <1>21 DEF EditOpen, Goto, Start, daemonVars, Reply
<1>22. ASSUME NEW c \in Clients, EditCopy(c) PROVE LockInv'
  BY <1>22 DEF EditCopy, Goto, Edited, daemonVars
<1>23. ASSUME NEW c \in Clients, EditEqual(c) PROVE LockInv'
  BY <1>23 DEF EditEqual, Goto, daemonVars
<1>24. ASSUME NEW c \in Clients, EditCheck(c) PROVE LockInv'
  BY <1>24 DEF EditCheck, Goto, daemonVars
<1>25. ASSUME NEW c \in Clients, EditConflict(c) PROVE LockInv'
  BY <1>25 DEF EditConflict, Goto, Edited, daemonVars
<1>26. ASSUME NEW c \in Clients, EditSave(c) PROVE LockInv'
  BY <1>26 DEF EditSave, Goto, Rename, Contents
<1>27. ASSUME NEW c \in Clients, UpResolve(c) PROVE LockInv'
  BY <1>27 DEF UpResolve, Goto, Start, daemonVars, Reply
<1>28. ASSUME NEW c \in Clients, UpTruncate(c) PROVE LockInv'
  BY <1>28 DEF UpTruncate, Goto, Write, Contents
<1>29. ASSUME NEW c \in Clients, UpWrite(c) PROVE LockInv'
  BY <1>29 DEF UpWrite, Goto, Write, Contents
<1>30. ASSUME NEW c \in Clients, UpWriteFails(c) PROVE LockInv'
  BY <1>30 DEF UpWriteFails, Goto, Fault, daemonVars
<1>31. ASSUME NEW c \in Clients, NEW e \in Entries, CallAdd(c, e) PROVE LockInv'
  BY <1>31 DEF CallAdd, Goto, Start, Serving, daemonVars, Reply
<1>32. ASSUME NEW c \in Clients, NEW e \in Entries, CallRemove(c, e) PROVE LockInv'
  BY <1>32 DEF CallRemove, Goto, Start, Serving, daemonVars, Reply
<1>33. CASE UNCHANGED vars
  BY <1>33 DEF vars, daemonVars, clientVars
<1> QED
  BY <1>1, <1>2, <1>3, <1>4, <1>5, <1>6, <1>7, <1>8, <1>9, <1>10, <1>11, <1>12, <1>13,
     <1>14, <1>15, <1>16, <1>17, <1>18, <1>19, <1>20, <1>21, <1>22, <1>23, <1>24, <1>25,
     <1>26, <1>27, <1>28, <1>29, <1>30, <1>31, <1>32, <1>33, Zenon
     DEF Next, DaemonStep, HandlerStep, CommandStep, Failure

\* A step that leaves the file, one daemon and the handler inside it alone
\* preserves SyncAt for that daemon.
LEMMA SyncFrame ==
  ASSUME NEW d \in Daemons, SyncAt(d), file' = file,
         phase'[d] = phase[d], filter'[d] = filter[d], pending'[d] = pending[d],
         wpc'[d] = wpc[d], snap'[d] = snap[d], drift'[d] = drift[d], mu'[d] = mu[d],
         mu[d] # Nobody => pc'[mu[d]] = pc[mu[d]] /\ arg'[mu[d]] = arg[mu[d]]
  PROVE  SyncAt(d)'
<1>1. InStep(d)' = InStep(d)
  BY DEF InStep, CanonSet
<1> QED
  BY <1>1 DEF SyncAt, CanonSet

\* SyncAt asks nothing of a daemon with an event waiting, or not watching.
LEMMA SyncVacuous ==
  ASSUME NEW d \in Daemons, pending'[d] \/ phase'[d] # "watching"
  PROVE  SyncAt(d)'
  BY DEF SyncAt

\* A change of the file raises an event at every watching daemon.
LEMMA SyncContents ==
  ASSUME NEW S, Contents(S), UNCHANGED phase
  PROVE  SyncInv'
<1>1. ASSUME NEW d \in Daemons PROVE pending'[d] \/ phase'[d] # "watching"
  BY Zenon DEF Contents
<1> QED
  BY <1>1, SyncVacuous DEF SyncInv

\* A step of a client outside every handler that touches neither the file nor a
\* daemon preserves SyncInv.
LEMMA SyncClient ==
  ASSUME TypeOK, LockInv, SyncInv, NEW c \in Clients, pc[c] \notin Handling,
         file' = file, UNCHANGED daemonVars,
         \A k \in Clients \ {c} : pc'[k] = pc[k] /\ arg'[k] = arg[k]
  PROVE  SyncInv'
<1> SUFFICES ASSUME NEW d \in Daemons PROVE SyncAt(d)'
  BY DEF SyncInv
<1>1. mu[d] # Nobody => mu[d] \in Clients \ {c}
  BY DEF TypeOK, LockInv
<1>2. SyncAt(d)
  BY DEF SyncInv
<1> QED
  BY <1>1, <1>2, SyncFrame DEF daemonVars

\* A step at daemon d: the file, the other daemon and the clients that are not
\* calling d are left alone.
Elsewhere(d) ==
  /\ file' = file
  /\ \A o \in Daemons \ {d} :
       /\ phase'[o] = phase[o] /\ filter'[o] = filter[o] /\ pending'[o] = pending[o]
       /\ wpc'[o] = wpc[o] /\ snap'[o] = snap[o] /\ drift'[o] = drift[o] /\ mu'[o] = mu[o]
  /\ \A k \in Clients : at[k] # d => pc'[k] = pc[k] /\ arg'[k] = arg[k]

\* The steps of a daemon process are steps at that daemon.
LEMMA DaemonElsewhere ==
  ASSUME TypeOK, NEW d \in Daemons,
         \/ Boot(d) \/ Watch(d) \/ WatchFails(d) \/ WatchParse(d) \/ WatchParseFails(d)
         \/ WatchReplace(d) \/ Exit(d)
  PROVE  Elsewhere(d)
<1>1. CASE Boot(d) \/ Watch(d) \/ WatchFails(d)
  BY <1>1 DEF TypeOK, Elsewhere, Boot, Watch, WatchFails, clientVars
<1>2. CASE WatchParse(d) \/ WatchParseFails(d) \/ WatchReplace(d)
  BY <1>2 DEF TypeOK, Elsewhere, WatchParse, WatchParseFails, WatchReplace, clientVars
<1>3. CASE Exit(d)
  BY <1>3 DEF TypeOK, Elsewhere, Exit, Unlock, InRPC
<1> QED
  BY <1>1, <1>2, <1>3

\* The steps inside an RPC handler are steps at the daemon that serves it.
LEMMA HandlerElsewhere ==
  ASSUME TypeOK, LockInv, NEW c \in Clients,
         \/ AddFilter(c) \/ AddSaveFails(c) \/ RemoveFilter(c) \/ RemoveRead(c) \/ RemoveFails(c)
         \/ ReloadParse(c) \/ ReloadReplace(c)
  PROVE  Elsewhere(at[c])
<1>1. CASE AddFilter(c) \/ AddSaveFails(c)
  BY <1>1 DEF TypeOK, LockInv, Elsewhere, AddFilter, AddSaveFails, Goto, Lock, Unlock
<1>2. CASE RemoveFilter(c) \/ RemoveRead(c) \/ RemoveFails(c)
  BY <1>2 DEF TypeOK, LockInv, Elsewhere, RemoveFilter, RemoveRead, RemoveFails, Goto, Lock, Unlock
<1>3. CASE ReloadParse(c) \/ ReloadReplace(c)
  BY <1>3 DEF TypeOK, Elsewhere, ReloadParse, ReloadReplace, ReloadNext, Goto, Lock, Unlock
<1> QED
  BY <1>1, <1>2, <1>3

\* A step at one daemon preserves SyncInv when it preserves SyncAt there.
LEMMA SyncAtOne ==
  ASSUME TypeOK, LockInv, SyncInv, NEW d \in Daemons, SyncAt(d)', Elsewhere(d)
  PROVE  SyncInv'
<1> SUFFICES ASSUME NEW o \in Daemons \ {d} PROVE SyncAt(o)'
  BY DEF SyncInv
<1>1. mu[o] # Nobody => mu[o] \in Clients /\ at[mu[o]] # d
  BY DEF TypeOK, LockInv
<1>2. SyncAt(o)
  BY DEF SyncInv
<1> QED
  BY <1>1, <1>2, SyncFrame, Zenon DEF Elsewhere

\* Every step preserves SyncInv: with no event waiting, what the watcher holds
\* is the current file, and an idle watcher's filter differs from the file at most
\* by the entry of the add or remove that is under way.
LEMMA SyncStep ==
  TypeOK /\ LockInv /\ SyncInv /\ [Next]_vars => SyncInv'
<1> SUFFICES ASSUME TypeOK, LockInv, SyncInv, [Next]_vars PROVE SyncInv'
  OBVIOUS
<1>1. ASSUME NEW d \in Daemons, Boot(d) PROVE SyncInv'
  <2>1. SyncAt(d)'
    BY <1>1, SyncVacuous DEF Boot, TypeOK
  <2> QED
    BY <1>1, <2>1, SyncAtOne, DaemonElsewhere
<1>2. ASSUME NEW d \in Daemons, Watch(d) PROVE SyncInv'
  <2>1. SyncAt(d)'
    <3>1. wpc[d] # "parsed" /\ mu[d] = Nobody /\ mu' = mu
      BY <1>2 DEF Watch, LockInv, Serving
    <3>2. phase'[d] = "watching" /\ wpc' = wpc /\ filter' = filter /\ file' = file
      BY <1>2 DEF Watch, TypeOK
    <3>3. drift'[d] = "none" => filter[d] = CanonSet(file)
      BY <1>2 DEF Watch, TypeOK
    <3> QED
      BY <3>1, <3>2, <3>3 DEF SyncAt, InStep, CanonSet
  <2> QED
    BY <1>2, <2>1, SyncAtOne, DaemonElsewhere
<1>3. ASSUME NEW d \in Daemons, WatchFails(d) PROVE SyncInv'
  <2>1. SyncAt(d)'
    BY <1>3, SyncVacuous DEF WatchFails, TypeOK
  <2> QED
    BY <1>3, <2>1, SyncAtOne, DaemonElsewhere
<1>4. ASSUME NEW d \in Daemons, WatchParse(d) PROVE SyncInv'
  <2>1. SyncAt(d)'
    <3>1. wpc'[d] = "parsed" /\ snap'[d] = CanonSet(file) /\ file' = file
      BY <1>4 DEF WatchParse, TypeOK
    <3> QED
      BY <3>1 DEF SyncAt, CanonSet
  <2> QED
    BY <1>4, <2>1, SyncAtOne, DaemonElsewhere
<1>5. ASSUME NEW d \in Daemons, WatchParseFails(d) PROVE SyncInv'
  <2>1. SyncAt(d)'
    <3>1. wpc'[d] = "idle" /\ drift'[d] = "io"
      BY <1>5 DEF WatchParseFails, TypeOK
    <3> QED
      BY <3>1 DEF SyncAt
  <2> QED
    BY <1>5, <2>1, SyncAtOne, DaemonElsewhere
<1>6. ASSUME NEW d \in Daemons, WatchReplace(d) PROVE SyncInv'
  <2>1. SyncAt(d)'
    <3>1. SyncAt(d)
      BY DEF SyncInv
    <3>2. UNCHANGED <<file, phase, pending, mu, pc, arg>> /\ wpc[d] = "parsed"
      BY <1>6 DEF WatchReplace, clientVars
    <3>3. wpc'[d] = "idle" /\ filter'[d] = snap[d]
      BY <1>6 DEF WatchReplace, TypeOK
    <3>4. phase[d] = "watching" /\ ~pending[d] => filter'[d] = CanonSet(file)
      BY <3>1, <3>2, <3>3 DEF SyncAt
    <3>5. filter'[d] = CanonSet(file) => InStep(d)'
      BY <3>2 DEF InStep, CanonSet
    <3> QED
      BY <3>2, <3>3, <3>4, <3>5 DEF SyncAt
  <2> QED
    BY <1>6, <2>1, SyncAtOne, DaemonElsewhere
<1>7. ASSUME NEW d \in Daemons, Exit(d) PROVE SyncInv'
  <2>1. SyncAt(d)'
    BY <1>7, SyncVacuous DEF Exit, TypeOK
  <2> QED
    BY <1>7, <2>1, SyncAtOne, DaemonElsewhere
<1>8. ASSUME NEW c \in Clients, NEW e \in Entries, CallAdd(c, e) PROVE SyncInv'
  BY <1>8, SyncClient DEF CallAdd, Start, Goto, TypeOK, Handling
<1>9. ASSUME NEW c \in Clients, NEW e \in Entries, CallRemove(c, e) PROVE SyncInv'
  BY <1>9, SyncClient DEF CallRemove, Start, Goto, TypeOK, Handling
<1>10. ASSUME NEW c \in Clients, AddKnown(c) PROVE SyncInv'
  BY <1>10, SyncClient DEF AddKnown, Goto, TypeOK, Handling
<1>11. ASSUME NEW c \in Clients, RemoveMissing(c) PROVE SyncInv'
  BY <1>11, SyncClient DEF RemoveMissing, Goto, TypeOK, Handling
<1>12. ASSUME NEW c \in Clients, CallReload(c) PROVE SyncInv'
  BY <1>12, SyncClient DEF CallReload, Start, Goto, TypeOK, Handling
<1>13. ASSUME NEW c \in Clients, EditOpen(c) PROVE SyncInv'
  BY <1>13, SyncClient DEF EditOpen, Start, Goto, TypeOK, Handling
<1>14. ASSUME NEW c \in Clients, EditCopy(c) PROVE SyncInv'
  BY <1>14, SyncClient DEF EditCopy, Goto, TypeOK, Handling
<1>15. ASSUME NEW c \in Clients, EditEqual(c) PROVE SyncInv'
  BY <1>15, SyncClient DEF EditEqual, Goto, TypeOK, Handling
<1>16. ASSUME NEW c \in Clients, EditCheck(c) PROVE SyncInv'
  BY <1>16, SyncClient DEF EditCheck, Goto, TypeOK, Handling
<1>17. ASSUME NEW c \in Clients, EditConflict(c) PROVE SyncInv'
  BY <1>17, SyncClient DEF EditConflict, Goto, TypeOK, Handling
<1>18. ASSUME NEW c \in Clients, UpResolve(c) PROVE SyncInv'
  BY <1>18, SyncClient DEF UpResolve, Start, Goto, TypeOK, Handling
<1>19. ASSUME NEW c \in Clients, UpWriteFails(c) PROVE SyncInv'
  BY <1>19, SyncClient DEF UpWriteFails, Goto, TypeOK, Handling
<1>20. ASSUME NEW c \in Clients, ReloadFails(c) PROVE SyncInv'
  BY <1>20, SyncClient DEF ReloadFails, ReloadNext, Goto, TypeOK, Handling
<1>21. ASSUME NEW c \in Clients, AddSave(c) PROVE SyncInv'
  BY <1>21, SyncContents, Zenon DEF AddSave, Write
<1>22. ASSUME NEW c \in Clients, RemoveWrite(c) PROVE SyncInv'
  BY <1>22, SyncContents DEF RemoveWrite, Rename
<1>23. ASSUME NEW c \in Clients, EditSave(c) PROVE SyncInv'
  BY <1>23, SyncContents DEF EditSave, Rename
<1>24. ASSUME NEW c \in Clients, UpTruncate(c) PROVE SyncInv'
  BY <1>24, SyncContents DEF UpTruncate, Write
<1>25. ASSUME NEW c \in Clients, UpWrite(c) PROVE SyncInv'
  <2>1. CASE seen[c] = ino
    BY <1>25, <2>1, SyncContents DEF UpWrite, Write
  <2>2. CASE seen[c] # ino
    BY <1>25, <2>2, SyncClient DEF UpWrite, Goto, TypeOK, Handling, daemonVars
  <2> QED
    BY <2>1, <2>2
<1>26. ASSUME NEW c \in Clients, AddFilter(c) PROVE SyncInv'
  <2>1. SyncAt(DNS)'
    <3>1. mu[DNS] = Nobody /\ mu'[DNS] = c /\ c # Nobody
      BY <1>26, ProcessAssumption DEF AddFilter, Lock, TypeOK, Daemons
    <3>2. UNCHANGED <<file, phase, pending, wpc, snap, drift, arg>>
      BY <1>26, Zenon DEF AddFilter
    <3>3. pc'[c] = "addSave" /\ filter'[DNS] = filter[DNS] \cup {arg[c]}
      BY <1>26 DEF AddFilter, Goto, TypeOK, Daemons
    <3>4. SyncAt(DNS)
      BY DEF SyncInv, Daemons
    <3>5. InStep(DNS) => InStep(DNS)'
      BY <3>1, <3>2, <3>3 DEF InStep, CanonSet
    <3> QED
      BY <3>2, <3>4, <3>5 DEF SyncAt, CanonSet
  <2>2. at[c] = DNS /\ DNS \in Daemons
    BY <1>26 DEF LockInv, Daemons, AddFilter
  <2> QED
    BY <1>26, <2>1, <2>2, SyncAtOne, HandlerElsewhere
<1>27. ASSUME NEW c \in Clients, RemoveFilter(c) PROVE SyncInv'
  <2>1. SyncAt(DNS)'
    <3>1. mu[DNS] = Nobody /\ mu'[DNS] = c /\ c # Nobody
      BY <1>27, ProcessAssumption DEF RemoveFilter, Lock, TypeOK, Daemons
    <3>2. UNCHANGED <<file, phase, pending, wpc, snap, drift, arg>>
      BY <1>27, Zenon DEF RemoveFilter
    <3>3. pc'[c] = "rmRead" /\ filter'[DNS] = filter[DNS] \ {arg[c]}
      BY <1>27 DEF RemoveFilter, Goto, TypeOK, Daemons
    <3>4. SyncAt(DNS)
      BY DEF SyncInv, Daemons
    <3>5. InStep(DNS) => InStep(DNS)'
      BY <3>1, <3>2, <3>3 DEF InStep, CanonSet
    <3> QED
      BY <3>2, <3>4, <3>5 DEF SyncAt, CanonSet
  <2>2. at[c] = DNS /\ DNS \in Daemons
    BY <1>27 DEF LockInv, Daemons, RemoveFilter
  <2> QED
    BY <1>27, <2>1, <2>2, SyncAtOne, HandlerElsewhere
<1>28. ASSUME NEW c \in Clients, AddSaveFails(c) PROVE SyncInv'
  <2>1. SyncAt(DNS)'
    <3>1. UNCHANGED <<file, phase, pending, wpc, snap>> /\ drift'[DNS] = "io"
      BY <1>28 DEF AddSaveFails, TypeOK, Daemons
    <3>2. SyncAt(DNS)
      BY DEF SyncInv, Daemons
    <3> QED
      BY <3>1, <3>2 DEF SyncAt, CanonSet
  <2>2. at[c] = DNS /\ DNS \in Daemons
    BY <1>28, Zenon DEF LockInv, Daemons, AddSaveFails
  <2> QED
    BY <1>28, <2>1, <2>2, SyncAtOne, HandlerElsewhere
<1>29. ASSUME NEW c \in Clients, RemoveFails(c) PROVE SyncInv'
  <2>1. SyncAt(DNS)'
    <3>1. UNCHANGED <<file, phase, pending, wpc, snap>> /\ drift'[DNS] = "io"
      BY <1>29 DEF RemoveFails, TypeOK, Daemons
    <3>2. SyncAt(DNS)
      BY DEF SyncInv, Daemons
    <3> QED
      BY <3>1, <3>2 DEF SyncAt, CanonSet
  <2>2. at[c] = DNS /\ DNS \in Daemons
    BY <1>29, Zenon DEF LockInv, Daemons, RemoveFails
  <2> QED
    BY <1>29, <2>1, <2>2, SyncAtOne, HandlerElsewhere
<1>30. ASSUME NEW c \in Clients, RemoveRead(c) PROVE SyncInv'
  <2>1. SyncAt(DNS)'
    <3>1. UNCHANGED <<file, phase, filter, pending, wpc, snap, drift, arg>> /\ pc[c] = "rmRead"
      BY <1>30 DEF RemoveRead
    <3>2. mu[DNS] = c /\ c # Nobody /\ DNS \in Daemons
      BY <3>1, ProcessAssumption DEF LockInv, Handling, Daemons
    <3>3. CASE Listed(file, arg[c])
      <4>1. mu' = mu /\ pc'[c] = "rmWrite"
        BY <1>30, <3>3 DEF RemoveRead, Goto, TypeOK
      <4>2. InStep(DNS)' = InStep(DNS)
        BY <3>1, <3>2, <4>1, Zenon DEF InStep, CanonSet
      <4> QED
        BY <3>1, <3>2, <4>2 DEF SyncInv, SyncAt, CanonSet
    <3>4. CASE ~Listed(file, arg[c])
      <4>1. mu'[DNS] = Nobody
        BY <1>30, <3>2, <3>4 DEF RemoveRead, Unlock, TypeOK
      <4>2. arg[c] \notin CanonSet(file)
        BY <3>4, NotListed DEF TypeOK
      <4>3. InStep(DNS) => /\ CanonSet(file) \ {arg[c]} \subseteq filter[DNS]
                           /\ filter[DNS] \subseteq CanonSet(file)
        BY <3>1, <3>2 DEF InStep
      <4>4. InStep(DNS) => filter[DNS] = CanonSet(file)
        BY <4>2, <4>3, Squeeze
      <4>5. filter[DNS] = CanonSet(file) => InStep(DNS)'
        BY <3>1, <4>1 DEF InStep, CanonSet
      <4> QED
        BY <3>1, <3>2, <4>4, <4>5, Zenon DEF SyncInv, SyncAt, CanonSet
    <3> QED
      BY <3>3, <3>4
  <2>2. at[c] = DNS /\ DNS \in Daemons
    BY <1>30, Zenon DEF LockInv, Daemons, RemoveRead
  <2> QED
    BY <1>30, <2>1, <2>2, SyncAtOne, HandlerElsewhere
<1>31. ASSUME NEW c \in Clients, ReloadParse(c) PROVE SyncInv'
  <2>0. PICK d \in Daemons : d = at[c]
    BY DEF TypeOK
  <2>1. SyncAt(d)'
    <3>1. mu[d] = Nobody /\ mu'[d] = c
      BY <1>31, <2>0 DEF ReloadParse, Lock, TypeOK
    <3>2. UNCHANGED <<file, phase, filter, pending, wpc, snap, drift>> /\ pc'[c] = "rlReplace"
      BY <1>31 DEF ReloadParse, Goto, TypeOK
    <3>3. InStep(d) => InStep(d)'
      BY <3>1, <3>2, Zenon DEF InStep, CanonSet
    <3> QED
      BY <2>0, <3>2, <3>3 DEF SyncInv, SyncAt, CanonSet
  <2> QED
    BY <1>31, <2>0, <2>1, SyncAtOne, HandlerElsewhere
<1>32. ASSUME NEW c \in Clients, ReloadReplace(c) PROVE SyncInv'
  <2>0. PICK d \in Daemons : d = at[c]
    BY DEF TypeOK
  <2>1. SyncAt(d)'
    <3>1. mu[d] = c /\ mu'[d] = Nobody
      BY <1>32, <2>0 DEF ReloadReplace, Unlock, LockInv, Handling, TypeOK
    <3>2. UNCHANGED <<file, phase, pending, wpc, snap>> /\ filter'[d] = buf[c]
      BY <1>32, <2>0 DEF ReloadReplace, TypeOK
    <3>3. drift'[d] = "none" => filter'[d] = CanonSet(file)
      BY <1>32, <2>0, <3>2 DEF ReloadReplace, TypeOK
    <3>4. filter'[d] = CanonSet(file) => InStep(d)'
      BY <3>1, <3>2 DEF InStep, CanonSet
    <3> QED
      BY <2>0, <3>2, <3>3, <3>4 DEF SyncInv, SyncAt, CanonSet
  <2> QED
    BY <1>32, <2>0, <2>1, SyncAtOne, HandlerElsewhere
<1>33. CASE UNCHANGED vars
  <2> SUFFICES ASSUME NEW d \in Daemons PROVE SyncAt(d)'
    BY DEF SyncInv
  <2> QED
    BY <1>33, SyncFrame DEF SyncInv, vars, daemonVars, clientVars
<1> QED
  BY <1>1, <1>2, <1>3, <1>4, <1>5, <1>6, <1>7, <1>8, <1>9, <1>10, <1>11, <1>12, <1>13,
     <1>14, <1>15, <1>16, <1>17, <1>18, <1>19, <1>20, <1>21, <1>22, <1>23, <1>24, <1>25,
     <1>26, <1>27, <1>28, <1>29, <1>30, <1>31, <1>32, <1>33
     DEF Next, DaemonStep, HandlerStep, CommandStep, Failure

\* The inductive invariant holds initially.
LEMMA SyncInit == Init => SyncIInv
<1> SUFFICES ASSUME Init PROVE SyncIInv
  OBVIOUS
<1>1. TypeOK
  BY InitType
<1>2. LockInv
  BY ProcessAssumption DEF Init, LockInv, Handling
<1>3. SyncInv
  BY DEF Init, SyncInv, SyncAt, InStep
<1> QED
  BY <1>1, <1>2, <1>3 DEF SyncIInv

\* The inductive invariant holds throughout: the types, the discipline of writeMu,
\* and the relation of file, watcher and filter.
THEOREM Invariance == Spec => []SyncIInv
<1>1. Init => SyncIInv
  BY SyncInit
<1>2. SyncIInv /\ [Next]_vars => SyncIInv'
  BY TypeStep, LockStep, SyncStep DEF SyncIInv
<1> QED
  BY <1>1, <1>2, PTL DEF Spec

\* Type correctness, for any number of clients, domains, commands and faults.
THEOREM TypeCorrect == Spec => []TypeOK
<1>1. SyncIInv => TypeOK
  BY DEF SyncIInv
<1> QED
  BY <1>1, Invariance, PTL

\* The watcher keeps every daemon in step: a watching daemon with nothing left
\* to do filters by the file's lines, unless one of the recorded causes (a change
\* between Load and Watch, a reported I/O error, a reload RPC that applied lines
\* parsed before a change) occurred.
THEOREM DriftSafe == Spec => []NoSilentDrift
<1>1. SyncIInv => NoSilentDrift
  BY DEF SyncIInv, SyncInv, SyncAt, InStep, NoSilentDrift, Settled
<1> QED
  BY <1>1, Invariance, PTL

-----------------------------------------------------------------------------
(* What the commands do to the file.  FileIInv is the inductive invariant behind
   RemovePersists and EditCheckSound; SyncIInv and StoreInv are the ones behind
   the refinement of AllowlistStore. *)

\* Only RemoveDomain's read leads to its rewrite: every other step leaves alone
\* what a client about to rewrite the file holds.
LEMMA RewriteStep ==
  TypeOK /\ RewriteInv /\ [Next]_vars => RewriteInv'
<1> SUFFICES ASSUME TypeOK, RewriteInv, [Next]_vars PROVE RewriteInv'
  OBVIOUS
<1> DEFINE Kept == \A k \in Clients : pc'[k] = "rmWrite" =>
                     pc[k] = "rmWrite" /\ buf'[k] = buf[k] /\ arg'[k] = arg[k]
<1>1. ASSUME NEW d \in Daemons,
             \/ Boot(d) \/ Watch(d) \/ WatchFails(d) \/ WatchParse(d) \/ WatchParseFails(d)
             \/ WatchReplace(d)
      PROVE  Kept
  BY <1>1 DEF Boot, Watch, WatchFails, WatchParse, WatchParseFails, WatchReplace, clientVars
<1>2. ASSUME NEW d \in Daemons, Exit(d) PROVE Kept
  BY <1>2, Zenon DEF Exit
<1>3. ASSUME NEW c \in Clients,
             \/ AddFilter(c) \/ AddKnown(c) \/ AddSave(c) \/ AddSaveFails(c)
             \/ RemoveFilter(c) \/ RemoveMissing(c) \/ RemoveWrite(c) \/ RemoveFails(c)
      PROVE  Kept
  BY <1>3, Zenon DEF TypeOK, AddFilter, AddKnown, AddSave, AddSaveFails, RemoveFilter, RemoveMissing,
              RemoveWrite, RemoveFails, Goto
<1>4. ASSUME NEW c \in Clients, ReloadParse(c) \/ ReloadReplace(c) \/ ReloadFails(c)
      PROVE  Kept
  BY <1>4 DEF TypeOK, ReloadParse, ReloadReplace, ReloadFails, ReloadNext, Goto
<1>5. ASSUME NEW c \in Clients,
             \/ CallReload(c) \/ EditOpen(c) \/ UpResolve(c)
             \/ \E e \in Entries : CallAdd(c, e) \/ CallRemove(c, e)
      PROVE  Kept
  BY <1>5 DEF TypeOK, CallReload, EditOpen, UpResolve, CallAdd, CallRemove, Goto
<1>6. ASSUME NEW c \in Clients,
             \/ EditCopy(c) \/ EditEqual(c) \/ EditCheck(c) \/ EditConflict(c) \/ EditSave(c)
             \/ UpTruncate(c) \/ UpWrite(c) \/ UpWriteFails(c)
      PROVE  Kept
  BY <1>6, Zenon DEF TypeOK, EditCopy, EditEqual, EditCheck, EditConflict, EditSave, UpTruncate,
              UpWrite, UpWriteFails, Goto
<1>7. ASSUME NEW c \in Clients, RemoveRead(c) PROVE RewriteInv'
  BY <1>7 DEF TypeOK, RewriteInv, RemoveRead, Goto, Listed, Without
<1>8. ASSUME UNCHANGED vars PROVE Kept
  BY <1>8, Zenon DEF vars, clientVars
<1>9. Kept => RewriteInv'
  BY DEF RewriteInv, Listed
<1> HIDE DEF Kept
<1> QED
  BY <1>1, <1>2, <1>3, <1>4, <1>5, <1>6, <1>7, <1>8, <1>9
     DEF Next, DaemonStep, HandlerStep, CommandStep, Failure

\* The modification time only grows, it grows with every change of the file, and
\* edit records it before it copies: a recorded time that is still current means
\* that the copy is.
LEMMA EditStep ==
  TypeOK /\ EditInv /\ [Next]_vars => EditInv'
<1> SUFFICES ASSUME TypeOK, EditInv, [Next]_vars PROVE EditInv'
  OBVIOUS
<1> DEFINE Editing == {"edCopy", "edEqual", "edCheck"}
           Timed == (mtime' = mtime /\ file' = file) \/ mtime' = mtime + 1
           Kept == \A k \in Clients : pc'[k] \in Editing =>
                     pc'[k] = pc[k] /\ seen'[k] = seen[k] /\ base'[k] = base[k]
<1>1. ASSUME NEW d \in Daemons,
             \/ Boot(d) \/ Watch(d) \/ WatchFails(d) \/ WatchParse(d) \/ WatchParseFails(d)
             \/ WatchReplace(d)
      PROVE  Timed /\ Kept
  BY <1>1 DEF Boot, Watch, WatchFails, WatchParse, WatchParseFails, WatchReplace, clientVars
<1>2. ASSUME NEW d \in Daemons, Exit(d) PROVE Timed /\ Kept
  BY <1>2, Zenon DEF Exit
<1>3. ASSUME NEW c \in Clients,
             \/ AddFilter(c) \/ AddKnown(c) \/ AddSave(c) \/ AddSaveFails(c)
             \/ RemoveFilter(c) \/ RemoveMissing(c) \/ RemoveWrite(c) \/ RemoveFails(c)
      PROVE  Timed /\ Kept
  BY <1>3, Zenon DEF TypeOK, AddFilter, AddKnown, AddSave, AddSaveFails, RemoveFilter, RemoveMissing,
              RemoveWrite, RemoveFails, Goto, Write, Rename, Contents
<1>4. ASSUME NEW c \in Clients,
             RemoveRead(c) \/ ReloadParse(c) \/ ReloadReplace(c) \/ ReloadFails(c)
      PROVE  Timed /\ Kept
  BY <1>4 DEF TypeOK, RemoveRead, ReloadParse, ReloadReplace, ReloadFails, ReloadNext, Goto
<1>5. ASSUME NEW c \in Clients,
             \/ CallReload(c) \/ UpResolve(c)
             \/ \E e \in Entries : CallAdd(c, e) \/ CallRemove(c, e)
      PROVE  Timed /\ Kept
  BY <1>5 DEF TypeOK, CallReload, UpResolve, CallAdd, CallRemove, Goto
<1>6. ASSUME NEW c \in Clients,
             \/ EditCheck(c) \/ EditConflict(c) \/ EditSave(c)
             \/ UpTruncate(c) \/ UpWrite(c) \/ UpWriteFails(c)
      PROVE  Timed /\ Kept
  BY <1>6 DEF TypeOK, EditCheck, EditConflict, EditSave, UpTruncate, UpWrite, UpWriteFails,
              Goto, Write, Rename, Contents
<1>7. ASSUME NEW c \in Clients, EditOpen(c) PROVE EditInv'
  BY <1>7 DEF TypeOK, EditInv, EditOpen, Goto
<1>8. ASSUME NEW c \in Clients, EditCopy(c) PROVE EditInv'
  BY <1>8 DEF TypeOK, EditInv, EditCopy, Goto
<1>9. ASSUME NEW c \in Clients, EditEqual(c) PROVE EditInv'
  BY <1>9 DEF TypeOK, EditInv, EditEqual, Goto
<1>10. ASSUME UNCHANGED vars PROVE Timed /\ Kept
  BY <1>10 DEF vars, clientVars
<1>11. Timed /\ Kept => EditInv'
  BY DEF TypeOK, EditInv
<1> HIDE DEF Timed, Kept
<1> QED
  BY <1>1, <1>2, <1>3, <1>4, <1>5, <1>6, <1>7, <1>8, <1>9, <1>10, <1>11
     DEF Next, DaemonStep, HandlerStep, CommandStep, Failure

\* What remove and edit hold in memory is right throughout.
THEOREM FileInvariance == Spec => []FileIInv
<1>1. Init => FileIInv
  BY InitType DEF Init, FileIInv, RewriteInv, EditInv
<1>2. FileIInv /\ [Next]_vars => FileIInv'
  BY TypeStep, RewriteStep, EditStep DEF FileIInv
<1> QED
  BY <1>1, <1>2, PTL DEF Spec

\* A remove that is answered "removed" has left no spelling of the domain in
\* the file (AllowlistAPIHandler.Remove, Loader.RemoveDomain).
THEOREM RemoveSound == Spec => RemovePersists
<1>1. ASSUME FileIInv, [Next]_vars, NEW c \in Clients, reply[c] = "none", reply'[c] = "removed"
      PROVE  ~Listed(file', arg[c])
  <2>1. RemoveRead(c) \/ RemoveWrite(c)
    <3> USE <1>1 DEF FileIInv, TypeOK
    <3>1. ASSUME NEW d \in Daemons, Boot(d) \/ DaemonStep(d) \/ WatchFails(d) \/ WatchParseFails(d)
          PROVE  FALSE
      BY <3>1 DEF Boot, DaemonStep, Watch, WatchParse, WatchReplace, WatchFails,
                  WatchParseFails, clientVars
    <3>2. ASSUME NEW d \in Daemons, Exit(d) PROVE FALSE
      BY <3>2 DEF Exit
    <3>3. ASSUME NEW k \in Clients,
                 \/ AddFilter(k) \/ AddKnown(k) \/ AddSave(k) \/ AddSaveFails(k)
                 \/ RemoveFilter(k) \/ RemoveMissing(k) \/ RemoveFails(k)
          PROVE  FALSE
      BY <3>3 DEF AddFilter, AddKnown, AddSave, AddSaveFails, RemoveFilter, RemoveMissing,
                  RemoveFails, Reply
    <3>4. ASSUME NEW k \in Clients,
                 ReloadParse(k) \/ ReloadReplace(k) \/ ReloadFails(k)
          PROVE  FALSE
      BY <3>4 DEF ReloadParse, ReloadReplace, ReloadFails, ReloadNext, Reply
    <3>5. ASSUME NEW k \in Clients,
                 \/ CallReload(k) \/ EditOpen(k) \/ UpResolve(k)
                 \/ \E e \in Entries : CallAdd(k, e) \/ CallRemove(k, e)
          PROVE  FALSE
      BY <3>5 DEF CallAdd, CallRemove, CallReload, EditOpen, UpResolve, Start, Reply
    <3>6. ASSUME NEW k \in Clients,
                 \/ EditCopy(k) \/ EditEqual(k) \/ EditCheck(k) \/ EditConflict(k) \/ EditSave(k)
                 \/ UpTruncate(k) \/ UpWrite(k) \/ UpWriteFails(k)
          PROVE  FALSE
      BY <3>6 DEF EditCopy, EditEqual, EditCheck, EditConflict, EditSave, UpTruncate, UpWrite,
                  UpWriteFails
    <3>7. ASSUME NEW k \in Clients, RemoveRead(k) \/ RemoveWrite(k) PROVE k = c
      BY <3>7 DEF RemoveRead, RemoveWrite, Reply
    <3>8. CASE UNCHANGED vars
      BY <3>8 DEF vars, clientVars
    <3> QED
      BY <3>1, <3>2, <3>3, <3>4, <3>5, <3>6, <3>7, <3>8
         DEF Next, DaemonStep, HandlerStep, CommandStep, Failure
  <2>2. CASE RemoveRead(c)
    BY <1>1, <2>2 DEF RemoveRead, Listed
  <2>3. CASE RemoveWrite(c)
    BY <1>1, <2>3 DEF RemoveWrite, Rename, Contents, FileIInv, RewriteInv, Listed
  <2> QED
    BY <2>1, <2>2, <2>3
<1>2. FileIInv /\ [Next]_vars => [\A c \in Clients :
          reply[c] = "none" /\ reply'[c] = "removed" => ~Listed(file', arg[c])]_vars
  BY <1>1
<1> QED
  BY <1>2, FileInvariance, PTL DEF Spec, RemovePersists

\* An edit that finds no conflict has copied the lines the file still holds
\* (handleConflict).
THEOREM EditSound == Spec => EditCheckSound
<1>1. FileIInv /\ [Next]_vars => [\A c \in Clients :
          pc[c] = "edCheck" /\ pc'[c] = "edSave" /\ mtime = seen[c] => file = base[c]]_vars
  BY DEF FileIInv, EditInv
<1> QED
  BY <1>1, FileInvariance, PTL DEF Spec, EditCheckSound

\* With the API as the only writer every step keeps a remove's pending rewrite
\* current, and is an add, a remove or a stutter of the abstract store.
LEMMA StoreStep ==
  ASSUME Commands \subseteq {"add", "remove", "reload"}
  PROVE  TypeOK /\ LockInv /\ StoreInv /\ [Next]_vars => StoreInv' /\ [Store!Next]_file
<1> SUFFICES ASSUME TypeOK, LockInv, StoreInv, [Next]_vars
             PROVE  StoreInv' /\ [Store!Next]_file
  OBVIOUS
<1> USE ProcessAssumption DEF TypeOK, StoreInv
<1>1. ASSUME NEW d \in Daemons, Boot(d) \/ DaemonStep(d) \/ WatchFails(d) \/ WatchParseFails(d)
      PROVE  StoreInv' /\ file' = file
  <2>1. UNCHANGED <<file, pc, buf, arg>>
    BY <1>1, Zenon DEF Boot, DaemonStep, Watch, WatchParse, WatchReplace, WatchFails,
                       WatchParseFails, clientVars
  <2> QED
    BY <2>1 DEF Without
<1>2. ASSUME NEW d \in Daemons, Exit(d) PROVE StoreInv' /\ file' = file
  BY <1>2 DEF Exit, Without
<1>3. ASSUME NEW c \in Clients,
             \/ AddFilter(c) \/ AddKnown(c) \/ AddSaveFails(c)
             \/ RemoveFilter(c) \/ RemoveMissing(c) \/ RemoveFails(c)
      PROVE  StoreInv' /\ file' = file
  <2>1. file' = file /\ buf' = buf /\ arg' = arg
    BY <1>3 DEF AddFilter, AddKnown, AddSaveFails, RemoveFilter, RemoveMissing, RemoveFails
  <2>2. \E p \in {"idle", "addSave", "rmRead"} : pc' = [pc EXCEPT ![c] = p]
    BY <1>3 DEF AddFilter, AddKnown, AddSaveFails, RemoveFilter, RemoveMissing, RemoveFails, Goto
  <2> QED
    BY <2>1, <2>2 DEF Without
<1>4. ASSUME NEW c \in Clients, ReloadParse(c) \/ ReloadReplace(c) \/ ReloadFails(c)
      PROVE  StoreInv' /\ file' = file
  BY <1>4 DEF ReloadParse, ReloadReplace, ReloadFails, ReloadNext, Goto, Without
<1>5. ASSUME NEW c \in Clients,
             CallReload(c) \/ \E e \in Entries : CallAdd(c, e) \/ CallRemove(c, e)
      PROVE  StoreInv' /\ file' = file
  BY <1>5 DEF CallAdd, CallRemove, CallReload, Goto, Without
<1>6. ASSUME NEW c \in Clients,
             \/ EditOpen(c) \/ EditCopy(c) \/ EditEqual(c) \/ EditCheck(c) \/ EditConflict(c)
             \/ EditSave(c) \/ UpResolve(c) \/ UpTruncate(c) \/ UpWrite(c) \/ UpWriteFails(c)
      PROVE  FALSE
  BY <1>6, Zenon DEF EditOpen, EditCopy, EditEqual, EditCheck, EditConflict, EditSave, UpResolve,
              UpTruncate, UpWrite, UpWriteFails, Start
<1>7. ASSUME NEW c \in Clients, pc[c] \in {"addSave", "rmWrite"},
             NEW k \in Clients \ {c}
      PROVE  pc[k] # "rmWrite"
  BY <1>7 DEF LockInv, Handling
<1>8. ASSUME NEW c \in Clients, RemoveRead(c) PROVE StoreInv' /\ file' = file
  <2>1. CASE Listed(file, arg[c])
    BY <1>8, <2>1 DEF RemoveRead, Goto, Without
  <2>2. CASE ~Listed(file, arg[c])
    BY <1>8, <2>2 DEF RemoveRead, Goto, Without
  <2> QED
    BY <2>1, <2>2
<1>9. ASSUME NEW c \in Clients, AddSave(c) PROVE StoreInv' /\ Store!Next
  <2>1. StoreInv'
    BY <1>7, <1>9 DEF AddSave, Goto
  <2>2. Store!Add(arg[c])
    BY <1>9 DEF AddSave, Write, Contents, Store!Add
  <2> QED
    BY <2>1, <2>2, Zenon DEF Store!Next
<1>10. ASSUME NEW c \in Clients, RemoveWrite(c) PROVE StoreInv' /\ Store!Next
  <2>1. StoreInv'
    BY <1>7, <1>10 DEF RemoveWrite, Goto
  <2>2. Store!Remove(arg[c])
    BY <1>10 DEF RemoveWrite, Rename, Contents, Without, Store!Remove
  <2> QED
    BY <2>1, <2>2, Zenon DEF Store!Next
<1>11. CASE UNCHANGED vars
  BY <1>11 DEF vars, clientVars, Without
<1> QED
  BY <1>1, <1>2, <1>3, <1>4, <1>5, <1>6, <1>9, <1>10, <1>11, <1>8, Zenon
     DEF Next, DaemonStep, HandlerStep, CommandStep, Failure

\* Under add, remove and reload the file is an atomic store: writeMu makes
\* RemoveDomain's read and rewrite one step with respect to the other handlers.
THEOREM StoreRefined ==
  ASSUME Commands \subseteq {"add", "remove", "reload"}
  PROVE  Spec => StoreSpec
<1>1. Init => StoreInv /\ Store!Init
  BY DEF Init, StoreInv, Store!Init
<1>2. SyncIInv /\ StoreInv /\ [Next]_vars => StoreInv' /\ [Store!Next]_file
  BY StoreStep DEF SyncIInv
<1> QED
  BY <1>1, <1>2, Invariance, PTL DEF Spec, StoreSpec, Store!Spec

\* What `remove` and `edit` say of the file is true of it when they say it.
THEOREM EditsSound == Spec => FileEditsSound
BY RemoveSound, EditSound DEF FileEditsSound
=============================================================================
