-------------------------- MODULE SharedMemoryProofs --------------------------
(***************************************************************************)
(* The books of every semaphore balance, for any number of CGI processes,  *)
(* semaphores, starts, kills and failures; from that, threads that share a *)
(* semaphore object exclude each other unless PullMessages over-posted it. *)
(***************************************************************************)
EXTENDS SharedMemory, FiniteSetTheorems, TLAPS

LEMMA FiniteThreads == IsFiniteSet(Thread)
<1>1. IsFiniteSet(Cgi \cup {Main})
  BY CgiAssumption, FS_AddElement
<1>2. IsFiniteSet((Cgi \cup {Main}) \cup {Sync})
  BY <1>1, FS_AddElement
<1>3. Thread = (Cgi \cup {Main}) \cup {Sync}
  BY DEF Thread
<1> QED BY <1>2, <1>3

(* The holders of a semaphore are finitely many, now and after a step.     *)
LEMMA FiniteHolders ==
  ASSUME NEW o
  PROVE  /\ IsFiniteSet(Holders(o)) /\ Cardinality(Holders(o)) \in Nat
         /\ IsFiniteSet(Holders(o)') /\ Cardinality(Holders(o)') \in Nat
<1>1. Holders(o) \in SUBSET Thread /\ Holders(o)' \in SUBSET Thread
  BY DEF Holders
<1>2. IsFiniteSet(Holders(o)) /\ IsFiniteSet(Holders(o)')
  BY <1>1, FiniteThreads, FS_Subset
<1> QED BY <1>2, FS_CardinalityType

LEMMA InitInvariant == Init => IInv
<1> SUFFICES ASSUME Init PROVE IInv
  OBVIOUS
<1>1. TypeOK
  <2>1. pc \in [Thread -> CgiPC \cup MainPC \cup SyncPC]
    BY DEF Init, Thread, CgiPC, MainPC, SyncPC, Main, Sync
  <2>2. /\ \A c \in Cgi : pc[c] \in CgiPC
        /\ pc[Main] \in MainPC
        /\ pc[Sync] \in SyncPC
    BY CgiAssumption DEF Init, Thread, CgiPC, MainPC, SyncPC, Main, Sync
  <2>3. count \in [starts : 0..MaxStarts, kills : 0..MaxKills,
                    failures : 0..MaxFailures, faults : Nat]
    BY BoundsAssumption DEF Init
  <2>4. /\ created \in 0..MaxSemaphores
        /\ semName \in 0..created
        /\ segName \in 0..count.starts
        /\ sem \in [Process -> 0..created]
        /\ seg \in [Process -> 0..count.starts]
    BY BoundsAssumption DEF Init
  <2> QED BY <2>1, <2>2, <2>3, <2>4 DEF Init, TypeOK
<1>2. LifeCycle
  BY CgiAssumption
  DEF Init, LifeCycle, Process, Thread, Main, Sync, Daemon
<1>3. SemaphoreBalance /\ FreshUntouched
  BY DEF Init, SemaphoreBalance, FreshUntouched
<1> QED BY <1>1, <1>2, <1>3 DEF IInv

-------------------------------------------------------------------------------
(* Typing. *)

(* What the three semaphore operations do to the types. *)
LEMMA OpenType ==
  ASSUME TypeOK, NEW p \in Process, SemMemoryOpen(p)
  PROVE  /\ created' \in 0..MaxSemaphores
         /\ semValue' \in [Semaphore -> Nat]
         /\ semName' \in 0..created'
         /\ sem' \in [Process -> 0..created']
<1>1. CASE semName # 0
  BY <1>1 DEF TypeOK, SemMemoryOpen
<1>2. CASE semName = 0
  <2>1. /\ created \in Nat /\ created + 1 \in 1..MaxSemaphores
        /\ created' = created + 1 /\ semName' = created + 1
        /\ semValue' = [semValue EXCEPT ![created + 1] = 1]
        /\ sem' = [sem EXCEPT ![p] = created + 1]
    BY <1>2, BoundsAssumption DEF TypeOK, SemMemoryOpen
  <2>2. \A q \in Process : sem[q] \in 0..created /\ sem[q] \in 0..(created + 1)
    BY <2>1 DEF TypeOK
  <2>3. sem' \in [Process -> 0..(created + 1)]
    BY <2>1, <2>2 DEF TypeOK
  <2>4. created + 1 \in Semaphore
    BY <2>1 DEF Semaphore
  <2>5. semValue' \in [Semaphore -> Nat]
    BY <2>1, <2>4 DEF TypeOK
  <2>6. created' \in 0..MaxSemaphores /\ semName' \in 0..created'
    BY <2>1, BoundsAssumption
  <2> QED BY <2>1, <2>3, <2>5, <2>6
<1> QED BY <1>1, <1>2

(* A thread that has a semaphore open has one of those that exist. *)
LEMMA HandleType ==
  ASSUME TypeOK, NEW t \in Thread
  PROVE  /\ ProcessOf(t) \in Process
         /\ sem[ProcessOf(t)] # 0 => /\ sem[ProcessOf(t)] \in Semaphore
                                     /\ sem[ProcessOf(t)] \in 1..created
         /\ 1..created \subseteq Semaphore
<1>1. ProcessOf(t) \in Process
  BY DEF ProcessOf, Process, Thread
<1>2. sem[ProcessOf(t)] \in 0..created /\ created \in 0..MaxSemaphores
  BY <1>1 DEF TypeOK
<1> QED BY <1>1, <1>2, BoundsAssumption DEF Semaphore

LEMMA GotoType ==
  ASSUME TypeOK, NEW t \in Thread, NEW label, Goto(t, label),
         \/ t \in Cgi /\ label \in CgiPC
         \/ t = Main /\ label \in MainPC
         \/ t = Sync /\ label \in SyncPC
  PROVE  /\ pc' \in [Thread -> CgiPC \cup MainPC \cup SyncPC]
         /\ \A c \in Cgi : pc'[c] \in CgiPC
         /\ pc'[Main] \in MainPC
         /\ pc'[Sync] \in SyncPC
BY CgiAssumption DEF TypeOK, Goto, Thread, Main, Sync

LEMMA WaitType ==
  ASSUME TypeOK, NEW t \in Thread, NEW from, NEW to, SemMemoryWait(t, from, to),
         \/ t \in Cgi /\ to \in CgiPC
         \/ t = Main /\ to \in MainPC
         \/ t = Sync /\ to \in SyncPC
  PROVE  TypeOK'
<1>1. semValue' \in [Semaphore -> Nat]
  <2> DEFINE o == sem[ProcessOf(t)]
  <2>1. o \in Semaphore /\ semValue[o] > 0
        /\ semValue' = [semValue EXCEPT ![o] = @ - 1]
    BY HandleType DEF SemMemoryWait
  <2> HIDE DEF o
  <2>2. semValue[o] - 1 \in Nat
    BY <2>1 DEF TypeOK
  <2> QED BY <2>1, <2>2 DEF TypeOK
<1>2. Goto(t, to)
  BY DEF SemMemoryWait
<1> QED BY <1>1, <1>2, GotoType DEF TypeOK, SemMemoryWait, names, ghosts

LEMMA PostType ==
  ASSUME TypeOK, NEW t \in Thread, NEW from, NEW to, SemMemoryPost(t, from, to),
         \/ t \in Cgi /\ to \in CgiPC
         \/ t = Main /\ to \in MainPC
         \/ t = Sync /\ to \in SyncPC
  PROVE  TypeOK'
<1>1. semValue' \in [Semaphore -> Nat]
  <2> DEFINE o == sem[ProcessOf(t)]
  <2>1. o \in Semaphore /\ semValue' = [semValue EXCEPT ![o] = @ + 1]
    BY HandleType DEF SemMemoryPost
  <2> HIDE DEF o
  <2> QED BY <2>1 DEF TypeOK
<1>2. Goto(t, to)
  BY DEF SemMemoryPost
<1> QED BY <1>1, <1>2, GotoType DEF TypeOK, SemMemoryPost, names, ghosts

LEMMA AbandonType ==
  ASSUME TypeOK, NEW p \in Process, NEW threads, Abandon(p, threads)
  PROVE  /\ lost' \in [Semaphore -> Nat]
         /\ sem' \in [Process -> 0..created]
         /\ seg' \in [Process -> 0..count.starts]
<1>1. ASSUME NEW o \in Semaphore
      PROVE  Cardinality(Holders(o) \cap threads) \in Nat
  <2>1. Holders(o) \cap threads \in SUBSET Holders(o)
    OBVIOUS
  <2> QED BY <2>1, FiniteHolders, FS_Subset, FS_CardinalityType
<1>2. lost' \in [Semaphore -> Nat]
  BY <1>1 DEF Abandon, TypeOK
<1> QED BY <1>2, BoundsAssumption DEF Abandon, TypeOK

LEMMA CgiType ==
  ASSUME TypeOK, NEW c \in Cgi,
         CgiStep(c) \/ CgiOpenFails(c) \/ CgiKilled(c)
  PROVE  TypeOK'
<1> USE DEF Thread, Process
<1>1. CASE CgiShmOpen(c)
  <2>1. Goto(c, "sem_open") /\ "sem_open" \in CgiPC
    BY <1>1 DEF CgiShmOpen, CgiPC
  <2>2. op' \in [Cgi -> {"update", "pull"}]
    BY <1>1, BoundsAssumption DEF CgiShmOpen, TypeOK
  <2> QED BY <1>1, <2>1, <2>2, GotoType DEF CgiShmOpen, TypeOK, names, ghosts
<1>2. CASE CgiSemOpen(c)
  <2>1. Goto(c, "wait") /\ "wait" \in CgiPC /\ SemMemoryOpen(c)
    BY <1>2 DEF CgiSemOpen, CgiPC
  <2> QED BY <1>2, <2>1, GotoType, OpenType DEF CgiSemOpen, TypeOK, ghosts
<1>3. CASE CgiWait(c)
  BY <1>3, WaitType DEF CgiWait, CgiPC
<1>4. CASE CgiPost(c)
  BY <1>4, PostType DEF CgiPost, CgiPC
<1>5. CASE PullWaitLast(c)
  BY <1>5, WaitType DEF PullWaitLast, CgiPC
<1>6. CASE PullPostFirst(c)
  BY <1>6, PostType DEF PullPostFirst, CgiPC
<1>7. CASE PullPostSecond(c)
  <2>1. Goto(c, "close") /\ "close" \in CgiPC
    BY <1>7 DEF PullPostSecond, CgiPC
  <2>2. \A o \in Semaphore : semValue[o] + 1 \in Nat /\ extra[o] + 1 \in Nat
    BY DEF TypeOK
  <2>3. /\ semValue' \in [Semaphore -> Nat]
        /\ extra' \in [Semaphore -> Nat]
    BY <1>7, <2>2 DEF PullPostSecond, TypeOK
  <2> QED BY <1>7, <2>1, <2>3, GotoType DEF PullPostSecond, TypeOK, names
<1>8. CASE CgiClose(c)
  <2>1. Goto(c, "idle") /\ "idle" \in CgiPC
    BY <1>8 DEF CgiClose, CgiPC
  <2> QED BY <1>8, <2>1, GotoType, BoundsAssumption
          DEF CgiClose, TypeOK, ghosts
<1>9. CASE CgiOpenFails(c)
  <2>1. Goto(c, "idle") /\ "idle" \in CgiPC
    BY <1>9 DEF CgiOpenFails, CgiPC
  <2>2. /\ count' \in [starts : 0..MaxStarts, kills : 0..MaxKills,
                       failures : 0..MaxFailures, faults : Nat]
        /\ count'.starts = count.starts
    BY <1>9, BoundsAssumption DEF CgiOpenFails, TypeOK
  <2> QED BY <1>9, <2>1, <2>2, GotoType DEF CgiOpenFails, TypeOK, ghosts
<1>10. CASE CgiKilled(c)
  <2>1. Goto(c, "idle") /\ "idle" \in CgiPC /\ Abandon(c, {c})
    BY <1>10 DEF CgiKilled, CgiPC
  <2>2. /\ count' \in [starts : 0..MaxStarts, kills : 0..MaxKills,
                       failures : 0..MaxFailures, faults : Nat]
        /\ count'.starts = count.starts
    BY <1>10, BoundsAssumption DEF CgiKilled, TypeOK
  <2> QED BY <1>10, <2>1, <2>2, GotoType, AbandonType
          DEF CgiKilled, TypeOK, names
<1> QED BY <1>1, <1>2, <1>3, <1>4, <1>5, <1>6, <1>7, <1>8, <1>9, <1>10
        DEF CgiStep

LEMMA DaemonType ==
  ASSUME TypeOK, DaemonStep \/ SignalHandler \/ SyncFault \/ DaemonKilled
  PROVE  TypeOK'
<1> USE DEF Thread
<1>0. Daemon \in Process
  BY DEF Process
<1>1. CASE DaemonShmOpen
  <2>1. Goto(Main, "sem_open") /\ "sem_open" \in MainPC
    BY <1>1 DEF DaemonShmOpen, MainPC
  <2>2. /\ count' \in [starts : 0..MaxStarts, kills : 0..MaxKills,
                       failures : 0..MaxFailures, faults : Nat]
        /\ count.starts \in Nat
        /\ count'.starts = count.starts + 1
    BY <1>1, BoundsAssumption DEF DaemonShmOpen, TypeOK
  <2>3. /\ segName' \in 0..count'.starts
        /\ seg' \in [Process -> 0..count'.starts]
    <3>1. /\ segName' = count.starts + 1
          /\ seg' = [seg EXCEPT ![Daemon] = count.starts + 1]
      BY <1>1 DEF DaemonShmOpen
    <3>2. \A p \in Process : seg[p] \in 0..(count.starts + 1)
      BY <2>2 DEF TypeOK
    <3>3. count.starts + 1 \in 0..(count.starts + 1)
      BY <2>2
    <3>4. seg = [p \in Process |-> seg[p]]
      BY DEF TypeOK
    <3>5. seg' \in [Process -> 0..(count.starts + 1)]
      BY <3>1, <3>2, <3>3, <3>4
    <3> QED BY <2>2, <3>1, <3>5
  <2> QED BY <1>1, <2>1, <2>2, <2>3, GotoType DEF DaemonShmOpen, TypeOK, ghosts
<1>2. CASE DaemonSemOpen
  <2>1. Goto(Main, "wait_clear") /\ "wait_clear" \in MainPC
        /\ SemMemoryOpen(Daemon)
    BY <1>2 DEF DaemonSemOpen, MainPC
  <2> QED BY <1>0, <1>2, <2>1, GotoType, OpenType
          DEF DaemonSemOpen, TypeOK, ghosts
<1>3. CASE DaemonWaitClear
  BY <1>3, WaitType DEF DaemonWaitClear, MainPC
<1>4. CASE DaemonPostClear
  BY <1>4, PostType DEF DaemonPostClear, MainPC
<1>18. CASE DaemonStart
  <2>1. /\ pc' \in [Thread -> CgiPC \cup MainPC \cup SyncPC]
        /\ \A c \in Cgi : pc'[c] \in CgiPC
        /\ pc'[Main] \in MainPC
        /\ pc'[Sync] \in SyncPC
    BY <1>18, CgiAssumption
    DEF DaemonStart, TypeOK, MainPC, SyncPC, Main, Sync
  <2> QED BY <1>18, <2>1 DEF DaemonStart, TypeOK, names, ghosts
<1>5. CASE MainEvent
  <2>1. Goto(Main, "wait") /\ "wait" \in MainPC
    BY <1>5 DEF MainEvent, MainPC
  <2> QED BY <1>5, <2>1, GotoType DEF MainEvent, TypeOK, names, ghosts
<1>6. CASE MainWait
  BY <1>6, WaitType DEF MainWait, MainPC
<1>7. CASE MainPost
  BY <1>7, PostType DEF MainPost, MainPC
<1>8. CASE DaemonClose
  <2>1. Goto(Main, "unlink") /\ "unlink" \in MainPC
        /\ Abandon(Daemon, {Main, Sync})
    BY <1>8 DEF DaemonClose, MainPC
  <2>2. semName' \in 0..created
    BY <1>8, BoundsAssumption DEF DaemonClose, TypeOK
  <2> QED BY <1>0, <1>8, <2>1, <2>2, GotoType, AbandonType DEF DaemonClose, TypeOK
<1>9. ASSUME /\ pc' = [pc EXCEPT ![Main] = "down", ![Sync] = "off"]
      PROVE  /\ pc' \in [Thread -> CgiPC \cup MainPC \cup SyncPC]
             /\ \A c \in Cgi : pc'[c] \in CgiPC
             /\ pc'[Main] \in MainPC
             /\ pc'[Sync] \in SyncPC
  BY <1>9, CgiAssumption DEF TypeOK, MainPC, SyncPC, Main, Sync
<1>10. CASE DaemonUnlink
  <2>1. segName' \in 0..count.starts
    BY <1>10 DEF DaemonUnlink, TypeOK
  <2> QED BY <1>9, <1>10, <2>1 DEF DaemonUnlink, TypeOK, ghosts
<1>11. CASE SyncTop
  <2>1. /\ Goto(Sync, IF exit_main THEN "off" ELSE "scan")
        /\ (IF exit_main THEN "off" ELSE "scan") \in SyncPC
    BY <1>11 DEF SyncTop, SyncPC
  <2> QED BY <1>11, <2>1, GotoType DEF SyncTop, TypeOK, names, ghosts
<1>12. CASE SyncScan
  <2>1. Goto(Sync, "wait") /\ "wait" \in SyncPC
    BY <1>12 DEF SyncScan, SyncPC
  <2> QED BY <1>12, <2>1, GotoType DEF SyncScan, TypeOK, names, ghosts
<1>13. CASE SyncWait
  BY <1>13, WaitType DEF SyncWait, SyncPC
<1>14. CASE SyncPost
  BY <1>14, PostType DEF SyncPost, SyncPC
<1>15. CASE SignalHandler
  BY <1>15 DEF SignalHandler, TypeOK, names, ghosts
<1>16. CASE SyncFault
  <2>1. /\ count' \in [starts : 0..MaxStarts, kills : 0..MaxKills,
                       failures : 0..MaxFailures, faults : Nat]
        /\ count'.starts = count.starts
    BY <1>16, BoundsAssumption DEF SyncFault, TypeOK
  <2> QED BY <1>9, <1>16, <2>1 DEF SyncFault, TypeOK, names, ghosts
<1>17. CASE DaemonKilled
  <2>1. /\ count' \in [starts : 0..MaxStarts, kills : 0..MaxKills,
                       failures : 0..MaxFailures, faults : Nat]
        /\ count'.starts = count.starts
    BY <1>17, BoundsAssumption DEF DaemonKilled, TypeOK
  <2>2. Abandon(Daemon, {Main, Sync})
    BY <1>17 DEF DaemonKilled
  <2> QED BY <1>0, <1>9, <1>17, <2>1, <2>2, AbandonType
          DEF DaemonKilled, TypeOK, names
<1> QED BY <1>1, <1>2, <1>3, <1>4, <1>5, <1>6, <1>7, <1>8, <1>10, <1>11,
           <1>12, <1>13, <1>14, <1>15, <1>16, <1>17, <1>18 DEF DaemonStep

LEMMA TypeStep == TypeOK /\ [Next]_vars => TypeOK'
<1> SUFFICES ASSUME TypeOK, [Next]_vars PROVE TypeOK'
  OBVIOUS
<1>1. CASE UNCHANGED vars
  BY <1>1 DEF vars, TypeOK
<1>2. CASE Next
  BY <1>2, CgiType, DaemonType DEF Next
<1> QED BY <1>1, <1>2

-------------------------------------------------------------------------------
(* The life cycle. *)

(* A CGI process changes nothing of the daemon's control state. *)
LEMMA CgiFrame ==
  ASSUME TypeOK, NEW c \in Cgi,
         CgiStep(c) \/ CgiOpenFails(c) \/ CgiKilled(c)
  PROVE  /\ pc'[Main] = pc[Main] /\ pc'[Sync] = pc[Sync]
         /\ sem'[Daemon] = sem[Daemon]
<1>1. Main # c /\ Sync # c /\ Daemon # c
  BY CgiAssumption
<1>2. pc' = pc \/ \E label : pc' = [pc EXCEPT ![c] = label]
  BY DEF CgiStep, CgiShmOpen, CgiSemOpen, CgiWait, CgiPost, PullWaitLast,
         PullPostFirst, PullPostSecond, CgiClose, CgiOpenFails, CgiKilled,
         SemMemoryWait, SemMemoryPost, Goto
<1>3. sem' = sem \/ \E o : sem' = [sem EXCEPT ![c] = o]
  BY DEF CgiStep, CgiShmOpen, CgiSemOpen, CgiWait, CgiPost, PullWaitLast,
         PullPostFirst, PullPostSecond, CgiClose, CgiOpenFails, CgiKilled,
         SemMemoryWait, SemMemoryPost, SemMemoryOpen, Abandon
<1> QED BY <1>1, <1>2, <1>3 DEF TypeOK, Process, Thread

LEMMA LifeCycleStep == TypeOK /\ LifeCycle /\ [Next]_vars => LifeCycle'
<1> SUFFICES ASSUME TypeOK, LifeCycle, [Next]_vars PROVE LifeCycle'
  OBVIOUS
<1>1. CASE \E c \in Cgi : CgiStep(c) \/ CgiOpenFails(c) \/ CgiKilled(c)
  BY <1>1, CgiFrame DEF LifeCycle
<1>2. Main \in Thread /\ Sync \in Thread /\ Daemon \in Process /\ Main # Sync
  BY DEF Thread, Process, Main, Sync
<1>3. ProcessOf(Main) = Daemon /\ ProcessOf(Sync) = Daemon
  BY CgiAssumption DEF ProcessOf
<1> USE DEF LifeCycle, TypeOK, Goto
<1>4. CASE DaemonShmOpen
  BY <1>2, <1>4 DEF DaemonShmOpen
<1>5. CASE DaemonSemOpen
  BY <1>2, <1>5 DEF DaemonSemOpen
<1>6. CASE DaemonWaitClear
  BY <1>2, <1>6 DEF DaemonWaitClear, SemMemoryWait
<1>7. CASE DaemonPostClear \/ DaemonStart
  BY <1>2, <1>7 DEF DaemonPostClear, DaemonStart, SemMemoryPost
<1>8. CASE MainEvent \/ MainWait \/ MainPost
  BY <1>2, <1>8 DEF MainEvent, MainWait, MainPost, SemMemoryWait, SemMemoryPost
<1>9. CASE DaemonClose
  BY <1>2, <1>9 DEF DaemonClose, Abandon
<1>10. CASE DaemonUnlink
  BY <1>2, <1>10 DEF DaemonUnlink
<1>11. CASE SyncTop \/ SyncScan \/ SyncWait \/ SyncPost
  BY <1>2, <1>11
  DEF SyncTop, SyncScan, SyncWait, SyncPost, SemMemoryWait, SemMemoryPost
<1>12. CASE SignalHandler
  BY <1>12 DEF SignalHandler
<1>13. CASE SyncFault
  BY <1>2, <1>13 DEF SyncFault
<1>14. CASE DaemonKilled
  BY <1>2, <1>14 DEF DaemonKilled, Abandon
<1>15. CASE UNCHANGED vars
  BY <1>15 DEF vars
<1> QED BY <1>1, <1>4, <1>5, <1>6, <1>7, <1>8, <1>9, <1>10, <1>11, <1>12,
           <1>13, <1>14, <1>15 DEF Next, DaemonStep

-------------------------------------------------------------------------------
(* The books. *)

(* A thread joins, or leaves, the holders of one semaphore. *)
LEMMA HoldersUnchanged ==
  ASSUME NEW o,
         \A t \in Thread :
           /\ pc'[t] \in Holding <=> pc[t] \in Holding
           /\ pc[t] \in Holding => sem'[ProcessOf(t)] = sem[ProcessOf(t)]
  PROVE  Holders(o)' = Holders(o)
BY DEF Holders

(* The balance of a semaphore whose books nobody touched. *)
LEMMA BalanceFrame ==
  ASSUME SemaphoreBalance, NEW o \in 1..created,
         semValue'[o] = semValue[o], lost'[o] = lost[o], extra'[o] = extra[o],
         Holders(o)' = Holders(o)
  PROVE  semValue'[o] + Cardinality(Holders(o)') + lost'[o] = 1 + extra'[o]
BY DEF SemaphoreBalance

LEMMA WaitBalance ==
  ASSUME TypeOK, SemaphoreBalance, NEW t \in Thread, NEW from, NEW to,
         SemMemoryWait(t, from, to), from \notin Holding, to \in Holding
  PROVE  SemaphoreBalance'
<1> DEFINE s == sem[ProcessOf(t)]
<1>1. /\ pc[t] = from /\ s # 0 /\ semValue[s] > 0
      /\ semValue' = [semValue EXCEPT ![s] = @ - 1]
      /\ pc' = [pc EXCEPT ![t] = to]
      /\ sem' = sem /\ lost' = lost /\ extra' = extra /\ created' = created
  BY DEF SemMemoryWait, Goto, names, ghosts
<1>2. s \in Semaphore /\ s \in 1..created /\ 1..created \subseteq Semaphore
  BY <1>1, HandleType
<1>3. ASSUME NEW o \in 1..created
      PROVE  semValue'[o] + Cardinality(Holders(o)') + lost'[o] = 1 + extra'[o]
  <2>1. o \in Semaphore /\ semValue[o] \in Nat /\ lost[o] \in Nat
    BY <1>2, <1>3 DEF TypeOK
  <2>2. CASE o = s
    <3>1. Holders(o)' = Holders(o) \cup {t} /\ t \notin Holders(o)
      BY <1>1, <2>2 DEF Holders, TypeOK
    <3>2. Cardinality(Holders(o)') = Cardinality(Holders(o)) + 1
      BY <3>1, FiniteHolders, FS_AddElement
    <3>3. semValue'[o] = semValue[o] - 1
      BY <1>1, <2>1, <2>2 DEF TypeOK
    <3> QED BY <1>1, <2>1, <3>2, <3>3, FiniteHolders DEF SemaphoreBalance
  <2>3. CASE o # s
    <3>1. Holders(o)' = Holders(o)
      BY <1>1, <2>3 DEF Holders, TypeOK
    <3>2. semValue'[o] = semValue[o]
      BY <1>1, <2>1, <2>3 DEF TypeOK
    <3> QED BY <1>1, <3>1, <3>2, BalanceFrame
  <2> QED BY <2>2, <2>3
<1> QED BY <1>1, <1>3 DEF SemaphoreBalance

LEMMA PostBalance ==
  ASSUME TypeOK, SemaphoreBalance, NEW t \in Thread, NEW from, NEW to,
         SemMemoryPost(t, from, to), from \in Holding, to \notin Holding
  PROVE  SemaphoreBalance'
<1> DEFINE s == sem[ProcessOf(t)]
<1>1. /\ pc[t] = from /\ s # 0
      /\ semValue' = [semValue EXCEPT ![s] = @ + 1]
      /\ pc' = [pc EXCEPT ![t] = to]
      /\ sem' = sem /\ lost' = lost /\ extra' = extra /\ created' = created
  BY DEF SemMemoryPost, Goto, names, ghosts
<1>2. s \in Semaphore /\ s \in 1..created /\ 1..created \subseteq Semaphore
  BY <1>1, HandleType
<1>3. ASSUME NEW o \in 1..created
      PROVE  semValue'[o] + Cardinality(Holders(o)') + lost'[o] = 1 + extra'[o]
  <2>1. o \in Semaphore /\ semValue[o] \in Nat /\ lost[o] \in Nat
    BY <1>2, <1>3 DEF TypeOK
  <2>2. CASE o = s
    <3>1. Holders(o)' = Holders(o) \ {t} /\ t \in Holders(o)
      BY <1>1, <2>2 DEF Holders, TypeOK
    <3>2. Cardinality(Holders(o)') = Cardinality(Holders(o)) - 1
      BY <3>1, FiniteHolders, FS_RemoveElement
    <3>3. semValue'[o] = semValue[o] + 1
      BY <1>1, <2>1, <2>2 DEF TypeOK
    <3> QED BY <1>1, <2>1, <3>2, <3>3, FiniteHolders DEF SemaphoreBalance
  <2>3. CASE o # s
    <3>1. Holders(o)' = Holders(o)
      BY <1>1, <2>3 DEF Holders, TypeOK
    <3>2. semValue'[o] = semValue[o]
      BY <1>1, <2>1, <2>3 DEF TypeOK
    <3> QED BY <1>1, <3>1, <3>2, BalanceFrame
  <2> QED BY <2>2, <2>3
<1> QED BY <1>1, <1>3 DEF SemaphoreBalance

LEMMA OpenBalance ==
  ASSUME TypeOK, FreshUntouched, SemaphoreBalance,
         NEW t \in Thread, NEW label, SemMemoryOpen(ProcessOf(t)),
         Goto(t, label), label \notin Holding, UNCHANGED ghosts,
         \A u \in Thread :
           ProcessOf(u) = ProcessOf(t) => pc[u] \notin Holding
  PROVE  SemaphoreBalance' /\ FreshUntouched'
<1> DEFINE p == ProcessOf(t)
<1>1. p \in Process
  BY DEF ProcessOf, Process, Thread
<1>2. /\ pc' = [pc EXCEPT ![t] = label]
      /\ lost' = lost /\ extra' = extra
      /\ \A u \in Thread : ProcessOf(u) \in Process
      /\ \A u \in Thread : pc'[u] \in Holding <=> pc[u] \in Holding
  BY DEF Goto, ghosts, TypeOK, ProcessOf, Process, Thread
<1>3. created \in Nat /\ 1..created \subseteq Semaphore
  BY BoundsAssumption DEF TypeOK, Semaphore
<1>4. \A u \in Thread : pc[u] \in Holding => sem'[ProcessOf(u)] = sem[ProcessOf(u)]
  BY <1>1, <1>2 DEF SemMemoryOpen, TypeOK
<1>5. \A o : Holders(o)' = Holders(o)
  BY <1>2, <1>4, HoldersUnchanged
<1> HIDE DEF p
<1>6. CASE semName # 0
  <2>1. created' = created /\ semValue' = semValue
    BY <1>6 DEF SemMemoryOpen
  <2> QED BY <1>2, <1>5, <2>1 DEF SemaphoreBalance, FreshUntouched
<1>7. CASE semName = 0
  <2>1. /\ created + 1 \in Semaphore /\ created' = created + 1
        /\ semValue' = [semValue EXCEPT ![created + 1] = 1]
    BY <1>3, <1>7, BoundsAssumption DEF SemMemoryOpen, Semaphore
  <2>2. FreshUntouched'
    <3>1. \A o \in Semaphore : o > created + 1 => o > created
      BY <1>3 DEF Semaphore
    <3> QED BY <1>2, <2>1, <3>1 DEF FreshUntouched
  <2>3. ASSUME NEW o \in 1..created'
        PROVE  semValue'[o] + Cardinality(Holders(o)') + lost'[o] = 1 + extra'[o]
    <3>1. CASE o = created + 1
      <4>1. lost'[o] = 0 /\ extra'[o] = 0 /\ semValue'[o] = 1
        BY <1>2, <1>3, <2>1, <3>1 DEF FreshUntouched, TypeOK, Semaphore
      <4>2. Holders(o) = {}
        BY <1>2, <1>3, <3>1 DEF Holders, TypeOK
      <4> QED BY <1>5, <4>1, <4>2, FS_EmptySet
    <3>2. CASE o # created + 1
      <4>1. o \in 1..created
        BY <1>3, <2>1, <3>2
      <4>2. semValue'[o] = semValue[o]
        BY <1>3, <2>1, <3>2, <4>1 DEF TypeOK
      <4> QED BY <1>2, <1>5, <4>1, <4>2, BalanceFrame
    <3> QED BY <3>1, <3>2
  <2> QED BY <2>2, <2>3 DEF SemaphoreBalance
<1> QED BY <1>6, <1>7

LEMMA AbandonBalance ==
  ASSUME TypeOK, FreshUntouched, SemaphoreBalance,
         NEW p \in Process, NEW threads, Abandon(p, threads),
         UNCHANGED <<semValue, created, extra>>,
         \A u \in Thread : u \in threads <=> ProcessOf(u) = p,
         \A u \in Thread : u \notin threads => pc'[u] = pc[u]
  PROVE  SemaphoreBalance' /\ FreshUntouched'
<1>1. \A o \in Semaphore :
        lost'[o] = lost[o] + Cardinality(Holders(o) \cap threads)
  BY DEF Abandon
<1>2. ASSUME NEW o \in Semaphore
      PROVE  Holders(o)' = Holders(o) \ threads
  <2>1. /\ \A u \in Thread : ProcessOf(u) \in Process
        /\ sem' = [sem EXCEPT ![p] = 0] /\ o # 0
    BY DEF Abandon, Semaphore, ProcessOf, Process, Thread
  <2>2. \A u \in Thread : u \in threads => sem'[ProcessOf(u)] = 0
    BY <2>1 DEF TypeOK
  <2>3. \A u \in Thread : u \notin threads =>
             sem'[ProcessOf(u)] = sem[ProcessOf(u)]
    BY <2>1 DEF TypeOK
  <2> QED BY <2>1, <2>2, <2>3 DEF Holders
<1>3. ASSUME NEW o \in Semaphore
      PROVE  /\ Cardinality(Holders(o) \cap threads) \in Nat
             /\ Cardinality(Holders(o)') \in Nat
             /\ Cardinality(Holders(o)) = Cardinality(Holders(o)')
                                   + Cardinality(Holders(o) \cap threads)
  <2>1. Holders(o) \cap threads \in SUBSET Holders(o)
    OBVIOUS
  <2>2. Cardinality(Holders(o) \cap threads) \in Nat
    BY <2>1, FiniteHolders, FS_Subset, FS_CardinalityType
  <2>3. Cardinality(Holders(o)')
          = Cardinality(Holders(o)) - Cardinality(Holders(o) \cap threads)
    BY <1>2, FiniteHolders, FS_Difference
  <2> QED BY <2>2, <2>3, FiniteHolders
<1>4. 1..created \subseteq Semaphore /\ created \in Nat
  BY BoundsAssumption DEF TypeOK, Semaphore
<1>5. ASSUME NEW o \in 1..created
      PROVE  semValue'[o] + Cardinality(Holders(o)') + lost'[o] = 1 + extra'[o]
  <2>1. o \in Semaphore /\ semValue[o] \in Nat /\ lost[o] \in Nat
    BY <1>4 DEF TypeOK
  <2>2. semValue[o] + Cardinality(Holders(o)) + lost[o] = 1 + extra[o]
    BY DEF SemaphoreBalance
  <2>3. /\ lost'[o] = lost[o] + Cardinality(Holders(o) \cap threads)
        /\ semValue'[o] = semValue[o] /\ extra'[o] = extra[o]
    BY <1>1, <2>1
  <2>4. /\ Cardinality(Holders(o) \cap threads) \in Nat
        /\ Cardinality(Holders(o)') \in Nat
        /\ Cardinality(Holders(o)) = Cardinality(Holders(o)')
                                  + Cardinality(Holders(o) \cap threads)
    BY <1>3, <2>1
  <2> QED BY <2>1, <2>2, <2>3, <2>4
<1>6. FreshUntouched'
  <2>1. ASSUME NEW o \in Semaphore, o > created
        PROVE  lost'[o] = 0 /\ extra'[o] = 0
    <3>1. Holders(o) = {}
      <4>1. \A u \in Thread : sem[ProcessOf(u)] \in 0..created
        BY DEF TypeOK, ProcessOf, Process, Thread
      <4> QED BY <1>4, <2>1, <4>1 DEF Holders, Semaphore
    <3>2. Holders(o) \cap threads = {}
      BY <3>1
    <3> QED BY <1>1, <2>1, <3>2, FS_EmptySet DEF FreshUntouched
  <2> QED BY <2>1 DEF FreshUntouched
<1> QED BY <1>5, <1>6 DEF SemaphoreBalance

(* A step that moves no thread into or out of a critical section and       *)
(* touches no handle of a thread inside one, nor any semaphore.            *)
LEMMA QuietBalance ==
  ASSUME FreshUntouched, SemaphoreBalance,
         UNCHANGED <<semValue, created, lost, extra>>,
         \A t \in Thread :
           /\ pc'[t] \in Holding <=> pc[t] \in Holding
           /\ pc[t] \in Holding => sem'[ProcessOf(t)] = sem[ProcessOf(t)]
  PROVE  SemaphoreBalance' /\ FreshUntouched'
<1>1. \A o : Holders(o)' = Holders(o)
  BY HoldersUnchanged
<1> QED BY <1>1 DEF SemaphoreBalance, FreshUntouched

LEMMA CgiBalance ==
  ASSUME IInv, NEW c \in Cgi,
         CgiStep(c) \/ CgiOpenFails(c) \/ CgiKilled(c)
  PROVE  SemaphoreBalance' /\ FreshUntouched'
<1> USE DEF IInv, Holding
<1>1. /\ c \in Thread /\ c \in Process /\ ProcessOf(c) = c
      /\ \A u \in Thread : ProcessOf(u) = c <=> u = c
  BY CgiAssumption DEF Thread, Process, ProcessOf
<1>2. CASE CgiShmOpen(c)
  BY <1>1, <1>2, QuietBalance DEF CgiShmOpen, Goto, TypeOK, names, ghosts
<1>3. CASE CgiSemOpen(c)
  BY <1>1, <1>3, OpenBalance DEF CgiSemOpen
<1>4. CASE CgiWait(c) \/ PullWaitLast(c)
  <2>1. FreshUntouched'
    BY <1>4 DEF CgiWait, PullWaitLast, SemMemoryWait, FreshUntouched, names, ghosts
  <2> QED BY <1>1, <1>4, <2>1, WaitBalance DEF CgiWait, PullWaitLast
<1>5. CASE CgiPost(c) \/ PullPostFirst(c)
  <2>1. FreshUntouched'
    BY <1>5 DEF CgiPost, PullPostFirst, SemMemoryPost, FreshUntouched, names, ghosts
  <2> QED BY <1>1, <1>5, <2>1, PostBalance DEF CgiPost, PullPostFirst
<1>6. CASE PullPostSecond(c)
  <2>1. /\ semValue' = [semValue EXCEPT ![sem[c]] = @ + 1]
        /\ extra' = [extra EXCEPT ![sem[c]] = @ + 1]
        /\ created' = created /\ lost' = lost /\ sem' = sem
        /\ \A t \in Thread : pc'[t] \in Holding <=> pc[t] \in Holding
        /\ sem[c] \in 0..created
    BY <1>1, <1>6 DEF PullPostSecond, Goto, TypeOK, names
  <2>2. \A o : Holders(o)' = Holders(o)
    BY <2>1, HoldersUnchanged
  <2>3. created \in Nat /\ 1..created \subseteq Semaphore
    BY BoundsAssumption DEF TypeOK, Semaphore
  <2>4. ASSUME NEW o \in 1..created
        PROVE  semValue'[o] + Cardinality(Holders(o)') + lost'[o] = 1 + extra'[o]
    <3>1. /\ semValue[o] \in Nat /\ extra[o] \in Nat /\ lost[o] \in Nat
          /\ semValue[o] + Cardinality(Holders(o)) + lost[o] = 1 + extra[o]
      BY <2>3 DEF TypeOK, SemaphoreBalance
    <3>2. CASE o = sem[c]
      <4>1. semValue'[o] = semValue[o] + 1 /\ extra'[o] = extra[o] + 1
        BY <2>1, <2>3, <3>2 DEF TypeOK
      <4> QED BY <2>1, <2>2, <3>1, <4>1, FiniteHolders
    <3>3. CASE o # sem[c]
      <4>1. semValue'[o] = semValue[o] /\ extra'[o] = extra[o]
        BY <2>1, <2>3, <3>3 DEF TypeOK
      <4> QED BY <2>1, <2>2, <3>1, <4>1
    <3> QED BY <3>2, <3>3
  <2>5. FreshUntouched'
    BY <2>1, <2>3 DEF FreshUntouched, TypeOK, Semaphore
  <2> QED BY <2>1, <2>4, <2>5 DEF SemaphoreBalance
<1>7. CASE CgiClose(c)
  BY <1>1, <1>7, QuietBalance DEF CgiClose, Goto, TypeOK, ghosts
<1>8. CASE CgiOpenFails(c)
  BY <1>1, <1>8, QuietBalance DEF CgiOpenFails, Goto, TypeOK, ghosts
<1>9. CASE CgiKilled(c)
  BY <1>1, <1>9, AbandonBalance DEF CgiKilled, Goto, TypeOK, names
<1> QED BY <1>2, <1>3, <1>4, <1>5, <1>6, <1>7, <1>8, <1>9 DEF CgiStep

LEMMA DaemonBalance ==
  ASSUME IInv, DaemonStep \/ SignalHandler \/ SyncFault \/ DaemonKilled
  PROVE  SemaphoreBalance' /\ FreshUntouched'
<1> USE DEF IInv, Holding
<1>1. /\ Main \in Thread /\ Sync \in Thread /\ Daemon \in Process
      /\ Main # Sync
      /\ ProcessOf(Main) = Daemon /\ ProcessOf(Sync) = Daemon
      /\ \A u \in Thread : ProcessOf(u) = Daemon <=> u \in {Main, Sync}
  BY CgiAssumption DEF Thread, Process, ProcessOf, Main, Sync
<1>2. CASE DaemonShmOpen
  BY <1>1, <1>2, QuietBalance DEF DaemonShmOpen, Goto, TypeOK, ghosts
<1>3. CASE DaemonSemOpen
  BY <1>1, <1>3, OpenBalance DEF DaemonSemOpen, LifeCycle
<1>4. CASE DaemonWaitClear \/ MainWait \/ SyncWait
  <2>1. FreshUntouched'
    BY <1>4 DEF DaemonWaitClear, MainWait, SyncWait, SemMemoryWait,
                FreshUntouched, names, ghosts
  <2> QED BY <1>1, <1>4, <2>1, WaitBalance
          DEF DaemonWaitClear, MainWait, SyncWait
<1>5. CASE DaemonPostClear \/ MainPost \/ SyncPost
  <2>1. FreshUntouched'
    BY <1>5 DEF DaemonPostClear, MainPost, SyncPost, SemMemoryPost,
                FreshUntouched, names, ghosts
  <2> QED BY <1>1, <1>5, <2>1, PostBalance
          DEF DaemonPostClear, MainPost, SyncPost
<1>6. CASE DaemonStart
  BY <1>1, <1>6, QuietBalance DEF DaemonStart, LifeCycle, TypeOK, names, ghosts
<1>7. CASE MainEvent
  BY <1>1, <1>7, QuietBalance DEF MainEvent, Goto, TypeOK, names, ghosts
<1>8. CASE DaemonClose
  BY <1>1, <1>8, AbandonBalance DEF DaemonClose, Goto, TypeOK
<1>9. CASE DaemonKilled
  BY <1>1, <1>9, AbandonBalance DEF DaemonKilled, TypeOK, names
<1>10. CASE SignalHandler
  BY <1>10, QuietBalance DEF SignalHandler, names, ghosts
<1>11. CASE SyncTop \/ SyncScan
  BY <1>1, <1>11, QuietBalance DEF SyncTop, SyncScan, Goto, TypeOK, names, ghosts
<1>12. CASE DaemonUnlink \/ SyncFault
  <2>1. /\ sem[Daemon] = 0 /\ pc' = [pc EXCEPT ![Main] = "down", ![Sync] = "off"]
        /\ UNCHANGED <<sem, semValue, created, lost, extra>>
    BY <1>12 DEF DaemonUnlink, SyncFault, LifeCycle, names, ghosts
  <2>2. \A t \in Thread : t \notin {Main, Sync} => pc'[t] = pc[t]
    BY <2>1 DEF TypeOK
  <2>3. ASSUME NEW o \in 1..created
        PROVE  Holders(o)' = Holders(o)
    <3>1. o # 0
      OBVIOUS
    <3>2. \A t \in {Main, Sync} : sem[ProcessOf(t)] # o /\ sem'[ProcessOf(t)] # o
      BY <1>1, <2>1, <3>1
    <3> QED BY <2>1, <2>2, <3>2 DEF Holders
  <2> QED BY <2>1, <2>3 DEF SemaphoreBalance, FreshUntouched
<1> QED BY <1>2, <1>3, <1>4, <1>5, <1>6, <1>7, <1>8, <1>9, <1>10, <1>11, <1>12
        DEF DaemonStep

-------------------------------------------------------------------------------
(* The theorems. *)

LEMMA InvariantStep == IInv /\ [Next]_vars => IInv'
<1> SUFFICES ASSUME IInv, [Next]_vars PROVE IInv'
  OBVIOUS
<1>1. TypeOK' /\ LifeCycle'
  BY TypeStep, LifeCycleStep DEF IInv
<1>2. CASE UNCHANGED vars
  BY <1>1, <1>2, QuietBalance DEF vars, IInv
<1>3. CASE Next
  BY <1>1, <1>3, CgiBalance, DaemonBalance DEF Next, IInv
<1> QED BY <1>2, <1>3

(* Every variable keeps its type, for all constants. *)
THEOREM TypeCorrect == Spec => []TypeOK
<1>1. IInv => TypeOK
  BY DEF IInv
<1> QED BY <1>1, InitInvariant, InvariantStep, PTL DEF Spec

(* No path of the code posts a semaphore more or less often than it waits  *)
(* for it, but for the second post of PullMessages and for holders that    *)
(* died: value, holders and losses of every semaphore always make up one   *)
(* plus the excess posts.                                                  *)
THEOREM BooksBalance == Spec => []SemaphoreBalance
<1>1. IInv => SemaphoreBalance
  BY DEF IInv
<1> QED BY <1>1, InitInvariant, InvariantStep, PTL DEF Spec

(* Two threads inside critical sections under one and the same semaphore   *)
(* object: only after PullMessages posted that object in excess.           *)
THEOREM SharedObjectExcludes == Spec => []SameObjectExcludes
<1>1. IInv => SameObjectExcludes
  <2> SUFFICES ASSUME IInv, NEW t \in Thread, NEW u \in Thread,
                      t # u, pc[t] \in Holding, pc[u] \in Holding,
                      sem[ProcessOf(t)] # 0,
                      sem[ProcessOf(t)] = sem[ProcessOf(u)]
               PROVE  extra[sem[ProcessOf(t)]] > 0
    BY DEF SameObjectExcludes
  <2> DEFINE o == sem[ProcessOf(t)]
  <2>1. o \in 1..created /\ o \in Semaphore
    BY HandleType DEF IInv
  <2>2. {t, u} \in SUBSET Holders(o)
    BY DEF Holders
  <2>3. Cardinality({t, u}) = 2
    <3>1. IsFiniteSet({t}) /\ Cardinality({t}) = 1
      BY FS_Singleton
    <3>2. Cardinality({t} \cup {u}) = 2
      BY <3>1, FS_AddElement
    <3>3. {t, u} = {t} \cup {u}
      OBVIOUS
    <3> QED BY <3>2, <3>3
  <2>4. Cardinality(Holders(o)) >= 2 /\ Cardinality(Holders(o)) \in Nat
    BY <2>2, <2>3, FiniteHolders, FS_Subset
  <2>5. semValue[o] + Cardinality(Holders(o)) + lost[o] = 1 + extra[o]
    BY <2>1 DEF IInv, SemaphoreBalance
  <2>6. semValue[o] \in Nat /\ lost[o] \in Nat /\ extra[o] \in Nat
    BY <2>1 DEF IInv, TypeOK
  <2> QED BY <2>4, <2>5, <2>6
<1> QED BY <1>1, InitInvariant, InvariantStep, PTL DEF Spec

-------------------------------------------------------------------------------
(* The first semaphore. *)

(* The name never comes back to an object it was once taken from; whoever  *)
(* is past sem_memory_open has a semaphore, until the daemon closes it.    *)
FirstName ==
  /\ semName = 1 => created = 1
  /\ pc[Main] = "unlink" => semName # 1 /\ created > 0
  /\ pc[Main] \in {"wait_clear", "clear", "start", "run", "wait", "critical"}
       => sem[Daemon] # 0
  /\ \A c \in Cgi : pc[c] \notin {"idle", "sem_open"} => sem[c] # 0

LEMMA CgiFirstName ==
  ASSUME TypeOK, FirstName, NEW c \in Cgi,
         CgiStep(c) \/ CgiOpenFails(c) \/ CgiKilled(c)
  PROVE  FirstName'
<1> USE DEF FirstName
<1>1. /\ c \in Process /\ c \in Thread /\ Daemon \in Process
      /\ pc'[Main] = pc[Main] /\ sem'[Daemon] = sem[Daemon]
  BY CgiFrame DEF Process, Thread
<1>2. created \in Nat /\ semName \in 0..created
  BY BoundsAssumption DEF TypeOK
<1>3. CASE CgiSemOpen(c)
  <2>1. /\ created' \in Nat /\ created' >= created
        /\ semName' = 1 => created' = 1
        /\ semName' = 1 => semName = 1 \/ created = 0
        /\ sem'[c] # 0
    BY <1>1, <1>2, <1>3 DEF CgiSemOpen, SemMemoryOpen, TypeOK
  <2>2. \A d \in Cgi : d # c => pc'[d] = pc[d] /\ sem'[d] = sem[d]
    BY <1>1, <1>3 DEF CgiSemOpen, SemMemoryOpen, Goto, TypeOK, Process, Thread
  <2> QED BY <1>1, <1>2, <2>1, <2>2
<1>4. CASE CgiShmOpen(c) \/ CgiOpenFails(c)
  BY <1>1, <1>4 DEF CgiShmOpen, CgiOpenFails, Goto, TypeOK, Thread, names
<1>5. CASE CgiWait(c) \/ PullWaitLast(c) \/ CgiPost(c) \/ PullPostFirst(c)
  BY <1>1, <1>5 DEF CgiWait, PullWaitLast, CgiPost, PullPostFirst,
     SemMemoryWait, SemMemoryPost, Goto, TypeOK, Thread, names
<1>6. CASE PullPostSecond(c)
  BY <1>1, <1>6 DEF PullPostSecond, Goto, TypeOK, Thread, names
<1>7. CASE CgiClose(c)
  BY <1>1, <1>2, <1>7 DEF CgiClose, Goto, TypeOK, Thread, Process
<1>8. CASE CgiKilled(c)
  BY <1>1, <1>8 DEF CgiKilled, Abandon, Goto, TypeOK, Thread, Process, names
<1> QED BY <1>3, <1>4, <1>5, <1>6, <1>7, <1>8 DEF CgiStep

LEMMA DaemonFirstName ==
  ASSUME TypeOK, LifeCycle, FirstName,
         DaemonStep \/ SignalHandler \/ SyncFault \/ DaemonKilled
  PROVE  FirstName'
<1> USE DEF FirstName
<1>1. /\ Main \in Thread /\ Sync \in Thread /\ Daemon \in Process /\ Main # Sync
      /\ \A c \in Cgi : /\ c # Main /\ c # Sync /\ c # Daemon
                        /\ c \in Thread /\ c \in Process
  BY CgiAssumption DEF Thread, Process, Main, Sync
<1>2. created \in Nat /\ semName \in 0..created /\ sem[Daemon] \in 0..created
  BY <1>1, BoundsAssumption DEF TypeOK
<1>3. CASE DaemonSemOpen
  <2>1. /\ semName' = 1 => created' = 1
        /\ sem'[Daemon] # 0
    BY <1>1, <1>2, <1>3 DEF DaemonSemOpen, SemMemoryOpen, TypeOK
  <2>2. /\ \A c \in Cgi : pc'[c] = pc[c] /\ sem'[c] = sem[c]
        /\ pc'[Main] = "wait_clear"
    BY <1>1, <1>3 DEF DaemonSemOpen, SemMemoryOpen, Goto, TypeOK
  <2> QED BY <2>1, <2>2
<1>4. CASE DaemonShmOpen
  BY <1>1, <1>4 DEF DaemonShmOpen, Goto, TypeOK
<1>5. CASE DaemonWaitClear \/ MainWait \/ SyncWait
  BY <1>1, <1>5 DEF DaemonWaitClear, MainWait, SyncWait, SemMemoryWait, Goto,
     TypeOK, names
<1>6. CASE DaemonPostClear \/ MainPost \/ SyncPost
  BY <1>1, <1>6 DEF DaemonPostClear, MainPost, SyncPost, SemMemoryPost, Goto,
     TypeOK, names
<1>7. CASE DaemonStart \/ MainEvent \/ SyncTop \/ SyncScan \/ SignalHandler
  BY <1>1, <1>7 DEF DaemonStart, MainEvent, SyncTop, SyncScan, SignalHandler,
     Goto, TypeOK, names
<1>8. CASE DaemonClose
  <2>1. /\ semName' = 0 /\ created' = created /\ created > 0
        /\ pc'[Main] = "unlink"
    BY <1>1, <1>2, <1>8 DEF DaemonClose, Goto, TypeOK
  <2>2. \A c \in Cgi : pc'[c] = pc[c] /\ sem'[c] = sem[c]
    BY <1>1, <1>8 DEF DaemonClose, Abandon, Goto, TypeOK
  <2> QED BY <2>1, <2>2
<1>9. CASE DaemonUnlink \/ SyncFault
  BY <1>1, <1>9 DEF DaemonUnlink, SyncFault, TypeOK, names
<1>10. CASE DaemonKilled
  BY <1>1, <1>10 DEF DaemonKilled, Abandon, TypeOK, names
<1> QED BY <1>3, <1>4, <1>5, <1>6, <1>7, <1>8, <1>9, <1>10 DEF DaemonStep

(* While the name of the first semaphore has not been unlinked, which the  *)
(* end of every request does, all threads exclude each other, unless       *)
(* PullMessages has posted it twice.                                       *)
THEOREM FirstSemaphoreExcludes == Spec => []ExclusionUntilUnlinked
<1>1. Init => FirstName
  BY CgiAssumption DEF Init, FirstName, Thread, Main, Sync
<1>2. IInv /\ FirstName /\ [Next]_vars => FirstName'
  <2> SUFFICES ASSUME IInv, FirstName, [Next]_vars PROVE FirstName'
    OBVIOUS
  <2>1. CASE UNCHANGED vars
    BY <2>1 DEF vars, FirstName
  <2> QED BY <2>1, CgiFirstName, DaemonFirstName DEF Next, IInv
<1>3. IInv /\ FirstName => ExclusionUntilUnlinked
  <2> SUFFICES ASSUME IInv, FirstName, semName = 1, extra[1] = 0
               PROVE  Cardinality({t \in Thread : pc[t] \in Holding}) <= 1
    BY DEF ExclusionUntilUnlinked
  <2>1. /\ created = 1 /\ 1 \in Semaphore /\ 1 \in 1..created
        /\ sem \in [Process -> 0..1]
    BY BoundsAssumption DEF IInv, FirstName, TypeOK, Semaphore
  <2>2. ASSUME NEW t \in Thread, pc[t] \in Holding
        PROVE  sem[ProcessOf(t)] = 1
    <3>1. ProcessOf(t) \in Process /\ sem[ProcessOf(t)] \in 0..1
      BY <2>1, HandleType DEF IInv
    <3>2. CASE t \in Cgi
      BY <2>2, <3>1, <3>2 DEF ProcessOf, FirstName, Holding
    <3>3. CASE t = Main
      BY <2>2, <3>1, <3>3, CgiAssumption DEF ProcessOf, FirstName, Holding, IInv,
         TypeOK, MainPC
    <3>4. CASE t = Sync
      BY <2>2, <3>1, <3>4, CgiAssumption DEF ProcessOf, FirstName, Holding, IInv,
         TypeOK, MainPC, LifeCycle
    <3> QED BY <3>2, <3>3, <3>4 DEF Thread
  <2>3. {t \in Thread : pc[t] \in Holding} = Holders(1)
    BY <2>2 DEF Holders
  <2>4. semValue[1] + Cardinality(Holders(1)) + lost[1] = 1 + extra[1]
    BY <2>1 DEF IInv, SemaphoreBalance
  <2>5. semValue[1] \in Nat /\ lost[1] \in Nat
    BY <2>1 DEF IInv, TypeOK
  <2>6. Cardinality(Holders(1)) \in Nat
    BY FiniteHolders
  <2>7. Cardinality(Holders(1)) <= 1
    BY <2>4, <2>5, <2>6
  <2> QED BY <2>3, <2>7, Zenon
<1> QED BY <1>1, <1>2, <1>3, InitInvariant, InvariantStep, PTL DEF Spec

-------------------------------------------------------------------------------
(* The name of the segment. *)

(* A CGI process leaves the daemon and the counters of deaths alone, and   *)
(* removes the name only where create_shared_memory fails.                 *)
LEMMA CgiName ==
  ASSUME TypeOK, NEW c \in Cgi,
         CgiStep(c) \/ CgiOpenFails(c) \/ CgiKilled(c)
  PROVE  /\ pc'[Main] = pc[Main]
         /\ seg'[Daemon] = seg[Daemon]
         /\ count'.kills >= count.kills /\ count'.faults = count.faults
         /\ \/ segName' = segName
            \/ segName' = 0 /\ count.failures < MaxFailures
<1>1. c # Main /\ c # Daemon /\ Main \in Thread /\ Daemon \in Process
  BY CgiAssumption DEF Thread, Process
<1>2. /\ count.kills \in Nat /\ count.faults \in Nat
      /\ count \in [starts : 0..MaxStarts, kills : 0..MaxKills,
                    failures : 0..MaxFailures, faults : Nat]
  BY BoundsAssumption DEF TypeOK
<1>3. CASE CgiStep(c)
  <2>1. count' = count /\ segName' = segName
    BY <1>3 DEF CgiStep, CgiShmOpen, CgiSemOpen, CgiWait, CgiPost,
                PullWaitLast, PullPostFirst, PullPostSecond, CgiClose,
                SemMemoryWait, SemMemoryPost, names
  <2>2. pc'[Main] = pc[Main]
    BY <1>1, <1>3 DEF CgiStep, CgiShmOpen, CgiSemOpen, CgiWait, CgiPost,
                PullWaitLast, PullPostFirst, PullPostSecond, CgiClose,
                SemMemoryWait, SemMemoryPost, Goto, TypeOK
  <2>3. seg'[Daemon] = seg[Daemon]
    BY <1>1, <1>3 DEF CgiStep, CgiShmOpen, CgiSemOpen, CgiWait, CgiPost,
                PullWaitLast, PullPostFirst, PullPostSecond, CgiClose,
                SemMemoryWait, SemMemoryPost, TypeOK
  <2> QED BY <1>2, <2>1, <2>2, <2>3
<1>4. CASE CgiOpenFails(c)
  BY <1>1, <1>2, <1>4 DEF CgiOpenFails, Goto, TypeOK
<1>5. CASE CgiKilled(c)
  BY <1>1, <1>2, <1>5 DEF CgiKilled, Abandon, Goto, TypeOK, names
<1> QED BY <1>3, <1>4, <1>5

(* Most steps of the daemon leave the name and the counters of deaths      *)
(* alone, and it is up or down as before.                                  *)
LEMMA DaemonName ==
  ASSUME TypeOK,
         DaemonStep \/ SignalHandler, ~DaemonShmOpen, ~DaemonUnlink
  PROVE  /\ pc'[Main] = "down" <=> pc[Main] = "down"
         /\ count' = count
         /\ segName' = segName
         /\ seg'[Daemon] = seg[Daemon] \/ pc'[Main] = "unlink"
         /\ pc[Main] = "unlink" => pc'[Main] = "unlink"
<1>1. /\ Main # Sync /\ Main \notin Cgi /\ Sync \notin Cgi
      /\ Main \in Thread /\ Sync \in Thread /\ Daemon \in Process
  BY CgiAssumption DEF Thread, Process, Main, Sync
<1>2. CASE DaemonSemOpen \/ DaemonWaitClear \/ DaemonPostClear \/ DaemonStart
           \/ MainEvent \/ MainWait \/ MainPost
  BY <1>1, <1>2 DEF DaemonSemOpen, DaemonWaitClear, DaemonPostClear,
     DaemonStart, MainEvent, MainWait, MainPost, SemMemoryWait, SemMemoryPost,
     Goto, TypeOK, names
<1>3. CASE DaemonClose
  BY <1>1, <1>3 DEF DaemonClose, Goto, TypeOK
<1>4. CASE SyncTop \/ SyncScan \/ SyncWait \/ SyncPost \/ SignalHandler
  BY <1>1, <1>4 DEF SyncTop, SyncScan, SyncWait, SyncPost, SignalHandler,
     SemMemoryWait, SemMemoryPost, Goto, TypeOK, names
<1> QED BY <1>2, <1>3, <1>4 DEF DaemonStep

(* The name of a segment outlives its daemon only after a kill or a fault  *)
(* of the daemon's own thread: every other way out of onvif_notify_server  *)
(* goes through the shm_unlink of destroy_shared_memory.                   *)
THEOREM NameOutlivesOnlyDeaths == Spec => []NameDiesWithDaemon
<1>1. Init => NameDiesWithDaemon
  BY DEF Init, NameDiesWithDaemon
<1>2. ASSUME IInv, NameDiesWithDaemon, [Next]_vars
      PROVE  NameDiesWithDaemon'
  <2> USE DEF NameDiesWithDaemon
  <2>1. /\ TypeOK
        /\ count.kills \in Nat /\ count.faults \in Nat
        /\ count \in [starts : 0..MaxStarts, kills : 0..MaxKills,
                      failures : 0..MaxFailures, faults : Nat]
    BY <1>2, BoundsAssumption DEF IInv, TypeOK
  <2>2. Main \in Thread /\ Main # Sync /\ Sync \in Thread
    BY CgiAssumption DEF Thread, Main, Sync
  <2>3. CASE UNCHANGED vars
    BY <1>2, <2>3 DEF vars, names
  <2>4. ASSUME NEW c \in Cgi, CgiStep(c) \/ CgiOpenFails(c) \/ CgiKilled(c)
        PROVE  NameDiesWithDaemon'
    <3>1. count'.kills \in Nat /\ count'.faults \in Nat
      BY <1>2, BoundsAssumption, InvariantStep DEF IInv, TypeOK
    <3> QED BY <1>2, <2>1, <2>4, <3>1, CgiName
  <2>5. CASE DaemonShmOpen
    BY <2>2, <2>1, <2>5 DEF DaemonShmOpen, Goto, TypeOK
  <2>6. CASE DaemonUnlink
    BY <2>6 DEF DaemonUnlink
  <2>7. CASE (DaemonStep \/ SignalHandler) /\ ~DaemonShmOpen /\ ~DaemonUnlink
    BY <1>2, <2>1, <2>7, DaemonName
  <2>8. CASE SyncFault \/ DaemonKilled
    BY <2>1, <2>8 DEF SyncFault, DaemonKilled
  <2> QED BY <1>2, <2>3, <2>4, <2>5, <2>6, <2>7, <2>8 DEF Next, DaemonStep
<1> QED BY <1>1, <1>2, InitInvariant, InvariantStep, PTL DEF Spec

(* Until a request fails inside create_shared_memory, the name leads every *)
(* request to the segment of the daemon that is up.                        *)
THEOREM OnlyFailuresHideDaemon == Spec => [](count.failures = 0 => DaemonReachable)
<1> DEFINE P == count.failures = 0 => DaemonReachable
<1>1. Init => P
  BY CgiAssumption DEF Init, DaemonReachable, Thread, Main, Sync
<1>2. ASSUME IInv, P, [Next]_vars
      PROVE  P'
  <2> USE DEF DaemonReachable
  <2>1. /\ TypeOK
        /\ count \in [starts : 0..MaxStarts, kills : 0..MaxKills,
                      failures : 0..MaxFailures, faults : Nat]
        /\ count.failures \in Nat
    BY <1>2, BoundsAssumption DEF IInv, TypeOK
  <2>2. /\ Main \in Thread /\ Main # Sync /\ Sync \in Thread
        /\ Daemon \in Process
    BY CgiAssumption DEF Thread, Process, Main, Sync
  <2>3. CASE UNCHANGED vars
    BY <1>2, <2>3 DEF vars
  <2>4. ASSUME NEW c \in Cgi, CgiStep(c) \/ CgiOpenFails(c) \/ CgiKilled(c)
        PROVE  P'
    <3>1. CASE CgiOpenFails(c)
      <4>1. count'.failures = count.failures + 1
        BY <2>1, <3>1 DEF CgiOpenFails
      <4> QED BY <2>1, <4>1
    <3>2. CASE CgiStep(c) \/ CgiKilled(c)
      <4>1. count'.failures = count.failures /\ segName' = segName
        BY <2>1, <3>2 DEF CgiKilled, CgiStep, CgiShmOpen, CgiSemOpen, CgiWait,
           CgiPost, PullWaitLast, PullPostFirst, PullPostSecond, CgiClose,
           SemMemoryWait, SemMemoryPost, names
      <4> QED BY <1>2, <2>1, <2>4, <4>1, CgiName
    <3> QED BY <2>4, <3>1, <3>2
  <2>5. CASE DaemonShmOpen
    BY <2>1, <2>2, <2>5 DEF DaemonShmOpen, TypeOK
  <2>6. CASE DaemonUnlink \/ SyncFault \/ DaemonKilled
    BY <2>1, <2>2, <2>6 DEF DaemonUnlink, SyncFault, DaemonKilled, TypeOK
  <2>7. CASE (DaemonStep \/ SignalHandler) /\ ~DaemonShmOpen /\ ~DaemonUnlink
    BY <1>2, <2>1, <2>7, DaemonName
  <2> QED BY <1>2, <2>3, <2>4, <2>5, <2>6, <2>7 DEF Next, DaemonStep
<1> HIDE DEF P
<1>3. Spec => []P
  BY <1>1, <1>2, InitInvariant, InvariantStep, PTL DEF Spec
<1> QED BY <1>3 DEF P

(* So where no request fails there, it always does. *)
THEOREM RequestsFindDaemon ==
  ASSUME MaxFailures = 0
  PROVE  Spec => []DaemonReachable
<1>1. IInv => count.failures = 0
  BY MaxFailures = 0 DEF IInv, TypeOK
<1>2. IInv /\ [Next]_vars => IInv'
  BY InvariantStep
<1> QED BY <1>1, <1>2, InitInvariant, OnlyFailuresHideDaemon, PTL DEF Spec

-------------------------------------------------------------------------------
(* Handles, and who waits for whom. *)

(* Who opened the segment has it mapped, and who opened the semaphore has  *)
(* it open, until it closes them.                                          *)
HandlesOpen ==
  /\ \A c \in Cgi : /\ pc[c] # "idle" => seg[c] # 0
                    /\ pc[c] \notin {"idle", "sem_open"} => sem[c] # 0
  /\ pc[Main] \notin {"down", "unlink"} => seg[Daemon] # 0
  /\ pc[Main] \notin {"down", "sem_open", "unlink"} => sem[Daemon] # 0

LEMMA OpenGives ==
  ASSUME TypeOK, NEW p \in Process, SemMemoryOpen(p)
  PROVE  sem'[p] # 0 /\ \A q \in Process \ {p} : sem'[q] = sem[q]
<1>1. created \in Nat
  BY BoundsAssumption DEF TypeOK
<1> QED BY <1>1 DEF TypeOK, SemMemoryOpen

LEMMA CgiHandles ==
  ASSUME TypeOK, HandlesOpen, NEW c \in Cgi,
         CgiStep(c) \/ CgiOpenFails(c) \/ CgiKilled(c)
  PROVE  HandlesOpen'
<1>1. /\ c \in Thread /\ c \in Process /\ c # Main /\ c # Daemon
      /\ Daemon \in Process /\ Main \in Thread
      /\ \A b \in Cgi : b \in Thread /\ b \in Process /\ b # Daemon
      /\ ProcessOf(c) = c
  BY CgiAssumption DEF Thread, Process, ProcessOf
<1> USE <1>1 DEF HandlesOpen, TypeOK, Goto
<1>2. CASE CgiShmOpen(c)
  BY <1>2 DEF CgiShmOpen
<1>3. CASE CgiSemOpen(c)
  BY <1>3, OpenGives DEF CgiSemOpen
<1>4. CASE CgiWait(c) \/ CgiPost(c) \/ PullWaitLast(c) \/ PullPostFirst(c)
           \/ PullPostSecond(c)
  <2>1. sem' = sem /\ seg' = seg /\ pc[c] \notin {"idle", "sem_open"}
    BY <1>4 DEF CgiWait, CgiPost, PullWaitLast, PullPostFirst, PullPostSecond,
                SemMemoryWait, SemMemoryPost
  <2>2. \E label : pc' = [pc EXCEPT ![c] = label]
    BY <1>4 DEF CgiWait, CgiPost, PullWaitLast, PullPostFirst, PullPostSecond,
                SemMemoryWait, SemMemoryPost
  <2> QED BY <2>1, <2>2
<1>5. CASE CgiClose(c)
  BY <1>5 DEF CgiClose
<1>6. CASE CgiOpenFails(c)
  BY <1>6 DEF CgiOpenFails
<1>7. CASE CgiKilled(c)
  BY <1>7 DEF CgiKilled, Abandon
<1> QED BY <1>2, <1>3, <1>4, <1>5, <1>6, <1>7 DEF CgiStep

LEMMA DaemonHandles ==
  ASSUME TypeOK, HandlesOpen,
         DaemonStep \/ SignalHandler \/ SyncFault \/ DaemonKilled
  PROVE  HandlesOpen'
<1>1. /\ Daemon \in Process /\ Main \in Thread /\ Sync \in Thread
      /\ Main # Sync /\ Main \notin Cgi /\ Sync \notin Cgi
      /\ \A b \in Cgi : b \in Thread /\ b \in Process /\ b # Daemon
  BY CgiAssumption DEF Thread, Process, Main, Sync
<1> USE <1>1 DEF HandlesOpen, TypeOK, Goto
<1>2. CASE DaemonShmOpen
  <2>1. count.starts \in Nat
    BY BoundsAssumption
  <2> QED BY <1>2, <2>1 DEF DaemonShmOpen
<1>3. CASE DaemonSemOpen
  BY <1>3, OpenGives DEF DaemonSemOpen
<1>4. CASE DaemonWaitClear \/ DaemonPostClear \/ DaemonStart \/ MainEvent
           \/ MainWait \/ MainPost
  BY <1>4 DEF DaemonWaitClear, DaemonPostClear, DaemonStart, MainEvent,
     MainWait, MainPost, SemMemoryWait, SemMemoryPost
<1>5. CASE DaemonClose
  BY <1>5 DEF DaemonClose, Abandon
<1>6. CASE DaemonUnlink \/ SyncFault
  BY <1>6 DEF DaemonUnlink, SyncFault
<1>7. CASE DaemonKilled
  BY <1>7 DEF DaemonKilled, Abandon
<1>8. CASE SyncTop \/ SyncScan \/ SyncWait \/ SyncPost \/ SignalHandler
  BY <1>8 DEF SyncTop, SyncScan, SyncWait, SyncPost, SignalHandler,
     SemMemoryWait, SemMemoryPost
<1> QED BY <1>2, <1>3, <1>4, <1>5, <1>6, <1>7, <1>8 DEF DaemonStep

LEMMA HandlesInvariant == Spec => [](IInv /\ HandlesOpen)
<1>1. Init => HandlesOpen
  BY CgiAssumption DEF Init, HandlesOpen, Thread, Main, Sync
<1>2. ASSUME IInv, HandlesOpen, [Next]_vars
      PROVE  HandlesOpen'
  <2>1. TypeOK
    BY <1>2 DEF IInv
  <2>2. CASE UNCHANGED vars
    BY <1>2, <2>2 DEF vars, HandlesOpen
  <2> QED BY <1>2, <2>1, <2>2, CgiHandles, DaemonHandles DEF Next
<1> QED BY <1>1, <1>2, InitInvariant, InvariantStep, PTL DEF Spec

Waiting == {"wait", "wait_last", "wait_clear"}

(* Whoever waits for the semaphore or works on the table has both open,    *)
(* but for the sync thread that the end of the daemon left running: it is  *)
(* the only one to use handles that are closed.                            *)
OnlySyncIsOrphan ==
  \A t \in Thread :
    /\ pc[t] \in Waiting \cup InTable
    /\ sem[ProcessOf(t)] = 0 \/ seg[ProcessOf(t)] = 0
    => t = Sync /\ pc[Main] = "unlink"

THEOREM HandlesAreOpen == Spec => []OnlySyncIsOrphan
<1>1. ASSUME IInv, HandlesOpen PROVE OnlySyncIsOrphan
  <2> SUFFICES ASSUME NEW t \in Thread, pc[t] \in Waiting \cup InTable,
                      t # Sync \/ pc[Main] # "unlink"
               PROVE  sem[ProcessOf(t)] # 0 /\ seg[ProcessOf(t)] # 0
    BY DEF OnlySyncIsOrphan
  <2> USE DEF Waiting, InTable, Holding
  <2>1. CASE t \in Cgi
    BY <1>1, <2>1 DEF HandlesOpen, ProcessOf
  <2>2. CASE t = Main
    BY <1>1, <2>2, CgiAssumption DEF HandlesOpen, ProcessOf
  <2>3. CASE t = Sync
    BY <1>1, <2>3, CgiAssumption DEF HandlesOpen, ProcessOf, IInv, LifeCycle
  <2> QED BY <2>1, <2>2, <2>3 DEF Thread
<1> QED BY <1>1, HandlesInvariant, PTL

(* A thread for which sem_wait does not return yet waits for a thread that *)
(* is inside and has that very semaphore open for its post, unless         *)
(* somebody died inside (the process killed or, for the daemon's threads,  *)
(* ended between wait and post): no path through the code takes the        *)
(* semaphore and goes on without it.                                       *)
WaitsForHolder ==
  \A t \in Thread :
    LET o == sem[ProcessOf(t)]
    IN /\ pc[t] \in Waiting /\ ~(t = Sync /\ pc[Main] = "unlink")
       /\ semValue[o] = 0 /\ lost[o] = 0
       => \E u \in Thread \ {t} : pc[u] \in Holding /\ sem[ProcessOf(u)] = o

THEOREM NobodyWaitsInVain == Spec => []WaitsForHolder
<1>1. ASSUME IInv, OnlySyncIsOrphan PROVE WaitsForHolder
  <2> SUFFICES ASSUME NEW t \in Thread, NEW o, o = sem[ProcessOf(t)],
                      pc[t] \in Waiting, ~(t = Sync /\ pc[Main] = "unlink"),
                      semValue[o] = 0, lost[o] = 0
               PROVE  \E u \in Thread \ {t} :
                         pc[u] \in Holding /\ sem[ProcessOf(u)] = o
    BY DEF WaitsForHolder
  <2>1. o \in 1..created /\ o \in Semaphore
    BY <1>1, HandleType DEF IInv, OnlySyncIsOrphan
  <2>2. extra[o] \in Nat /\ Cardinality(Holders(o)) = 1 + extra[o]
    BY <1>1, <2>1, FiniteHolders DEF IInv, TypeOK, SemaphoreBalance
  <2>5. Holders(o) # {}
    <3>1. Cardinality(Holders(o)) # 0
      BY <2>2
    <3> QED BY <3>1, FS_EmptySet
  <2>3. PICK u \in Holders(o) : TRUE
    BY <2>5
  <2>4. u # t
    BY <2>3 DEF Holders, Holding, Waiting
  <2> QED BY <2>3, <2>4 DEF Holders
<1> QED BY <1>1, HandlesInvariant, HandlesAreOpen, PTL

===============================================================================
