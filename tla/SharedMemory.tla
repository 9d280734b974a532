----------------------------- MODULE SharedMemory -----------------------------
(***************************************************************************)
(* The segment "/onvif_subscription" and the semaphore "/sub_mem_lock"     *)
(* through which the CGI processes of the events service and the notify    *)
(* daemon share the subscription table (src/Cross/utils.c).                *)
(*                                                                         *)
(* Both are NAMED objects: a name refers to an object until somebody       *)
(* unlinks it, a process keeps the object it opened, and the next open     *)
(* after an unlink creates another object.  Who excludes whom therefore    *)
(* depends on which object each process has open, and that is what this    *)
(* module is about; the content of the table is in Subscriptions.          *)
(*                                                                         *)
(* Threads: one per CGI request, plus the daemon's main thread and its     *)
(* sync_events_thread, which share the daemon's two handles.               *)
(***************************************************************************)
EXTENDS Naturals, FiniteSets

CONSTANTS
  Cgi,            (* the CGI processes alive at the same time               *)
  Ops,            (* the kinds of request the CGI processes serve           *)
  MaxSemaphores,  (* bound: semaphore objects created in a behaviour        *)
  MaxStarts,      (* bound: starts of the daemon                            *)
  MaxKills,       (* bound: processes killed from outside                   *)
  MaxFailures     (* bound: system calls failing in create_shared_memory    *)

Main == "main"
Sync == "sync"
Daemon == "daemon"

ASSUME CgiAssumption ==
  /\ IsFiniteSet(Cgi)
  /\ Main \notin Cgi
  /\ Sync \notin Cgi
  /\ Daemon \notin Cgi

ASSUME BoundsAssumption ==
  /\ MaxSemaphores \in Nat
  /\ MaxStarts \in Nat
  /\ MaxKills \in Nat
  /\ MaxFailures \in Nat
  /\ Ops \subseteq {"update", "pull"}

Thread == Cgi \cup {Main, Sync}
Process == Cgi \cup {Daemon}
Semaphore == 1..MaxSemaphores

(* The process whose handles a thread uses. *)
ProcessOf(t) == IF t \in Cgi THEN t ELSE Daemon

VARIABLES
  semName,   (* the semaphore the name refers to, 0 if none                 *)
  semValue,  (* value of every semaphore                                    *)
  created,   (* semaphores 1..created exist, or did                         *)
  segName,   (* the segment the name refers to, 0 if none                   *)
  sem,       (* the semaphore each process has open, 0 if none              *)
  seg,       (* the segment each process has mapped, 0 if none              *)
  pc,        (* where each thread is                                        *)
  op,        (* the kind of request a CGI process serves                    *)
  exit_main, (* the daemon's flag, set by its signal handler                *)
  count,     (* starts, kills, failures and faults so far                   *)
  lost,      (* per semaphore: waits whose post will never come             *)
  extra      (* per semaphore: posts without a wait                         *)

vars == <<semName, semValue, created, segName, sem, seg, pc, op, exit_main,
          count, lost, extra>>

names == <<semName, segName, created>>
ghosts == <<lost, extra>>

(* Where a thread holds its semaphore; where it reads or writes the table. *)
Holding == {"clear", "critical", "pass1"}
InTable == Holding \cup {"pass2"}

Holders(o) == {t \in Thread : pc[t] \in Holding /\ sem[ProcessOf(t)] = o}

CgiPC == {"idle", "sem_open", "wait", "critical", "wait_last", "pass1",
          "pass2", "close"}
MainPC == {"down", "sem_open", "wait_clear", "clear", "start", "run", "wait",
           "critical", "unlink"}
SyncPC == {"off", "top", "scan", "wait", "critical"}

TypeOK ==
  /\ created \in 0..MaxSemaphores
  /\ semValue \in [Semaphore -> Nat]
  /\ semName \in 0..created
  /\ sem \in [Process -> 0..created]
  /\ segName \in 0..count.starts
  /\ seg \in [Process -> 0..count.starts]
  /\ pc \in [Thread -> CgiPC \cup MainPC \cup SyncPC]
  /\ \A c \in Cgi : pc[c] \in CgiPC
  /\ pc[Main] \in MainPC
  /\ pc[Sync] \in SyncPC
  /\ op \in [Cgi -> {"update", "pull"}]
  /\ exit_main \in BOOLEAN
  /\ count \in [starts : 0..MaxStarts, kills : 0..MaxKills,
                failures : 0..MaxFailures, faults : Nat]
  /\ lost \in [Semaphore -> Nat]
  /\ extra \in [Semaphore -> Nat]

Init ==
  /\ semName = 0
  /\ semValue = [o \in Semaphore |-> 0]
  /\ created = 0
  /\ segName = 0
  /\ sem = [p \in Process |-> 0]
  /\ seg = [p \in Process |-> 0]
  /\ pc = [t \in Thread |-> IF t \in Cgi THEN "idle"
                            ELSE IF t = Main THEN "down" ELSE "off"]
  /\ op = [c \in Cgi |-> "update"]
  /\ exit_main = FALSE
  /\ count = [starts |-> 0, kills |-> 0, failures |-> 0, faults |-> 0]
  /\ lost = [o \in Semaphore |-> 0]
  /\ extra = [o \in Semaphore |-> 0]

-------------------------------------------------------------------------------
(* The semaphore operations every thread goes through. *)

Goto(t, label) == pc' = [pc EXCEPT ![t] = label]

(* Mutant: the semaphore starts with room for two. *)
SemMemoryOpenTwo(p) ==
  \/ /\ semName # 0
     /\ sem' = [sem EXCEPT ![p] = semName]
     /\ UNCHANGED <<semName, semValue, created>>
  \/ /\ semName = 0
     /\ created < MaxSemaphores
     /\ created' = created + 1
     /\ semName' = created + 1
     /\ semValue' = [semValue EXCEPT ![created + 1] = 2]
     /\ sem' = [sem EXCEPT ![p] = created + 1]

(* sem_memory_open: sem_open(MEM_LOCK_FILE, O_CREAT, ..., 1) returns the   *)
(* object the name refers to, or creates one of value 1.                   *)
SemMemoryOpen(p) ==
  \/ /\ semName # 0
     /\ sem' = [sem EXCEPT ![p] = semName]
     /\ UNCHANGED <<semName, semValue, created>>
  \/ /\ semName = 0
     /\ created < MaxSemaphores
     /\ created' = created + 1
     /\ semName' = created + 1
     /\ semValue' = [semValue EXCEPT ![created + 1] = 1]
     /\ sem' = [sem EXCEPT ![p] = created + 1]

(* Mutant: the wait does not wait. *)
SemMemoryWaitNot(t, from, to) ==
  /\ pc[t] = from
  /\ sem[ProcessOf(t)] # 0
  /\ semValue' = [semValue EXCEPT ![sem[ProcessOf(t)]] = @ - 1]
  /\ Goto(t, to)
  /\ UNCHANGED <<names, sem, seg, op, exit_main, count, ghosts>>

(* sem_memory_wait *)
SemMemoryWait(t, from, to) ==
  LET o == sem[ProcessOf(t)]
  IN /\ pc[t] = from
     /\ o # 0
     /\ semValue[o] > 0
     /\ semValue' = [semValue EXCEPT ![o] = @ - 1]
     /\ Goto(t, to)
     /\ UNCHANGED <<names, sem, seg, op, exit_main, count, ghosts>>

(* Mutant: one post too many. *)
SemMemoryPostTwice(t, from, to) ==
  /\ pc[t] = from
  /\ sem[ProcessOf(t)] # 0
  /\ semValue' = [semValue EXCEPT ![sem[ProcessOf(t)]] = @ + 2]
  /\ Goto(t, to)
  /\ UNCHANGED <<names, sem, seg, op, exit_main, count, ghosts>>

(* sem_memory_post: the counterpart of an earlier wait. *)
SemMemoryPost(t, from, to) ==
  LET o == sem[ProcessOf(t)]
  IN /\ pc[t] = from
     /\ o # 0
     /\ semValue' = [semValue EXCEPT ![o] = @ + 1]
     /\ Goto(t, to)
     /\ UNCHANGED <<names, sem, seg, op, exit_main, count, ghosts>>

(* A process ends: its handles go, a semaphore it holds is never posted.   *)
(* The names outlive it.                                                   *)
Abandon(p, threads) ==
  /\ lost' = [o \in Semaphore |->
                lost[o] + Cardinality(Holders(o) \cap threads)]
  /\ sem' = [sem EXCEPT ![p] = 0]
  /\ seg' = [seg EXCEPT ![p] = 0]

-------------------------------------------------------------------------------
(* A CGI process of the events service serves one request. *)

(* create_shared_memory(0): without a segment of that name the request is  *)
(* answered with a fault and nothing changes, so only the other case is a  *)
(* step.                                                                   *)
CgiShmOpen(c) ==
  /\ pc[c] = "idle"
  /\ segName # 0
  /\ seg' = [seg EXCEPT ![c] = segName]
  /\ op' \in {[op EXCEPT ![c] = o] : o \in Ops}
  /\ Goto(c, "sem_open")
  /\ UNCHANGED <<names, semValue, sem, exit_main, count, ghosts>>

CgiSemOpen(c) ==
  /\ pc[c] = "sem_open"
  /\ SemMemoryOpen(c)
  /\ Goto(c, "wait")
  /\ UNCHANGED <<segName, seg, op, exit_main, count, ghosts>>

(* ftruncate, mmap or sem_open fails: the error paths of                   *)
(* create_shared_memory remove the name of the segment, also in a process  *)
(* that did not create it.                                                 *)
CgiOpenFails(c) ==
  /\ pc[c] = "sem_open"
  /\ count.failures < MaxFailures
  /\ count' = [count EXCEPT !.failures = @ + 1]
  /\ segName' = 0
  /\ seg' = [seg EXCEPT ![c] = 0]
  /\ Goto(c, "idle")
  /\ UNCHANGED <<semName, created, semValue, sem, op, exit_main, ghosts>>

CgiWait(c) == SemMemoryWait(c, "wait", "critical")

(* Mutant: an early return without the post. *)
CgiPostForgotten(c) ==
  /\ pc[c] = "critical"
  /\ sem[c] # 0
  /\ Goto(c, "close")
  /\ UNCHANGED <<names, semValue, sem, seg, op, exit_main, count, ghosts>>

(* The end of a critical section.  Every operation but PullMessages has    *)
(* one; PullMessages has one for the check of the slot, one per poll of    *)
(* the pull_notify bits and the last one, and may give up after the first. *)
CgiPost(c) ==
  \/ SemMemoryPost(c, "critical", "close")
  \/ /\ op[c] = "pull"
     /\ \/ SemMemoryPost(c, "critical", "wait")
        \/ SemMemoryPost(c, "critical", "wait_last")

(* events_pull_messages computes the length of the answer in a first pass  *)
(* and prints it in a second one; sem_memory_post is inside the loop over  *)
(* the passes, so the second pass runs without the semaphore ...           *)
PullWaitLast(c) == SemMemoryWait(c, "wait_last", "pass1")
PullPostFirst(c) == SemMemoryPost(c, "pass1", "pass2")

(* ... and posts it once more.                                             *)
PullPostSecond(c) ==
  /\ pc[c] = "pass2"
  /\ semValue' = [semValue EXCEPT ![sem[c]] = @ + 1]
  /\ extra' = [extra EXCEPT ![sem[c]] = @ + 1]
  /\ Goto(c, "close")
  /\ UNCHANGED <<names, sem, seg, op, exit_main, count, lost>>

(* Mutant: destroy_all = 1. *)
CgiCloseAll(c) ==
  /\ pc[c] = "close"
  /\ semName' = 0
  /\ segName' = 0
  /\ sem' = [sem EXCEPT ![c] = 0]
  /\ seg' = [seg EXCEPT ![c] = 0]
  /\ Goto(c, "idle")
  /\ UNCHANGED <<semValue, created, op, exit_main, count, ghosts>>

(* destroy_shared_memory(..., 0): sem_memory_close also unlinks the name   *)
(* of the semaphore, whichever object it refers to by now.                 *)
CgiClose(c) ==
  /\ pc[c] = "close"
  /\ semName' = 0
  /\ sem' = [sem EXCEPT ![c] = 0]
  /\ seg' = [seg EXCEPT ![c] = 0]
  /\ Goto(c, "idle")
  /\ UNCHANGED <<semValue, created, segName, op, exit_main, count, ghosts>>

(* The process is killed, for instance by the web server's time limit. *)
CgiKilled(c) ==
  /\ pc[c] # "idle"
  /\ count.kills < MaxKills
  /\ count' = [count EXCEPT !.kills = @ + 1]
  /\ Abandon(c, {c})
  /\ Goto(c, "idle")
  /\ UNCHANGED <<names, semValue, op, exit_main, extra>>

-------------------------------------------------------------------------------
(* The daemon. *)

(* create_shared_memory(1): O_EXCL, so a name that is left over stops the  *)
(* start (the daemon exits and nothing of this module changes).            *)
DaemonShmOpen ==
  /\ pc[Main] = "down"
  /\ segName = 0
  /\ count.starts < MaxStarts
  /\ count' = [count EXCEPT !.starts = @ + 1]
  /\ segName' = count.starts + 1
  /\ seg' = [seg EXCEPT ![Daemon] = count.starts + 1]
  /\ exit_main' = FALSE
  /\ Goto(Main, "sem_open")
  /\ UNCHANGED <<semName, created, semValue, sem, op, ghosts>>

DaemonSemOpen ==
  /\ pc[Main] = "sem_open"
  /\ SemMemoryOpen(Daemon)
  /\ Goto(Main, "wait_clear")
  /\ UNCHANGED <<segName, seg, op, exit_main, count, ghosts>>

(* The memset of the whole segment; then, if inotify can be set up, the    *)
(* sync thread is created.                                                 *)
DaemonWaitClear == SemMemoryWait(Main, "wait_clear", "clear")

DaemonPostClear == SemMemoryPost(Main, "clear", "start")

DaemonStart ==
  /\ pc[Main] = "start"
  /\ pc' = [pc EXCEPT ![Main] = "run", ![Sync] = "top"]
  /\ UNCHANGED <<names, semValue, sem, seg, op, exit_main, count, ghosts>>

(* One event of handle_events: table and notifications under the semaphore *)
MainWait == SemMemoryWait(Main, "wait", "critical")
MainPost == SemMemoryPost(Main, "critical", "run")

MainEvent ==
  /\ pc[Main] = "run"
  /\ Goto(Main, "wait")
  /\ UNCHANGED <<names, semValue, sem, seg, op, exit_main, count, ghosts>>

(* signal_handler on SIGTERM or SIGINT *)
SignalHandler ==
  /\ pc[Main] \notin {"down", "unlink"}
  /\ ~exit_main
  /\ exit_main' = TRUE
  /\ UNCHANGED <<names, semValue, sem, seg, pc, op, count, ghosts>>

(* destroy_shared_memory(..., 1), up to the munmap, at the end of the main *)
(* loop or when inotify cannot be set up.  Nothing stops or                *)
(* joins the detached sync thread: if it is inside a critical section its  *)
(* post will not come, and it goes on with handles that are gone.          *)
DaemonClose ==
  /\ \/ pc[Main] = "run" /\ exit_main
     \/ pc[Main] = "start"
  /\ semName' = 0
  /\ Abandon(Daemon, {Main, Sync})
  /\ Goto(Main, "unlink")
  /\ UNCHANGED <<semValue, created, segName, op, exit_main, count, extra>>

(* Mutant: destroy_all = 0. *)
DaemonUnlinkNot ==
  /\ pc[Main] = "unlink"
  /\ pc' = [pc EXCEPT ![Main] = "down", ![Sync] = "off"]
  /\ UNCHANGED <<names, semValue, sem, seg, op, exit_main, count, ghosts>>

(* shm_unlink, and the process exits with its thread. *)
DaemonUnlink ==
  /\ pc[Main] = "unlink"
  /\ segName' = 0
  /\ pc' = [pc EXCEPT ![Main] = "down", ![Sync] = "off"]
  /\ UNCHANGED <<semName, created, semValue, sem, seg, op, exit_main, count,
                 ghosts>>

(* sync_events_thread: the test of exit_main at the top of the loop, the   *)
(* scan of need_sync outside the semaphore, and its critical sections (one *)
(* per slot that needs a sync, one for clean_expired_subscriptions).       *)
SyncTop ==
  /\ pc[Sync] = "top"
  /\ Goto(Sync, IF exit_main THEN "off" ELSE "scan")
  /\ UNCHANGED <<names, semValue, sem, seg, op, exit_main, count, ghosts>>

SyncScan ==
  /\ pc[Sync] = "scan"
  /\ seg[Daemon] # 0
  /\ Goto(Sync, "wait")
  /\ UNCHANGED <<names, semValue, sem, seg, op, exit_main, count, ghosts>>

SyncWait == SemMemoryWait(Sync, "wait", "critical")
SyncPost == SemMemoryPost(Sync, "critical", "scan")
            \/ SemMemoryPost(Sync, "critical", "top")

(* The thread touches the segment or the semaphore after DaemonClose: the  *)
(* whole process dies before its shm_unlink.                               *)
SyncFault ==
  /\ pc[Main] = "unlink"
  /\ pc[Sync] \in {"scan", "wait", "critical"}
  /\ pc' = [pc EXCEPT ![Main] = "down", ![Sync] = "off"]
  /\ count' = [count EXCEPT !.faults = @ + 1]
  /\ UNCHANGED <<names, semValue, sem, seg, op, exit_main, ghosts>>

DaemonKilled ==
  /\ pc[Main] # "down"
  /\ count.kills < MaxKills
  /\ count' = [count EXCEPT !.kills = @ + 1]
  /\ Abandon(Daemon, {Main, Sync})
  /\ pc' = [pc EXCEPT ![Main] = "down", ![Sync] = "off"]
  /\ UNCHANGED <<names, semValue, op, exit_main, extra>>

-------------------------------------------------------------------------------

CgiStep(c) ==
  \/ CgiShmOpen(c) \/ CgiSemOpen(c) \/ CgiWait(c) \/ CgiPost(c)
  \/ PullWaitLast(c) \/ PullPostFirst(c) \/ PullPostSecond(c) \/ CgiClose(c)

DaemonStep ==
  \/ DaemonShmOpen \/ DaemonSemOpen \/ DaemonWaitClear \/ DaemonPostClear
  \/ DaemonStart
  \/ MainEvent \/ MainWait \/ MainPost \/ DaemonClose \/ DaemonUnlink
  \/ SyncTop \/ SyncScan \/ SyncWait \/ SyncPost

Next ==
  \/ \E c \in Cgi : CgiStep(c) \/ CgiOpenFails(c) \/ CgiKilled(c)
  \/ DaemonStep
  \/ SignalHandler \/ SyncFault \/ DaemonKilled

Spec == Init /\ [][Next]_vars

(* A process that can run runs; a thread that sem_wait could let through   *)
(* again and again is let through (sem_post wakes a waiter).  Requests,    *)
(* events, signals, kills and failures are the environment's: no fairness. *)
Fairness ==
  /\ \A c \in Cgi :
       /\ WF_vars(CgiSemOpen(c) \/ CgiPost(c) \/ PullPostFirst(c)
                  \/ PullPostSecond(c) \/ CgiClose(c))
       /\ SF_vars(CgiWait(c) \/ PullWaitLast(c))
  /\ WF_vars(DaemonSemOpen \/ DaemonPostClear \/ DaemonStart \/ MainPost)
  /\ SF_vars(DaemonWaitClear \/ MainWait)
  /\ WF_vars(SyncTop \/ SyncScan \/ SyncPost)
  /\ SF_vars(SyncWait)

FairSpec == Spec /\ Fairness

-------------------------------------------------------------------------------
(* Properties. *)

(* The books of every semaphore balance: its value, the threads that hold  *)
(* it and the holders that died make up 1 plus what PullMessages posted in *)
(* excess (sem_memory_wait/post over all code paths).                      *)
SemaphoreBalance ==
  \A o \in 1..created :
    semValue[o] + Cardinality(Holders(o)) + lost[o] = 1 + extra[o]

(* Semaphores that do not exist yet have no history. *)
FreshUntouched ==
  \A o \in Semaphore : o > created => lost[o] = 0 /\ extra[o] = 0

(* The sync thread lives between the daemon's start and its end; the       *)
(* daemon has no semaphore before it opened one and after it closed it.    *)
LifeCycle ==
  /\ pc[Main] \in {"down", "sem_open", "wait_clear", "clear", "start"}
       => pc[Sync] = "off"
  /\ pc[Main] \in {"down", "sem_open", "unlink"} => sem[Daemon] = 0

(* The inductive invariant behind SemaphoreBalance and SameObjectExcludes. *)
IInv == TypeOK /\ FreshUntouched /\ LifeCycle /\ SemaphoreBalance

(* Two threads that work on the table under the SAME semaphore object      *)
(* exclude each other, as long as no PullMessages has posted that object   *)
(* twice.                                                                  *)
SameObjectExcludes ==
  \A t, u \in Thread :
    /\ t # u
    /\ pc[t] \in Holding
    /\ pc[u] \in Holding
    /\ sem[ProcessOf(t)] # 0
    /\ sem[ProcessOf(t)] = sem[ProcessOf(u)]
    => extra[sem[ProcessOf(t)]] > 0

(* As long as the name of the first semaphore has not been unlinked every  *)
(* process has that one open, so all threads exclude each other.           *)
ExclusionUntilUnlinked ==
  semName = 1 /\ extra[1] = 0 =>
    Cardinality({t \in Thread : pc[t] \in Holding}) <= 1

(* What the comments "Semaphore is already ok" of sync_events and          *)
(* clean_expired_subscriptions take for granted: while the sync thread     *)
(* works on the table under the semaphore, no CGI process is inside a      *)
(* critical section on the same segment.                                   *)
SyncExcludesCgi ==
  \A c \in Cgi :
    pc[c] \in Holding /\ seg[c] = seg[Daemon] => pc[Sync] # "critical"

(* A daemon that is up is found by the next request: the name refers to    *)
(* the daemon's segment from its creation until its own shutdown.          *)
DaemonReachable ==
  pc[Main] # "down" => segName = seg[Daemon] \/ pc[Main] = "unlink"

(* A segment's name survives its daemon only after a death the daemon did  *)
(* not see coming (a kill, or its own thread running into the munmap).     *)
NameDiesWithDaemon ==
  pc[Main] = "down" /\ segName # 0 => count.kills + count.faults > 0

(* Every request that waits for the semaphore gets it, unless the daemon   *)
(* is told to stop meanwhile: no path through a critical section forgets   *)
(* its post.                                                               *)
EveryWaitEnds ==
  \A c \in Cgi : pc[c] \in {"wait", "wait_last"}
                   ~> pc[c] \in InTable \/ exit_main

===============================================================================
