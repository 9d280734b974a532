-------------------------- MODULE NotifyDaemonProofs --------------------------
(***************************************************************************)
(* However many instances are started, however their starts and ends       *)
(* overlap and whichever of them fail or are killed: one serves at a time, *)
(* and its segment and (if starts do not overlap) its pid file are its own.*)
(*                                                                         *)
(* The invariant follows an instance from the pid file on: O_EXCL alone    *)
(* makes SegmentOfServer inductive, and then the last part says why        *)
(* check_pid keeps later instances away from the pid file.                 *)
(***************************************************************************)
EXTENDS NotifyDaemon, TLAPS

LEMMA InitInvariant == Init => IInv
<1> SUFFICES ASSUME Init PROVE IInv
  OBVIOUS
<1> USE DEF Init
<1>1. TypeOK
  <2>1. count \in [failures : 0..MaxFailures, kills : 0..MaxKills, changes : Nat]
    BY DaemonAssumption
  <2> QED BY <2>1 DEF TypeOK
<1>2. SegmentOfServer /\ SegmentIsServed
  BY DEF SegmentOfServer, SegmentIsServed, Serving, Owning
<1>3. PidFileOfStarter
  BY DEF PidFileOfStarter, Starting, Serving, Owning
<1> QED BY <1>1, <1>2, <1>3 DEF IInv

-------------------------------------------------------------------------------
(* One fact per part of the invariant: every step keeps it. *)

LEMMA DaemonTypeStep == TypeOK /\ Next => TypeOK'
<1> SUFFICES ASSUME TypeOK, Next PROVE TypeOK'
  OBVIOUS
<1> USE DaemonAssumption DEF TypeOK, Goto, Starting, Serving, UnlinkPid,
                             UnlinkSegment
<1>1. ASSUME NEW i \in Instances, Start(i) \/ CheckPid(i) \/ CreatePid(i) \/ WritePid(i)
      PROVE  TypeOK'
  BY <1>1 DEF Start, CheckPid, CreatePid, WritePid, pidVars, segVars
<1>2. ASSUME NEW i \in Instances, ConfFails(i) \/ InotifyFails(i) \/ Killed(i)
      PROVE  TypeOK'
  BY <1>2 DEF ConfFails, InotifyFails, Killed, pidVars, segVars
<1>3. ASSUME NEW i \in Instances,
             CreateSegment(i) \/ SegmentExists(i) \/ ClearSegment(i) \/ AddWatch(i)
      PROVE  TypeOK'
  BY <1>3 DEF CreateSegment, SegmentExists, ClearSegment, AddWatch, pidVars, segVars
<1>4. ASSUME NEW i \in Instances,
             TestExit(i) \/ EnterPoll(i) \/ Poll(i) \/ HandleEvents(i) \/ Signal(i)
      PROVE  TypeOK'
  BY <1>4 DEF TestExit, EnterPoll, Poll, HandleEvents, Signal, pidVars, segVars
<1>5. ASSUME NEW i \in Instances, Close(i) \/ Exit(i)
      PROVE  TypeOK'
  BY <1>5 DEF Close, Exit, pidVars, segVars
<1>6. CASE FilesChange
  <2>1. count' \in [failures : 0..MaxFailures, kills : 0..MaxKills, changes : Nat]
    BY <1>6 DEF FilesChange
  <2>2. pending' \in [Instances -> BOOLEAN]
    BY <1>6 DEF FilesChange
  <2> QED BY <1>6, <2>1, <2>2 DEF FilesChange, pidVars, segVars
<1>7. CASE Subscribe
  BY <1>7 DEF Subscribe, pidVars
<1> HIDE DEF TypeOK
<1> QED BY <1>1, <1>2, <1>3, <1>4, <1>5, <1>6, <1>7 DEF Next, Step

(* Who takes the segment finds none, so nobody served; who gives it up     *)
(* was the only one who served.                                            *)
LEMMA SegmentStep == IInv /\ Next => SegmentOfServer' /\ SegmentIsServed'
<1> SUFFICES ASSUME IInv, Next PROVE SegmentOfServer' /\ SegmentIsServed'
  OBVIOUS
<1> USE DaemonAssumption DEF IInv, TypeOK, SegmentOfServer, SegmentIsServed,
                             Goto, Serving, Owning, Starting
<1>1. ASSUME NEW i \in Instances, Start(i) \/ CheckPid(i) \/ CreatePid(i) \/ WritePid(i)
      PROVE  SegmentOfServer' /\ SegmentIsServed'
  BY <1>1 DEF Start, CheckPid, CreatePid, WritePid, segVars
<1>2. ASSUME NEW i \in Instances, ConfFails(i) \/ InotifyFails(i)
      PROVE  SegmentOfServer' /\ SegmentIsServed'
  BY <1>2 DEF ConfFails, InotifyFails, segVars
<1>3. ASSUME NEW i \in Instances, Killed(i)
      PROVE  SegmentOfServer' /\ SegmentIsServed'
  BY <1>3 DEF Killed, segVars
<1>4. ASSUME NEW i \in Instances, CreateSegment(i)
      PROVE  SegmentOfServer' /\ SegmentIsServed'
  BY <1>4 DEF CreateSegment
<1>5. ASSUME NEW i \in Instances, SegmentExists(i) \/ ClearSegment(i) \/ AddWatch(i)
      PROVE  SegmentOfServer' /\ SegmentIsServed'
  <2>1. CASE SegmentExists(i)
    BY <2>1 DEF SegmentExists, segVars
  <2>2. CASE ClearSegment(i)
    BY <2>2 DEF ClearSegment
  <2>3. CASE AddWatch(i)
    BY <2>3 DEF AddWatch, segVars
  <2> QED BY <1>5, <2>1, <2>2, <2>3
<1>6. ASSUME NEW i \in Instances,
             TestExit(i) \/ EnterPoll(i) \/ Poll(i) \/ HandleEvents(i) \/ Signal(i)
      PROVE  SegmentOfServer' /\ SegmentIsServed'
  BY <1>6 DEF TestExit, EnterPoll, Poll, HandleEvents, Signal, segVars
<1>7. ASSUME NEW i \in Instances, Close(i)
      PROVE  SegmentOfServer' /\ SegmentIsServed'
  BY <1>7 DEF Close, UnlinkSegment
<1>8. ASSUME NEW i \in Instances, Exit(i)
      PROVE  SegmentOfServer' /\ SegmentIsServed'
  BY <1>8 DEF Exit, segVars
<1>9. CASE FilesChange \/ Subscribe
  BY <1>9 DEF FilesChange, Subscribe, segVars
<1> HIDE DEF IInv, SegmentOfServer, SegmentIsServed
<1> QED BY <1>1, <1>2, <1>3, <1>4, <1>5, <1>6, <1>7, <1>8, <1>9 DEF Next, Step

(* As long as starts do not overlap, an instance gets past check_pid only  *)
(* when no other one owns the pid file.                                    *)
LEMMA PidFileStep == IInv /\ Next => PidFileOfStarter'
<1> SUFFICES ASSUME IInv, Next PROVE PidFileOfStarter'
  OBVIOUS
<1> USE DaemonAssumption DEF IInv, TypeOK, PidFileOfStarter,
                             Goto, Serving, Owning, Starting
<1>1. ASSUME NEW i \in Instances, Start(i)
      PROVE  PidFileOfStarter'
  <2> HIDE DEF TypeOK, Starting
  <2>1. ~raced' => ~raced /\ \A j \in Instances : pc[j] \notin Starting
    BY <1>1, Zenon DEF Start
  <2> USE DEF TypeOK, Starting
  <2> QED BY <1>1, <2>1 DEF Start, pidVars
<1>2. ASSUME NEW i \in Instances, CheckPid(i)
      PROVE  PidFileOfStarter'
  BY <1>2 DEF CheckPid, pidVars, Alive
<1>3. ASSUME NEW i \in Instances, CreatePid(i)
      PROVE  PidFileOfStarter'
  BY <1>3 DEF CreatePid
<1>4. ASSUME NEW i \in Instances, WritePid(i)
      PROVE  PidFileOfStarter'
  BY <1>4 DEF WritePid
<1>5. ASSUME NEW i \in Instances, ConfFails(i) \/ InotifyFails(i) \/ Killed(i)
      PROVE  PidFileOfStarter'
  BY <1>5 DEF ConfFails, InotifyFails, Killed, pidVars
<1>6. ASSUME NEW i \in Instances, CreateSegment(i) \/ ClearSegment(i) \/ AddWatch(i)
      PROVE  PidFileOfStarter'
  <2>1. CASE CreateSegment(i)
    BY <2>1 DEF CreateSegment, pidVars
  <2>2. CASE ClearSegment(i)
    BY <2>2 DEF ClearSegment, pidVars
  <2>3. CASE AddWatch(i)
    BY <2>3 DEF AddWatch, pidVars
  <2> QED BY <1>6, <2>1, <2>2, <2>3
<1>7. ASSUME NEW i \in Instances, SegmentExists(i)
      PROVE  PidFileOfStarter'
  BY <1>7 DEF SegmentExists, UnlinkPid
<1>8. ASSUME NEW i \in Instances,
             TestExit(i) \/ EnterPoll(i) \/ Poll(i) \/ HandleEvents(i) \/ Signal(i)
      PROVE  PidFileOfStarter'
  BY <1>8 DEF TestExit, EnterPoll, Poll, HandleEvents, Signal, pidVars
<1>9. ASSUME NEW i \in Instances, Close(i)
      PROVE  PidFileOfStarter'
  BY <1>9 DEF Close, pidVars
<1>10. ASSUME NEW i \in Instances, Exit(i)
       PROVE  PidFileOfStarter'
  BY <1>10 DEF Exit, UnlinkPid
<1>11. CASE FilesChange \/ Subscribe
  BY <1>11 DEF FilesChange, Subscribe, pidVars
<1> HIDE DEF IInv, PidFileOfStarter
<1> QED BY <1>1, <1>2, <1>3, <1>4, <1>5, <1>6, <1>7, <1>8, <1>9, <1>10, <1>11
        DEF Next, Step

LEMMA Invariant == Spec => []IInv
<1>1. IInv /\ [Next]_vars => IInv'
  <2> SUFFICES ASSUME IInv, [Next]_vars PROVE IInv'
    OBVIOUS
  <2>1. CASE Next
    BY <2>1, DaemonTypeStep, SegmentStep, PidFileStep DEF IInv
  <2>2. CASE UNCHANGED vars
    BY <2>2 DEF vars, pidVars, segVars, IInv, TypeOK, SegmentOfServer,
                SegmentIsServed, PidFileOfStarter
  <2> QED BY <2>1, <2>2
<1> QED BY <1>1, InitInvariant, PTL DEF Spec

-------------------------------------------------------------------------------
(* The pid file, the segment and the places of the instances keep their    *)
(* types.                                                                  *)
THEOREM TypeCorrect == Spec => []TypeOK
<1>1. IInv => TypeOK
  BY DEF IInv
<1> QED BY <1>1, Invariant, PTL

(* Two instances never serve at the same time, whatever check_pid let      *)
(* through.                                                                *)
THEOREM NeverTwo == Spec => []OneServes
<1>1. IInv => OneServes
  BY DEF IInv, SegmentOfServer, OneServes, Owning, Serving
<1> QED BY <1>1, Invariant, PTL

(* The segment that CGI processes open by name is the one of the instance  *)
(* that serves.                                                            *)
THEOREM ServerIsFound == Spec => []ServerHasSegment
<1>1. IInv => ServerHasSegment
  BY DEF IInv, SegmentOfServer, ServerHasSegment, Owning, Serving
<1> QED BY <1>1, Invariant, PTL

(* If no two starts overlap, the pid file names the instance that serves.  *)
THEOREM PidFileIsRight == Spec => []PidFileNamesServer
<1>1. IInv => PidFileNamesServer
  BY DEF IInv, PidFileOfStarter, PidFileNamesServer, Owning, Serving
<1> QED BY <1>1, Invariant, PTL

(* Instances that end on their own leave no segment in the way of the next *)
(* start.                                                                  *)
THEOREM NothingLeftBehind == Spec => []CleanEnd
<1>1. IInv => CleanEnd
  BY DEF IInv, TypeOK, SegmentIsServed, CleanEnd, Owning, Serving, Alive
<1> QED BY <1>1, Invariant, PTL

-------------------------------------------------------------------------------
(* The name of the segment. *)

(* What a step does to the name and to the instances that have ended.  The *)
(* shm_unlink of destroy_shared_memory does not look whose segment it is:  *)
(* by the invariant it is its own.                                         *)
LEMMA NameStep ==
  ASSUME IInv, [Next]_vars
  PROVE  [Name!NameNext]_<<segment, EndedInstances>>
<1> USE DEF Name!NameNext, Name!Take, Name!GiveBack, Name!End
<1>1. TypeOK /\ None \notin Instances
  BY DaemonAssumption DEF IInv
<1>2. ASSUME NEW i \in Instances, pc[i] # "ended", NEW label, Goto(i, label),
             label = "ended" => UNCHANGED segment,
             \/ UNCHANGED segment
             \/ segment = None /\ segment' = i
             \/ segment = i /\ segment' = None
      PROVE  [Name!NameNext]_<<segment, EndedInstances>>
  <2>1. pc' = [pc EXCEPT ![i] = label] /\ i \notin EndedInstances
    BY <1>2 DEF Goto, EndedInstances
  <2>2. CASE label = "ended"
    <3>1. EndedInstances' = EndedInstances \cup {i}
      BY <1>1, <2>1, <2>2 DEF EndedInstances, TypeOK
    <3> QED BY <1>2, <2>1, <2>2, <3>1
  <2>3. CASE label # "ended"
    <3>1. EndedInstances' = EndedInstances
      BY <1>1, <1>2, <2>1, <2>3 DEF EndedInstances, TypeOK
    <3> QED BY <1>2, <2>1, <3>1
  <2> QED BY <2>2, <2>3
<1>3. ASSUME NEW i \in Instances,
             Start(i) \/ CheckPid(i) \/ CreatePid(i) \/ WritePid(i) \/ ConfFails(i)
      PROVE  [Name!NameNext]_<<segment, EndedInstances>>
  <2>1. pc[i] # "ended" /\ UNCHANGED segment /\ \E label : Goto(i, label)
    BY <1>3 DEF Start, CheckPid, CreatePid, WritePid, ConfFails, segVars
  <2> QED BY <1>2, <2>1
<1>4. ASSUME NEW i \in Instances,
             \/ SegmentExists(i) \/ ClearSegment(i) \/ InotifyFails(i)
             \/ AddWatch(i)
      PROVE  [Name!NameNext]_<<segment, EndedInstances>>
  <2>1. pc[i] # "ended" /\ UNCHANGED segment /\ \E label : Goto(i, label)
    BY <1>4 DEF SegmentExists, ClearSegment, InotifyFails, AddWatch, segVars
  <2> QED BY <1>2, <2>1
<1>5. ASSUME NEW i \in Instances,
             TestExit(i) \/ EnterPoll(i) \/ Poll(i) \/ HandleEvents(i) \/ Exit(i)
      PROVE  [Name!NameNext]_<<segment, EndedInstances>>
  <2>1. pc[i] # "ended" /\ UNCHANGED segment /\ \E label : Goto(i, label)
    BY <1>5 DEF TestExit, EnterPoll, Poll, HandleEvents, Exit, segVars
  <2> QED BY <1>2, <2>1
<1>6. ASSUME NEW i \in Instances, Signal(i) \/ Killed(i)
      PROVE  [Name!NameNext]_<<segment, EndedInstances>>
  <2>1. pc[i] # "ended" /\ UNCHANGED segment
    BY <1>6 DEF Signal, Killed, Alive, segVars
  <2>2. \E label : Goto(i, label)
    BY <1>6 DEF Signal, Killed, Goto
  <2> QED BY <1>2, <2>1, <2>2
<1>7. ASSUME NEW i \in Instances, CreateSegment(i)
      PROVE  [Name!NameNext]_<<segment, EndedInstances>>
  BY <1>2, <1>7 DEF CreateSegment
<1>8. ASSUME NEW i \in Instances, Close(i)
      PROVE  [Name!NameNext]_<<segment, EndedInstances>>
  <2>1. segment = i
    BY <1>8 DEF Close, IInv, SegmentOfServer, Owning
  <2> QED BY <1>2, <1>8, <2>1 DEF Close, UnlinkSegment
<1>9. CASE FilesChange \/ Subscribe \/ UNCHANGED vars
  BY <1>9 DEF FilesChange, Subscribe, vars, segVars, EndedInstances
<1> QED BY <1>3, <1>4, <1>5, <1>6, <1>7, <1>8, <1>9 DEF Next, Step

(* However starts and ends overlap, the instances pass the name of the     *)
(* segment on as SegmentName says.                                         *)
THEOREM DaemonImplementsName == Spec => ImplementsName
<1>1. Init => Name!NameInit
  BY DEF Init, Name!NameInit, EndedInstances
<1> QED BY <1>1, NameStep, Invariant, PTL DEF Spec, ImplementsName, Name!NameSpec

(* The name of an instance that was killed is taken for ever: no later     *)
(* start can give it back (create_shared_memory fails on O_EXCL and its    *)
(* caller does not unlink), so none of them ever serves.                   *)
LeftBehind == segment \in Instances /\ pc[segment] = "ended"

THEOREM LeftoverIsForEver ==
  Spec => [][LeftBehind => /\ LeftBehind' /\ segment' = segment
                           /\ \A i \in Instances : pc'[i] \notin Serving]_vars
<1> DEFINE A == LeftBehind => /\ LeftBehind' /\ segment' = segment
                              /\ \A i \in Instances : pc'[i] \notin Serving
<1>1. ASSUME IInv, IInv', [Next]_vars PROVE A
  <2> SUFFICES ASSUME LeftBehind
               PROVE  /\ LeftBehind' /\ segment' = segment
                      /\ \A i \in Instances : pc'[i] \notin Serving
    OBVIOUS
  <2>1. segment \in EndedInstances /\ segment # None
    BY DaemonAssumption DEF LeftBehind, EndedInstances
  <2>2. segment' = segment /\ segment \in EndedInstances'
    BY <1>1, <2>1, NameStep
    DEF Name!NameNext, Name!Take, Name!GiveBack, Name!End
  <2>3. LeftBehind'
    BY <2>2 DEF LeftBehind, EndedInstances
  <2>4. ASSUME NEW i \in Instances PROVE pc'[i] \notin Serving
    <3>1. SegmentOfServer'
      BY <1>1 DEF IInv
    <3> QED BY <2>3, <3>1 DEF SegmentOfServer, LeftBehind, Owning, Serving
  <2> QED BY <2>2, <2>3, <2>4
<1>2. IInv /\ IInv' /\ [Next]_vars => [A]_vars
  BY <1>1
<1> QED BY <1>2, Invariant, PTL DEF Spec

-------------------------------------------------------------------------------
(* A signal leads to the end. *)

(* An instance whose flag is set has at most so many steps to take. *)
StepsToEnd(i) ==
  CASE pc[i] = "off" -> 13
    [] pc[i] = "check" -> 12
    [] pc[i] = "create" -> 11
    [] pc[i] = "write" -> 10
    [] pc[i] = "conf" -> 9
    [] pc[i] = "clear" -> 8
    [] pc[i] = "inotify" -> 7
    [] pc[i] = "enter" -> 6
    [] pc[i] = "poll" -> 5
    [] pc[i] = "handle" -> 4
    [] pc[i] = "test" -> 3
    [] pc[i] = "close" -> 2
    [] pc[i] = "unlink" -> 1
    [] OTHER -> 0

LEMMA OthersStay ==
  ASSUME TypeOK, [Next]_vars, NEW i \in Instances,
         ~(Start(i) \/ Step(i) \/ ConfFails(i) \/ InotifyFails(i) \/ Signal(i)
             \/ Killed(i))
  PROVE  pc'[i] = pc[i] /\ exit_main'[i] = exit_main[i]
<1> USE DEF TypeOK
<1>1. ASSUME NEW j \in Instances \ {i},
             Start(j) \/ Step(j) \/ ConfFails(j) \/ InotifyFails(j)
      PROVE  /\ UNCHANGED exit_main
             /\ \E label : Goto(j, label)
  BY <1>1
  DEF Start, Step, ConfFails, InotifyFails, CheckPid, CreatePid, WritePid,
      CreateSegment, SegmentExists, ClearSegment, AddWatch, TestExit, EnterPoll,
      Poll, HandleEvents, Close, Exit
<1>2. ASSUME NEW j \in Instances \ {i},
             Start(j) \/ Step(j) \/ ConfFails(j) \/ InotifyFails(j)
      PROVE  pc'[i] = pc[i] /\ exit_main'[i] = exit_main[i]
  BY <1>1, <1>2 DEF Goto
<1>3. ASSUME NEW j \in Instances \ {i}, Signal(j) \/ Killed(j)
      PROVE  pc'[i] = pc[i] /\ exit_main'[i] = exit_main[i]
  BY <1>3 DEF Signal, Killed, Goto
<1>4. CASE FilesChange \/ Subscribe \/ UNCHANGED vars
  BY <1>4 DEF FilesChange, Subscribe, vars
<1> QED BY <1>2, <1>3, <1>4 DEF Next

(* The core of SignalEnds, without its fairness: the flag stays set, an    *)
(* instance that has it set never goes on to a wait in poll that it has    *)
(* not already passed the test for, and each of its steps brings it nearer *)
(* to its end, whether the signal came during the start, in the loop or    *)
(* during the shutdown.  What it cannot promise is that the step out of    *)
(* poll comes: that one hangs on a change of a file.                       *)
THEOREM SignalCountsDown ==
  Spec => [][\A i \in Instances :
               exit_main[i] =>
                 /\ exit_main'[i]
                 /\ pc'[i] = pc[i] \/ StepsToEnd(i)' < StepsToEnd(i)
                 /\ Step(i) => pc'[i] # pc[i]
                 /\ pc'[i] = "poll" => pc[i] \in {"enter", "poll"}]_vars
<1> DEFINE P(i) == /\ exit_main'[i]
                   /\ pc'[i] = pc[i] \/ StepsToEnd(i)' < StepsToEnd(i)
                   /\ Step(i) => pc'[i] # pc[i]
                   /\ pc'[i] = "poll" => pc[i] \in {"enter", "poll"}
           A == \A i \in Instances : exit_main[i] => P(i)
<1>1. ASSUME TypeOK, [Next]_vars, NEW i \in Instances, exit_main[i] PROVE P(i)
  <2>1. \/ pc[i] \in Starting \cup Serving
        \/ pc[i] \in {"off", "close", "unlink", "ended"}
    BY <1>1 DEF TypeOK
  <2> USE <1>1 DEF TypeOK, Goto, StepsToEnd
  <2>2. CASE Start(i) \/ CheckPid(i) \/ CreatePid(i) \/ WritePid(i)
    BY <2>2 DEF Start, CheckPid, CreatePid, WritePid
  <2>3. CASE CreateSegment(i) \/ SegmentExists(i) \/ ClearSegment(i) \/ AddWatch(i)
    <3>1. CASE CreateSegment(i) \/ SegmentExists(i)
      BY <3>1 DEF CreateSegment, SegmentExists
    <3>2. CASE ClearSegment(i)
      BY <3>2 DEF ClearSegment
    <3>3. CASE AddWatch(i)
      BY <3>3 DEF AddWatch
    <3> QED BY <2>3, <3>1, <3>2, <3>3
  <2>4. CASE TestExit(i) \/ EnterPoll(i) \/ Poll(i) \/ HandleEvents(i)
    BY <2>4 DEF TestExit, EnterPoll, Poll, HandleEvents
  <2>5. CASE Close(i) \/ Exit(i)
    BY <2>5 DEF Close, Exit
  <2>6. ASSUME ConfFails(i) \/ InotifyFails(i) \/ Killed(i), ~Step(i) PROVE P(i)
    BY <2>1, <2>6 DEF ConfFails, InotifyFails, Killed, Alive, Starting, Serving
  <2>7. ~Signal(i)
    BY DEF Signal
  <2>8. ASSUME ~(Start(i) \/ Step(i) \/ ConfFails(i) \/ InotifyFails(i)
                   \/ Signal(i) \/ Killed(i))
        PROVE  P(i)
    BY <2>8, OthersStay
  <2> QED BY <2>2, <2>3, <2>4, <2>5, <2>6, <2>7, <2>8 DEF Step
<1>2. TypeOK /\ [Next]_vars => [A]_vars
  BY <1>1
<1> HIDE DEF A
<1>3. Spec => [][A]_vars
  BY <1>2, TypeCorrect, PTL DEF Spec
<1> QED BY <1>3 DEF A

===============================================================================
