----------------------------- MODULE NotifyDaemon -----------------------------
(***************************************************************************)
(* Starts and ends of onvif_notify_server (main of                         *)
(* src/Cross/onvif_notify_server.c): the pid file, the creation of the     *)
(* shared segment, the main loop and the signal that ends it.              *)
(*                                                                         *)
(* Several instances may be started, by an init script and a watchdog for  *)
(* instance.  The pid file is checked in one step and written in two later *)
(* ones; only the segment is created exclusively.  Semaphore and threads   *)
(* are in SharedMemory, the work of the loop in Delivery.                  *)
(***************************************************************************)
EXTENDS Naturals, FiniteSets

CONSTANTS
  Instances,     (* starts of the program                                   *)
  None,          (* no instance                                             *)
  MaxFailures,   (* bound: configuration, segment or inotify that fail      *)
  MaxKills,      (* bound: instances killed                                 *)
  MaxChanges     (* bound: batches of files that change; 0: no bound        *)

ASSUME DaemonAssumption ==
  /\ IsFiniteSet(Instances)
  /\ None \notin Instances
  /\ MaxFailures \in Nat /\ MaxKills \in Nat /\ MaxChanges \in Nat

VARIABLES
  pc,         (* where each instance is                                     *)
  pid_file,   (* None: there is none; "empty", or the instance it names     *)
  writes_to,  (* instances whose open pid file is the one the name means    *)
  segment,    (* the instance that created "/onvif_subscription", or None   *)
  granted,    (* a client was told it has a subscription in that segment    *)
  stored,     (* ... and the segment has it                                 *)
  exit_main,  (* per instance, set by signal_handler                        *)
  pending,    (* per instance: inotify has something to read                *)
  count,      (* failures, kills, changes so far                            *)
  raced       (* ghost: two instances were between check and segment        *)

vars == <<pc, pid_file, writes_to, segment, granted, stored, exit_main,
          pending, count, raced>>
pidVars == <<pid_file, writes_to>>
segVars == <<segment, granted, stored>>

Starting == {"check", "create", "write", "conf"}
Serving == {"clear", "inotify", "test", "enter", "poll", "handle"}
Alive(i) == pc[i] \notin {"off", "ended"}

TypeOK ==
  /\ pc \in [Instances -> Starting \cup Serving
                            \cup {"off", "close", "unlink", "ended"}]
  /\ pid_file \in Instances \cup {None, "empty"}
  /\ writes_to \subseteq Instances
  /\ segment \in Instances \cup {None}
  /\ granted \in BOOLEAN /\ stored \in BOOLEAN
  /\ exit_main \in [Instances -> BOOLEAN]
  /\ pending \in [Instances -> BOOLEAN]
  /\ count \in [failures : 0..MaxFailures, kills : 0..MaxKills, changes : Nat]
  /\ raced \in BOOLEAN

Init ==
  /\ pc = [i \in Instances |-> "off"]
  /\ pid_file = None
  /\ writes_to = {}
  /\ segment = None
  /\ granted = FALSE
  /\ stored = FALSE
  /\ exit_main = [i \in Instances |-> FALSE]
  /\ pending = [i \in Instances |-> FALSE]
  /\ count = [failures |-> 0, kills |-> 0, changes |-> 0]
  /\ raced = FALSE

Goto(i, label) == pc' = [pc EXCEPT ![i] = label]

(* unlink(pid_file), whatever it names. *)
UnlinkPid ==
  /\ pid_file' = None
  /\ writes_to' = {}

(* shm_unlink, whatever the name refers to; who is subscribed there will   *)
(* not be heard of again.                                                  *)
UnlinkSegment ==
  /\ segment' = None
  /\ granted' = FALSE
  /\ stored' = FALSE

-------------------------------------------------------------------------------
(* From main to the loop. *)

Start(i) ==
  /\ pc[i] = "off"
  /\ Goto(i, "check")
  /\ raced' = (raced \/ \E j \in Instances : pc[j] \in Starting)
  /\ UNCHANGED <<pidVars, segVars, exit_main, pending, count>>

(* check_pid: fopen, fgets, kill(pid, 0). *)
CheckPid(i) ==
  /\ pc[i] = "check"
  /\ Goto(i, IF pid_file \in Instances /\ Alive(pid_file) THEN "ended" ELSE "create")
  /\ UNCHANGED <<pidVars, segVars, exit_main, pending, count, raced>>

(* create_pid: fopen(..., "w") truncates or creates the file ... *)
CreatePid(i) ==
  /\ pc[i] = "create"
  /\ pid_file' = "empty"
  /\ writes_to' = writes_to \cup {i}
  /\ Goto(i, "write")
  /\ UNCHANGED <<segVars, exit_main, pending, count, raced>>

(* Mutant: the buffer of the pid is too short. *)
WritePidTruncated(i) ==
  /\ pc[i] = "write"
  /\ pid_file' = "truncated"
  /\ writes_to' = writes_to \ {i}
  /\ Goto(i, "conf")
  /\ UNCHANGED <<segVars, exit_main, pending, count, raced>>

(* ... and fclose writes it, unless the name means another file by now. *)
WritePid(i) ==
  /\ pc[i] = "write"
  /\ pid_file' = IF i \in writes_to THEN i ELSE pid_file
  /\ writes_to' = writes_to \ {i}
  /\ Goto(i, "conf")
  /\ UNCHANGED <<segVars, exit_main, pending, count, raced>>

(* The configuration file, TEMPLATE_DIR or INOTIFY_DIR is missing: exit,   *)
(* and the pid file stays.                                                 *)
ConfFails(i) ==
  /\ pc[i] = "conf"
  /\ count.failures < MaxFailures
  /\ count' = [count EXCEPT !.failures = @ + 1]
  /\ Goto(i, "ended")
  /\ UNCHANGED <<pidVars, segVars, exit_main, pending, raced>>

(* Mutant: shm_open without O_EXCL. *)
CreateSegmentShared(i) ==
  /\ pc[i] = "conf"
  /\ segment' = i
  /\ granted' = FALSE
  /\ stored' = FALSE
  /\ Goto(i, "clear")
  /\ UNCHANGED <<pidVars, exit_main, pending, count, raced>>

(* create_shared_memory(1) creates the segment exclusively ... *)
CreateSegment(i) ==
  /\ pc[i] = "conf"
  /\ segment = None
  /\ segment' = i
  /\ Goto(i, "clear")
  /\ UNCHANGED <<pidVars, granted, stored, exit_main, pending, count, raced>>

(* Mutant: the pid file is removed once it is not needed. *)
ClearSegmentUnpid(i) ==
  /\ pc[i] = "clear"
  /\ stored' = IF segment = i THEN FALSE ELSE stored
  /\ UnlinkPid
  /\ Goto(i, "inotify")
  /\ UNCHANGED <<segment, granted, exit_main, pending, count, raced>>

(* ... or finds it there: the instance removes the pid file and exits. *)
SegmentExists(i) ==
  /\ pc[i] = "conf"
  /\ segment # None
  /\ UnlinkPid
  /\ Goto(i, "ended")
  /\ UNCHANGED <<segVars, exit_main, pending, count, raced>>

(* The memset of the new segment. *)
ClearSegment(i) ==
  /\ pc[i] = "clear"
  /\ stored' = IF segment = i THEN FALSE ELSE stored
  /\ Goto(i, "inotify")
  /\ UNCHANGED <<pidVars, segment, granted, exit_main, pending, count, raced>>

InotifyFails(i) ==
  /\ pc[i] = "inotify"
  /\ count.failures < MaxFailures
  /\ count' = [count EXCEPT !.failures = @ + 1]
  /\ Goto(i, "close")
  /\ UNCHANGED <<pidVars, segVars, exit_main, pending, raced>>

(* inotify_add_watch; only what happens from now on is seen. *)
AddWatch(i) ==
  /\ pc[i] = "inotify"
  /\ Goto(i, "test")
  /\ UNCHANGED <<pidVars, segVars, exit_main, pending, count, raced>>

-------------------------------------------------------------------------------
(* The loop and the end. *)

(* Mutant: the flag is not tested. *)
TestExitNot(i) ==
  /\ pc[i] = "test"
  /\ Goto(i, "enter")
  /\ UNCHANGED <<pidVars, segVars, exit_main, pending, count, raced>>

(* while (!exit_main): a signal that comes between this test and the call  *)
(* of poll interrupts nothing ...                                          *)
TestExit(i) ==
  /\ pc[i] = "test"
  /\ Goto(i, IF exit_main[i] THEN "close" ELSE "enter")
  /\ UNCHANGED <<pidVars, segVars, exit_main, pending, count, raced>>

(* ... poll(fds, nfds, -1) waits without a limit ... *)
EnterPoll(i) ==
  /\ pc[i] = "enter"
  /\ Goto(i, "poll")
  /\ UNCHANGED <<pidVars, segVars, exit_main, pending, count, raced>>

(* ... until inotify has something to read ... *)
Poll(i) ==
  /\ pc[i] = "poll"
  /\ pending[i]
  /\ Goto(i, "handle")
  /\ UNCHANGED <<pidVars, segVars, exit_main, pending, count, raced>>

(* ... handle_events, which reads until there is nothing left. *)
HandleEvents(i) ==
  /\ pc[i] = "handle"
  /\ pending' = [pending EXCEPT ![i] = FALSE]
  /\ Goto(i, "test")
  /\ UNCHANGED <<pidVars, segVars, exit_main, count, raced>>

(* SIGTERM or SIGINT: signal_handler sets the flag, and a poll that is     *)
(* already waiting returns with EINTR.                                     *)
Signal(i) ==
  /\ Alive(i)
  /\ ~exit_main[i]
  /\ exit_main' = [exit_main EXCEPT ![i] = TRUE]
  /\ pc' = [pc EXCEPT ![i] = IF @ = "poll" THEN "test" ELSE @]
  /\ UNCHANGED <<pidVars, segVars, pending, count, raced>>

(* Mutant: destroy_shared_memory(..., 0). *)
CloseOnly(i) ==
  /\ pc[i] = "close"
  /\ Goto(i, "unlink")
  /\ UNCHANGED <<pidVars, segVars, exit_main, pending, count, raced>>

(* destroy_shared_memory(..., 1) *)
Close(i) ==
  /\ pc[i] = "close"
  /\ UnlinkSegment
  /\ Goto(i, "unlink")
  /\ UNCHANGED <<pidVars, exit_main, pending, count, raced>>

Exit(i) ==
  /\ pc[i] = "unlink"
  /\ UnlinkPid
  /\ Goto(i, "ended")
  /\ UNCHANGED <<segVars, exit_main, pending, count, raced>>

-------------------------------------------------------------------------------
(* The environment. *)

Killed(i) ==
  /\ Alive(i)
  /\ count.kills < MaxKills
  /\ count' = [count EXCEPT !.kills = @ + 1]
  /\ Goto(i, "ended")
  /\ UNCHANGED <<pidVars, segVars, exit_main, pending, raced>>

(* Files change in INOTIFY_DIR. *)
FilesChange ==
  /\ MaxChanges = 0 \/ count.changes < MaxChanges
  /\ count' = [count EXCEPT !.changes = IF MaxChanges = 0 THEN 0 ELSE @ + 1]
  /\ pending' = [i \in Instances |->
                   pending[i] \/ pc[i] \in {"test", "enter", "poll", "handle"}]
  /\ UNCHANGED <<pc, pidVars, segVars, exit_main, raced>>

(* A CGI process of the events service serves a Subscribe request in the   *)
(* segment the name refers to.                                             *)
Subscribe ==
  /\ segment # None
  /\ granted' = TRUE
  /\ stored' = TRUE
  /\ UNCHANGED <<pc, pidVars, segment, exit_main, pending, count, raced>>

-------------------------------------------------------------------------------

Step(i) ==
  \/ CheckPid(i) \/ CreatePid(i) \/ WritePid(i) \/ CreateSegment(i)
  \/ SegmentExists(i) \/ ClearSegment(i) \/ AddWatch(i) \/ TestExit(i)
  \/ EnterPoll(i) \/ Poll(i) \/ HandleEvents(i) \/ Close(i) \/ Exit(i)

Next ==
  \/ \E i \in Instances : \/ Start(i) \/ Step(i) \/ ConfFails(i)
                          \/ InotifyFails(i) \/ Signal(i) \/ Killed(i)
  \/ FilesChange
  \/ Subscribe

Spec == Init /\ [][Next]_vars

(* An instance that can take a step takes it. *)
FairSpec == Spec /\ \A i \in Instances : WF_vars(Step(i))

(* ... and files keep changing, which is not the daemon's doing. *)
BusySpec == FairSpec /\ WF_vars(FilesChange)

-------------------------------------------------------------------------------
(* Properties. *)

(* Whatever the pid file says, two instances never serve at a time: the    *)
(* race between check_pid and create_pid is caught by O_EXCL.              *)
OneServes ==
  \A i, j \in Instances : pc[i] \in Serving /\ pc[j] \in Serving => i = j

(* An instance that serves can be found: the segment's name refers to its  *)
(* segment until it ends, also when other instances start and give up.     *)
ServerHasSegment == \A i \in Instances : pc[i] \in Serving => segment = i

(* The pid file names the instance that serves, unless starts overlapped:  *)
(* then the one that loses removes, or overwrites, the pid file of the one *)
(* that wins.                                                              *)
PidFileNamesServer ==
  \A i \in Instances : pc[i] \in Serving /\ ~raced => pid_file = i

(* What holds along the way, and makes the three above inductive.  An      *)
(* instance that is past the pid file and not yet ended ...                *)
Owning == Serving \cup {"close", "unlink"}

(* ... had the segment all the time;                                       *)
SegmentOfServer == \A i \in Instances : pc[i] \in Owning \ {"unlink"} => segment = i

(* a segment that nobody serves is what a killed instance left;            *)
SegmentIsServed ==
  segment # None /\ count.kills = 0 => pc[segment] \in Owning \ {"unlink"}

(* and unless starts overlapped, the pid file is its own since it wrote it,*)
(* and nobody else is past check_pid.                                      *)
PidFileOfStarter ==
  ~raced =>
    /\ \A i, j \in Instances : pc[i] \in Starting /\ pc[j] \in Starting => i = j
    /\ \A i \in Instances :
         /\ pc[i] = "write" => i \in writes_to
         /\ pc[i] \in Owning \cup {"conf"} => pid_file = i
         /\ pc[i] \in Owning =>
              \A j \in Instances \ {i} : pc[j] \notin Starting \ {"check"}

IInv == TypeOK /\ SegmentOfServer /\ SegmentIsServed /\ PidFileOfStarter

(* Nothing is left behind by instances that ended on their own: the next   *)
(* start finds no segment.  (A killed one leaves the name, and every later *)
(* start ends at O_EXCL.)                                                  *)
CleanEnd ==
  (\A i \in Instances : ~Alive(i)) /\ count.kills = 0 => segment = None

(* The instances that came to their end, and what they all promise about   *)
(* the name of the segment.                                                *)
EndedInstances == {i \in Instances : pc[i] = "ended"}

Name == INSTANCE SegmentName WITH name <- segment, ended <- EndedInstances

ImplementsName == Name!NameSpec

(* A subscription that was granted is in the table as long as the daemon   *)
(* runs ("Subscription manager replies to address ...",                    *)
(* events_service.c:447).                                                  *)
GrantedIsStored == granted => stored

(* "Exit from main loop", the comment in signal_handler: SIGTERM ends the  *)
(* instance.                                                               *)
SignalEnds == \A i \in Instances : exit_main[i] ~> ~Alive(i)

===============================================================================
