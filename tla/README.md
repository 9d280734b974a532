# Verification of rtsp-camera

TLA+ models of the programs of this repository, TLC configurations that check
them on small instances, and theorems that the TLA+ proof system checks for
every value of the constants.

The repository holds two programs for one camera: an ONVIF server in C
(`src/Cross`, own code of about 7500 lines) and an RTSP server in C++ on top of
live555 (`src/LIVE555-RTSP/mainProg`, own code of about 1000 lines); the rest is
vendored.  Five parts of that are modelled: the events service with its daemon
(the only part in which several processes and threads share state that lives
longer than a request), the start and end of the daemon, the PTZ service, the
discovery daemon, and the frame source of the RTSP server.

Contents: [1 Inventory](#1-inventory) · [2 Modules and code](#2-modules-and-code)
· [3 Runs](#3-runs) · [4 Bounds](#4-bounds) · [5 Fairness](#5-fairness)
· [6 Proofs](#6-proofs) · [7 What the checks found](#7-what-the-checks-found)
· [8 Not modelled](#8-not-modelled) · [9 What is left](#9-what-is-left)

## 1 Inventory

### 1.1 The parts and how they meet

```
   ONVIF client --HTTP--> web server --fork/exec--> onvif_simple_server (CGI)
        ^                                                 |   one process per request
        | Notify (HTTP)                                   v
        |                                    POSIX shared memory "/onvif_subscription"
   onvif_notify_server  <-----------------   and semaphore "/sub_mem_lock"   
     main thread: inotify or polling                      ^
     sync thread: need_sync, expiry ----------------------+
        ^
        | files appear and vanish in INOTIFY_DIR
   detection programs of the camera
```

A request of the events service is a process of its own.  It opens the segment
and the semaphore by name, works on the table, closes both and ends.  The daemon
creates the segment and has two threads.  There is no other channel between
them: a subscription is a slot of an array in the segment, a pending message is
a bit in a word.

The PTZ service is reached the same way and keeps its state in other programs of
the camera, which it calls with `system`.  `wsd_simple_server` and the RTSP server
are processes that share nothing with the others.

### 1.2 Components

**Shared segment and semaphore** (`utils.c:49-167`).  State: two names, the
semaphore objects behind one of them (several can exist at a time, because
`sem_memory_close` unlinks the name at every close), the segments behind the
other, and each process's handles.  Operations: `create_shared_memory`,
`destroy_shared_memory`, `sem_memory_wait`, `sem_memory_post`.  Hard: the object
one process waits for need not be the one another holds; PullMessages posts twice
for one wait; a process killed inside never posts; the daemon unmaps the segment
while its own detached thread uses it.  Correct means: the value of each object
agrees with who is inside; threads with the same object exclude each other; a
running daemon can be found; nobody waits for ever.

**Subscription table** (`events_service.c`, `onvif_notify_server.c:336-370`).
State: 8 slots with kind, termination time, consumer address and a flag for a
pending synchronization.  Operations: CreatePullPointSubscription, Subscribe,
Renew, Unsubscribe, SetSynchronizationPoint, and the daemon's clean-up.  Hard: a
slot is named by its number and by nothing else, so an old address reaches the
new subscription in a slot; the clock is read before the wait for the semaphore;
some faults are sent after the effect.  Correct means: what a client was granted
it keeps, up to the second it was told, whatever the others do; slots come back.

**Event delivery** (`onvif_notify_server.c:209-454, 741-790`,
`events_service.c:151-318`).  State: per event its last known value, the time,
and a word of bits, one per slot, "not pulled yet"; the queue of inotify; each
running PullMessages.  Operations: handling an inotify entry, polling a file,
notifying a PUSH consumer, synchronizing one, and the steps of PullMessages.
Hard: PullMessages reads and resets the bits without the semaphore in its second
pass; two threads notify the same consumer with values of different age; files
that are there before the daemon.  Correct means: no change is lost for a PULL
subscriber; a PUSH consumer ends up with the right value; PullMessages returns.

**Start and end of onvif_notify_server** (`main` and `check_pid`, `create_pid`,
`signal_handler`).  State: pid file, segment name, flag `exit_main`, each
instance's position.  Operations: the steps of start, loop and shutdown, signals.
Hard: check and creation of the pid file are two steps; the memset of the segment
comes after others can open it; `poll` without a limit.  Correct means: one
instance serves at a time and can be found; a signal ends it; nothing is left.

**PTZ service** (`ptz_service.c`).  State: none in the service; presets and motor
belong to external programs that a request calls, one to read, another to change.
Operations: SetPreset, GotoPreset, RemovePreset, the three moves, Stop, going to
and setting the home position.  Hard: check-then-act between two requests; a list
that cannot be read is taken for an empty one; commas of names become spaces; a
name is made up from the number of presets; one of two programs of a move is
missing.  Correct means: no two presets of one name; the token that is answered
is that of the preset that was set; GotoPreset goes where it has looked; a fault
means that nothing was done.

**Request dispatch and authentication** (`onvif_simple_server.c`).  A request is
a process: read, authenticate, look up service and method, answer.  Correct
means: each method but the public ones is reached only with a valid digest.
Sequential, no state between requests.  Not modelled (section 8).

**WS-Discovery daemon** (`wsd_simple_server.c`).  State: socket, address of the
last sender, message number, name of the template, flag `mainLoop`.  Operations:
Hello at the start, an answer per Probe, Bye on SIGTERM or SIGINT.  Hard: the
handlers work on the variables and the socket of the loop, between any two of its
instructions and of each other's; the flag is set after the handlers are
installed.  Correct means: numbers grow; nothing follows a Bye; answers and Byes
go to those they are for; a signal ends the loop.

**RTSP application** (`mainProg`).  State: a queue of encoded frames with a mutex,
between the encoder's callback thread and live555's event loop, and the
H26XSource objects, one per stream, of which one is registered with the encoder.
Operations: a source made, asked for a frame, closed; the callback; the event
trigger.  Hard: emptiness is tested without the lock; the queue drops when it is
full; the mutex is destroyed with the last source and never made again; the
callback is never unregistered.  Correct means: one thread at a time is at the
queue; frames arrive in order; the callback finds a source.  At this commit
`main` returns at line 51, before the server is created, so none of it runs
without taking that line out; the model is of the code as it is compiled.

**The rest**: configuration parser, device and media services, SOAP templates,
logging, third-party code.  `PROJECT.json` lists them with the reasons why they
are not modelled; section 8 repeats them.

### 1.3 Hazards

`PROJECT.json` lists what is hard to test, each at its line, with the properties
that watch it.  They fall into these groups: two processes in the table at a time
(the unlinked name, the second post, the unlocked pass); slots that change hands
while somebody still has their number; faults and refusals after the effect;
starts, crashes and ends that overlap; values of different age on their way to
one consumer; requests that look first and act later through other programs;
handlers that interrupt what they share variables with; and objects that are
gone when a thread still has them.  One of them has no property: how long
`connect` in `send_notify` holds up everybody (`onvif_notify_server.c:252`).

Smaller ones are not listed there: `interval2sec` multiplies without a bound
(`utils.c:621`); SIGUSR1 prints the table from the moment its handler is installed
(`onvif_notify_server.c:576`); the configuration's eighth event is refused after it
was counted (`conf.c:512`); "nan" passes every comparison with a limit
(`ptz_service.c:696`; `OutOfRange` has it); a failed malloc in the discovery's
handler is a null pointer (`wsd_simple_server.c:302`; `ByeCrash` has it).

## 2 Modules and code

| module | models | state |
|---|---|---|
| `SharedMemory` | names, semaphore objects, every path of requests and daemon through them | `semName`, `semValue`, `segName`; per process its handles `sem`, `seg`; per thread `pc` |
| `Subscriptions` | the table, and what clients were told about it | `sub`, `now`, `req`, `mine`; `seen` is the sync thread's slot |
| `Delivery` | events, inotify, notifications, PullMessages; extends `Subscriptions` | `event`, `file`, `queue`, `main`, `pull` |
| `SubscriptionService` | abstract: what the events service promises a client, without slots, steps or clean-up | `clock`, `held` |
| `NotifyDaemon` | several instances of the daemon from start to end | `pc`, `pid_file`, `segment`, `exit_main`, `pending` |
| `PtzService` | several requests at a time and the programs that keep the presets | `presets`, `job`; per process `req`; the last `answer` |
| `WsDiscovery` | the loop and the handlers that interrupt it and each other | `main`, `frames` (the stack of handlers), `sock`, `addr_in`, `msg_number`, `template_file`, `sent` |
| `VideoSource` | the frame queue, its two threads, and the sources | `queue`, `mutex`, `registered`, `loop`, `capture`; per source `life`, `awaiting` |
| `SegmentName` | abstract: how instances of the daemon pass the name of the segment on | `name`, `ended` |
| `FrameBuffer` | abstract: what the frame queue is between encoder and readers | `buffer`, `put`, `got`, `stopped` |
| `MC*` | symmetry sets for TLC; `MCPrograms` puts four programs into one run | |
| `*Proofs` | the theorems about each of them (section 6) | |

The modules stack by grain.  `SharedMemory` is about who is inside when, and the
table is a step label.  In `Subscriptions` and `Delivery` a critical section is
one action and the table has its contents; that this is the right grain for
everything but the second pass of PullMessages is what `SharedMemory` is asked
(sections 3 and 7: it is, until a request overlaps with another one's close).
`Delivery` splits the second pass into reading, printing, loading and storing,
since the code runs it without the semaphore.  `NotifyDaemon` zooms into the
daemon's `main`, whose middle is one step in `SharedMemory`.

`Subscriptions` implements `SubscriptionService` under the mapping `Held`: what a
client holds is what the slot it believes in contains, as long as its time is not
over.  `ImplementsService` says so, for TLC and for the prover.  `Delivery` extends
`Subscriptions` and refines it by leaving the table alone in its own steps.

Two smaller abstract specifications say what a program is to the others.
`NotifyDaemon` implements `SegmentName` (`ImplementsName`): although
`destroy_shared_memory` unlinks the name without a look at whose it is, only the
instance that took it gives it back.  `VideoSource` implements `FrameBuffer`
(`ImplementsBuffer`): mutex, sources and two threads cannot be told from one
buffer that hands frames out in order and forgets the oldest; the mapping counts a
frame as put when the callback has released it to the queue (`Newest`).

`NotifyDaemon`, `PtzService`, `WsDiscovery` and `VideoSource` are about programs
that share nothing.  `MCPrograms` therefore has each behaviour be about one of
them, with the others at rest: the state space is the sum of the four, every
property is checked on the behaviours of its own program, and fairness is stated
for that program.  That this changes nothing is `ProgramsAreIndependent`
(section 6).

Variables that the code does not have are ghosts, named as such in the modules:
`lost`, `extra` (SharedMemory), `owner` (Subscriptions), `told`, `missed`,
`forgotten` and the field `raced` of `pull` (Delivery), `raced` (NotifyDaemon),
`doubtful`, `odd`, the field `by` of a preset and `done`, `met` of a request
(PtzService), the field `after` of a message sent (WsDiscovery), `openedAt`,
`drained`, `together` (VideoSource).  No guard reads them.  `req` and `mine` of Subscriptions are the request in flight
and what its client knows; the guards that read `mine` are the client's, who uses
the address it was given.

Correspondence of actions and code, by component:

* SharedMemory: `CgiShmOpen`, `CgiSemOpen`, `CgiOpenFails` are
  `create_shared_memory(0)`; `CgiWait`/`CgiPost` any critical section of a
  request; `PullWaitLast`, `PullPostFirst`, `PullPostSecond` the two passes;
  `CgiClose` is `destroy_shared_memory(.., 0)`.  `Daemon...` is `main`, `Main...`
  one event of `handle_events`, `Sync...` the thread; `SyncFault` is the thread
  touching memory or a semaphore that `DaemonClose` took away.  `CgiKilled` and
  `DaemonKilled` are SIGKILL.
* Subscriptions: `Ask...` is a request up to `time(&now)`; the action of the same
  name as the operation is its critical section and its answer.  `SyncSee` is the
  read of `need_sync` outside the semaphore, `SyncServe` its reset inside,
  `CleanExpired` is `clean_expired_subscriptions`.
* Delivery: `FileChange` is the file system; `HandleRead`/`HandleStore` an entry
  of inotify before and after the wait for the semaphore, `PollRead` the loop
  that replaces inotify; `Pull...` the steps of `events_pull_messages`.
* NotifyDaemon: one action per system call of `main` that another instance, a
  request or a signal can come before or after.
* PtzService: `SetPresetCheck` is `ptz_set_preset` up to `system(set_preset)`,
  `SetPresetStore` that call, `Store` the program itself (some time before the
  `sleep(1)` is over), `SetPresetAnswer` the rest; `GotoPresetCheck` and
  `GotoPresetMove` are the two halves of `ptz_goto_preset`.  RemovePreset, the
  moves and `Command` (Stop and the home position) call a program without having
  looked at anything before, and are one step each.  `InitPresets` includes that
  the list cannot be read.
* WsDiscovery: `Hello...`, `Match...` and `Bye...` are the steps of the three
  messages (count, store, template, cat, send), so that a handler can come between
  any two; `Deliver` pushes a handler on the stack, and only the innermost one
  runs.  `Receive` stores the sender where `Send` will find it; `ReceiveNothing` is
  what is no Probe, or a `recvfrom` that returns because the socket was shut down.
* VideoSource: `CreateNew`, `GetNextFrame`, `SpinEnd`, `DeliverLock`,
  `DeliverFrame`, `CloseSource` and `Drain` are the event loop in and around
  `H26XSource`; `Capture`, `CaptureLock`, `CapturePush`, `CaptureSignal` the
  callback.  A data race (`Racing`) stops both threads: what follows is undefined
  behaviour, and properties speak of the time before it.  `End` is the use of a
  source that was deleted.

## 3 Runs

| run | question | result |
|---|---|---|
| `shared_memory` | what do semaphore and names guarantee, with two requests, a restart and a kill? | holds |
| `shared_memory_waits` | does every wait end? | holds |
| `shared_memory_mutex` | is the sync thread alone in the table? | violated, 7.1 |
| `subscriptions` | does a grant hold against three clients on two slots? | holds |
| `subscriptions_freed` | do slots come back and synchronizations happen, with late clients, faults and addresses that do not fit? | holds |
| `delivery` | is every change pulled and every announced message printed, outside the races of the unlocked pass, does the table follow the files, and do PUSH consumers end up with their state? | holds |
| `delivery_reuse` | and when the slot passes to another client while a PullMessages is at work on it? | holds |
| `delivery_live` | does polling bring the table to the state of the files, and does PullMessages return? | holds |
| `delivery_lost` | is every change pulled, without exception? | violated, 7.2 |
| `programs` | do the daemon's start and end, the PTZ service, the discovery and the frame source keep their properties? | holds |
| `notify_daemon_idle` | does SIGTERM end it when no file changes? | violated, 7.3 |
| `notify_daemon_start` | does a granted subscription survive the start? | violated, 7.4 |

What the passing runs say:

* `SemaphoreBalance`, `SameObjectExcludes`, `ExclusionUntilUnlinked`: the
  semaphore does its work per object, up to the second post of PullMessages
  (counted in `extra`), and for all threads until a close has unlinked the name.
* `DaemonReachable`, `NameDiesWithDaemon`: requests find the daemon as long as it
  runs, although they unlink a name too; only a death the daemon did not see
  coming leaves the segment's name.
* `GrantHonoured`, `UnusedIsBlank`, `ImplementsService`: clients that are on
  time never lose a subscription to another one's request, to a slot's reuse or
  to the clean-up, and inherit nothing from a slot's former use; and the table
  refuses only when as many subscriptions are held as there is room for.
* `SlotsComeBack`, `SyncIsServed`: expiry works also for slots whose client got
  a fault, renewed too late, or never comes back.
* `PullMissesNothing`: a change is told or its bit is set; the bits that are lost
  are exactly those the unlocked pass took (`forgotten`).
* `AnnouncedIsPrinted`: a message that counted for the announced length is still
  there when the second pass comes to it, although it reads the table again
  without the semaphore; the only thing that takes it away is another client's
  PullMessages, which writes back a word it read earlier.
* `PushConverges`: when nothing is on its way any more, a consumer that was
  notified of an event without failures knows the value of the file; the two
  threads' notifications cannot arrive in the wrong order for good, because the
  sync thread's value is never older than an entry inotify still holds.
* `TableFollowsFiles`, `TableCatchesUp`: with inotify the table is behind the
  files by what is in the queue and no more; with polling it gets to them.
* `PullReturns`: also with a limit below the number of events and with files that
  change during the wait.
* `ServerHasSegment`, `PidFileNamesServer`, `CleanEnd`: the exclusive creation of
  the segment, not the pid file, is what keeps instances apart; the pid file is
  right unless starts overlapped.
* `SignalEnds`: SIGTERM takes effect at the latest with the next change of a file.
* `NamesAreUnique`, `TokenIsOwn`, `FaultMeansNothingDone`, `GotoReachesChecked`,
  `NamelessIsNew`: what two PTZ requests at a time can spoil, and nothing more.
  Two presets of one name need two SetPresets with that name at a time, a list
  that could not be read or a comma; a removal in between cannot make SetPreset
  answer with somebody else's token; GotoPreset can only miss by a removal; and
  the fault of a ContinuousMove may come after the pan.
* `NumbersIncrease`: the load and the store of `++msg_number` can be torn apart by
  a handler, in main and in a handler; still no number is used twice, because the
  one who was interrupted finds the socket shut.  `ByeIsFinal` for the same reason.
  `RightAddressee`: the answer goes to the prober (the first may go to the group),
  the Bye to the group only as long as no second message has come.
* `SignalEndsLoop`: once the loop has been entered a signal ends the program,
  although nobody may ever send to the port again and `signal()` restarts
  `recvfrom`: it is `shutdown` in the handler that wakes it.  This rests on what
  Linux does with `shutdown` of a UDP socket (`ShutDown`, external).
* `QueueExclusive`, `FramesInOrder`, `CallbackSourceIsOpen`, `TriggerFindsNobody`,
  `SpinEnds`: up to the first time that the last source was closed, the mutex does
  its work; frames arrive in order even after it, until the threads really meet;
  streams that follow one another always have the callback, streams that overlap
  need not; the trigger of live555 never delivers anything; and the loop that spins
  on `empty()` ends with the next frame.

## 4 Bounds

* SharedMemory: two requests at a time are enough for every pairing (request with
  request, with main thread, with sync thread) and three with the daemon's; two
  semaphore objects, since the name is unlinked and made anew once; two starts
  and one kill, so that a restart meets what a crash left.  `MaxSemaphores` is a
  bound of the model: a request that would need another object does not start its
  `sem_open`.
* Subscriptions: two slots and three clients, so that the table is full, and a
  slot passes from one to another; four seconds and durations 0 and 1, so that a
  subscription is granted, renewed, expires and is replaced.  `now + d < MaxTime`
  in `Ask` keeps every termination time inside the clock's bound.  The liveness
  run has one slot, for which two clients compete with all deviations.
* Delivery: `delivery` has two clients and two slots, of any mixture of PULL and
  PUSH, so that two second passes, the daemon's two threads and synchronizations
  can work on the same word and the same consumer; a file that appears and goes,
  so that values of different age are on their way; one event, since nothing
  relates the words of two.  Its clock has two values, so a subscription can lapse
  but is not renewed; `delivery_reuse` has one slot, all requests and a longer
  clock, so that slots change hands under a PullMessages.  `delivery_live` has two
  events with files that may be there before the start, and a limit of one message.
* NotifyDaemon: two starts, that overlap or follow each other, one failure, one
  kill; changes of files are not bounded.
* PtzService: two requests at a time and three in all, so that one can come
  between the halves of another that found something; two numbers, so that one is
  taken over; a name with a comma and one without, and the names the service makes
  up; one list that cannot be read; `right` and `up` configured, `left` and `down`
  not, of the three commands one.
* WsDiscovery: both signals, also nested, two messages received by two hosts.  The
  third message changes nothing the second has not.
* VideoSource: three sources, so that a stream begins after the mutex is gone, and
  sources overlap; a queue of two (30 in the code) and four frames, so that it
  fills up, drops, and empties again.

The proofs have no bounds but those the specification names (section 6).
Deadlock is not checked: requests, changes of files and the clock are bounded, so
every model stops.

## 5 Fairness

* Between two system calls a process goes on (weak fairness of its steps): the
  kernel schedules whoever can run.
* `sem_wait` is given strong fairness in SharedMemory, one condition per thread
  over all its waits: who waits for an object
  that is posted over and over gets it at some time.  POSIX promises nothing of
  the kind for ordinary scheduling; the holders of this code leave within a few
  lines and the semaphore is idle most of the time, so the opposite would take a
  scheduler that prefers the same process for ever.  For the same reason
  `SyncSee` and `CleanExpired` are strongly fair: the sync thread's loop of half
  a second comes back to each slot, whatever requests do meanwhile.
* No fairness for clients, files, signals, kills and failures: nobody has to send
  a request.  The exception is `BusySpec` of NotifyDaemon, which assumes that
  files keep changing: `notify_daemon_idle` shows that the end of the daemon hangs
  on it.
* The clock advances (`WF(Tick)`).
* WsDiscovery: main and the innermost handler run, and a signal that was sent is
  delivered; nobody has to send anything to the port.
* VideoSource: both threads run.  `SpinEnds` excuses the end of the bounded supply
  of frames (`captured = MaxFrames`): the encoder of the code never stops.
* `ProgramsFairness` is the conjunction of these for the program that a behaviour
  of `MCPrograms` is about.

`EveryWaitEnds` allows for `exit_main`: when the daemon shuts down while its
thread is inside, the post never comes (hazard at `onvif_notify_server.c:718`).

## 6 Proofs

Theorems, all of the form `Spec => []Inv` or `Spec => [][A]_vars`, for any set of
clients, requests or instances, any number of slots and any bounds:

| module | theorem | property |
|---|---|---|
| `SharedMemoryProofs` | `TypeCorrect`, `BooksBalance`, `SharedObjectExcludes`, `FirstSemaphoreExcludes`, `NameOutlivesOnlyDeaths`, `OnlyFailuresHideDaemon`, `RequestsFindDaemon`, `HandlesAreOpen`, `NobodyWaitsInVain` | `TypeOK`, `SemaphoreBalance`, `SameObjectExcludes`, `ExclusionUntilUnlinked`, `NameDiesWithDaemon`, `DaemonReachable` (twice), `OnlySyncIsOrphan`, `WaitsForHolder` |
| `SubscriptionsProofs` | `TableTypes`, `GrantsAreHonoured`, `NothingIsInherited`, `EndsInOneOfTwoWays`, `EverySlotEnds`, `SyncIsNotForgotten`, `TableImplementsService` | `TypeOK`, `GrantHonoured`, `UnusedIsBlank`, `EndsByClockOrOwner`, `EndsSomeDay`, `PendingEndsRightly`, `ImplementsService` (refinement) |
| `DeliveryProofs` | `DeliveryImplementsSubscriptions`, `DeliveryHonoursGrants`, `DeliveryImplementsService`, `DeliveryTypesHold` | refinement, `GrantHonoured`, `ImplementsService`, `DeliveryTypeOK` |
| | `NewFilesAreFollowed`, `ChangeIsCaughtUp`, `TableFollows`, `PollsBringNews`, `NothingIsMissed`, `CountedIsPrinted`, `PushIsRight`, `EverybodyIsTold`, `EveryPullAdvances` | `Follows` (twice), `TableFollowsFiles`, `PollIsNews`, `PullMissesNothing`, `AnnouncedIsPrinted`, `PushConverges`, `EverybodyKnows`, `PullLeft` decreases |
| `NotifyDaemonProofs` | `TypeCorrect`, `NeverTwo`, `ServerIsFound`, `PidFileIsRight`, `NothingLeftBehind`, `DaemonImplementsName`, `LeftoverIsForEver`, `SignalCountsDown` | `TypeOK`, `OneServes`, `ServerHasSegment`, `PidFileNamesServer`, `CleanEnd`, `ImplementsName` (refinement), `LeftBehind` is stable, `StepsToEnd` decreases |
| `PtzServiceProofs` | `PtzTypesHold`, `NamesStayUnique`, `TokensAreOwn`, `FaultsAreHarmless`, `GotoIsRight`, `MadeUpNamesAreNew` | `PtzTypeOK`, `NamesAreUnique`, `TokenIsOwn`, `FaultMeansNothingDone`, `GotoReachesChecked`, `NamelessIsNew` |
| `WsDiscoveryProofs` | `WsdTypesHold`, `NumbersAreNew`, `NothingAfterBye`, `NoMessageIsMixed`, `AnswersFindSender`, `GoodEndsSayBye`, `SignalLeadsOut` | `WsdTypeOK`, `NumbersIncrease`, `ByeIsFinal`, `NoMixture`, `RightAddressee`, `EndsWithBye`, `StepsLeft` decreases |
| `VideoSourceProofs` | `VideoTypesHold`, `OneAtTheQueue`, `FramesStayInOrder`, `StreamStartsFresh`, `CallbackHasSource`, `TriggerIsVain`, `SourceImplementsBuffer`, `NobodyKeepsTheMutex` | `VideoTypeOK`, `QueueExclusive`, `FramesInOrder`, `StartsFresh`, `CallbackSourceIsOpen`, `TriggerFindsNobody`, `ImplementsBuffer` (refinement), `WaitsForOther` |
| `ProgramsProofs` | `ProgramsAreIndependent`, `ProgramsTypesHold`, `ProgramsAreSafe` | composition, `ProgramsTypeOK`, all invariants of the run `programs` |

Proved and in no run: `OneServes`, `EndsByClockOrOwner`, `NoMixture`, `EndsWithBye`,
`StartsFresh`, the two refinements `ImplementsName` and `ImplementsBuffer`, and what
the proof modules themselves define (`OnlySyncIsOrphan`, `WaitsForHolder`,
`EndsSomeDay`, `PendingEndsRightly`, `PollIsNews`, `EverybodyKnows`, `LeftBehind`,
`WaitsForOther` and the measures).

*SharedMemory.*  `SemaphoreBalance` is not inductive by itself.  `IInv` adds that
objects not yet created have no losses and no excess posts (`FreshUntouched`),
that the sync thread is off until the daemon has started it, and that the daemon
has no semaphore before it opened one and after it closed it (`LifeCycle`).  Then each `wait` moves one from the value to the
holders, each post back, and a death moves its holders to `lost`; the lemmas
about cardinalities of `Holders` carry those moves.  `SameObjectExcludes` follows:
two holders and `extra = 0` would make the sum more than 1.
`ExclusionUntilUnlinked` follows the first semaphore object: as long as its name
stands nobody can make another (`FirstName`), so all who are inside have that one.
`NameDiesWithDaemon` and `DaemonReachable` are inductive next to `TypeOK`: only
`DaemonUnlink`, `SyncFault` and `DaemonKilled` take the daemon down, and only a
failing `create_shared_memory` removes the name from outside.  With failures
`DaemonReachable` is false; `OnlyFailuresHideDaemon` says that it holds up to the
first of them, `RequestsFindDaemon` is the case without any.  `HandlesAreOpen`
follows what each path has opened: all but the sync thread, which the end of the
daemon leaves running, work on handles that are open.  With the books of
`SemaphoreBalance` that gives `NobodyWaitsInVain`: value 0 and nothing lost leave a
holder, who is another thread and has the object open for its post.

*Subscriptions.*  `GrantHonoured` needs to know that a slot that is not in use has
no owner and is blank (`UnusedIsBlank`), that a grant has a kind other than
"unused" (`GrantsHaveKind`), and that a renewal under way was read in this very
second and finds its subscription alive (`RenewalsInTime`).  The theorems assume
`Deviations = {}`, that is: clients stop using an address after its termination
time, a request's wait for the semaphore stays within the second in which it read
the clock, addresses fit and MessageID is there.  Each of these is needed; the
run `subscriptions_freed` drops them.  `TableTypes`
assumes nothing of the kind.  Nor do `EverySlotEnds` and `SyncIsNotForgotten`: the
first follows requests under way, whose end is later than the clock's first second
(`AskedToEnd`), so that no slot in use has the 0 that the clean-up skips.

*Service.*  `TableImplementsService` maps every step of the table to a step of
`SubscriptionService` or to none: a critical section that grants is a `Grant`, a
renewal an `Extend`, a tick of the clock takes from clients what is over (`Pass`),
and the clean-up, which comes later, changes nothing any client can tell.  It
needs the invariant of `GrantsAreHonoured`, and that no two clients hold one slot,
for the count of those who hold one; it assumes `Deviations = {}`.

*Delivery.*  Every step of `Delivery` is one of `Subscriptions` on the table's
variables or leaves them alone, so the theorems on grants hold in the larger
system.  `DeliveryTypeOK` needs that a second pass at work is at an event that
exists (`AtWorkOnEvent`).  `BaseInv` collects these, the invariant of
`Subscriptions`, and `OwnerInv`: a PUSH slot notifies its owner and a slot that is
not over is the one its owner counts on.  On top of it, `PrintedIsTold` (what an
unlocked pass printed and nobody touched since is what its client knows) makes
`PullMissesNothing` inductive; `WorksOnOwn` and `CountedIsThere` (an event that was
counted is still in the word, or somebody's store took it) `AnnouncedIsPrinted`;
`ConvergedUnlessPending`, which speaks of each event while others are still
pending, and `MainClock` (the main thread's clock is not ahead) `PushConverges`.
`EverybodyKnows` puts the pieces together, from the file to the client.  `Follows`
is `TableFollowsFiles` for one event: it is kept by every step, established by
every change (`ChangeIsCaughtUp`), and holds from the start for files that were
not there before the daemon.  The measure `PullLeft` counts the steps a
PullMessages has before it.  The theorems assume what the properties need and no
more: `Deviations = {}` for all but types, the table and the files, and
`EveryPullAdvances`; `Inotify` for `NewFilesAreFollowed`, `ChangeIsCaughtUp`,
`TableFollows`, `PushIsRight` and `EverybodyIsTold`, with `Preexisting = {}` for
`TableFollows` alone; and polling (`~Inotify`) for `PollsBringNews`.  With polling `PushConverges` is false: a
file that appears, is told by `sync_events` and is gone before the next poll leaves
its consumer with "true" (`onvif_notify_server.c:766`).

*NotifyDaemon.*  `IInv` says that an instance between its creation of the segment
and its end owns the name (`SegmentOfServer`), that a name with no kill so far
belongs to such an instance (`SegmentIsServed`), and where the pid file stands
while starts do not overlap (`PidFileOfStarter`).  With it each step is one of
`SegmentName` or none: the `shm_unlink` at the end hits the instance's own name.

*PtzService.*  `PtzInv` adds to the properties what requests in flight have in
hand: a name that two of them have is doubtful (`HandInv`), a name that is not
doubtful has no preset but its own request's (`StoreInv`), what was stored or
checked is there until a removal marks the request (`StoredInv`, `GotoInv`),
numbers are distinct, and the names made up so far are below the number of
presets (`DefaultInv`).  The answers (`AnswerInv`) then follow at the step that
gives them.

*WsDiscovery.*  `WsdInv`: after a Bye the socket is shut, or the handler that sent
it is about to shut it (`ByeInv`); a handler past its "cat" holds a Bye
(`FramesInv`); while the socket is open whoever runs has a number that is new
(`MessageNumberInv`), and main, when nobody interrupts it, its own template (`MainInv`);
where `addr_in` points (`AddressInv`).  Since handlers form a stack, a step of the
innermost one is treated once for all (`HandlerKeeps`).  `SignalLeadsOut` adds that
from the flag on the socket is shut (`OutInv`), so that `recvfrom` returns.

*VideoSource.*  `VideoInv`: until the last source has been closed the mutex says who
is at the queue (`MutexInv`); only the source of `doGetNextFrame` awaits data and
the queue it saw filled stays so (`AwaitInv`); what was delivered is older than the
queue (`OrderInv`) and the queue at most its capacity older than any source
(`FreshInv`).  For `SourceImplementsBuffer`, `RoomForIsLatest` relates dropping one
frame before a push to keeping the latest after it; `HeldInv` says where the holder
of the mutex is.

*Programs.*  A step of the composition is a step of one program and leaves the
variables of the others alone, so it implements each, and the theorems on each
carry over.

Each strengthening was checked as an invariant with TLC before it was proved, and
so were the measures, as action properties.

Only model-checked: the liveness properties, since their fairness is outside what
the prover handles.  What they rest on besides fairness is proved:

| property | its core |
|---|---|
| `EveryWaitEnds` | `NobodyWaitsInVain`: who waits, waits for somebody who has the object for its post |
| `SlotsComeBack` | `EverySlotEnds`: a slot in use has an end, and the clean-up sees it |
| `SyncIsServed` | `SyncIsNotForgotten`: what is pending stays so until it is served or over |
| `PullReturns` | `EveryPullAdvances`: a measure that only the request's own steps change, downwards |
| `TableCatchesUp` | with inotify `ChangeIsCaughtUp`, with polling `PollsBringNews`: every difference found is one that is stored |
| `SignalEnds`, `SignalEndsLoop` | `SignalCountsDown`, `SignalLeadsOut`: a measure that no step increases |
| `SpinEnds` | `NobodyKeepsTheMutex`: the holder is the other thread, about to leave |

What is missing from a proof of liveness is in each case that the step in question
is enabled and taken in the end, `ENABLED` and `WF`/`SF`, and a recursion over the
measure.  Every invariant and every refinement that a passing run checks is proved.

## 7 What the checks found

Each is a run that is expected to be violated, listed under `findings`.

1. *Semaphore without effect* (`utils.c:67`).  The close at the end of a request
   unlinks the name.  Request A closes, request B opens and creates another
   object, and enters while the daemon's thread is inside under the old one.
   `sync_events` says "// Semaphore is already ok".
2. *A change is lost in the unlocked pass* (`events_service.c:306`).  A change
   that comes between the read of `is_on` and the reset of the bit is never
   pulled, although it "is sent to all subscribers" (`src/Cross/README.md:241`).
3. *SIGTERM before poll* (`onvif_notify_server.c:726`).  A signal between the test
   of `exit_main` and `poll` without a limit is forgotten until a file changes.
4. *memset after the segment is visible* (`onvif_notify_server.c:673`).  A request
   that is quicker than the daemon loses the subscription it was just granted.

Further divergences that the modules contain but no property speaks of; each is a
hazard in `PROJECT.json`:

* a full table is answered with a success whose address has `sub=9`, and a consumer
  address of 256 characters or more with the address of a slot that is not in use
  (`events_service.c:128`, `:385`);
* `MessageLimit` is compared with the number of events looked at (`:308`);
* after a synchronization PullMessages reports `is_on`, which inotify never set for
  a file that was there before the daemon (`:290`);
* with polling, a PUSH consumer that synchronized while a short-lived file existed
  keeps "true" (`onvif_notify_server.c:766`).

## 8 Not modelled

* Dispatch and authentication: one process per request that compares strings and
  a digest, looks a function up in a table and ends with its answer.  It keeps no
  state, nothing interleaves with it, and a model of it would restate its guards.
* Configuration parser, device and media services: pure functions of a file and a
  request, with no state that later steps read; `SystemReboot` calls `system`.  Of
  the PTZ service, the requests that only read and print.
* The NAL unit reader (`h26XParser.cpp`): its only calls are between `#if 0` and
  `#endif` (`h26XSource.cpp:21`, `:166`).
* RTSP sessions, RTP and the audio source: live555's, and `avSourceBegin` returns at
  once.
* Command lines, daemonize, identifiers and serial numbers.
* SOAP parsing, templates, dates, logging: text.  `interval2sec` is abstracted to
  the set `Durations`, which includes 0, its answer for what it cannot read.
* `send_notify` succeeds or fails in one step; how long `connect` blocks while the
  semaphore is held is not modelled.
* SIGUSR1 and `print_subscriptions`: they print the table, without the semaphore.
* Third-party code, except for what POSIX, inotify, sockets and live555's event
  loop do for the code above.  By lines it is nearly all of the repository:
  mbedtls, lighttpd, live555, `json.hpp`, ezxml and jsmn are more than 430000 of
  445000 lines, so the models cover a small share of the whole and a large one of
  the program's own stateful code.

## 9 What is left

The plan of the project is done: `SharedMemory`, `Subscriptions` with its abstract
specification, `Delivery`, `NotifyDaemon`, `PtzService`, `WsDiscovery` and
`VideoSource`, each with its proofs, and the composition of the last four.  What
could be added:

1. A composition of `SharedMemory` and `Delivery` at the grain of fields: what two
   requests under two semaphore objects do to a slot, and which part of
   `SubscriptionService` is left then.
2. Polling: the weakest condition under which PUSH consumers converge.
3. The time that `send_notify` spends in `connect` with the semaphore held.
4. An abstract specification of delivery (a log of changes per client), of which
   `EverybodyKnows` would be the invariant.
