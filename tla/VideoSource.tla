------------------------------ MODULE VideoSource ------------------------------
(***************************************************************************)
(* The frames of the camera on their way into the RTSP server: the         *)
(* encoder's thread puts them into H264FrameQueue (videoSampleCapture),    *)
(* the event loop of live555 takes them out (H26XSource), both in          *)
(* src/LIVE555-RTSP/mainProg/mainProg/h26XSource.cpp.                      *)
(*                                                                         *)
(* A source is made for every stream and for every DESCRIBE whose SDP is   *)
(* not known yet, and closed when that is over; the first of them          *)
(* registers the callback, the last one tidies up.  Sources are only       *)
(* touched by the event loop, the queue, its mutex, the registration and   *)
(* the event trigger are shared by all.                                    *)
(***************************************************************************)
EXTENDS Integers, Sequences

CONSTANTS
  NSources,       (* bound: H26XSource objects made                         *)
  QueueCapacity,  (* 30 in the program                                      *)
  MaxFrames       (* bound: frames captured                                 *)

ASSUME VideoAssumption ==
  /\ NSources \in Nat
  /\ QueueCapacity \in Nat \ {0}
  /\ MaxFrames \in Nat

Sources == 1..NSources   (* in the order in which they are made             *)
NoSource == 0

VARIABLES
  life,        (* per source: "unborn", "open" or "closed"                  *)
  awaiting,    (* per source: fIsCurrentlyAwaitingData                      *)
  openedAt,    (* ghost, per source: frames captured when it was opened     *)
  registered,  (* the source that vvtk_set_video_callback was given         *)
  trigger,     (* TRUE while eventTriggerId is not 0                        *)
  event,       (* the source a triggered event is pending for               *)
  mutex,       (* RWQueueMutex: "free", "loop", "capture", or "gone"        *)
  queue,       (* H264FrameQueue, each frame its number                     *)
  captured,    (* frames captured so far                                    *)
  capture,     (* the encoder's thread: [at, arg]                           *)
  loop,        (* the event loop: [at, source]                              *)
  delivered,   (* the last frame handed to a reader: [frame, to]            *)
  drained,     (* ghost: the last source open has once been closed          *)
  together     (* ghost: two sources were once open at a time               *)

sourceVars == <<life, awaiting, openedAt>>
videoGhosts == <<drained, together>>
videoVars == <<sourceVars, registered, trigger, event, mutex, queue, captured,
               capture, loop, delivered, videoGhosts>>

VideoTypeOK ==
  /\ life \in [Sources -> {"unborn", "open", "closed"}]
  /\ awaiting \in [Sources -> BOOLEAN]
  /\ openedAt \in [Sources -> 0..MaxFrames]
  /\ registered \in Sources \cup {NoSource}
  /\ trigger \in BOOLEAN
  /\ event \in Sources \cup {NoSource}
  /\ mutex \in {"free", "loop", "capture", "gone"}
  /\ queue \in Seq(1..MaxFrames) /\ Len(queue) <= QueueCapacity
  /\ captured \in 0..MaxFrames
  /\ capture \in [at : {"idle", "lock", "push", "signal", "ended"},
                  arg : Sources \cup {NoSource}]
  /\ loop \in [at : {"idle", "spin", "lock", "take", "drain", "ended"},
               source : Sources \cup {NoSource}]
  /\ delivered \in [frame : 0..MaxFrames, to : Sources \cup {NoSource}]
  /\ drained \in BOOLEAN
  /\ together \in BOOLEAN

VideoInit ==
  /\ life = [s \in Sources |-> "unborn"]
  /\ awaiting = [s \in Sources |-> FALSE]
  /\ openedAt = [s \in Sources |-> 0]
  /\ registered = NoSource
  /\ trigger = FALSE
  /\ event = NoSource
  /\ mutex = "free"
  /\ queue = <<>>
  /\ captured = 0
  /\ capture = [at |-> "idle", arg |-> NoSource]
  /\ loop = [at |-> "idle", source |-> NoSource]
  /\ delivered = [frame |-> 0, to |-> NoSource]
  /\ drained = FALSE
  /\ together = FALSE

(* referenceCount sources. *)
Open == {s \in Sources : life[s] = "open"}

(* Both threads at work on the queue: what they make of it is undefined,   *)
(* and the model lets neither of them go on.                               *)
Racing == capture.at = "push" /\ loop.at \in {"take", "drain"}

(* Mutant: nobody takes the mutex. *)
LockNot(who) == mutex' = mutex

(* pthread_mutex_lock fails at once, and unheard, on a mutex that is gone. *)
Lock(who) == mutex \in {"free", "gone"}
             /\ mutex' = IF mutex = "gone" THEN mutex ELSE who

(* Mutant: the mutex is not given back. *)
UnlockNot == mutex' = mutex

Unlock == mutex' = IF mutex = "gone" THEN mutex ELSE "free"

Loop(at, s) == loop' = [at |-> at, source |-> s]

(* The use of a source that was deleted: what is read is what was there    *)
(* before, or the program ends.                                            *)
End ==
  /\ Loop("ended", NoSource)
  /\ capture' = [at |-> "ended", arg |-> NoSource]

-------------------------------------------------------------------------------
(* The event loop. *)

(* Mutant: the callback is registered by the very first source alone.      *)
CreateNewOnce(s) ==
  /\ loop.at = "idle"
  /\ life[s] = "unborn" /\ \A t \in 1..(s - 1) : life[t] # "unborn"
  /\ life' = [life EXCEPT ![s] = "open"]
  /\ openedAt' = [openedAt EXCEPT ![s] = captured]
  /\ registered' = IF registered = NoSource THEN s ELSE registered
  /\ trigger' = TRUE
  /\ together' = (together \/ Open # {})
  /\ UNCHANGED <<awaiting, event, mutex, queue, captured, capture, loop,
                 delivered, drained>>

(* The constructor; the mutex is a static one and not made anew. *)
CreateNew(s) ==
  /\ loop.at = "idle"
  /\ life[s] = "unborn" /\ \A t \in 1..(s - 1) : life[t] # "unborn"
  /\ life' = [life EXCEPT ![s] = "open"]
  /\ openedAt' = [openedAt EXCEPT ![s] = captured]
  /\ registered' = IF Open = {} THEN s ELSE registered
  /\ trigger' = TRUE
  /\ together' = (together \/ Open # {})
  /\ UNCHANGED <<awaiting, event, mutex, queue, captured, capture, loop,
                 delivered, drained>>

(* The destructor.  The last source destroys the mutex, locked or not:     *)
(* with some C libraries it is of no use any more, with others it works as *)
(* before.  The callback stays registered.                                 *)
CloseSource(s) ==
  /\ loop.at = "idle"
  /\ life[s] = "open"
  /\ life' = [life EXCEPT ![s] = "closed"]
  /\ IF Open = {s}
       THEN /\ Loop("drain", NoSource)
            /\ mutex' \in {"gone", mutex}
            /\ drained' = TRUE
       ELSE UNCHANGED <<loop, mutex, drained>>
  /\ awaiting' = [awaiting EXCEPT ![s] = FALSE]
  /\ UNCHANGED <<openedAt, registered, trigger, event, queue, captured, capture,
                 delivered, together>>

(* The last source empties the queue, without the mutex, and deletes the   *)
(* event trigger.                                                          *)
Drain ==
  /\ loop.at = "drain" /\ ~Racing
  /\ queue' = <<>>
  /\ trigger' = FALSE
  /\ event' = NoSource
  /\ Loop("idle", NoSource)
  /\ UNCHANGED <<sourceVars, registered, mutex, captured, capture, delivered,
                 videoGhosts>>

(* getNextFrame and the beginning of doGetNextFrame. *)
GetNextFrame(s) ==
  /\ loop.at = "idle"
  /\ life[s] = "open"
  /\ ~awaiting[s]
  /\ awaiting' = [awaiting EXCEPT ![s] = TRUE]
  /\ Loop("spin", s)
  /\ UNCHANGED <<life, openedAt, registered, trigger, event, mutex, queue,
                 captured, capture, delivered, videoGhosts>>

(* while (H264FrameQueue.empty()) usleep(5000), without the mutex. *)
SpinEnd ==
  /\ loop.at = "spin"
  /\ queue # <<>>
  /\ Loop("lock", loop.source)
  /\ UNCHANGED <<sourceVars, registered, trigger, event, mutex, queue, captured,
                 capture, delivered, videoGhosts>>

DeliverLock ==
  /\ loop.at = "lock"
  /\ Lock("loop")
  /\ Loop("take", loop.source)
  /\ UNCHANGED <<sourceVars, registered, trigger, event, queue, captured,
                 capture, delivered, videoGhosts>>

(* The rest of deliverFrame, up to afterGetting, where the reader may ask  *)
(* for the next frame.                                                     *)
DeliverFrame ==
  /\ loop.at = "take" /\ ~Racing
  /\ \/ /\ queue # <<>>
        /\ delivered' = [frame |-> Head(queue), to |-> loop.source]
        /\ queue' = Tail(queue)
        /\ awaiting' = [awaiting EXCEPT ![loop.source] = FALSE]
     \/ queue = <<>> /\ UNCHANGED <<delivered, queue, awaiting>>
  /\ Unlock
  /\ Loop("idle", NoSource)
  /\ UNCHANGED <<life, openedAt, registered, trigger, event, captured, capture,
                 videoGhosts>>

(* The scheduler calls deliverFrame0 with the source of the event: it is   *)
(* delivered to only if it awaits data.                                    *)
HandleEvent ==
  /\ loop.at = "idle"
  /\ event # NoSource
  /\ event' = NoSource
  /\ \/ awaiting[event] /\ Loop("lock", event) /\ UNCHANGED capture
     \/ ~awaiting[event] /\ UNCHANGED <<loop, capture>>
     \/ life[event] = "closed" /\ End
  /\ UNCHANGED <<sourceVars, registered, trigger, mutex, queue, captured,
                 delivered, videoGhosts>>

-------------------------------------------------------------------------------
(* The encoder's thread: videoSampleCapture. *)

Capture ==
  /\ capture.at = "idle"
  /\ registered # NoSource
  /\ captured < MaxFrames
  /\ captured' = captured + 1
  /\ capture' = [at |-> "lock", arg |-> registered]
  /\ UNCHANGED <<sourceVars, registered, trigger, event, mutex, queue, loop,
                 delivered, videoGhosts>>

CaptureLock ==
  /\ capture.at = "lock"
  /\ Lock("capture")
  /\ capture' = [capture EXCEPT !.at = "push"]
  /\ UNCHANGED <<sourceVars, registered, trigger, event, queue, captured, loop,
                 delivered, videoGhosts>>

(* Mutants: it is the new frame that is dropped; the queue is emptied to   *)
(* make room.                                                              *)
RoomForDropNew(q, f) == IF Len(q) >= QueueCapacity THEN q ELSE Append(q, f)
RoomForEmpty(q, f) == IF Len(q) >= QueueCapacity THEN <<>> ELSE Append(q, f)
(* The oldest frames make room for the new one. *)
RoomFor(q, f) ==
  Append(IF Len(q) < QueueCapacity THEN q
         ELSE SubSeq(q, Len(q) - QueueCapacity + 2, Len(q)), f)

CapturePush ==
  /\ capture.at = "push" /\ ~Racing
  /\ queue' = RoomFor(queue, captured)
  /\ Unlock
  /\ capture' = [capture EXCEPT !.at = "signal"]
  /\ UNCHANGED <<sourceVars, registered, trigger, event, captured, loop,
                 delivered, videoGhosts>>

(* doSignalNewFrameData of the source the callback was called with; there  *)
(* is nothing to trigger while eventTriggerId is 0.                        *)
CaptureSignal ==
  /\ capture.at = "signal"
  /\ event' = IF trigger THEN capture.arg ELSE event
  /\ \/ capture' = [at |-> "idle", arg |-> NoSource] /\ UNCHANGED loop
     \/ life[capture.arg] = "closed" /\ End
  /\ UNCHANGED <<sourceVars, registered, trigger, mutex, queue, captured,
                 delivered, videoGhosts>>

-------------------------------------------------------------------------------

LoopStep == SpinEnd \/ DeliverLock \/ DeliverFrame \/ Drain \/ HandleEvent

CaptureStep == Capture \/ CaptureLock \/ CapturePush \/ CaptureSignal

VideoNext ==
  \/ \E s \in Sources : CreateNew(s) \/ CloseSource(s) \/ GetNextFrame(s)
  \/ LoopStep \/ CaptureStep

VideoSpec == VideoInit /\ [][VideoNext]_videoVars

(* The threads run, and the encoder goes on producing frames. *)
VideoFairness ==
  /\ WF_videoVars(LoopStep)
  /\ WF_videoVars(CaptureStep)

VideoFairSpec == VideoSpec /\ VideoFairness

-------------------------------------------------------------------------------
(* Properties. *)

(* The threads are never both at work on the queue -- until the last open  *)
(* source has been closed for the first time, which destroys the mutex for *)
(* good and empties the queue without it.                                  *)
QueueExclusive == Racing => drained

(* A reader gets the frames in the order in which they were captured, each *)
(* once, and what waits for it are the newest, without a gap: only the     *)
(* oldest are ever dropped, whichever thread comes first.                  *)
FramesInOrder ==
  LET newest == IF capture.at \in {"lock", "push"} THEN captured - 1 ELSE captured
  IN /\ capture.at # "ended" =>
          \A i \in DOMAIN queue : queue[i] = newest - Len(queue) + i
     /\ queue # <<>> => delivered.frame < Head(queue)

(* The last frame that has been through the queue or is in it; and what    *)
(* the two threads together are to the frames.                             *)
Newest == IF capture.at \in {"lock", "push"} THEN captured - 1 ELSE captured

Buffer == INSTANCE FrameBuffer
            WITH Capacity <- QueueCapacity, buffer <- queue, put <- Newest,
                 got <- delivered.frame, stopped <- (capture.at = "ended")

ImplementsBuffer == Buffer!BufferSpec

(* The callback is not unregistered, so that frames go on to arrive while  *)
(* no source is open, and a source starts with old ones: but none that is  *)
(* older than the queue, and the frame on its way into it, are long.       *)
StartsFresh ==
  delivered.to # NoSource =>
    delivered.frame >= openedAt[delivered.to] - QueueCapacity

(* The callback is called with a source that is open, whenever one is --   *)
(* as long as there is never more than one at a time: a second source does *)
(* not register itself when the first one, which has, is closed.           *)
CallbackSourceIsOpen ==
  Open # {} /\ ~together => registered \in Open

(* The event trigger delivers nothing: outside of doGetNextFrame no source *)
(* awaits data, because the queue, once seen not to be empty, is not empty *)
(* when the mutex has been taken.                                          *)
TriggerFindsNobody == loop.at = "idle" => \A s \in Sources : ~awaiting[s]

(* doGetNextFrame, which holds up all clients while it spins, ends as long *)
(* as frames come.                                                         *)
SpinEnds ==
  loop.at = "spin" ~> \/ loop.at \in {"idle", "ended"}
                      \/ Racing \/ captured = MaxFrames

===============================================================================
