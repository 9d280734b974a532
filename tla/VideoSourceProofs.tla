--------------------------- MODULE VideoSourceProofs ---------------------------
(***************************************************************************)
(* The properties of VideoSource for any number of sources and frames and  *)
(* any capacity of the queue.                                              *)
(***************************************************************************)
EXTENDS VideoSource, SequenceTheorems, TLAPS

(* A thread in the middle of its work has a source that was opened and a   *)
(* frame that was captured; both end together.                             *)
ActorInv ==
  /\ loop.at \in {"spin", "lock", "take"} => /\ loop.source \in Sources
                                             /\ life[loop.source] # "unborn"
  /\ capture.at \in {"lock", "push", "signal"} => capture.arg \in Sources
  /\ capture.at \in {"lock", "push"} => captured > 0
  /\ (capture.at = "ended") <=> (loop.at = "ended")

(* Until the last source has been closed, the mutex says who is at work. *)
MutexInv ==
  ~drained => /\ mutex # "gone"
              /\ loop.at # "drain"
              /\ capture.at = "push" => mutex = "capture"
              /\ loop.at = "take" => mutex = "loop"

(* Only the source of doGetNextFrame awaits data, and a queue that it has  *)
(* seen not to be empty is not emptied by anybody else.                    *)
AwaitInv ==
  /\ loop.at \in {"idle", "drain"} => \A s \in Sources : ~awaiting[s]
  /\ loop.at \in {"spin", "lock", "take"} =>
        \A s \in Sources : awaiting[s] => s = loop.source
  /\ loop.at \in {"lock", "take"} => queue # <<>>

CallbackInv == ~together => Open \subseteq {registered}

(* What was delivered is older than anything in the queue or on its way    *)
(* into it.                                                                *)
OrderInv ==
  /\ FramesInOrder
  /\ capture.at # "ended" => delivered.frame <= Newest - Len(queue)

(* The next frame of the queue is at most its capacity older than the      *)
(* source it may be delivered to.                                          *)
FreshInv ==
  /\ \A s \in Sources : openedAt[s] <= captured
  /\ capture.at # "ended" =>
        \A s \in Sources : openedAt[s] - QueueCapacity <= Newest - Len(queue) + 1
  /\ delivered.to # NoSource => life[delivered.to] # "unborn"
  /\ StartsFresh

VideoInv == /\ VideoTypeOK /\ ActorInv /\ MutexInv /\ AwaitInv
            /\ CallbackInv /\ OrderInv /\ FreshInv

LEMMA InitVideoInv == VideoInit => VideoInv
<1> SUFFICES ASSUME VideoInit PROVE VideoInv
  OBVIOUS
<1>1. queue = <<>> /\ queue \in Seq(1..MaxFrames) /\ Len(queue) = 0
  BY EmptySeq DEF VideoInit
<1>2. VideoTypeOK
  <2>1. Len(queue) <= QueueCapacity /\ 0 \in 0..MaxFrames
    BY <1>1, VideoAssumption
  <2> QED BY <1>1, <2>1 DEF VideoInit, VideoTypeOK
<1>3. ActorInv /\ MutexInv /\ AwaitInv
  BY DEF VideoInit, ActorInv, MutexInv, AwaitInv
<1>4. CallbackInv
  BY DEF VideoInit, CallbackInv, Open
<1>5. OrderInv
  BY <1>1 DEF VideoInit, OrderInv, FramesInOrder, Newest
<1>6. FreshInv
  BY <1>1, VideoAssumption DEF VideoInit, FreshInv, Newest, StartsFresh
<1> QED BY <1>2, <1>3, <1>4, <1>5, <1>6 DEF VideoInv

(* How many frames stay in the queue when RoomFor has made room. *)
Staying(q) == IF Len(q) < QueueCapacity THEN Len(q) ELSE QueueCapacity - 1

(* RoomFor keeps the newest of them, in their order, before the new frame. *)
LEMMA RoomForElements ==
  ASSUME NEW q \in Seq(1..MaxFrames), Len(q) <= QueueCapacity,
         NEW f \in 1..MaxFrames
  PROVE  /\ Staying(q) \in Nat
         /\ RoomFor(q, f) \in Seq(1..MaxFrames)
         /\ Len(RoomFor(q, f)) = Staying(q) + 1
         /\ \A i \in 1..Staying(q) :
              RoomFor(q, f)[i] = q[Len(q) - Staying(q) + i]
         /\ RoomFor(q, f)[Staying(q) + 1] = f
<1> DEFINE kept == IF Len(q) < QueueCapacity THEN q
                   ELSE SubSeq(q, Len(q) - QueueCapacity + 2, Len(q))
           n == Staying(q)
<1> USE DEF Staying
<1>1. Len(q) \in Nat /\ QueueCapacity \in Nat \ {0}
  BY VideoAssumption, LenProperties
<1>2. /\ kept \in Seq(1..MaxFrames)
      /\ Len(kept) = n
      /\ \A i \in 1..n : kept[i] = q[Len(q) - n + i]
  <2>1. CASE Len(q) < QueueCapacity
    BY <1>1, <2>1
  <2>2. CASE Len(q) = QueueCapacity
    <3>1. \A i \in 2..Len(q) : q[i] \in 1..MaxFrames
      <4> SUFFICES ASSUME NEW i \in 2..Len(q) PROVE q[i] \in 1..MaxFrames
        OBVIOUS
      <4>1. i \in 1..Len(q)
        BY <1>1
      <4> QED BY <4>1, ElementOfSeq
    <3>2. kept = SubSeq(q, 2, Len(q))
      BY <1>1, <2>2
    <3>3. /\ kept \in Seq(1..MaxFrames)
          /\ Len(kept) = IF 2 <= Len(q) THEN Len(q) - 2 + 1 ELSE 0
          /\ \A i \in 1..(Len(q) - 2 + 1) : kept[i] = q[2 + i - 1]
      <4> HIDE DEF kept
      <4> QED BY <1>1, <3>1, <3>2, SubSeqProperties
    <3>4. Len(kept) = n /\ n = Len(q) - 1
      BY <1>1, <2>2, <3>3
    <3>5. ASSUME NEW i \in 1..n PROVE kept[i] = q[Len(q) - n + i]
      <4> HIDE DEF kept
      <4>1. i \in 1..(Len(q) - 2 + 1) /\ 2 + i - 1 = Len(q) - n + i
        BY <1>1, <2>2
      <4>2. kept[i] = q[2 + i - 1]
        BY <3>3, <4>1
      <4> QED BY <4>1, <4>2
    <3> QED BY <3>3, <3>4, <3>5
  <2> HIDE DEF kept, n
  <2> QED BY <1>1, <2>1, <2>2
<1>3. RoomFor(q, f) = Append(kept, f)
  BY DEF RoomFor
<1>4. n \in Nat
  BY <1>1
<1> HIDE DEF kept
<1>5. /\ RoomFor(q, f) \in Seq(1..MaxFrames)
      /\ Len(RoomFor(q, f)) = n + 1
      /\ \A i \in 1..n : RoomFor(q, f)[i] = kept[i]
      /\ RoomFor(q, f)[n + 1] = f
  BY <1>2, <1>3, AppendProperties
<1> QED BY <1>2, <1>4, <1>5

(* What RoomFor makes of a queue in order: a queue in order that ends with *)
(* the new frame, longer by one or full.                                   *)
LEMMA RoomForProperties ==
  ASSUME NEW q \in Seq(1..MaxFrames), Len(q) <= QueueCapacity,
         NEW f \in 1..MaxFrames
  PROVE  /\ RoomFor(q, f) \in Seq(1..MaxFrames)
         /\ RoomFor(q, f) # <<>>
         /\ Len(RoomFor(q, f)) =
              IF Len(q) < QueueCapacity THEN Len(q) + 1 ELSE QueueCapacity
         /\ (\A i \in DOMAIN q : q[i] = f - 1 - Len(q) + i) =>
              \A i \in DOMAIN RoomFor(q, f) :
                 RoomFor(q, f)[i] = f - Len(RoomFor(q, f)) + i
<1> DEFINE n == Staying(q)
<1>1. Len(q) \in Nat /\ QueueCapacity \in Nat \ {0}
  BY VideoAssumption, LenProperties
<1>2. n = IF Len(q) < QueueCapacity THEN Len(q) ELSE QueueCapacity - 1
  BY DEF Staying
<1>4. n \in Nat
  BY <1>1, <1>2
<1>5. /\ RoomFor(q, f) \in Seq(1..MaxFrames)
      /\ Len(RoomFor(q, f)) = n + 1
      /\ \A i \in 1..n : RoomFor(q, f)[i] = q[Len(q) - n + i]
      /\ RoomFor(q, f)[n + 1] = f
  BY RoomForElements
<1> HIDE DEF n
<1>6. RoomFor(q, f) # <<>>
  BY <1>4, <1>5, EmptySeq
<1>7. ASSUME \A i \in DOMAIN q : q[i] = f - 1 - Len(q) + i,
             NEW i \in DOMAIN RoomFor(q, f)
      PROVE  RoomFor(q, f)[i] = f - Len(RoomFor(q, f)) + i
  <2>1. i \in 1..(n + 1) /\ f \in Int
    BY <1>5, LenProperties
  <2>2. CASE i = n + 1
    BY <1>4, <1>5, <2>1, <2>2
  <2>3. CASE i \in 1..n
    <3>1. Len(q) - n + i \in DOMAIN q
      <4>1. n <= Len(q)
        BY <1>1, <1>2
      <4>2. Len(q) - n + i \in 1..Len(q)
        BY <1>1, <1>4, <2>3, <4>1
      <4> QED BY <4>2, LenProperties
    <3>2. RoomFor(q, f)[i] = f - 1 - Len(q) + (Len(q) - n + i)
      BY <1>5, <1>7, <2>3, <3>1
    <3> QED BY <1>1, <1>4, <1>5, <2>1, <2>3, <3>2
  <2> QED BY <1>4, <2>1, <2>2, <2>3
<1> QED BY <1>1, <1>2, <1>5, <1>6, <1>7

LEMMA VideoTypeStep ==
  ASSUME VideoInv, VideoNext
  PROVE  VideoTypeOK'
<1>1. VideoTypeOK /\ ActorInv
  BY DEF VideoInv
<1>2. Len(queue) \in Nat /\ captured \in Nat /\ MaxFrames \in Nat
  BY <1>1, VideoAssumption, LenProperties DEF VideoTypeOK
<1>3. ASSUME NEW s \in Sources, CreateNew(s) PROVE VideoTypeOK'
  <2>1. /\ life' \in [Sources -> {"unborn", "open", "closed"}]
        /\ openedAt' \in [Sources -> 0..MaxFrames]
        /\ registered' \in Sources \cup {NoSource}
        /\ trigger' \in BOOLEAN
        /\ together' \in BOOLEAN
    BY <1>1, <1>3 DEF VideoTypeOK, CreateNew
  <2>2. UNCHANGED <<awaiting, event, mutex, queue, captured, capture, loop,
                    delivered, drained>>
    BY <1>3 DEF CreateNew
  <2> QED BY <1>1, <2>1, <2>2 DEF VideoTypeOK
<1>4. ASSUME NEW s \in Sources, CloseSource(s) PROVE VideoTypeOK'
  <2>1. /\ life' \in [Sources -> {"unborn", "open", "closed"}]
        /\ awaiting' \in [Sources -> BOOLEAN]
        /\ mutex' \in {"free", "loop", "capture", "gone"}
        /\ loop' \in [at : {"idle", "spin", "lock", "take", "drain", "ended"},
                      source : Sources \cup {NoSource}]
        /\ drained' \in BOOLEAN
    <3>1. /\ life' = [life EXCEPT ![s] = "closed"]
          /\ awaiting' = [awaiting EXCEPT ![s] = FALSE]
      BY <1>4 DEF CloseSource
    <3>2. \/ /\ Loop("drain", NoSource)
             /\ mutex' \in {"gone", mutex}
             /\ drained' = TRUE
          \/ UNCHANGED <<loop, mutex, drained>>
      BY <1>4 DEF CloseSource
    <3>3. /\ life' \in [Sources -> {"unborn", "open", "closed"}]
          /\ awaiting' \in [Sources -> BOOLEAN]
      BY <1>1, <3>1 DEF VideoTypeOK
    <3>4. /\ mutex' \in {"free", "loop", "capture", "gone"}
          /\ drained' \in BOOLEAN
      BY <1>1, <3>2 DEF VideoTypeOK
    <3>5. loop' \in [at : {"idle", "spin", "lock", "take", "drain", "ended"},
                     source : Sources \cup {NoSource}]
      BY <1>1, <3>2 DEF VideoTypeOK, Loop
    <3> QED BY <3>3, <3>4, <3>5
  <2>2. UNCHANGED <<openedAt, registered, trigger, event, queue, captured,
                    capture, delivered, together>>
    BY <1>4 DEF CloseSource
  <2> QED BY <1>1, <2>1, <2>2 DEF VideoTypeOK
<1>5. ASSUME NEW s \in Sources, GetNextFrame(s) PROVE VideoTypeOK'
  BY <1>1, <1>5 DEF VideoTypeOK, GetNextFrame, Loop, videoGhosts
<1>6. CASE SpinEnd
  BY <1>1, <1>6 DEF VideoTypeOK, SpinEnd, Loop, sourceVars, videoGhosts
<1>7. CASE DeliverLock
  BY <1>1, <1>7 DEF VideoTypeOK, DeliverLock, Lock, Loop, sourceVars, videoGhosts
<1>8. CASE DeliverFrame
  <2>1. /\ loop' \in [at : {"idle", "spin", "lock", "take", "drain", "ended"},
                      source : Sources \cup {NoSource}]
        /\ mutex' \in {"free", "loop", "capture", "gone"}
        /\ UNCHANGED <<life, openedAt, registered, trigger, event, captured,
                       capture, drained, together>>
    BY <1>1, <1>8 DEF VideoTypeOK, DeliverFrame, Loop, Unlock, videoGhosts
  <2>2. CASE queue = <<>>
    BY <1>1, <1>8, <2>1, <2>2 DEF VideoTypeOK, DeliverFrame
  <2>3. CASE queue # <<>>
    <3>1. /\ Head(queue) \in 1..MaxFrames
          /\ Tail(queue) \in Seq(1..MaxFrames)
          /\ Len(Tail(queue)) = Len(queue) - 1
      BY <1>1, <2>3, HeadTailProperties DEF VideoTypeOK
    <3>2. /\ delivered' = [frame |-> Head(queue), to |-> loop.source]
          /\ queue' = Tail(queue)
          /\ awaiting' = [awaiting EXCEPT ![loop.source] = FALSE]
          /\ loop.source \in Sources
      BY <1>1, <1>8, <2>3 DEF DeliverFrame, ActorInv
    <3>3. /\ delivered' \in [frame : 0..MaxFrames, to : Sources \cup {NoSource}]
          /\ awaiting' \in [Sources -> BOOLEAN]
      BY <1>1, <3>1, <3>2 DEF VideoTypeOK
    <3>4. queue' \in Seq(1..MaxFrames) /\ Len(queue') <= QueueCapacity
      BY <1>1, <1>2, <3>1, <3>2, VideoAssumption DEF VideoTypeOK
    <3> QED BY <1>1, <2>1, <3>3, <3>4 DEF VideoTypeOK
  <2> QED BY <2>2, <2>3
<1>9. CASE Drain
  <2>1. queue' \in Seq(1..MaxFrames) /\ Len(queue') <= QueueCapacity
    BY <1>9, EmptySeq, VideoAssumption DEF Drain
  <2>2. /\ trigger' = FALSE /\ event' = NoSource
        /\ loop' \in [at : {"idle", "spin", "lock", "take", "drain", "ended"},
                      source : Sources \cup {NoSource}]
        /\ UNCHANGED <<life, awaiting, openedAt, registered, mutex, captured,
                       capture, delivered, drained, together>>
    BY <1>9 DEF Drain, Loop, sourceVars, videoGhosts
  <2> QED BY <1>1, <2>1, <2>2 DEF VideoTypeOK
<1>10. CASE HandleEvent
  <2>1. event \in Sources
    BY <1>1, <1>10 DEF VideoTypeOK, HandleEvent
  <2>2. /\ loop' \in [at : {"idle", "spin", "lock", "take", "drain", "ended"},
                      source : Sources \cup {NoSource}]
        /\ capture' \in [at : {"idle", "lock", "push", "signal", "ended"},
                         arg : Sources \cup {NoSource}]
    BY <1>1, <1>10, <2>1 DEF VideoTypeOK, HandleEvent, Loop, End
  <2>3. /\ event' = NoSource
        /\ UNCHANGED <<life, awaiting, openedAt, registered, trigger, mutex,
                       queue, captured, delivered, drained, together>>
    BY <1>10 DEF HandleEvent, sourceVars, videoGhosts
  <2> QED BY <1>1, <2>2, <2>3 DEF VideoTypeOK
<1>11. CASE Capture
  <2>1. /\ captured' \in 0..MaxFrames
        /\ capture' \in [at : {"idle", "lock", "push", "signal", "ended"},
                         arg : Sources \cup {NoSource}]
    BY <1>1, <1>2, <1>11 DEF VideoTypeOK, Capture
  <2>2. UNCHANGED <<life, awaiting, openedAt, registered, trigger, event, mutex,
                    queue, loop, delivered, drained, together>>
    BY <1>11 DEF Capture, sourceVars, videoGhosts
  <2> QED BY <1>1, <2>1, <2>2 DEF VideoTypeOK
<1>12. CASE CaptureLock
  BY <1>1, <1>12 DEF VideoTypeOK, CaptureLock, Lock, sourceVars, videoGhosts
<1>13. CASE CapturePush
  <2>1. captured \in 1..MaxFrames
    BY <1>1, <1>2, <1>13 DEF VideoTypeOK, ActorInv, CapturePush
  <2>2. queue' \in Seq(1..MaxFrames) /\ Len(queue') <= QueueCapacity
    BY <1>1, <1>2, <1>13, <2>1, RoomForProperties, VideoAssumption
    DEF VideoTypeOK, CapturePush
  <2>3. /\ mutex' \in {"free", "loop", "capture", "gone"}
        /\ capture' \in [at : {"idle", "lock", "push", "signal", "ended"},
                         arg : Sources \cup {NoSource}]
        /\ UNCHANGED <<life, awaiting, openedAt, registered, trigger, event,
                       captured, loop, delivered, drained, together>>
    BY <1>1, <1>13 DEF VideoTypeOK, CapturePush, Unlock, sourceVars, videoGhosts
  <2> QED BY <1>1, <2>2, <2>3 DEF VideoTypeOK
<1>14. CASE CaptureSignal
  <2>1. /\ event' \in Sources \cup {NoSource}
        /\ loop' \in [at : {"idle", "spin", "lock", "take", "drain", "ended"},
                      source : Sources \cup {NoSource}]
        /\ capture' \in [at : {"idle", "lock", "push", "signal", "ended"},
                         arg : Sources \cup {NoSource}]
    BY <1>1, <1>14 DEF VideoTypeOK, CaptureSignal, Loop, End
  <2>2. UNCHANGED <<life, awaiting, openedAt, registered, trigger, mutex, queue,
                    captured, delivered, drained, together>>
    BY <1>14 DEF CaptureSignal, sourceVars, videoGhosts
  <2> QED BY <1>1, <2>1, <2>2 DEF VideoTypeOK
<1> QED BY <1>3, <1>4, <1>5, <1>6, <1>7, <1>8, <1>9, <1>10, <1>11, <1>12, <1>13,
           <1>14 DEF VideoNext, LoopStep, CaptureStep

LEMMA ActorStep ==
  ASSUME VideoInv, VideoNext
  PROVE  ActorInv'
<1>1. VideoTypeOK /\ ActorInv /\ AwaitInv
  BY DEF VideoInv
<1>2. captured \in Nat
  BY <1>1, VideoAssumption DEF VideoTypeOK
<1>3. ASSUME NEW s \in Sources, CreateNew(s) PROVE ActorInv'
  BY <1>1, <1>3 DEF VideoTypeOK, ActorInv, CreateNew
<1>4. ASSUME NEW s \in Sources, CloseSource(s) PROVE ActorInv'
  <2>1. loop.at = "idle" /\ loop'.at \in {"idle", "drain"}
    BY <1>4 DEF CloseSource, Loop
  <2> QED BY <1>1, <1>4, <2>1 DEF ActorInv, CloseSource
<1>5. ASSUME NEW s \in Sources, GetNextFrame(s) PROVE ActorInv'
  BY <1>1, <1>5 DEF VideoTypeOK, ActorInv, GetNextFrame, Loop
<1>6. CASE SpinEnd \/ DeliverLock \/ Drain
  BY <1>1, <1>6 DEF ActorInv, SpinEnd, DeliverLock, Drain, Loop, sourceVars
<1>7. CASE DeliverFrame
  BY <1>1, <1>7 DEF ActorInv, DeliverFrame, Loop
<1>8. CASE HandleEvent
  <2>1. event \in Sources /\ ~awaiting[event] /\ loop.at = "idle"
    BY <1>1, <1>8 DEF VideoTypeOK, AwaitInv, HandleEvent
  <2> QED BY <1>1, <1>8, <2>1 DEF ActorInv, HandleEvent, Loop, End, sourceVars
<1>9. CASE Capture
  <2>1. captured' > 0
    BY <1>2, <1>9 DEF Capture
  <2> QED BY <1>1, <1>9, <2>1 DEF VideoTypeOK, ActorInv, Capture, sourceVars
<1>10. CASE CaptureLock \/ CapturePush
  BY <1>1, <1>10 DEF VideoTypeOK, ActorInv, CaptureLock, CapturePush, sourceVars
<1>11. CASE CaptureSignal
  BY <1>1, <1>11 DEF ActorInv, CaptureSignal, Loop, End, sourceVars
<1> QED BY <1>3, <1>4, <1>5, <1>6, <1>7, <1>8, <1>9, <1>10, <1>11
        DEF VideoNext, LoopStep, CaptureStep

LEMMA MutexStep ==
  ASSUME VideoInv, VideoNext
  PROVE  MutexInv'
<1>1. VideoTypeOK /\ MutexInv /\ drained \in BOOLEAN
  BY DEF VideoInv, VideoTypeOK
<1>2. ASSUME NEW s \in Sources, CreateNew(s) \/ GetNextFrame(s) PROVE MutexInv'
  BY <1>1, <1>2 DEF MutexInv, CreateNew, GetNextFrame, Loop, videoGhosts
<1>3. ASSUME NEW s \in Sources, CloseSource(s) PROVE MutexInv'
  BY <1>1, <1>3 DEF MutexInv, CloseSource
<1>4. CASE SpinEnd \/ Drain \/ HandleEvent
  BY <1>1, <1>4 DEF MutexInv, SpinEnd, Drain, HandleEvent, Loop, End, videoGhosts
<1>5. CASE DeliverLock \/ DeliverFrame
  BY <1>1, <1>5
  DEF MutexInv, DeliverLock, DeliverFrame, Lock, Unlock, Loop, videoGhosts
<1>6. CASE Capture \/ CaptureSignal
  BY <1>1, <1>6 DEF MutexInv, Capture, CaptureSignal, Loop, End, videoGhosts
<1>7. CASE CaptureLock \/ CapturePush
  BY <1>1, <1>7
  DEF VideoTypeOK, MutexInv, CaptureLock, CapturePush, Lock, Unlock, videoGhosts
<1> QED BY <1>2, <1>3, <1>4, <1>5, <1>6, <1>7
        DEF VideoNext, LoopStep, CaptureStep

LEMMA AwaitStep ==
  ASSUME VideoInv, VideoNext
  PROVE  AwaitInv'
<1>1. VideoTypeOK /\ ActorInv /\ AwaitInv /\ awaiting \in [Sources -> BOOLEAN]
  BY DEF VideoInv, VideoTypeOK
<1>2. ASSUME NEW s \in Sources, CreateNew(s) PROVE AwaitInv'
  BY <1>1, <1>2 DEF AwaitInv, CreateNew
<1>3. ASSUME NEW s \in Sources, CloseSource(s) PROVE AwaitInv'
  <2>1. loop.at = "idle" /\ loop'.at \in {"idle", "drain"}
    BY <1>3 DEF CloseSource, Loop
  <2>2. \A t \in Sources : ~awaiting'[t]
    BY <1>1, <1>3, <2>1 DEF AwaitInv, CloseSource
  <2> QED BY <2>1, <2>2 DEF AwaitInv
<1>4. ASSUME NEW s \in Sources, GetNextFrame(s) PROVE AwaitInv'
  <2>1. loop.at = "idle" /\ loop' = [at |-> "spin", source |-> s]
    BY <1>4 DEF GetNextFrame, Loop
  <2>2. \A t \in Sources : awaiting'[t] => t = s
    BY <1>1, <1>4, <2>1 DEF AwaitInv, GetNextFrame
  <2> QED BY <2>1, <2>2 DEF AwaitInv
<1>5. CASE SpinEnd \/ DeliverLock
  BY <1>1, <1>5 DEF AwaitInv, SpinEnd, DeliverLock, Loop, sourceVars
<1>6. CASE DeliverFrame
  <2>1. /\ loop.source \in Sources
        /\ awaiting' = [awaiting EXCEPT ![loop.source] = FALSE]
        /\ loop' = [at |-> "idle", source |-> NoSource]
    BY <1>1, <1>6 DEF ActorInv, AwaitInv, DeliverFrame, Loop
  <2>2. \A t \in Sources : awaiting[t] => t = loop.source
    BY <1>1, <1>6 DEF AwaitInv, DeliverFrame
  <2>3. \A t \in Sources : ~awaiting'[t]
    BY <1>1, <2>1, <2>2
  <2> QED BY <2>1, <2>3 DEF AwaitInv
<1>7. CASE Drain
  BY <1>1, <1>7 DEF AwaitInv, Drain, Loop, sourceVars
<1>8. CASE HandleEvent
  <2>1. event \in Sources /\ ~awaiting[event] /\ loop.at = "idle"
    BY <1>1, <1>8 DEF VideoTypeOK, AwaitInv, HandleEvent
  <2> QED BY <1>1, <1>8, <2>1 DEF AwaitInv, HandleEvent, Loop, End, sourceVars
<1>9. CASE Capture \/ CaptureLock
  BY <1>1, <1>9 DEF AwaitInv, Capture, CaptureLock, sourceVars
<1>10. CASE CapturePush
  <2>1. queue' # <<>>
    <3>1. captured \in 1..MaxFrames
      BY <1>1, <1>10, VideoAssumption DEF VideoTypeOK, ActorInv, CapturePush
    <3> QED BY <1>1, <1>10, <3>1, RoomForProperties DEF VideoTypeOK, CapturePush
  <2> QED BY <1>1, <1>10, <2>1 DEF AwaitInv, CapturePush, sourceVars
<1>11. CASE CaptureSignal
  BY <1>1, <1>11 DEF AwaitInv, CaptureSignal, Loop, End, sourceVars
<1> QED BY <1>2, <1>3, <1>4, <1>5, <1>6, <1>7, <1>8, <1>9, <1>10, <1>11
        DEF VideoNext, LoopStep, CaptureStep

LEMMA CallbackStep ==
  ASSUME VideoInv, VideoNext
  PROVE  CallbackInv'
<1>1. CallbackInv /\ life \in [Sources -> {"unborn", "open", "closed"}]
      /\ together \in BOOLEAN
  BY DEF VideoInv, VideoTypeOK
<1>2. ASSUME NEW s \in Sources, CreateNew(s) PROVE CallbackInv'
  <2>1. Open' \subseteq Open \cup {s}
    BY <1>1, <1>2 DEF Open, CreateNew
  <2> QED BY <1>1, <1>2, <2>1 DEF CallbackInv, CreateNew
<1>3. ASSUME NEW s \in Sources, CloseSource(s) PROVE CallbackInv'
  <2>1. Open' \subseteq Open
    BY <1>1, <1>3 DEF Open, CloseSource
  <2> QED BY <1>1, <1>3, <2>1 DEF CallbackInv, CloseSource
<1>4. ASSUME UNCHANGED <<life, registered, together>> PROVE CallbackInv'
  BY <1>1, <1>4 DEF CallbackInv, Open
<1>5. (\E s \in Sources : GetNextFrame(s)) \/ LoopStep \/ CaptureStep
        => UNCHANGED <<life, registered, together>>
  BY DEF GetNextFrame, LoopStep, SpinEnd, DeliverLock, DeliverFrame, Drain,
         HandleEvent, CaptureStep, Capture, CaptureLock, CapturePush,
         CaptureSignal, sourceVars, videoGhosts
<1> QED BY <1>2, <1>3, <1>4, <1>5 DEF VideoNext

LEMMA QueueInOrder ==
  ASSUME OrderInv, capture.at # "ended"
  PROVE  \A i \in DOMAIN queue : queue[i] = Newest - Len(queue) + i
BY DEF OrderInv, FramesInOrder, Newest

(* Steps that leave the queue and what was delivered alone. *)
LEMMA FramesKept ==
  ASSUME VideoInv, UNCHANGED <<queue, delivered>>,
         capture'.at # "ended" => capture.at # "ended" /\ Newest' = Newest
  PROVE  OrderInv'
<1>1. OrderInv
  BY DEF VideoInv
<1>2. capture'.at # "ended" =>
        /\ \A i \in DOMAIN queue' : queue'[i] = Newest' - Len(queue') + i
        /\ delivered'.frame <= Newest' - Len(queue')
  BY <1>1, QueueInOrder DEF OrderInv
<1>3. queue' # <<>> => delivered'.frame < Head(queue')
  BY <1>1 DEF OrderInv, FramesInOrder
<1> QED BY <1>2, <1>3 DEF OrderInv, FramesInOrder, Newest

LEMMA SourcesKept ==
  ASSUME VideoInv, UNCHANGED <<queue, delivered, openedAt>>,
         captured' \in Nat, captured <= captured',
         capture'.at # "ended" => capture.at # "ended" /\ Newest' = Newest,
         \A s \in Sources : life[s] # "unborn" => life'[s] # "unborn"
  PROVE  FreshInv'
<1>1. /\ FreshInv
      /\ delivered.to \in Sources \cup {NoSource}
      /\ openedAt \in [Sources -> 0..MaxFrames]
      /\ captured \in 0..MaxFrames
  BY DEF VideoInv, VideoTypeOK
<1>2. \A s \in Sources : openedAt[s] \in Nat /\ openedAt[s] <= captured
  BY <1>1, VideoAssumption DEF FreshInv
<1>3. \A s \in Sources : openedAt'[s] <= captured'
  BY <1>1, <1>2, VideoAssumption
<1>4. capture'.at # "ended" =>
        \A s \in Sources :
           openedAt'[s] - QueueCapacity <= Newest' - Len(queue') + 1
  BY <1>1 DEF FreshInv
<1>5. delivered'.to # NoSource => life'[delivered'.to] # "unborn"
  BY <1>1 DEF FreshInv
<1>6. StartsFresh'
  BY <1>1 DEF FreshInv, StartsFresh
<1> QED BY <1>3, <1>4, <1>5, <1>6 DEF FreshInv

(* The numbers of the frames. *)
LEMMA FrameNumbers ==
  ASSUME VideoInv
  PROVE  /\ captured \in Nat /\ Newest \in Int /\ Len(queue) \in Nat
         /\ captured - 1 <= Newest
         /\ capture.at \notin {"lock", "push"} => Newest = captured
         /\ queue \in Seq(1..MaxFrames) /\ Len(queue) <= QueueCapacity
         /\ delivered.frame \in Nat
         /\ delivered.to \in Sources \cup {NoSource}
         /\ \A s \in Sources : openedAt[s] \in Nat
<1>1. VideoTypeOK
  BY DEF VideoInv
<1>2. captured \in Nat /\ Len(queue) \in Nat
  BY <1>1, VideoAssumption, LenProperties DEF VideoTypeOK
<1> QED BY <1>1, <1>2, VideoAssumption DEF VideoTypeOK, Newest

LEMMA CreateFrames ==
  ASSUME VideoInv, NEW s \in Sources, CreateNew(s)
  PROVE  OrderInv' /\ FreshInv'
<1>1. FreshInv /\ QueueCapacity \in Nat
      /\ life \in [Sources -> {"unborn", "open", "closed"}]
      /\ openedAt \in [Sources -> 0..MaxFrames]
  BY VideoAssumption DEF VideoInv, VideoTypeOK
<1>2. /\ life[s] = "unborn"
      /\ life' = [life EXCEPT ![s] = "open"]
      /\ openedAt' = [openedAt EXCEPT ![s] = captured]
      /\ UNCHANGED <<queue, delivered, captured, capture>>
  BY DEF CreateNew
<1>3. Newest' = Newest
  BY <1>2 DEF Newest
<1>4. OrderInv'
  BY <1>2, <1>3, FramesKept
<1>5. \A t \in Sources : openedAt'[t] <= captured'
  BY <1>1, <1>2, FrameNumbers DEF FreshInv
<1>6. capture'.at # "ended" =>
        \A t \in Sources :
           openedAt'[t] - QueueCapacity <= Newest' - Len(queue') + 1
  <2> SUFFICES ASSUME capture.at # "ended", NEW t \in Sources
               PROVE  openedAt'[t] - QueueCapacity <= Newest - Len(queue) + 1
    BY <1>2, <1>3
  <2>1. CASE t = s
    BY <1>1, <1>2, <2>1, FrameNumbers
  <2>2. CASE t # s
    BY <1>1, <1>2, <2>2 DEF FreshInv
  <2> QED BY <2>1, <2>2
<1>7. delivered.to # NoSource => delivered.to \in Sources /\ delivered.to # s
  BY <1>1, <1>2, FrameNumbers DEF FreshInv
<1>8. /\ delivered'.to # NoSource => life'[delivered'.to] # "unborn"
      /\ StartsFresh'
  BY <1>1, <1>2, <1>7 DEF FreshInv, StartsFresh
<1> QED BY <1>4, <1>5, <1>6, <1>8 DEF FreshInv

(* The head of the queue is delivered: it is the next after whatever was   *)
(* delivered before.                                                       *)
LEMMA DeliverFrames ==
  ASSUME VideoInv, DeliverFrame
  PROVE  OrderInv' /\ FreshInv'
<1>1. /\ ActorInv /\ AwaitInv /\ OrderInv /\ FreshInv
      /\ captured \in Nat /\ Newest \in Int /\ Len(queue) \in Nat
      /\ queue \in Seq(1..MaxFrames)
  BY FrameNumbers DEF VideoInv
<1>2. /\ loop.at = "take" /\ queue # <<>> /\ capture.at # "ended"
      /\ loop.source \in Sources /\ life[loop.source] # "unborn"
  BY <1>1 DEF DeliverFrame, ActorInv, AwaitInv
<1>3. /\ delivered' = [frame |-> Head(queue), to |-> loop.source]
      /\ queue' = Tail(queue)
      /\ UNCHANGED <<life, openedAt, captured, capture>>
  BY <1>2 DEF DeliverFrame
<1>4. Newest' = Newest
  BY <1>3 DEF Newest
<1>5. /\ Len(queue) > 0
      /\ Len(queue') = Len(queue) - 1
      /\ \A i \in 1..Len(queue') : queue'[i] = queue[i + 1]
      /\ queue' \in Seq(1..MaxFrames)
      /\ Head(queue) = queue[1]
  BY <1>1, <1>2, <1>3, HeadTailProperties, EmptySeq
<1>6. \A i \in 1..Len(queue) : queue[i] = Newest - Len(queue) + i
  BY <1>1, <1>2, QueueInOrder, LenProperties
<1>7. delivered'.frame = Newest - Len(queue) + 1
  BY <1>3, <1>5, <1>6
<1>8. \A i \in DOMAIN queue' : queue'[i] = Newest' - Len(queue') + i
  <2> SUFFICES ASSUME NEW i \in 1..Len(queue')
               PROVE  queue'[i] = Newest - Len(queue') + i
    BY <1>4, <1>5, LenProperties
  <2>1. i + 1 \in 1..Len(queue)
    BY <1>1, <1>5
  <2>2. queue[i + 1] = Newest - Len(queue) + (i + 1)
    BY <1>6, <2>1
  <2> QED BY <1>1, <1>5, <2>2
<1>9. queue' # <<>> => delivered'.frame < Head(queue')
  <2> SUFFICES ASSUME queue' # <<>> PROVE delivered'.frame < Head(queue')
    OBVIOUS
  <2>1. 1 \in DOMAIN queue' /\ Head(queue') = queue'[1]
    BY <1>5, EmptySeq, LenProperties
  <2>2. Head(queue') = Newest - Len(queue') + 1
    BY <1>4, <1>8, <2>1
  <2> QED BY <1>1, <1>5, <1>7, <2>2
<1>10. OrderInv'
  <2>1. delivered'.frame <= Newest' - Len(queue')
    BY <1>1, <1>4, <1>5, <1>7
  <2> QED BY <1>8, <1>9, <2>1 DEF OrderInv, FramesInOrder, Newest
<1>11. \A t \in Sources : openedAt[t] - QueueCapacity <= Newest - Len(queue) + 1
  BY <1>1, <1>2 DEF FreshInv
<1>12. FreshInv'
  <2>1. \A t \in Sources :
           openedAt'[t] - QueueCapacity <= Newest' - Len(queue') + 1
    BY <1>1, <1>3, <1>4, <1>5, <1>11, FrameNumbers, VideoAssumption
  <2>2. StartsFresh' /\ life'[delivered'.to] # "unborn"
    BY <1>2, <1>3, <1>7, <1>11 DEF StartsFresh
  <2>3. \A t \in Sources : openedAt'[t] <= captured'
    BY <1>1, <1>3 DEF FreshInv
  <2> QED BY <2>1, <2>2, <2>3 DEF FreshInv
<1> QED BY <1>10, <1>12

LEMMA DrainFrames ==
  ASSUME VideoInv, Drain
  PROVE  OrderInv' /\ FreshInv'
<1>1. /\ ActorInv /\ OrderInv /\ FreshInv
      /\ captured \in Nat /\ Newest \in Int /\ Len(queue) \in Nat
      /\ delivered.frame \in Nat /\ QueueCapacity \in Nat
      /\ \A t \in Sources : openedAt[t] \in Nat
  BY FrameNumbers, VideoAssumption DEF VideoInv
<1>2. /\ queue' = <<>> /\ Len(queue') = 0 /\ capture.at # "ended"
      /\ UNCHANGED <<life, openedAt, captured, capture, delivered>>
  BY <1>1, EmptySeq DEF Drain, ActorInv, sourceVars
<1>3. Newest' = Newest
  BY <1>2 DEF Newest
<1>4. OrderInv'
  <2>1. delivered'.frame <= Newest' - Len(queue')
    BY <1>1, <1>2, <1>3 DEF OrderInv
  <2> QED BY <1>2, <2>1 DEF OrderInv, FramesInOrder
<1>5. FreshInv'
  <2>1. \A t \in Sources :
           openedAt'[t] - QueueCapacity <= Newest' - Len(queue') + 1
    BY <1>1, <1>2, <1>3 DEF FreshInv
  <2>2. StartsFresh'
    BY <1>1, <1>2 DEF FreshInv, StartsFresh
  <2> QED BY <1>1, <1>2, <2>1, <2>2 DEF FreshInv
<1> QED BY <1>4, <1>5

(* A frame goes into the queue, and only the oldest make room for it. *)
LEMMA PushFrames ==
  ASSUME VideoInv, CapturePush
  PROVE  OrderInv' /\ FreshInv'
<1>1. /\ VideoTypeOK /\ ActorInv /\ OrderInv /\ FreshInv
      /\ captured \in 1..MaxFrames /\ captured \in Nat /\ Len(queue) \in Nat
      /\ delivered.frame \in Nat
      /\ QueueCapacity \in Nat \ {0}
      /\ \A t \in Sources : openedAt[t] \in Nat
  BY FrameNumbers, VideoAssumption
  DEF VideoInv, VideoTypeOK, ActorInv, CapturePush
<1>2. /\ capture.at = "push" /\ capture' = [capture EXCEPT !.at = "signal"]
      /\ queue' = RoomFor(queue, captured)
      /\ UNCHANGED <<life, openedAt, captured, delivered>>
  BY DEF CapturePush, sourceVars
<1>3. Newest = captured - 1 /\ Newest' = captured /\ capture'.at = "signal"
  BY <1>1, <1>2 DEF Newest, VideoTypeOK
<1>4. \A i \in DOMAIN queue : queue[i] = captured - 1 - Len(queue) + i
  BY <1>1, <1>2, <1>3, QueueInOrder
<1>5. /\ queue' \in Seq(1..MaxFrames) /\ queue' # <<>>
      /\ Len(queue') = IF Len(queue) < QueueCapacity THEN Len(queue) + 1
                       ELSE QueueCapacity
      /\ \A i \in DOMAIN queue' : queue'[i] = captured - Len(queue') + i
  BY <1>1, <1>2, <1>4, RoomForProperties DEF VideoTypeOK
<1>6. Newest - Len(queue) <= Newest' - Len(queue')
  BY <1>1, <1>3, <1>5 DEF VideoTypeOK
<1>7. Len(queue') \in Nat
  BY <1>5, LenProperties
<1>8. delivered'.frame <= Newest' - Len(queue')
  BY <1>1, <1>2, <1>3, <1>6, <1>7 DEF OrderInv
<1>9. delivered'.frame < Head(queue')
  <2>1. 1 \in DOMAIN queue' /\ Head(queue') = queue'[1]
    BY <1>5, EmptySeq, LenProperties
  <2>2. Head(queue') = captured - Len(queue') + 1
    BY <1>5, <2>1
  <2> QED BY <1>1, <1>2, <1>3, <1>7, <1>8, <2>2
<1>10. OrderInv'
  <2>1. \A i \in DOMAIN queue' : queue'[i] = Newest' - Len(queue') + i
    BY <1>3, <1>5
  <2> QED BY <1>8, <1>9, <2>1 DEF OrderInv, FramesInOrder, Newest
<1>11. FreshInv'
  <2>1. \A t \in Sources :
           openedAt'[t] - QueueCapacity <= Newest' - Len(queue') + 1
    BY <1>1, <1>2, <1>3, <1>6, <1>7 DEF FreshInv
  <2>2. StartsFresh'
    BY <1>1, <1>2 DEF FreshInv, StartsFresh
  <2> QED BY <1>1, <1>2, <2>1, <2>2 DEF FreshInv
<1> QED BY <1>10, <1>11

LEMMA FrameStep ==
  ASSUME VideoInv, VideoNext
  PROVE  OrderInv' /\ FreshInv'
<1> DEFINE Quiet ==
      /\ UNCHANGED <<queue, delivered, openedAt>>
      /\ captured' \in Nat /\ captured <= captured'
      /\ capture'.at # "ended" => capture.at # "ended" /\ Newest' = Newest
      /\ \A s \in Sources : life[s] # "unborn" => life'[s] # "unborn"
<1>1. ActorInv /\ captured \in Nat
      /\ life \in [Sources -> {"unborn", "open", "closed"}]
      /\ capture \in [at : {"idle", "lock", "push", "signal", "ended"},
                      arg : Sources \cup {NoSource}]
  BY FrameNumbers DEF VideoInv, VideoTypeOK
<1>2. Quiet => OrderInv' /\ FreshInv'
  BY FramesKept, SourcesKept
<1>3. ASSUME NEW s \in Sources, CloseSource(s) PROVE Quiet
  <2>1. UNCHANGED <<capture, captured, queue, delivered, openedAt>>
        /\ life' = [life EXCEPT ![s] = "closed"] /\ loop.at = "idle"
    BY <1>3 DEF CloseSource
  <2> QED BY <1>1, <2>1 DEF ActorInv, Newest
<1>4. ASSUME NEW s \in Sources, GetNextFrame(s) PROVE Quiet
  BY <1>1, <1>4 DEF ActorInv, Newest, GetNextFrame
<1>5. ASSUME SpinEnd \/ DeliverLock PROVE Quiet
  <2>1. /\ UNCHANGED <<capture, captured, queue, delivered, openedAt, life>>
        /\ loop.at # "ended"
    BY <1>5 DEF SpinEnd, DeliverLock, sourceVars
  <2> QED BY <1>1, <2>1 DEF ActorInv, Newest
<1>6. ASSUME HandleEvent PROVE Quiet
  <2>1. /\ UNCHANGED <<captured, queue, delivered, openedAt, life>>
        /\ loop.at # "ended"
        /\ capture'.at # "ended" => capture' = capture
    BY <1>6 DEF HandleEvent, End, sourceVars
  <2> QED BY <1>1, <2>1 DEF ActorInv, Newest
<1>7. ASSUME Capture PROVE Quiet
  <2>1. /\ UNCHANGED <<queue, delivered, openedAt, life>>
        /\ capture.at = "idle" /\ capture'.at = "lock"
        /\ captured' = captured + 1
    BY <1>7 DEF Capture, sourceVars
  <2> QED BY <1>1, <2>1 DEF Newest
<1>8. ASSUME CaptureLock PROVE Quiet
  <2>1. /\ UNCHANGED <<captured, queue, delivered, openedAt, life>>
        /\ capture.at = "lock" /\ capture' = [capture EXCEPT !.at = "push"]
    BY <1>8 DEF CaptureLock, sourceVars
  <2>2. capture'.at = "push"
    BY <1>1, <2>1
  <2> QED BY <1>1, <2>1, <2>2 DEF Newest
<1>9. ASSUME CaptureSignal PROVE Quiet
  <2>1. /\ UNCHANGED <<captured, queue, delivered, openedAt, life>>
        /\ capture.at = "signal" /\ capture'.at \in {"idle", "ended"}
    BY <1>9 DEF CaptureSignal, End, sourceVars
  <2> QED BY <1>1, <2>1 DEF Newest
<1> HIDE DEF Quiet
<1> QED BY <1>2, <1>3, <1>4, <1>5, <1>6, <1>7, <1>8, <1>9, CreateFrames,
           DeliverFrames, DrainFrames, PushFrames
        DEF VideoNext, LoopStep, CaptureStep

LEMMA VideoInvariant == VideoSpec => []VideoInv
<1>1. VideoInv /\ [VideoNext]_videoVars => VideoInv'
  <2> SUFFICES ASSUME VideoInv, [VideoNext]_videoVars PROVE VideoInv'
    OBVIOUS
  <2>1. CASE VideoNext
    BY <2>1, VideoTypeStep, ActorStep, MutexStep, AwaitStep, CallbackStep, FrameStep
    DEF VideoInv
  <2>2. CASE UNCHANGED videoVars
    <3> USE DEF videoVars, sourceVars, videoGhosts
    <3>1. VideoTypeOK'
      BY <2>2 DEF VideoInv, VideoTypeOK
    <3>2. ActorInv' /\ MutexInv' /\ AwaitInv' /\ CallbackInv'
      BY <2>2 DEF VideoInv, ActorInv, MutexInv, AwaitInv, CallbackInv, Open
    <3>3. OrderInv' /\ FreshInv'
      BY <2>2
      DEF VideoInv, OrderInv, FreshInv, FramesInOrder, StartsFresh, Newest
    <3> QED BY <3>1, <3>2, <3>3 DEF VideoInv
  <2> QED BY <2>1, <2>2
<1> QED BY <1>1, InitVideoInv, PTL DEF VideoSpec

-------------------------------------------------------------------------------

(* Type correctness, among it that the queue never exceeds its capacity. *)
THEOREM VideoTypesHold == VideoSpec => []VideoTypeOK
<1>1. VideoInv => VideoTypeOK
  BY DEF VideoInv
<1> QED BY <1>1, VideoInvariant, PTL

(* The encoder's thread and the event loop are never both at work on the   *)
(* queue, until the last open source has been closed.                      *)
THEOREM OneAtTheQueue == VideoSpec => []QueueExclusive
<1>1. VideoInv => QueueExclusive
  BY DEF VideoInv, MutexInv, QueueExclusive, Racing, VideoTypeOK
<1> QED BY <1>1, VideoInvariant, PTL

(* Readers get frames in the order of capture, each once, and only the     *)
(* oldest of the queue are dropped (videoSampleCapture, deliverFrame).     *)
THEOREM FramesStayInOrder == VideoSpec => []FramesInOrder
<1>1. VideoInv => FramesInOrder
  BY DEF VideoInv, OrderInv
<1> QED BY <1>1, VideoInvariant, PTL

(* A stream starts with frames at most the queue's capacity older than its *)
(* source, although the callback goes on without sources.                  *)
THEOREM StreamStartsFresh == VideoSpec => []StartsFresh
<1>1. VideoInv => StartsFresh
  BY DEF VideoInv, FreshInv
<1> QED BY <1>1, VideoInvariant, PTL

(* As long as sources are made one after the other, the callback is called *)
(* with the one that is open (H26XSource::H26XSource).                     *)
THEOREM CallbackHasSource == VideoSpec => []CallbackSourceIsOpen
<1>1. VideoInv => CallbackSourceIsOpen
  BY DEF VideoInv, CallbackInv, CallbackSourceIsOpen
<1> QED BY <1>1, VideoInvariant, PTL

(* Between two events of the loop no source awaits data: deliverFrame0 has *)
(* nothing to deliver.                                                     *)
THEOREM TriggerIsVain == VideoSpec => []TriggerFindsNobody
<1>1. VideoInv => TriggerFindsNobody
  BY DEF VideoInv, AwaitInv, TriggerFindsNobody
<1> QED BY <1>1, VideoInvariant, PTL

-------------------------------------------------------------------------------
(* The queue as a buffer. *)

(* Making room first and appending then is the same as keeping the newest. *)
LEMMA RoomForIsLatest ==
  ASSUME NEW q \in Seq(1..MaxFrames), Len(q) <= QueueCapacity,
         NEW f \in 1..MaxFrames
  PROVE  RoomFor(q, f) = Buffer!Latest(Append(q, f), QueueCapacity)
<1> DEFINE a == Append(q, f)
           n == Staying(q)
           r == RoomFor(q, f)
<1>1. Len(q) \in Nat /\ QueueCapacity \in Nat \ {0}
  BY VideoAssumption, LenProperties
<1>2. /\ a \in Seq(1..MaxFrames) /\ Len(a) = Len(q) + 1
      /\ \A i \in 1..Len(q) : a[i] = q[i]
      /\ a[Len(q) + 1] = f
  BY AppendProperties
<1>3. /\ r \in Seq(1..MaxFrames) /\ Len(r) = n + 1 /\ n \in Nat
      /\ \A i \in 1..n : r[i] = q[Len(q) - n + i]
      /\ r[n + 1] = f
  BY RoomForElements
<1>4. n = IF Len(q) < QueueCapacity THEN Len(q) ELSE QueueCapacity - 1
  BY DEF Staying
<1>5. Len(q) - n \in Nat
  BY <1>1, <1>4
<1> HIDE DEF a, n, r
<1>6. ASSUME NEW i \in 1..(n + 1) PROVE r[i] = a[Len(q) - n + i]
  <2>1. CASE i = n + 1
    <3>1. Len(q) - n + i = Len(q) + 1
      BY <1>1, <1>3, <2>1
    <3> QED BY <1>2, <1>3, <2>1, <3>1
  <2>2. CASE i # n + 1
    <3>1. i \in 1..n /\ Len(q) - n + i \in 1..Len(q)
      BY <1>1, <1>3, <1>5, <2>2
    <3> QED BY <1>2, <1>3, <3>1
  <2> QED BY <2>1, <2>2
<1>7. CASE Len(q) < QueueCapacity
  <2>1. Len(r) = Len(a) /\ \A i \in 1..Len(r) : r[i] = a[i]
    BY <1>1, <1>2, <1>3, <1>4, <1>6, <1>7
  <2>2. r = a
    BY <1>2, <1>3, <2>1, SeqEqual
  <2>3. Len(a) <= QueueCapacity
    BY <1>1, <1>2, <1>7
  <2> QED BY <2>2, <2>3 DEF Buffer!Latest, a, r
<1>8. CASE Len(q) = QueueCapacity
  <2> DEFINE b == SubSeq(a, 2, Len(a))
  <2>1. Len(q) - n = 1 /\ Len(a) - QueueCapacity + 1 = 2 /\ ~(Len(a) <= QueueCapacity)
        /\ Len(a) - 2 + 1 = n + 1 /\ 2 <= Len(a)
    BY <1>1, <1>2, <1>4, <1>8
  <2>2. \A i \in 2..Len(a) : a[i] \in 1..MaxFrames
    <3> SUFFICES ASSUME NEW i \in 2..Len(a) PROVE a[i] \in 1..MaxFrames
      OBVIOUS
    <3>1. i \in 1..Len(a)
      BY <1>1, <1>2
    <3> QED BY <1>2, <3>1, ElementOfSeq
  <2>3. /\ b \in Seq(1..MaxFrames)
        /\ Len(b) = Len(a) - 2 + 1
        /\ \A i \in 1..(Len(a) - 2 + 1) : b[i] = a[2 + i - 1]
    <3>1. Len(a) \in Int
      BY <1>1, <1>2
    <3> QED BY <2>1, <2>2, <3>1, SubSeqProperties
  <2> HIDE DEF b
  <2>4. ASSUME NEW i \in 1..(n + 1) PROVE r[i] = b[i]
    <3>1. r[i] = a[1 + i]
      BY <1>6, <2>1
    <3>2. b[i] = a[2 + i - 1]
      BY <2>1, <2>3
    <3>3. 2 + i - 1 = 1 + i
      OBVIOUS
    <3> QED BY <3>1, <3>2, <3>3
  <2>5. r = b
    BY <1>3, <2>1, <2>3, <2>4, SeqEqual
  <2> QED BY <2>1, <2>5 DEF Buffer!Latest, a, b, r
<1> QED BY <1>1, <1>7, <1>8

LEMMA BufferStep ==
  ASSUME VideoInv, [VideoNext]_videoVars
  PROVE  [Buffer!BufferNext]_<<queue, Newest, delivered.frame, capture.at = "ended">>
<1> DEFINE mapped == <<queue, Newest, delivered.frame, capture.at = "ended">>
<1>1. /\ VideoTypeOK /\ ActorInv
      /\ captured \in Nat
  BY VideoAssumption DEF VideoInv, VideoTypeOK
<1>2. capture \in [at : {"idle", "lock", "push", "signal", "ended"},
                   arg : Sources \cup {NoSource}]
  BY <1>1 DEF VideoTypeOK
<1>3. CASE \/ \E s \in Sources : CreateNew(s) \/ CloseSource(s) \/ GetNextFrame(s)
           \/ SpinEnd \/ DeliverLock \/ UNCHANGED videoVars
  <2>1. UNCHANGED <<queue, captured, capture, delivered>>
    BY <1>3
    DEF CreateNew, CloseSource, GetNextFrame, SpinEnd, DeliverLock, videoVars
  <2> QED BY <2>1 DEF Newest
<1>4. CASE DeliverFrame
  <2>1. UNCHANGED <<captured, capture>> /\ capture.at # "ended"
    BY <1>1, <1>4 DEF DeliverFrame, ActorInv
  <2>2. CASE queue = <<>>
    <3>1. UNCHANGED <<queue, delivered>>
      BY <1>4, <2>2 DEF DeliverFrame
    <3> QED BY <2>1, <3>1 DEF Newest
  <2>3. CASE queue # <<>>
    <3>1. queue' = Tail(queue) /\ delivered'.frame = Head(queue)
      BY <1>4, <2>3 DEF DeliverFrame
    <3>2. Buffer!Get
      BY <2>1, <2>3, <3>1 DEF Buffer!Get, Newest
    <3> QED BY <3>2 DEF Buffer!BufferNext
  <2> QED BY <2>2, <2>3
<1>5. CASE Drain
  <2>1. UNCHANGED <<captured, capture, delivered>> /\ queue' = <<>>
        /\ capture.at # "ended"
    BY <1>1, <1>5 DEF Drain, ActorInv
  <2>2. Buffer!Clear
    BY <2>1 DEF Buffer!Clear, Newest
  <2> QED BY <2>2 DEF Buffer!BufferNext
<1>6. CASE HandleEvent \/ CaptureSignal
  <2>1. UNCHANGED <<captured, queue, delivered>> /\ capture.at # "ended"
    BY <1>1, <1>6 DEF HandleEvent, CaptureSignal, ActorInv
  <2>2. CASE capture'.at = "ended"
    <3>1. Newest' = captured /\ Newest \in {captured, captured - 1}
      BY <2>1, <2>2 DEF Newest
    <3>2. Newest' \in {Newest, Newest + 1}
      BY <1>1, <3>1
    <3>3. (capture.at = "ended")' = TRUE /\ (capture.at = "ended") = FALSE
      BY <2>1, <2>2
    <3>4. Buffer!Stop
      BY <2>1, <3>2, <3>3 DEF Buffer!Stop
    <3> QED BY <3>4 DEF Buffer!BufferNext
  <2>3. CASE capture'.at # "ended"
    <3>1. \/ capture' = capture
          \/ capture.at = "signal" /\ capture'.at = "idle"
      BY <1>6, <2>3 DEF HandleEvent, CaptureSignal, End
    <3>2. UNCHANGED mapped
      BY <2>1, <2>3, <3>1 DEF Newest
    <3> QED BY <3>2
  <2> QED BY <2>2, <2>3
<1>7. CASE Capture \/ CaptureLock
  <2>1. UNCHANGED <<queue, delivered>>
    BY <1>7 DEF Capture, CaptureLock
  <2>2. /\ capture.at # "ended" /\ capture'.at # "ended"
        /\ Newest' = Newest
    BY <1>1, <1>2, <1>7 DEF Capture, CaptureLock, Newest
  <2> QED BY <2>1, <2>2
<1>8. CASE CapturePush
  <2>1. /\ capture.at = "push" /\ capture'.at = "signal"
        /\ UNCHANGED <<captured, delivered>>
        /\ queue' = RoomFor(queue, captured)
    BY <1>2, <1>8 DEF CapturePush
  <2>2. Newest = captured - 1 /\ Newest' = captured /\ Newest + 1 = captured
    BY <1>1, <2>1 DEF Newest
  <2>3. captured \in 1..MaxFrames
    BY <1>1, <2>1, VideoAssumption DEF ActorInv, VideoTypeOK
  <2>4. queue' = Buffer!Latest(Append(queue, Newest + 1), QueueCapacity)
    BY <1>1, <2>1, <2>2, <2>3, RoomForIsLatest DEF VideoTypeOK
  <2>5. Buffer!Put
    BY <2>1, <2>2, <2>4 DEF Buffer!Put
  <2> QED BY <2>5 DEF Buffer!BufferNext
<1> QED BY <1>3, <1>4, <1>5, <1>6, <1>7, <1>8
        DEF VideoNext, LoopStep, CaptureStep

(* Two threads, a mutex that may be gone, sources that come and go and a   *)
(* frame that is taken out under a lock taken after the queue was looked   *)
(* at: to the frames they are one buffer that forgets the oldest.          *)
THEOREM SourceImplementsBuffer == VideoSpec => ImplementsBuffer
<1>1. VideoInit => Buffer!BufferInit
  BY DEF VideoInit, Buffer!BufferInit, Newest
<1> QED BY <1>1, BufferStep, VideoInvariant, PTL
        DEF VideoSpec, ImplementsBuffer, Buffer!BufferSpec

-------------------------------------------------------------------------------
(* Who waits, waits for the other thread. *)

(* The mutex is taken by a thread that is at work on the queue, and gives  *)
(* it back; once a source was made the encoder's thread has a callback.    *)
HeldInv ==
  /\ mutex = "capture" => capture.at \in {"push", "ended"}
  /\ mutex = "loop" => loop.at \in {"take", "ended"}
  /\ (\E s \in Sources : life[s] # "unborn") => registered # NoSource

LEMMA HeldStep ==
  ASSUME VideoInv, HeldInv, [VideoNext]_videoVars
  PROVE  HeldInv'
<1>1. /\ VideoTypeOK /\ ActorInv
      /\ life \in [Sources -> {"unborn", "open", "closed"}]
      /\ capture \in [at : {"idle", "lock", "push", "signal", "ended"},
                      arg : Sources \cup {NoSource}]
      /\ \A s \in Sources : s # NoSource
  BY VideoAssumption DEF VideoInv, VideoTypeOK, Sources, NoSource
<1> USE DEF HeldInv
<1>2. ASSUME NEW s \in Sources, CreateNew(s) PROVE HeldInv'
  <2>1. CASE Open = {}
    BY <1>1, <1>2, <2>1 DEF CreateNew
  <2>2. CASE Open # {}
    <3>1. registered # NoSource
      BY <2>2 DEF Open
    <3> QED BY <1>2, <2>2, <3>1 DEF CreateNew
  <2> QED BY <2>1, <2>2
<1>3. ASSUME NEW s \in Sources, CloseSource(s) PROVE HeldInv'
  BY <1>1, <1>3 DEF CloseSource, Loop
<1>4. ASSUME NEW s \in Sources, GetNextFrame(s) PROVE HeldInv'
  BY <1>4 DEF GetNextFrame, Loop
<1>5. CASE SpinEnd \/ Drain \/ HandleEvent
  BY <1>5 DEF SpinEnd, Drain, HandleEvent, Loop, End, sourceVars
<1>6. CASE DeliverLock \/ DeliverFrame
  BY <1>6 DEF DeliverLock, DeliverFrame, Lock, Unlock, Loop, sourceVars
<1>7. CASE Capture \/ CaptureSignal
  BY <1>1, <1>7 DEF Capture, CaptureSignal, Loop, End, sourceVars
<1>8. CASE CaptureLock \/ CapturePush
  BY <1>1, <1>8 DEF CaptureLock, CapturePush, Lock, Unlock, sourceVars
<1>9. CASE UNCHANGED videoVars
  BY <1>9 DEF videoVars, sourceVars
<1> QED BY <1>2, <1>3, <1>4, <1>5, <1>6, <1>7, <1>8, <1>9
        DEF VideoNext, LoopStep, CaptureStep

(* A thread that waits for the mutex waits for the other one, which is at  *)
(* work on the queue and not itself held up by it; and an event loop that  *)
(* spins has given the encoder's thread a callback, which runs.            *)
WaitsForOther ==
  /\ loop.at = "lock" /\ mutex \notin {"free", "gone"} =>
       capture.at = "push" /\ ~Racing
  /\ capture.at = "lock" /\ mutex \notin {"free", "gone"} =>
       loop.at = "take" /\ ~Racing
  /\ loop.at = "spin" => registered # NoSource /\ capture.at # "ended"

(* The core of SpinEnds, without its fairness: no thread waits for a mutex *)
(* whose holder has gone, also after the last source has destroyed it.     *)
THEOREM NobodyKeepsTheMutex == VideoSpec => []WaitsForOther
<1>1. VideoInit => HeldInv
  BY DEF VideoInit, HeldInv
<1>2. VideoInv /\ HeldInv /\ [VideoNext]_videoVars => HeldInv'
  BY HeldStep
<1>3. VideoInv /\ HeldInv => WaitsForOther
  BY DEF VideoInv, HeldInv, VideoTypeOK, ActorInv, WaitsForOther, Racing
<1> QED BY <1>1, <1>2, <1>3, VideoInvariant, PTL DEF VideoSpec

===============================================================================
