---------------------------- MODULE DeliveryProofs ----------------------------
(***************************************************************************)
(* Delivery implements Subscriptions: polling, printing and notifying      *)
(* never touch a subscription behind the back of the requests on it, and   *)
(* what is proved of Subscriptions holds of Delivery.                      *)
(*                                                                         *)
(* And of the events, for any number of events, clients and slots: the     *)
(* table follows the files behind the inotify queue, PUSH consumers end up *)
(* with their state, and no change is lost to a PULL subscription except   *)
(* in the ways that PullMissesNothing and AnnouncedIsPrinted name.         *)
(***************************************************************************)
EXTENDS Delivery, SubscriptionsProofs

LEMMA QuietStep ==
  ASSUME NEW c \in Clients, PullBegin(c) \/ PullStep(c)
  PROVE  UNCHANGED tableVars
BY DEF PullBegin, PullStep, PullFound, PullTimeout, PullLength, PullSkip,
       PullPrint, PullLoad, PullStore, PullEnd

LEMMA StepRefines == [DeliveryNext]_vars => [Next]_tableVars
<1> SUFFICES ASSUME [DeliveryNext]_vars PROVE [Next]_tableVars
  OBVIOUS
<1>1. CASE UNCHANGED vars
  BY <1>1 DEF vars
<1>2. CASE TableStep
  BY <1>2 DEF TableStep, Next
<1>3. ASSUME NEW c \in Clients, NewSubscription(c) PROVE Next
  BY <1>3 DEF NewSubscription, Next
<1>4. ASSUME NEW c \in Clients, SetSync(c) PROVE Next
  BY <1>4 DEF SetSync, Next
<1>5. ASSUME NEW e \in Event, FileChange(e) \/ PollRead(e)
      PROVE  UNCHANGED tableVars
  BY <1>5 DEF FileChange, PollRead
<1>6. CASE HandleRead \/ HandleStore
  BY <1>6 DEF HandleRead, HandleStore
<1>7. CASE SyncEvents
  BY <1>7 DEF SyncEvents, Next
<1> QED BY <1>1, <1>2, <1>3, <1>4, <1>5, <1>6, <1>7, QuietStep DEF DeliveryNext

(* Every behaviour of the daemon and the requests is one of the            *)
(* subscription table.                                                     *)
THEOREM DeliveryImplementsSubscriptions == DeliverySpec => Spec
<1>1. DeliveryInit => Init
  BY DEF DeliveryInit
<1> QED BY <1>1, StepRefines, PTL DEF DeliverySpec, Spec

(* With files changing, notifications being sent and messages being pulled *)
(* at the same time, a client still has exactly the subscription it was    *)
(* told it has.                                                            *)
THEOREM DeliveryHonoursGrants ==
  ASSUME Deviations = {}
  PROVE  DeliverySpec => []GrantHonoured
BY DeliveryImplementsSubscriptions, GrantsAreHonoured

(* ... and to its clients all of it together is the service that           *)
(* SubscriptionService describes.                                          *)
THEOREM DeliveryImplementsService ==
  ASSUME Deviations = {}
  PROVE  DeliverySpec => ImplementsService
BY DeliveryImplementsSubscriptions, TableImplementsService

-------------------------------------------------------------------------------
(* The events themselves. *)


EventRecord == [is_on : BOOLEAN, pull_notify : SUBSET Slot]
MainRecord == [busy : BOOLEAN, event : Event, on : BOOLEAN, now : Nat]
PullRecord ==
  [at : {"idle", "poll", "length", "print", "load", "store"},
   slot : Slot, deadline : Nat, limit : Nat,
   announced : SUBSET Event, cursor : 1..(NEvents + 1),
   word : SUBSET Slot, raced : BOOLEAN, outlived : BOOLEAN]

EventTypes ==
  /\ file \in [Event -> BOOLEAN]
  /\ event \in [Event -> EventRecord]
  /\ queue \in Seq(Entry)
  /\ main \in MainRecord
  /\ pull \in [Clients -> PullRecord]
  /\ changes \in 0..MaxChanges
  /\ told \in [Clients -> [Event -> BOOLEAN]]
  /\ missed \in [Clients -> SUBSET Event]
  /\ forgotten \subseteq Slot \X Event

(* The unlocked pass only works on events that exist. *)
AtWorkOnEvent ==
  \A c \in Clients :
    pull[c].at \in {"load", "store"} => pull[c].cursor \in Event

LEMMA DeliveryTypes == DeliveryTypeOK <=> TypeOK /\ EventTypes
BY DEF DeliveryTypeOK, EventTypes, EventRecord, MainRecord, PullRecord

LEMMA DeliveryTypesPrimed == DeliveryTypeOK' <=> TypeOK' /\ EventTypes'
BY DEF DeliveryTypeOK, EventTypes, EventRecord, MainRecord, PullRecord

LEMMA IdleRecords == Idle \in MainRecord /\ NoPull \in PullRecord
<1>1. 1 \in Slot /\ 1 \in Event /\ 1 \in 1..(NEvents + 1)
  BY SizesAssumption, DeliveryAssumption DEF Slot, Event
<1> QED BY <1>1 DEF Idle, NoPull, MainRecord, PullRecord

LEMMA EventsInRange ==
  /\ \A e \in Event : e \in Nat /\ {e, e + 1} \subseteq 1..(NEvents + 1)
  /\ \A e \in 1..(NEvents + 1) : e \in Nat
BY DeliveryAssumption DEF Event

-------------------------------------------------------------------------------
(* Typing. *)

LEMMA InitEventTypes == DeliveryInit => EventTypes
BY IdleRecords, DeliveryAssumption DEF DeliveryInit, EventTypes, EventRecord

(* What one notification leaves in told and missed. *)
LEMMA NotifyTypes ==
  ASSUME EventTypes, NEW slots, NEW events \in SUBSET Event,
         NEW value \in [Event -> BOOLEAN], Notify(slots, events, value)
  PROVE  /\ told' \in [Clients -> [Event -> BOOLEAN]]
         /\ missed' \in [Clients -> SUBSET Event]
<1>1. PICK sent :
        /\ told' = [c \in Clients |->
                      IF c \in Consumers(sent)
                        THEN [e \in Event |-> IF e \in events THEN value[e]
                                                              ELSE told[c][e]]
                        ELSE told[c]]
        /\ missed' = [c \in Clients |->
                        IF c \in Consumers(sent) THEN missed[c] \ events
                        ELSE IF c \in Consumers(slots)
                          THEN missed[c] \cup events ELSE missed[c]]
  BY DEF Notify
<1> QED BY <1>1 DEF EventTypes

LEMMA DaemonTypes ==
  ASSUME DeliveryTypeOK,
         \/ \E e \in Event : FileChange(e) \/ PollRead(e)
         \/ HandleRead
  PROVE  EventTypes'
<1> USE DeliveryTypes
<1>0. now \in Nat
  BY SizesAssumption, Types
<1>1. ASSUME NEW e \in Event, FileChange(e) PROVE EventTypes'
  <2>1. [event |-> e, on |-> ~file[e]] \in Entry
    BY DEF EventTypes, Entry
  <2>2. queue' \in Seq(Entry)
    BY <1>1, <2>1 DEF FileChange, EventTypes
  <2>3. changes' \in 0..MaxChanges
    BY <1>1, DeliveryAssumption DEF FileChange, EventTypes
  <2>4. file' \in [Event -> BOOLEAN]
    BY <1>1 DEF FileChange, EventTypes
  <2> QED BY <1>1, <2>2, <2>3, <2>4 DEF FileChange, EventTypes, ghosts
<1>2. ASSUME NEW e \in Event, PollRead(e) PROVE EventTypes'
  <2>1. main' \in MainRecord
    BY <1>0, <1>2 DEF PollRead, EventTypes, MainRecord
  <2> QED BY <1>2, <2>1 DEF PollRead, EventTypes, ghosts
<1>3. CASE HandleRead
  <2>1. Head(queue) \in Entry /\ Tail(queue) \in Seq(Entry)
    BY <1>3 DEF HandleRead, EventTypes
  <2>2. main' \in MainRecord
    BY <1>0, <1>3, <2>1 DEF HandleRead, Entry, MainRecord
  <2> QED BY <1>3, <2>1, <2>2 DEF HandleRead, EventTypes, ghosts
<1> QED BY <1>1, <1>2, <1>3

(* Racing and outliving only mark what is at work. *)
LEMMA MarkTypes ==
  ASSUME EventTypes
  PROVE  /\ \A e \in Event : RacedBy(e) \in [Clients -> PullRecord]
         /\ Outlived \in [Clients -> PullRecord]
         /\ [d \in Clients |->
               IF pull[d].at \in {"load", "store"}
                 THEN [pull[d] EXCEPT !.raced = TRUE] ELSE pull[d]]
              \in [Clients -> PullRecord]
<1>1. ASSUME NEW c \in Clients
      PROVE  /\ pull[c] \in PullRecord
             /\ [pull[c] EXCEPT !.raced = TRUE] \in PullRecord
             /\ [pull[c] EXCEPT !.outlived = TRUE] \in PullRecord
  BY DEF EventTypes, PullRecord
<1> QED BY <1>1 DEF RacedBy, Outlived

LEMMA StoreTypes ==
  ASSUME DeliveryTypeOK, HandleStore
  PROVE  EventTypes'
<1> USE DeliveryTypes
<1> DEFINE e == main.event
           pulls == {s \in Slot : sub[s].used = "pull"}
<1>1. e \in Event /\ main.on \in BOOLEAN
  BY DEF EventTypes, MainRecord
<1>2. event[e] \in EventRecord
  BY <1>1 DEF EventTypes
<1>3. [event[e] EXCEPT !.is_on = main.on, !.pull_notify = @ \cup pulls]
        \in EventRecord
  BY <1>1, <1>2 DEF EventRecord
<1>4. event' = [event EXCEPT ![e] = [event[e] EXCEPT
                  !.is_on = main.on, !.pull_notify = @ \cup pulls]]
  BY <1>1 DEF HandleStore, EventTypes
<1>5. event' \in [Event -> EventRecord]
  BY <1>3, <1>4 DEF EventTypes
<1>6. /\ told' \in [Clients -> [Event -> BOOLEAN]]
      /\ missed' \in [Clients -> SUBSET Event]
  <2> DEFINE pushes == {s \in Slot : Active(s, main.now)}
  <2>1. [event EXCEPT ![e] = main.on]
          = [d \in Event |-> IF d = e THEN main.on ELSE event[d]]
    BY <1>1 DEF EventTypes
  <2>2. Notify(pushes, {e}, [event EXCEPT ![e] = main.on])
    BY DEF HandleStore
  <2>3. PICK sent :
          /\ told' = [c \in Clients |->
                        IF c \in Consumers(sent)
                          THEN [d \in Event |-> IF d = e THEN main.on
                                                         ELSE told[c][d]]
                          ELSE told[c]]
          /\ missed' = [c \in Clients |->
                          IF c \in Consumers(sent) THEN missed[c] \ {e}
                          ELSE IF c \in Consumers(pushes)
                            THEN missed[c] \cup {e} ELSE missed[c]]
    BY <2>1, <2>2 DEF Notify
  <2> QED BY <1>1, <2>3 DEF EventTypes
<1>7. pull' \in [Clients -> PullRecord]
  BY <1>1, MarkTypes DEF HandleStore
<1>8. /\ UNCHANGED <<file, queue, changes>> /\ main' = Idle
      /\ forgotten' \subseteq forgotten
  BY DEF HandleStore
<1> QED BY <1>5, <1>6, <1>7, <1>8, IdleRecords DEF EventTypes

LEMMA SyncTypes ==
  ASSUME DeliveryTypeOK, SyncEvents
  PROVE  EventTypes'
<1>1. EventTypes
  BY DeliveryTypes
<1>2. /\ told' \in [Clients -> [Event -> BOOLEAN]]
      /\ missed' \in [Clients -> SUBSET Event]
  BY <1>1, NotifyTypes DEF SyncEvents, EventTypes
<1>3. UNCHANGED <<file, event, queue, main, pull, changes, forgotten>>
  BY DEF SyncEvents
<1> QED BY <1>1, <1>2, <1>3 DEF EventTypes

LEMMA RequestTypes ==
  ASSUME DeliveryTypeOK,
         \/ TableStep
         \/ \E c \in Clients : NewSubscription(c) \/ SetSync(c)
  PROVE  EventTypes'
<1>1. EventTypes
  BY DeliveryTypes
<1>2. CASE TableStep
  <2>1. pull' \in [Clients -> PullRecord]
    BY <1>1, <1>2, MarkTypes DEF TableStep
  <2>2. UNCHANGED <<file, event, queue, main, changes, ghosts>>
    BY <1>2 DEF TableStep
  <2> QED BY <1>1, <2>1, <2>2 DEF EventTypes, ghosts
<1>3. ASSUME NEW c \in Clients, NewSubscription(c) PROVE EventTypes'
  <2>1. [e \in Event |-> event[e].is_on] \in [Event -> BOOLEAN]
    BY <1>1 DEF EventTypes, EventRecord
  <2>2. /\ told' \in [Clients -> [Event -> BOOLEAN]]
        /\ missed' \in [Clients -> SUBSET Event]
        /\ forgotten' \subseteq forgotten
    BY <1>1, <1>3, <2>1 DEF NewSubscription, EventTypes
  <2> QED BY <1>1, <1>3, <2>2 DEF NewSubscription, EventTypes
<1>4. ASSUME NEW c \in Clients, SetSync(c) PROVE EventTypes'
  <2>1. mine[c].slot \in Slot
    BY <1>4 DEF SetSync, SetSynchronizationPoint, Uses
  <2>2. ASSUME NEW e \in Event
        PROVE  [event[e] EXCEPT !.pull_notify = @ \cup {mine[c].slot}]
                 \in EventRecord
    <3>1. event[e] \in EventRecord
      BY <1>1 DEF EventTypes
    <3> QED BY <2>1, <3>1 DEF EventRecord
  <2>3. event' \in [Event -> EventRecord]
    BY <1>4, <2>2 DEF SetSync
  <2>4. pull' \in [Clients -> PullRecord]
    BY <1>1, <1>4, MarkTypes DEF SetSync
  <2>5. /\ UNCHANGED <<file, queue, main, changes, told, missed>>
        /\ forgotten' \subseteq forgotten
    BY <1>4 DEF SetSync
  <2> QED BY <1>1, <2>3, <2>4, <2>5 DEF EventTypes
<1> QED BY <1>2, <1>3, <1>4

(* The steps of PullMessages that only go on in its own record. *)
LEMMA PullRecordStep ==
  ASSUME DeliveryTypeOK, NEW c \in Clients, NEW r \in PullRecord,
         pull' = [pull EXCEPT ![c] = r],
         UNCHANGED <<file, event, queue, main, changes, ghosts>>
  PROVE  EventTypes'
BY DeliveryTypes DEF EventTypes, ghosts

LEMMA PullTypes ==
  ASSUME DeliveryTypeOK, AtWorkOnEvent, NEW c \in Clients,
         PullBegin(c) \/ PullStep(c)
  PROVE  EventTypes'
<1>1. EventTypes
  BY DeliveryTypes
<1>2. pull[c] \in PullRecord
  BY <1>1 DEF EventTypes
<1>3. ASSUME PullBegin(c) PROVE EventTypes'
  <2>1. PICK s \in Slot, timeout \in Timeouts, limit \in Limits :
          pull' = [pull EXCEPT ![c] =
                     [NoPull EXCEPT !.at = "poll", !.slot = s, !.limit = limit,
                                    !.deadline = now + timeout]]
    BY <1>3 DEF PullBegin
  <2>2. now + timeout \in Nat /\ limit \in Nat
    BY DeliveryTypes, SizesAssumption, DeliveryAssumption, Types
  <2>3. [NoPull EXCEPT !.at = "poll", !.slot = s, !.limit = limit,
                       !.deadline = now + timeout] \in PullRecord
    BY <2>2, IdleRecords DEF PullRecord
  <2> QED BY <1>3, <2>1, <2>3, PullRecordStep DEF PullBegin, daemonVars
<1>4. ASSUME PullFound(c) \/ PullTimeout(c) PROVE EventTypes'
  <2>1. pull' = [pull EXCEPT ![c] = [pull[c] EXCEPT !.at = "length"]]
    BY <1>1, <1>4 DEF PullFound, PullTimeout, Goto, EventTypes
  <2>2. [pull[c] EXCEPT !.at = "length"] \in PullRecord
    BY <1>2 DEF PullRecord
  <2> QED BY <1>4, <2>1, <2>2, PullRecordStep
         DEF PullFound, PullTimeout, daemonVars
<1>5. ASSUME PullLength(c) PROVE EventTypes'
  <2> DEFINE announced == Examined(c) \cap Bits(pull[c].slot)
             r == [pull[c] EXCEPT !.at = "print", !.announced = announced]
  <2>1. pull' = [pull EXCEPT ![c] = r]
    BY <1>1, <1>5 DEF PullLength, EventTypes
  <2>2. announced \in SUBSET Event
    BY DEF Examined, Bits
  <2>3. r \in PullRecord
    BY <1>2, <2>2 DEF PullRecord
  <2> QED BY <1>5, <2>1, <2>3, PullRecordStep DEF PullLength, daemonVars
<1>6. ASSUME PullSkip(c) PROVE EventTypes'
  <2>1. pull' = [pull EXCEPT
                   ![c] = [pull[c] EXCEPT !.cursor = pull[c].cursor + 1]]
    BY <1>1, <1>6 DEF PullSkip, EventTypes
  <2>2. pull[c].cursor + 1 \in 1..(NEvents + 1)
    BY <1>6, EventsInRange DEF PullSkip, Examined
  <2>3. [pull[c] EXCEPT !.cursor = pull[c].cursor + 1] \in PullRecord
    BY <1>2, <2>2 DEF PullRecord
  <2> QED BY <1>6, <2>1, <2>3, PullRecordStep DEF PullSkip, daemonVars
<1>7. ASSUME PullPrint(c) PROVE EventTypes'
  <2> DEFINE r == [pull[c] EXCEPT !.at = "load",
                                !.raced = owner[pull[c].slot] # c]
  <2>1. pull' = [pull EXCEPT ![c] = r]
    BY <1>1, <1>7 DEF PullPrint, EventTypes
  <2>2. r \in PullRecord
    BY <1>2 DEF PullRecord
  <2>3. pull' \in [Clients -> PullRecord]
    BY <1>1, <2>1, <2>2 DEF EventTypes
  <2>4. pull[c].cursor \in Event
    BY <1>7 DEF PullPrint, Examined
  <2>5. told' \in [Clients -> [Event -> BOOLEAN]]
    <3>1. event[pull[c].cursor].is_on \in BOOLEAN
      BY <1>1, <2>4 DEF EventTypes, EventRecord
    <3> QED BY <1>1, <1>7, <2>4, <3>1 DEF PullPrint, EventTypes
  <2> QED BY <1>1, <1>7, <2>3, <2>5 DEF PullPrint, EventTypes, daemonVars
<1>8. ASSUME PullLoad(c) PROVE EventTypes'
  <2> DEFINE word == event[pull[c].cursor].pull_notify
             r == [pull[c] EXCEPT !.at = "store", !.word = word]
  <2>1. pull' = [pull EXCEPT ![c] = r]
    BY <1>1, <1>8 DEF PullLoad, EventTypes
  <2>2. pull[c].cursor \in Event
    BY <1>8 DEF PullLoad, AtWorkOnEvent
  <2>3. word \in SUBSET Slot
    BY <1>1, <2>2 DEF EventTypes, EventRecord
  <2>4. r \in PullRecord
    BY <1>2, <2>3 DEF PullRecord
  <2> QED BY <1>8, <2>1, <2>4, PullRecordStep DEF PullLoad, daemonVars
<1>9. ASSUME PullStore(c) PROVE EventTypes'
  <2> DEFINE e == pull[c].cursor
             s == pull[c].slot
             gone == (event[e].pull_notify \ pull[c].word)
                       \cup (IF pull[c].raced \/ owner[s] # c THEN {s} ELSE {})
             r == [pull[c] EXCEPT !.at = "print", !.cursor = e + 1,
                                  !.word = {}, !.raced = FALSE]
  <2>1. e \in Event
    BY <1>9 DEF PullStore, AtWorkOnEvent
  <2>2. pull' = [pull EXCEPT ![c] = r]
    BY <1>1, <1>9 DEF PullStore, EventTypes
  <2>3. e + 1 \in 1..(NEvents + 1)
    BY <2>1, EventsInRange
  <2>4. r \in PullRecord
    BY <1>2, <2>3 DEF PullRecord
  <2>5. event[e] \in EventRecord /\ pull[c].word \in SUBSET Slot /\ s \in Slot
    BY <1>1, <1>2, <2>1 DEF EventTypes, PullRecord
  <2>6. [event[e] EXCEPT !.pull_notify = pull[c].word \ {s}] \in EventRecord
    BY <2>5 DEF EventRecord
  <2>7. event' \in [Event -> EventRecord]
    BY <1>1, <1>9, <2>1, <2>6 DEF PullStore, EventTypes
  <2>8. gone \subseteq Slot
    BY <2>5 DEF EventRecord
  <2>9. forgotten' = forgotten \cup (gone \X {e})
    BY <1>9 DEF PullStore
  <2>10. forgotten' \subseteq Slot \X Event
    BY <1>1, <2>1, <2>8, <2>9 DEF EventTypes
  <2>11. pull' \in [Clients -> PullRecord]
    BY <1>1, <2>2, <2>4 DEF EventTypes
  <2> QED BY <1>1, <1>9, <2>7, <2>10, <2>11 DEF PullStore, EventTypes
<1>10. ASSUME PullEnd(c) PROVE EventTypes'
  BY <1>10, PullRecordStep, IdleRecords DEF PullEnd, daemonVars
<1> QED BY <1>3, <1>4, <1>5, <1>6, <1>7, <1>8, <1>9, <1>10 DEF PullStep

(* What the marks leave alone. *)
LEMMA MarksOnly ==
  ASSUME EventTypes, NEW c \in Clients, NEW p \in [Clients -> PullRecord],
         \/ \E e \in Event : p = RacedBy(e)
         \/ p = Outlived
         \/ p = [d \in Clients |->
                   IF pull[d].at \in {"load", "store"}
                     THEN [pull[d] EXCEPT !.raced = TRUE] ELSE pull[d]]
  PROVE  /\ p[c].at = pull[c].at
         /\ p[c].slot = pull[c].slot
         /\ p[c].cursor = pull[c].cursor
         /\ p[c].word = pull[c].word
         /\ p[c].announced = pull[c].announced
<1>1. pull[c] \in PullRecord
  BY DEF EventTypes
<1>2. \/ p[c] = pull[c]
      \/ p[c] = [pull[c] EXCEPT !.raced = TRUE]
      \/ p[c] = [pull[c] EXCEPT !.outlived = TRUE]
  BY DEF RacedBy, Outlived
<1> QED BY <1>1, <1>2 DEF PullRecord

LEMMA AtWorkStep ==
  ASSUME DeliveryTypeOK, AtWorkOnEvent, [DeliveryNext]_vars
  PROVE  AtWorkOnEvent'
<1>0. EventTypes
  BY DeliveryTypes
<1>1. ASSUME UNCHANGED pull PROVE AtWorkOnEvent'
  BY <1>1 DEF AtWorkOnEvent
<1>2. CASE TableStep
  BY <1>0, <1>2, MarksOnly, MarkTypes DEF TableStep, AtWorkOnEvent
<1>3. CASE HandleStore
  <2>1. main.event \in Event
    BY <1>0 DEF EventTypes, MainRecord
  <2> QED BY <1>0, <1>3, <2>1, MarksOnly, MarkTypes
         DEF HandleStore, AtWorkOnEvent
<1>4. ASSUME NEW c \in Clients, SetSync(c) PROVE AtWorkOnEvent'
  BY <1>0, <1>4, MarksOnly, MarkTypes DEF SetSync, AtWorkOnEvent
<1>5. ASSUME NEW c \in Clients, NEW r,
             pull' = [pull EXCEPT ![c] = r],
             r.at \in {"load", "store"} => r.cursor \in Event
      PROVE  AtWorkOnEvent'
  BY <1>0, <1>5 DEF EventTypes, AtWorkOnEvent
<1>6. ASSUME NEW c \in Clients, PullBegin(c) \/ PullStep(c) PROVE AtWorkOnEvent'
  <2>0. pull[c] \in PullRecord
    BY <1>0 DEF EventTypes
  <2>1. CASE PullBegin(c)
    <3>1. PICK s \in Slot, timeout \in Timeouts, limit \in Limits :
          pull' = [pull EXCEPT ![c] =
                     [NoPull EXCEPT !.at = "poll", !.slot = s, !.limit = limit,
                                    !.deadline = now + timeout]]
      BY <2>1 DEF PullBegin
    <3>2. [NoPull EXCEPT !.at = "poll", !.slot = s, !.limit = limit,
                         !.deadline = now + timeout].at = "poll"
      BY DEF NoPull
    <3> QED BY <1>5, <3>1, <3>2
  <2>2. CASE PullPrint(c)
    <3> DEFINE r == [pull[c] EXCEPT !.at = "load",
                                !.raced = owner[pull[c].slot] # c]
    <3>1. pull' = [pull EXCEPT ![c] = r]
      BY <1>0, <2>2 DEF PullPrint, EventTypes
    <3>2. r.cursor = pull[c].cursor /\ pull[c].cursor \in Event
      BY <2>0, <2>2 DEF PullPrint, Examined, PullRecord
    <3> QED BY <1>5, <3>1, <3>2
  <2>3. CASE PullLoad(c)
    <3> DEFINE r == [pull[c] EXCEPT !.at = "store",
                                    !.word = event[pull[c].cursor].pull_notify]
    <3>1. pull' = [pull EXCEPT ![c] = r]
      BY <1>0, <2>3 DEF PullLoad, EventTypes
    <3>2. r.cursor = pull[c].cursor /\ pull[c].cursor \in Event
      BY <2>0, <2>3 DEF PullLoad, AtWorkOnEvent, PullRecord
    <3> QED BY <1>5, <3>1, <3>2
  <2>4. CASE PullFound(c) \/ PullTimeout(c) \/ PullLength(c) \/ PullSkip(c)
             \/ PullStore(c) \/ PullEnd(c)
    <3>1. pull'[c].at \notin {"load", "store"}
      BY <1>0, <2>0, <2>4
      DEF PullFound, PullTimeout, PullLength, PullSkip, PullStore, PullEnd,
          Goto, NoPull, EventTypes, PullRecord
    <3>2. \A d \in Clients : d # c => pull'[d] = pull[d]
      BY <1>0, <2>4
      DEF PullFound, PullTimeout, PullLength, PullSkip, PullStore, PullEnd,
          Goto, EventTypes
    <3> QED BY <3>1, <3>2 DEF AtWorkOnEvent
  <2> QED BY <1>6, <2>1, <2>2, <2>3, <2>4 DEF PullStep
<1> QED
  BY <1>1, <1>2, <1>3, <1>4, <1>6
  DEF DeliveryNext, vars, NewSubscription, FileChange, PollRead, HandleRead,
      SyncEvents

LEMMA DeliveryTypeStep ==
  DeliveryTypeOK /\ AtWorkOnEvent /\ [DeliveryNext]_vars
    => DeliveryTypeOK' /\ AtWorkOnEvent'
<1> SUFFICES ASSUME DeliveryTypeOK, AtWorkOnEvent, [DeliveryNext]_vars
             PROVE  DeliveryTypeOK' /\ AtWorkOnEvent'
  OBVIOUS
<1>1. TypeOK'
  BY DeliveryTypes, StepRefines, TypeStep
<1>2. ASSUME UNCHANGED vars PROVE EventTypes'
  BY <1>2, DeliveryTypes DEF vars, ghosts, EventTypes
<1>3. ASSUME TableStep \/ \E c \in Clients : NewSubscription(c) \/ SetSync(c)
      PROVE  EventTypes'
  BY <1>3, RequestTypes
<1>4. ASSUME NEW c \in Clients, PullBegin(c) \/ PullStep(c) PROVE EventTypes'
  BY <1>4, PullTypes
<1>5. ASSUME \/ \E e \in Event : FileChange(e) \/ PollRead(e)
             \/ HandleRead \/ HandleStore \/ SyncEvents
      PROVE  EventTypes'
  BY <1>5, DaemonTypes, StoreTypes, SyncTypes
<1>6. EventTypes'
  BY <1>2, <1>3, <1>4, <1>5 DEF DeliveryNext
<1> QED BY <1>1, <1>6, DeliveryTypesPrimed, AtWorkStep

LEMMA DeliveryInitTypes == DeliveryInit => DeliveryTypeOK /\ AtWorkOnEvent
<1>1. DeliveryInit => TypeOK
  BY InitTypes DEF DeliveryInit
<1>2. DeliveryInit => AtWorkOnEvent
  BY DEF DeliveryInit, AtWorkOnEvent, NoPull
<1> QED BY <1>1, <1>2, InitEventTypes, DeliveryTypes

(* Table, events, queue and every PullMessages keep their types.  (The     *)
(* second pass prints while events[] and subscriptions[] change: it never  *)
(* works on an event past the last, whatever limit its client sent.)       *)
THEOREM DeliveryTypesHold == DeliverySpec => []DeliveryTypeOK
<1>1. DeliveryInit => DeliveryTypeOK /\ AtWorkOnEvent
  BY DeliveryInitTypes
<1>2. DeliveryTypeOK /\ AtWorkOnEvent /\ [DeliveryNext]_vars
        => DeliveryTypeOK' /\ AtWorkOnEvent'
  BY DeliveryTypeStep
<1> QED BY <1>1, <1>2, PTL DEF DeliverySpec

-------------------------------------------------------------------------------
(* The table and the files. *)

(* Which steps touch is_on. *)
LEMMA IsOnKept ==
  ASSUME EventTypes, AtWorkOnEvent,
         \/ TableStep \/ HandleRead \/ SyncEvents \/ UNCHANGED vars
         \/ \E c \in Clients : \/ NewSubscription(c) \/ SetSync(c)
                               \/ PullBegin(c) \/ PullStep(c)
         \/ \E e \in Event : FileChange(e) \/ PollRead(e)
  PROVE  \A e \in Event : event'[e].is_on = event[e].is_on
<1>0. \A e \in Event : event[e] \in EventRecord
  BY DEF EventTypes
<1>1. ASSUME NEW c \in Clients, SetSync(c)
      PROVE  \A e \in Event : event'[e].is_on = event[e].is_on
  BY <1>0, <1>1 DEF SetSync, EventRecord
<1>2. ASSUME NEW c \in Clients, PullStore(c)
      PROVE  \A e \in Event : event'[e].is_on = event[e].is_on
  <2>1. pull[c].cursor \in Event
    BY <1>2 DEF PullStore, AtWorkOnEvent
  <2>2. event' = [event EXCEPT ![pull[c].cursor] =
                    [event[pull[c].cursor] EXCEPT
                       !.pull_notify = pull[c].word \ {pull[c].slot}]]
    BY <1>2, <2>1 DEF PullStore, EventTypes
  <2> QED BY <1>0, <2>1, <2>2 DEF EventRecord, EventTypes
<1>3. ASSUME UNCHANGED event
      PROVE  \A e \in Event : event'[e].is_on = event[e].is_on
  BY <1>3
<1>4. ASSUME NEW c \in Clients, PullStep(c), ~PullStore(c) PROVE UNCHANGED event
  BY <1>4 DEF PullStep, PullFound, PullTimeout, PullLength, PullSkip, PullPrint,
              PullLoad, PullEnd, daemonVars
<1> QED
  BY <1>1, <1>2, <1>3, <1>4
  DEF TableStep, HandleRead, SyncEvents, NewSubscription, PullBegin, FileChange,
      PollRead, vars, daemonVars

(* What TableFollowsFiles says of one event. *)
Follows(e) ==
  LET about == {i \in 1..Len(queue) : queue[i].event = e}
  IN /\ \A i \in about : (\A j \in about : j <= i) => file[e] = queue[i].on
     /\ about = {} => file[e] = IF main.busy /\ main.event = e
                                 THEN main.on ELSE event[e].is_on

LEMMA FollowsAll == TableFollowsFiles <=> \A e \in Event : Follows(e)
BY DEF TableFollowsFiles, Follows

(* A change of the file is behind the queue at once, whatever the table    *)
(* said before it.                                                         *)
LEMMA ChangeFollows ==
  ASSUME Inotify, EventTypes, NEW e \in Event, FileChange(e)
  PROVE  Follows(e)'
<1> DEFINE n == Len(queue)
           entry == [event |-> e, on |-> ~file[e]]
<1>1. n \in Nat
  BY DEF EventTypes
<1>2. Len(queue') = n + 1 /\ queue'[n + 1] = entry
  BY DEF FileChange, EventTypes, Entry
<1>3. file'[e] = ~file[e]
  BY DEF FileChange, EventTypes
<1>4. n + 1 \in 1..Len(queue') /\ queue'[n + 1].event = e
  BY <1>1, <1>2
<1>5. ASSUME NEW i \in 1..Len(queue'), queue'[i].event = e,
             \A j \in 1..Len(queue') : queue'[j].event = e => j <= i
      PROVE  file'[e] = queue'[i].on
  <2>1. n + 1 <= i
    BY <1>4, <1>5
  <2>2. i = n + 1
    BY <1>1, <1>2, <2>1
  <2> QED BY <1>2, <1>3, <2>2
<1> QED BY <1>4, <1>5 DEF Follows

(* ... and changes of other files do not get in its way. *)
LEMMA OtherChangeFollows ==
  ASSUME Inotify, EventTypes, NEW e \in Event, NEW d \in Event, d # e,
         Follows(e), FileChange(d)
  PROVE  Follows(e)'
<1> DEFINE n == Len(queue)
           entry == [event |-> d, on |-> ~file[d]]
<1>1. n \in Nat
  BY DEF EventTypes
<1>2. /\ Len(queue') = n + 1
      /\ queue'[n + 1] = entry
      /\ \A i \in 1..n : queue'[i] = queue[i]
  BY DEF FileChange, EventTypes, Entry
<1>3. file'[e] = file[e] /\ UNCHANGED <<main, event>>
  BY DEF FileChange, EventTypes
<1>4. {i \in 1..Len(queue') : queue'[i].event = e}
        = {i \in 1..n : queue[i].event = e}
  BY <1>1, <1>2
<1>5. ASSUME NEW i \in 1..n, queue[i].event = e,
             \A j \in 1..n : queue[j].event = e => j <= i
      PROVE  file'[e] = queue'[i].on
  BY <1>2, <1>3, <1>5 DEF Follows
<1>6. ASSUME {i \in 1..n : queue[i].event = e} = {}
      PROVE  file'[e] = IF main'.busy /\ main'.event = e
                          THEN main'.on ELSE event'[e].is_on
  BY <1>3, <1>6 DEF Follows
<1> QED BY <1>4, <1>5, <1>6 DEF Follows

LEMMA HandleReadFollows ==
  ASSUME EventTypes, NEW d \in Event, Follows(d), HandleRead
  PROVE  Follows(d)'
<1> DEFINE n == Len(queue)
<1>1. n \in Nat /\ n # 0
  BY DEF EventTypes, HandleRead
<1>2. /\ Len(queue') = n - 1
      /\ \A i \in 1..(n - 1) : queue'[i] = queue[i + 1]
  BY <1>1 DEF HandleRead, EventTypes
<1>3. /\ main'.busy
      /\ main'.event = queue[1].event
      /\ main'.on = queue[1].on
      /\ ~main.busy
      /\ UNCHANGED <<file, event>>
  BY DEF HandleRead, EventTypes
<1>4. ASSUME NEW i \in 1..Len(queue'), queue'[i].event = d,
             \A j \in 1..Len(queue') : queue'[j].event = d => j <= i
      PROVE  file'[d] = queue'[i].on
  <2>1. i + 1 \in 1..n /\ queue[i + 1].event = d
    BY <1>1, <1>2, <1>4
  <2>2. ASSUME NEW j \in 1..n, queue[j].event = d PROVE j <= i + 1
    <3>1. CASE j = 1
      BY <1>1, <1>2, <3>1
    <3>2. CASE j # 1
      <4>1. j - 1 \in 1..(n - 1) /\ (j - 1) + 1 = j
        BY <1>1, <3>2
      <4>2. queue'[j - 1] = queue[j]
        BY <1>2, <4>1
      <4>3. j - 1 <= i
        BY <1>2, <1>4, <2>2, <4>1, <4>2
      <4> QED BY <1>1, <1>2, <4>3
    <3> QED BY <3>1, <3>2
  <2>3. file[d] = queue[i + 1].on
    BY <2>1, <2>2 DEF Follows
  <2> QED BY <1>1, <1>2, <1>3, <2>3
<1>5. ASSUME \A i \in 1..Len(queue') : queue'[i].event # d
      PROVE  file'[d] = IF main'.busy /\ main'.event = d
                          THEN main'.on ELSE event'[d].is_on
  <2>1. ASSUME NEW j \in 1..n, j # 1 PROVE queue[j].event # d
    <3>1. j - 1 \in 1..(n - 1) /\ (j - 1) + 1 = j
      BY <1>1, <2>1
    <3>2. queue'[j - 1] = queue[j]
      BY <1>2, <3>1
    <3> QED BY <1>2, <1>5, <3>1, <3>2
  <2>2. CASE queue[1].event = d
    <3>1. 1 \in 1..n /\ \A j \in 1..n : queue[j].event = d => j <= 1
      BY <1>1, <2>1
    <3>2. file[d] = queue[1].on
      BY <2>2, <3>1 DEF Follows
    <3> QED BY <1>3, <2>2, <3>2
  <2>3. CASE queue[1].event # d
    <3>1. \A j \in 1..n : queue[j].event # d
      BY <2>1, <2>3
    <3>2. file[d] = event[d].is_on
      BY <1>3, <3>1 DEF Follows
    <3> QED BY <1>3, <2>3, <3>2
  <2> QED BY <2>2, <2>3
<1> QED BY <1>4, <1>5 DEF Follows

LEMMA HandleStoreFollows ==
  ASSUME EventTypes, NEW d \in Event, Follows(d), HandleStore
  PROVE  Follows(d)'
<1> DEFINE e == main.event
           pulls == {s \in Slot : sub[s].used = "pull"}
<1>1. e \in Event /\ main.busy /\ event[e] \in EventRecord
  BY DEF HandleStore, EventTypes, MainRecord
<1>2. event' = [event EXCEPT ![e] = [event[e] EXCEPT
                  !.is_on = main.on, !.pull_notify = @ \cup pulls]]
  BY <1>1 DEF HandleStore, EventTypes
<1>3. /\ event'[e].is_on = main.on
      /\ d # e => event'[d] = event[d]
  BY <1>1, <1>2 DEF EventTypes, EventRecord
<1>4. UNCHANGED <<file, queue>> /\ ~main'.busy
  BY DEF HandleStore, Idle
<1> QED BY <1>1, <1>3, <1>4 DEF Follows

LEMMA FollowStep ==
  ASSUME Inotify, DeliveryTypeOK, AtWorkOnEvent, [DeliveryNext]_vars,
         NEW d \in Event, Follows(d)
  PROVE  Follows(d)'
<1>0. EventTypes
  BY DeliveryTypes
<1>1. ASSUME UNCHANGED <<file, queue, main>>, event'[d].is_on = event[d].is_on
      PROVE  Follows(d)'
  BY <1>1 DEF Follows
<1>2. ASSUME NEW e \in Event, FileChange(e) \/ PollRead(e)
      PROVE  Follows(d)'
  BY <1>0, <1>2, ChangeFollows, OtherChangeFollows DEF PollRead
<1>3. CASE HandleRead \/ HandleStore
  BY <1>0, <1>3, HandleReadFollows, HandleStoreFollows
<1>4. ASSUME NEW c \in Clients, \/ NewSubscription(c) \/ SetSync(c)
                                \/ PullBegin(c) \/ PullStep(c)
      PROVE  Follows(d)'
  <2>1. UNCHANGED <<file, queue, main>>
    BY <1>4
    DEF NewSubscription, SetSync, PullBegin, PullStep, PullFound, PullTimeout,
        PullLength, PullSkip, PullPrint, PullLoad, PullStore, PullEnd,
        daemonVars
  <2> QED BY <1>0, <1>1, <1>4, <2>1, IsOnKept
<1>5. CASE TableStep \/ SyncEvents \/ UNCHANGED vars
  <2>1. UNCHANGED <<file, queue, main>>
    BY <1>5 DEF TableStep, SyncEvents, vars
  <2> QED BY <1>0, <1>1, <1>5, <2>1, IsOnKept
<1> QED BY <1>2, <1>3, <1>4, <1>5 DEF DeliveryNext

LEMMA FollowsAtFirst ==
  ASSUME DeliveryInit, NEW e \in Event \ Preexisting
  PROVE  Follows(e)
<1>1. 1..Len(queue) = {} /\ ~main.busy
  BY DEF DeliveryInit, Idle
<1>2. event[e].is_on = FALSE
  BY DEF DeliveryInit
<1>3. file[e] = FALSE
  <2>1. PICK present \in SUBSET Preexisting : file = [d \in Event |-> d \in present]
    BY DEF DeliveryInit
  <2>2. (e \in present) = FALSE
    BY <2>1
  <2> QED BY <2>1, <2>2
<1> QED BY <1>1, <1>2, <1>3 DEF Follows

(* With inotify the table is never behind a file that was not there before *)
(* the daemon by more than the queue and the entry in hand, for any number *)
(* of events: no entry is skipped, applied twice or applied out of order,  *)
(* whatever the requests do to events[] meanwhile.                         *)
THEOREM NewFilesAreFollowed ==
  ASSUME Inotify
  PROVE  DeliverySpec => [](\A e \in Event \ Preexisting : Follows(e))
<1> DEFINE F == \A e \in Event \ Preexisting : Follows(e)
           I == DeliveryTypeOK /\ AtWorkOnEvent /\ F
<1>1. DeliveryInit => I
  BY FollowsAtFirst, DeliveryInitTypes
<1>2. I /\ [DeliveryNext]_vars => I'
  <2> SUFFICES ASSUME I, [DeliveryNext]_vars PROVE I'
    OBVIOUS
  <2>1. DeliveryTypeOK' /\ AtWorkOnEvent'
    BY DeliveryTypeStep
  <2>2. ASSUME NEW e \in Event \ Preexisting PROVE Follows(e)'
    BY FollowStep
  <2> QED BY <2>1, <2>2
<1>3. I => F
  OBVIOUS
<1> QED BY <1>1, <1>2, <1>3, PTL DEF DeliverySpec

(* A file that was there before the daemon, of which the table knows       *)
(* nothing, is caught up with at its first change, and for good.           *)
THEOREM ChangeIsCaughtUp ==
  ASSUME Inotify, NEW e \in Event
  PROVE  DeliverySpec => /\ [][FileChange(e) => Follows(e)']_vars
                         /\ [][Follows(e) => Follows(e)']_vars
<1> DEFINE I == DeliveryTypeOK /\ AtWorkOnEvent
           Caught == FileChange(e) => Follows(e)'
           Kept == Follows(e) => Follows(e)'
<1>1. DeliveryInit => I
  BY DeliveryInitTypes
<1>2. I /\ [DeliveryNext]_vars => I'
  BY DeliveryTypeStep
<1>3. I /\ [DeliveryNext]_vars => [Caught]_vars
  BY ChangeFollows, DeliveryTypes
<1>4. I /\ [DeliveryNext]_vars => [Kept]_vars
  BY FollowStep
<1> QED BY <1>1, <1>2, <1>3, <1>4, PTL DEF DeliverySpec

(* Where no file was there before the daemon, that is the whole table. *)
THEOREM TableFollows ==
  ASSUME Inotify, Preexisting = {}
  PROVE  DeliverySpec => []TableFollowsFiles
<1>1. (\A e \in Event \ Preexisting : Follows(e)) => TableFollowsFiles
  BY Preexisting = {}, FollowsAll
<1> QED BY <1>1, NewFilesAreFollowed, PTL

(* Without inotify the main thread reads is_on before it takes the         *)
(* semaphore.  What it read is still so when it stores: it never notifies  *)
(* anybody of a value that the table had already.                          *)
PollIsNews ==
  /\ queue = <<>>
  /\ main.busy => event[main.event].is_on # main.on

THEOREM PollsBringNews ==
  ASSUME ~Inotify
  PROVE  DeliverySpec => []PollIsNews
<1> DEFINE I == DeliveryTypeOK /\ AtWorkOnEvent /\ PollIsNews
<1>1. DeliveryInit => I
  <2>1. DeliveryInit => PollIsNews
    BY DEF DeliveryInit, PollIsNews, Idle
  <2> QED BY <2>1, DeliveryInitTypes
<1>2. ASSUME I, [DeliveryNext]_vars PROVE PollIsNews'
  <2>0. EventTypes /\ main.event \in Event
    BY <1>2, DeliveryTypes DEF EventTypes, MainRecord
  <2> USE DEF PollIsNews
  <2>1. ASSUME NEW e \in Event, FileChange(e) \/ PollRead(e)
        PROVE  PollIsNews'
    BY <1>2, <2>0, <2>1 DEF FileChange, PollRead, EventTypes
  <2>2. CASE HandleRead
    BY <1>2, <2>2 DEF HandleRead
  <2>3. CASE HandleStore
    BY <1>2, <2>3 DEF HandleStore, Idle
  <2>4. ASSUME NEW c \in Clients, PullBegin(c) \/ PullStep(c)
        PROVE  PollIsNews'
    <3>1. UNCHANGED <<queue, main>>
      BY <2>4 DEF PullBegin, PullStep, PullFound, PullTimeout, PullLength,
                  PullSkip, PullPrint, PullLoad, PullStore, PullEnd, daemonVars
    <3> QED BY <1>2, <2>0, <2>4, <3>1, IsOnKept
  <2>5. ASSUME NEW c \in Clients, NewSubscription(c) \/ SetSync(c)
        PROVE  PollIsNews'
    <3>1. UNCHANGED <<queue, main>>
      BY <2>5 DEF NewSubscription, SetSync
    <3>2. event'[main.event].is_on = event[main.event].is_on
      BY <2>0, <2>5 DEF NewSubscription, SetSync, EventTypes, EventRecord
    <3> QED BY <1>2, <3>1, <3>2
  <2>6. CASE TableStep \/ SyncEvents \/ UNCHANGED vars
    BY <1>2, <2>6 DEF TableStep, SyncEvents, vars
  <2> QED BY <1>2, <2>1, <2>2, <2>3, <2>4, <2>5, <2>6 DEF DeliveryNext
<1>3. I /\ [DeliveryNext]_vars => I'
  BY <1>2, DeliveryTypeStep
<1>4. I => PollIsNews
  OBVIOUS
<1> QED BY <1>1, <1>3, <1>4, PTL DEF DeliverySpec

-------------------------------------------------------------------------------
(* Who is behind a slot. *)

(* A PUSH slot notifies the client that owns it, the others nobody. *)
ReferenceIsOwner ==
  \A s \in Slot :
    /\ sub[s].used # "unused" => owner[s] \in Clients
    /\ sub[s].reference = IF sub[s].used = "push" THEN owner[s] ELSE NoOne

(* A slot whose time is not over is the one its owner counts on: no client *)
(* has two.                                                                *)
OwnedOnce ==
  \A s \in Slot :
    sub[s].used # "unused" /\ now <= sub[s].expire =>
      Live(owner[s]) /\ mine[owner[s]].slot = s

OwnerInv == ReferenceIsOwner /\ OwnedOnce

LEMMA OwnerKept ==
  ASSUME IInv, OwnerInv, UNCHANGED <<now, mine, owner>>,
         \A s \in Slot : /\ sub'[s].used = sub[s].used
                         /\ sub'[s].expire = sub[s].expire
                         /\ sub'[s].reference = sub[s].reference
  PROVE  OwnerInv'
BY DEF OwnerInv, ReferenceIsOwner, OwnedOnce, Live

LEMMA NewOwner ==
  ASSUME Deviations = {}, IInv, OwnerInv, NEW c \in Clients,
         CreatePullPointSubscription(c) \/ Subscribe(c)
  PROVE  OwnerInv'
<1>1. req[c].fits /\ req[c].id /\ ~Live(c) /\ UNCHANGED now
  BY DEF IInv, RenewalsInTime, CreatePullPointSubscription, Subscribe
<1>2. PICK s \in 1..(MaxSubscriptions + 1), r \in {c, NoOne},
           u \in {"pull", "push"} :
        /\ r = IF u = "push" THEN c ELSE NoOne
        /\ IsFirstFree(s)
        /\ IF s \in Slot THEN Take(c, s, r, u) ELSE UNCHANGED <<sub, owner>>
        /\ Answer(c, s, u)
  BY <1>1 DEF CreatePullPointSubscription, Subscribe
<1>3. ASSUME NEW i \in Slot, sub[i].used # "unused", now <= sub[i].expire
      PROVE  owner[i] \in Clients \ {c}
  BY <1>1, <1>3 DEF OwnerInv, ReferenceIsOwner, OwnedOnce
<1>4. /\ mine'[c].slot = s
      /\ mine'[c].until = req[c].now + req[c].dur
      /\ \A d \in Clients \ {c} : mine'[d] = mine[d]
  BY <1>2, Types DEF IInv, Answer
<1>5. CASE s \notin Slot
  <2>1. UNCHANGED <<sub, owner>>
    BY <1>2, <1>5
  <2> QED BY <1>1, <1>3, <1>4, <2>1
          DEF OwnerInv, ReferenceIsOwner, OwnedOnce, Live
<1>6. CASE s \in Slot
  <2>1. /\ sub'[s].used = u
        /\ sub'[s].reference = r
        /\ sub'[s].expire = req[c].now + req[c].dur
        /\ owner'[s] = c
        /\ \A i \in Slot \ {s} : sub'[i] = sub[i] /\ owner'[i] = owner[i]
    BY <1>2, <1>6, Types DEF IInv, Take
  <2>2. ReferenceIsOwner'
    BY <1>2, <2>1 DEF OwnerInv, ReferenceIsOwner
  <2>3. s # 0
    BY <1>6, SizesAssumption DEF Slot
  <2>4. OwnedOnce'
    BY <1>1, <1>3, <1>4, <2>1, <2>3 DEF OwnerInv, OwnedOnce, Live
  <2> QED BY <2>2, <2>4 DEF OwnerInv
<1> QED BY <1>5, <1>6

LEMMA RenewOwner ==
  ASSUME Deviations = {}, IInv, OwnerInv, NEW c \in Clients, Renew(c)
  PROVE  OwnerInv'
<1> DEFINE s == mine[c].slot
           n == req[c].now + req[c].dur
<1>1. Live(c) /\ s \in Slot /\ req[c].id /\ s # 0
  BY DEF IInv, RenewalsInTime, Renew, Live
<1>2. owner[s] = c /\ sub[s].used # "unused"
  BY <1>1, LiveOwner
<1>3. /\ sub' = [sub EXCEPT ![s].expire = n]
      /\ mine' = [mine EXCEPT ![c].until = n]
      /\ UNCHANGED <<now, owner>>
  BY <1>1, <1>2 DEF Renew
<1>4. /\ sub'[s].expire = n
      /\ sub'[s].used = sub[s].used
      /\ sub'[s].reference = sub[s].reference
      /\ \A i \in Slot \ {s} : sub'[i] = sub[i]
  BY <1>1, <1>3, Types DEF IInv, SlotRecord
<1>5. /\ mine'[c].slot = s
      /\ mine'[c].until = n
      /\ \A d \in Clients \ {c} : mine'[d] = mine[d]
  BY <1>3, Types DEF IInv, GrantRecord
<1>6. ReferenceIsOwner'
  BY <1>3, <1>4 DEF OwnerInv, ReferenceIsOwner
<1>7. ASSUME NEW i \in Slot, sub'[i].used # "unused", now <= sub'[i].expire
      PROVE  Live(owner[i])' /\ mine'[owner[i]].slot = i
  <2>1. CASE i = s
    BY <1>1, <1>2, <1>3, <1>4, <1>5, <1>7, <2>1 DEF Live
  <2>2. CASE i # s
    <3>1. /\ owner[i] \in Clients /\ Live(owner[i]) /\ mine[owner[i]].slot = i
      BY <1>4, <1>7, <2>2 DEF OwnerInv, ReferenceIsOwner, OwnedOnce
    <3>2. owner[i] # c
      BY <2>2, <3>1
    <3> QED BY <1>3, <1>5, <3>1, <3>2 DEF Live
  <2> QED BY <2>1, <2>2
<1> QED BY <1>3, <1>6, <1>7 DEF OwnerInv, OwnedOnce

LEMMA UnsubscribeOwner ==
  ASSUME Deviations = {}, IInv, OwnerInv, NEW c \in Clients, Unsubscribe(c)
  PROVE  OwnerInv'
<1>1. PICK s \in Slot :
        /\ Uses(c, s)
        /\ sub' = [sub EXCEPT ![s] = IF @.used = "unused" THEN @ ELSE Blank]
        /\ owner' = [owner EXCEPT ![s] = IF sub[s].used = "unused" THEN @
                                                                   ELSE NoOne]
        /\ mine' = [mine EXCEPT ![c] = NoGrant]
        /\ UNCHANGED now
  BY DEF Unsubscribe
<1>2. Live(c) /\ mine[c].slot = s
  BY <1>1, SizesAssumption DEF Uses, Live, Slot
<1>3. owner[s] = c /\ sub[s].used # "unused"
  BY <1>2, LiveOwner
<1>4. /\ sub'[s] = Blank
      /\ \A i \in Slot \ {s} : sub'[i] = sub[i] /\ owner'[i] = owner[i]
      /\ \A d \in Clients \ {c} : mine'[d] = mine[d]
  BY <1>1, <1>3, Types DEF IInv
<1>5. ReferenceIsOwner'
  BY <1>4 DEF OwnerInv, ReferenceIsOwner, Blank
<1>6. ASSUME NEW i \in Slot, sub'[i].used # "unused", now <= sub'[i].expire
      PROVE  Live(owner[i])' /\ mine'[owner'[i]].slot = i
  <2>1. i # s
    BY <1>4, <1>6 DEF Blank
  <2>2. owner[i] \in Clients /\ Live(owner[i]) /\ mine[owner[i]].slot = i
    BY <1>4, <1>6, <2>1 DEF OwnerInv, ReferenceIsOwner, OwnedOnce
  <2>3. owner[i] # c
    BY <1>2, <2>1, <2>2
  <2> QED BY <1>1, <1>4, <2>1, <2>2, <2>3 DEF Live
<1> QED BY <1>1, <1>5, <1>6 DEF OwnerInv, OwnedOnce

LEMMA OtherOwner ==
  ASSUME Deviations = {}, IInv, OwnerInv,
         \/ \E c \in Clients : SetSynchronizationPoint(c)
         \/ SyncServe \/ CleanExpired \/ Tick
  PROVE  OwnerInv'
<1>0. \A s \in Slot : sub[s] \in SlotRecord
  BY Types DEF IInv
<1>1. ASSUME NEW c \in Clients, SetSynchronizationPoint(c) PROVE OwnerInv'
  <2>1. PICK s \in Slot :
          sub' = [sub EXCEPT ![s] = [sub[s] EXCEPT !.need_sync = TRUE]]
    BY <1>1, Types DEF IInv, SetSynchronizationPoint
  <2>2. \A i \in Slot : /\ sub'[i].used = sub[i].used
                        /\ sub'[i].expire = sub[i].expire
                        /\ sub'[i].reference = sub[i].reference
    BY <1>0, <2>1, Types DEF IInv, SlotRecord
  <2> QED BY <1>1, <2>2, OwnerKept DEF SetSynchronizationPoint
<1>2. CASE SyncServe
  <2>1. sub' = [sub EXCEPT ![seen] = [sub[seen] EXCEPT !.need_sync = FALSE]]
    BY <1>2, Types DEF IInv, SyncServe
  <2>2. \A i \in Slot : /\ sub'[i].used = sub[i].used
                        /\ sub'[i].expire = sub[i].expire
                        /\ sub'[i].reference = sub[i].reference
    BY <1>0, <2>1, Types DEF IInv, SlotRecord
  <2> QED BY <1>2, <2>2, OwnerKept DEF SyncServe
<1>3. CASE CleanExpired
  BY <1>3 DEF CleanExpired, OwnerInv, ReferenceIsOwner, OwnedOnce, Live, Blank
<1>4. CASE Tick
  <2>1. now' = now + 1 /\ now \in Nat /\ UNCHANGED <<sub, mine, owner>>
    BY <1>4, SizesAssumption, Types DEF IInv, Tick
  <2>2. ASSUME NEW s \in Slot, sub[s].used # "unused", now + 1 <= sub[s].expire
        PROVE  Live(owner[s])' /\ mine[owner[s]].slot = s
    <3>1. sub[s].expire \in Nat
      BY <1>0 DEF SlotRecord
    <3>2. owner[s] \in Clients /\ Live(owner[s]) /\ mine[owner[s]].slot = s
      BY <2>1, <2>2, <3>1 DEF OwnerInv, ReferenceIsOwner, OwnedOnce
    <3>3. mine[owner[s]].until = sub[s].expire
      BY <3>2, LiveOwner
    <3> QED BY <2>1, <2>2, <3>2, <3>3 DEF Live
  <2> QED BY <2>1, <2>2 DEF OwnerInv, ReferenceIsOwner, OwnedOnce
<1> QED BY <1>1, <1>2, <1>3, <1>4

LEMMA OwnerStep ==
  ASSUME Deviations = {}, IInv, OwnerInv, [Next]_tableVars
  PROVE  OwnerInv'
<1>1. ASSUME UNCHANGED <<sub, now, mine, owner>> PROVE OwnerInv'
  BY <1>1 DEF OwnerInv, ReferenceIsOwner, OwnedOnce, Live
<1>2. ASSUME NEW c \in Clients, AskNew(c) \/ AskRenew(c) PROVE OwnerInv'
  BY <1>1, <1>2 DEF AskNew, AskRenew, Ask
<1>3. ASSUME (\E s \in Slot : SyncSee(s)) \/ UNCHANGED tableVars PROVE OwnerInv'
  BY <1>1, <1>3 DEF SyncSee, tableVars
<1>4. ASSUME NEW c \in Clients,
             \/ CreatePullPointSubscription(c) \/ Subscribe(c)
             \/ Renew(c) \/ Unsubscribe(c) \/ SetSynchronizationPoint(c)
      PROVE  OwnerInv'
  BY <1>4, NewOwner, RenewOwner, UnsubscribeOwner, OtherOwner
<1> QED BY <1>2, <1>3, <1>4, OtherOwner DEF Next

-------------------------------------------------------------------------------
(* PULL subscriptions miss nothing. *)

(* A step that is not a new subscription of c gives c no subscription.     *)
LEMMA SubscribedBefore ==
  ASSUME Deviations = {}, IInv, NEW c \in Clients, NEW k, Subscribed(c, k)',
         \/ TableStep \/ UNCHANGED <<sub, now, mine, owner>>
         \/ \E d \in Clients \ {c} : NewSubscription(d)
  PROVE  Subscribed(c, k) /\ mine'[c].slot = mine[c].slot
<1>0. mine[c] \in GrantRecord
  BY Types DEF IInv
<1>1. ASSUME mine'[c] = mine[c], now' = now
      PROVE  Subscribed(c, k) /\ mine'[c].slot = mine[c].slot
  BY <1>1 DEF Subscribed, Live
<1>2. ASSUME NEW d \in Clients, AskNew(d) \/ AskRenew(d)
      PROVE  mine'[c] = mine[c] /\ now' = now
  BY <1>2 DEF AskNew, AskRenew, Ask
<1>3. ASSUME NEW d \in Clients, Renew(d)
      PROVE  Subscribed(c, k) /\ mine'[c].slot = mine[c].slot
  <2>1. /\ Live(d) /\ mine[d].slot \in Slot /\ req[d].id
        /\ now' = now
    BY <1>3 DEF IInv, RenewalsInTime, Renew
  <2>2. sub[mine[d].slot].used # "unused"
    BY <2>1, LiveOwner
  <2>3. mine' = [mine EXCEPT ![d] = [mine[d] EXCEPT
                   !.until = req[d].now + req[d].dur]]
    BY <1>3, <2>1, <2>2, Types DEF IInv, Renew
  <2>4. CASE d = c
    <3>1. mine'[c].slot = mine[c].slot /\ mine'[c].used = mine[c].used
      BY <1>0, <2>3, <2>4, Types DEF IInv, GrantRecord
    <3> QED BY <2>1, <2>4, <3>1 DEF Subscribed
  <2>5. CASE d # c
    BY <1>1, <2>1, <2>3, <2>5, Types DEF IInv
  <2> QED BY <2>4, <2>5
<1>4. ASSUME NEW d \in Clients, Unsubscribe(d)
      PROVE  mine'[c] = mine[c] /\ now' = now
  <2>1. mine' = [mine EXCEPT ![d] = NoGrant] /\ now' = now
    BY <1>4 DEF Unsubscribe
  <2>2. d # c
    <3>1. d = c => mine'[c].slot = 0
      BY <2>1, Types DEF IInv, NoGrant
    <3> QED BY <3>1 DEF Subscribed, Live
  <2> QED BY <2>1, <2>2, Types DEF IInv
<1>5. CASE Tick
  <2>1. mine' = mine /\ now' = now + 1 /\ now \in Nat /\ mine[c].until \in Nat
    BY <1>0, <1>5, SizesAssumption, Types DEF IInv, Tick, GrantRecord
  <2> QED BY <2>1 DEF Subscribed, Live
<1>6. ASSUME NEW d \in Clients \ {c}, NewSubscription(d)
      PROVE  mine'[c] = mine[c] /\ now' = now
  BY <1>6, Types
  DEF IInv, NewSubscription, CreatePullPointSubscription, Subscribe, Answer
<1>7. CASE \E s \in Slot : SyncSee(s)
  BY <1>1, <1>7 DEF SyncSee
<1>8. CASE CleanExpired
  BY <1>1, <1>8 DEF CleanExpired
<1>9. CASE UNCHANGED <<sub, now, mine, owner>>
  BY <1>1, <1>9
<1> QED BY <1>1, <1>2, <1>3, <1>4, <1>5, <1>6, <1>7, <1>8, <1>9 DEF TableStep

(* A new subscription gets a slot that nobody counts on and nobody owns. *)
LEMMA NewSlotIsFree ==
  ASSUME Deviations = {}, IInv, NEW d \in Clients, NewSubscription(d)
  PROVE  /\ \A c \in Clients : \A k :
              Subscribed(c, k) => mine'[d].slot # mine[c].slot
         /\ mine'[d].slot \in Slot => owner[mine'[d].slot] = NoOne
         /\ \A s \in Slot : s # mine'[d].slot => owner'[s] = owner[s]
<1>1. req[d].fits /\ req[d].id
  BY DEF IInv, RenewalsInTime
<1>2. PICK s \in 1..(MaxSubscriptions + 1), r \in {d, NoOne},
           u \in {"pull", "push"} :
        /\ IsFirstFree(s)
        /\ IF s \in Slot THEN Take(d, s, r, u) ELSE UNCHANGED <<sub, owner>>
        /\ Answer(d, s, u)
  BY <1>1 DEF NewSubscription, CreatePullPointSubscription, Subscribe
<1>3. mine'[d].slot = s
  BY <1>2, Types DEF IInv, Answer
<1>4. s \in Slot => sub[s].used = "unused"
  BY <1>2 DEF IsFirstFree
<1>5. \A c \in Clients : \A k : Subscribed(c, k) => s # mine[c].slot
  BY <1>4, LiveOwner DEF Subscribed
<1>6. s \in Slot => owner[s] = NoOne
  BY <1>4 DEF IInv, UnusedIsBlank
<1>7. \A i \in Slot : i # s => owner'[i] = owner[i]
  BY <1>2, Types DEF IInv, Take
<1> QED BY <1>3, <1>5, <1>6, <1>7

(* sync_events tells a client with a PULL subscription nothing. *)
LEMMA SyncSparesPull ==
  ASSUME Deviations = {}, IInv, OwnerInv, EventTypes, SyncEvents,
         NEW c \in Clients, Subscribed(c, "pull")
  PROVE  told'[c] = told[c]
<1> DEFINE slots == {s \in {seen} : Active(s, now)}
<1>1. PICK sent \in SUBSET slots :
        told' = [d \in Clients |->
                   IF d \in Consumers(sent)
                     THEN [e \in Event |-> IF e \in Event THEN file[e]
                                                          ELSE told[d][e]]
                     ELSE told[d]]
  BY DEF SyncEvents, Notify
<1>2. seen \in Slot
  BY Types DEF IInv, SyncEvents, SyncServe, Slot
<1>3. ASSUME NEW s \in sent, sub[s].reference = c PROVE FALSE
  <2>1. s \in Slot /\ sub[s].used = "push" /\ now <= sub[s].expire
    BY <1>2 DEF Active
  <2>2. owner[s] = c /\ mine[c].slot = s
    BY <1>3, <2>1 DEF OwnerInv, ReferenceIsOwner, OwnedOnce
  <2>3. sub[s].used = mine[c].used
    BY <2>1, <2>2, LiveOwner DEF Subscribed
  <2> QED BY <2>1, <2>3 DEF Subscribed
<1> QED BY <1>1, <1>3 DEF Consumers

(* What HandleStore does to the events and to what clients know. *)
LEMMA StoreEffect ==
  ASSUME EventTypes, HandleStore
  PROVE  LET e == main.event
             pulls == {s \in Slot : sub[s].used = "pull"}
         IN /\ e \in Event
            /\ event'[e].is_on = main.on
            /\ event'[e].pull_notify = event[e].pull_notify \cup pulls
            /\ \A d \in Event : d # e =>
                 /\ event'[d] = event[d]
                 /\ \A c \in Clients : told'[c][d] = told[c][d]
            /\ forgotten' = forgotten \ (pulls \X {e})
            /\ pull' = RacedBy(e)
            /\ UNCHANGED <<sub, now, req, mine, owner, seen, file, queue>>
            /\ ~main'.busy
<1> DEFINE e == main.event
           pulls == {s \in Slot : sub[s].used = "pull"}
<1>1. e \in Event /\ event[e] \in EventRecord
  BY DEF EventTypes, MainRecord
<1>2. event' = [event EXCEPT ![e] = [event[e] EXCEPT
                  !.is_on = main.on, !.pull_notify = @ \cup pulls]]
  BY <1>1 DEF HandleStore, EventTypes
<1>3. /\ event'[e].is_on = main.on
      /\ event'[e].pull_notify = event[e].pull_notify \cup pulls
      /\ \A d \in Event : d # e => event'[d] = event[d]
  BY <1>1, <1>2 DEF EventTypes, EventRecord
<1>4. \A d \in Event, c \in Clients : d # e => told'[c][d] = told[c][d]
  BY <1>1 DEF HandleStore, Notify
<1>5. ~main'.busy
  BY DEF HandleStore, Idle
<1> QED BY <1>1, <1>3, <1>4, <1>5 DEF HandleStore, tableVars

(* A client whose PullMessages has printed an event that was not touched   *)
(* since knows its state.                                                  *)
PrintedIsTold ==
  \A c \in Clients :
    /\ pull[c].at \in {"load", "store"} /\ ~pull[c].raced
    /\ Subscribed(c, "pull")
    => told[c][pull[c].cursor] = event[pull[c].cursor].is_on

BaseInv == DeliveryTypeOK /\ AtWorkOnEvent /\ IInv /\ OwnerInv

LEMMA BaseStep ==
  Deviations = {} /\ BaseInv /\ [DeliveryNext]_vars => BaseInv'
BY DeliveryTypeStep, StepRefines, InvariantStep, OwnerStep DEF BaseInv

LEMMA BaseInit == Deviations = {} /\ DeliveryInit => BaseInv
<1>1. Deviations = {} /\ Init => IInv
  BY InitInvariant
<1>2. Init => OwnerInv
  BY DEF Init, OwnerInv, ReferenceIsOwner, OwnedOnce, Blank
<1> QED BY <1>1, <1>2, DeliveryInitTypes DEF BaseInv, DeliveryInit

LEMMA NobodyAtFirst ==
  ASSUME DeliveryInit, NEW c \in Clients, NEW k
  PROVE  ~Subscribed(c, k)
<1>1. mine[c].slot = 0
  BY DEF DeliveryInit, Init, NoGrant
<1> QED BY <1>1 DEF Subscribed, Live

(* The steps that change neither what a client knows nor the events.       *)
LEMMA NothingTold ==
  ASSUME \/ \E e \in Event : FileChange(e) \/ PollRead(e)
         \/ HandleRead \/ UNCHANGED vars
  PROVE  UNCHANGED <<sub, now, req, mine, owner, seen, event, pull, told,
                     missed, forgotten>>
BY DEF FileChange, PollRead, HandleRead, vars, ghosts, tableVars

LEMMA PrintedTableStep ==
  ASSUME Deviations = {}, BaseInv, PrintedIsTold,
         \/ TableStep
         \/ \E d \in Clients : NewSubscription(d) \/ SetSync(d)
         \/ HandleStore \/ SyncEvents
  PROVE  PrintedIsTold'
<1>0. IInv /\ OwnerInv /\ EventTypes /\ AtWorkOnEvent
  BY DeliveryTypes DEF BaseInv
<1>1. ASSUME NEW c \in Clients, Subscribed(c, "pull"),
             pull'[c].at = pull[c].at, pull'[c].cursor = pull[c].cursor,
             pull[c].raced => pull'[c].raced,
             pull'[c].at \in {"load", "store"}, ~pull'[c].raced,
             told'[c][pull[c].cursor] = told[c][pull[c].cursor],
             event'[pull[c].cursor].is_on = event[pull[c].cursor].is_on
      PROVE  told'[c][pull'[c].cursor] = event'[pull'[c].cursor].is_on
  BY <1>1 DEF PrintedIsTold
<1>2. CASE TableStep
  <2>1. ASSUME NEW c \in Clients
        PROVE  /\ pull'[c].at = pull[c].at
               /\ pull'[c].cursor = pull[c].cursor
               /\ pull'[c].raced = pull[c].raced
    <3>1. pull[c] \in PullRecord
      BY <1>0 DEF EventTypes
    <3>2. pull'[c] = pull[c] \/ pull'[c] = [pull[c] EXCEPT !.outlived = TRUE]
      BY <1>2 DEF TableStep, Outlived
    <3> QED BY <3>1, <3>2 DEF PullRecord
  <2>2. UNCHANGED <<told, event>>
    BY <1>2 DEF TableStep, ghosts
  <2> QED BY <1>0, <1>1, <1>2, <2>1, <2>2, SubscribedBefore DEF PrintedIsTold
<1>3. ASSUME NEW d \in Clients, NewSubscription(d) PROVE PrintedIsTold'
  <2>1. UNCHANGED <<event, pull>>
    BY <1>3 DEF NewSubscription
  <2>3. \A c \in Clients \ {d} : Subscribed(c, "pull")' => Subscribed(c, "pull")
    BY <1>0, <1>3, SubscribedBefore
  <2>4. told'[d] = [e \in Event |-> event[e].is_on]
    BY <1>0, <1>3 DEF NewSubscription, EventTypes
  <2>5. \A c \in Clients \ {d} : told'[c] = told[c]
    BY <1>0, <1>3 DEF NewSubscription, EventTypes
  <2> QED BY <1>0, <2>1, <2>3, <2>4, <2>5 DEF PrintedIsTold, AtWorkOnEvent
<1>4. ASSUME NEW d \in Clients, SetSync(d) PROVE PrintedIsTold'
  <2>1. ASSUME NEW c \in Clients, pull'[c].at \in {"load", "store"}
        PROVE  pull'[c].raced
    <3>1. pull[c] \in PullRecord
      BY <1>0 DEF EventTypes
    <3>2. pull'[c] = IF pull[c].at \in {"load", "store"}
                       THEN [pull[c] EXCEPT !.raced = TRUE] ELSE pull[c]
      BY <1>4 DEF SetSync
    <3> QED BY <2>1, <3>1, <3>2 DEF PullRecord
  <2> QED BY <2>1 DEF PrintedIsTold
<1>5. CASE HandleStore
  <2> DEFINE e == main.event
  <2>1. ASSUME NEW c \in Clients, pull'[c].at \in {"load", "store"},
               ~pull'[c].raced
        PROVE  pull'[c] = pull[c] /\ pull[c].cursor # e
    <3>1. pull[c] \in PullRecord
      BY <1>0 DEF EventTypes
    <3>2. pull'[c] = IF pull[c].at \in {"load", "store"} /\ pull[c].cursor = e
                       THEN [pull[c] EXCEPT !.raced = TRUE] ELSE pull[c]
      BY <1>0, <1>5, StoreEffect DEF RacedBy
    <3> QED BY <2>1, <3>1, <3>2 DEF PullRecord
  <2>2. \A c \in Clients : Subscribed(c, "pull")' => Subscribed(c, "pull")
    BY <1>0, <1>5, StoreEffect DEF Subscribed, Live
  <2>3. \A d \in Event : d # e =>
          event'[d] = event[d] /\ \A c \in Clients : told'[c][d] = told[c][d]
    BY <1>0, <1>5, StoreEffect
  <2> QED BY <1>0, <1>1, <2>1, <2>2, <2>3 DEF PrintedIsTold, AtWorkOnEvent
<1>6. CASE SyncEvents
  <2>1. UNCHANGED <<event, pull, now, mine>>
    BY <1>6 DEF SyncEvents, SyncServe
  <2>2. \A c \in Clients : Subscribed(c, "pull") => told'[c] = told[c]
    BY <1>0, <1>6, SyncSparesPull
  <2> QED BY <2>1, <2>2 DEF PrintedIsTold, Subscribed, Live
<1> QED BY <1>2, <1>3, <1>4, <1>5, <1>6

(* Nobody else's record changes. *)
LEMMA OthersPull ==
  ASSUME EventTypes, NEW d \in Clients, PullBegin(d) \/ PullStep(d)
  PROVE  \A c \in Clients \ {d} : pull'[c] = pull[c] /\ told'[c] = told[c]
BY DEF PullBegin, PullStep, PullFound, PullTimeout, PullLength, PullSkip,
       PullPrint, PullLoad, PullStore, PullEnd, Goto, ghosts, EventTypes

LEMMA PrintedPullStep ==
  ASSUME BaseInv, PrintedIsTold, NEW d \in Clients, PullBegin(d) \/ PullStep(d)
  PROVE  PrintedIsTold'
<1>0. IInv /\ EventTypes /\ AtWorkOnEvent /\ UNCHANGED tableVars
  BY DeliveryTypes, QuietStep DEF BaseInv
<1>1. \A c \in Clients : Subscribed(c, "pull")' <=> Subscribed(c, "pull")
  BY <1>0 DEF Subscribed, Live, tableVars
<1>2. \A e \in Event : event'[e].is_on = event[e].is_on
  BY <1>0, IsOnKept
<1>3. \A c \in Clients \ {d} : pull'[c] = pull[c] /\ told'[c] = told[c]
  BY <1>0, OthersPull
<1>4. pull[d] \in PullRecord
  BY <1>0 DEF EventTypes
<1>5. ASSUME pull'[d].at \in {"load", "store"}, ~pull'[d].raced,
             Subscribed(d, "pull")
      PROVE  told'[d][pull'[d].cursor] = event'[pull'[d].cursor].is_on
  <2>1. CASE PullPrint(d)
    <3>1. pull'[d].cursor = pull[d].cursor /\ pull[d].cursor \in Event
      BY <1>0, <1>4, <2>1 DEF PullPrint, Examined, EventTypes, PullRecord
    <3>2. told'[d][pull[d].cursor] = event[pull[d].cursor].is_on
      BY <1>0, <2>1, <3>1 DEF PullPrint, EventTypes
    <3> QED BY <1>2, <3>1, <3>2
  <2>2. CASE PullLoad(d)
    <3>1. /\ pull[d].at = "load"
          /\ pull'[d].cursor = pull[d].cursor
          /\ pull'[d].raced = pull[d].raced
      BY <1>0, <1>4, <2>2 DEF PullLoad, EventTypes, PullRecord
    <3>2. told' = told /\ pull[d].cursor \in Event
      BY <1>0, <2>2, <3>1 DEF PullLoad, ghosts, AtWorkOnEvent
    <3> QED BY <1>2, <1>5, <3>1, <3>2 DEF PrintedIsTold
  <2>3. CASE PullBegin(d)
    <3>1. PICK s \in Slot, timeout \in Timeouts, limit \in Limits :
          pull' = [pull EXCEPT ![d] =
                     [NoPull EXCEPT !.at = "poll", !.slot = s, !.limit = limit,
                                    !.deadline = now + timeout]]
      BY <2>3 DEF PullBegin
    <3>2. pull'[d].at = "poll"
      BY <1>0, <3>1 DEF EventTypes, NoPull
    <3> QED BY <1>5, <3>2
  <2>4. CASE PullFound(d) \/ PullTimeout(d) \/ PullLength(d) \/ PullSkip(d)
             \/ PullStore(d) \/ PullEnd(d)
    <3>1. pull'[d].at \notin {"load", "store"}
      BY <1>0, <1>4, <2>4
      DEF PullFound, PullTimeout, PullLength, PullSkip, PullStore, PullEnd,
          Goto, NoPull, EventTypes, PullRecord
    <3> QED BY <1>5, <3>1
  <2> QED BY <2>1, <2>2, <2>3, <2>4 DEF PullStep
<1> QED BY <1>0, <1>1, <1>2, <1>3, <1>5 DEF PrintedIsTold, AtWorkOnEvent

LEMMA PrintedStep ==
  Deviations = {} /\ BaseInv /\ PrintedIsTold /\ [DeliveryNext]_vars
    => PrintedIsTold'
<1> SUFFICES ASSUME Deviations = {}, BaseInv, PrintedIsTold, [DeliveryNext]_vars
             PROVE  PrintedIsTold'
  OBVIOUS
<1>1. ASSUME \/ \E e \in Event : FileChange(e) \/ PollRead(e)
             \/ HandleRead \/ UNCHANGED vars
      PROVE  PrintedIsTold'
  BY <1>1, NothingTold DEF PrintedIsTold, Subscribed, Live
<1>2. ASSUME NEW d \in Clients, PullBegin(d) \/ PullStep(d) PROVE PrintedIsTold'
  BY <1>2, PrintedPullStep
<1> QED BY <1>1, <1>2, PrintedTableStep DEF DeliveryNext

(* The step that takes bits away remembers which. *)
LEMMA StoreTakes ==
  ASSUME BaseInv, NEW d \in Clients, PullStore(d)
  PROVE  LET e == pull[d].cursor
             s == pull[d].slot
         IN /\ e \in Event /\ s \in Slot
            /\ \A t \in Slot :
                 \/ t \in event'[e].pull_notify
                 \/ t \notin event[e].pull_notify
                 \/ <<t, e>> \in forgotten'
                 \/ t = s /\ ~pull[d].raced /\ owner[s] = d
            /\ forgotten \subseteq forgotten'
            /\ \A f \in Event : f # e => event'[f] = event[f]
            /\ told' = told
<1> DEFINE e == pull[d].cursor
           s == pull[d].slot
           gone == (event[e].pull_notify \ pull[d].word)
                     \cup (IF pull[d].raced \/ owner[s] # d THEN {s} ELSE {})
<1>0. EventTypes /\ AtWorkOnEvent
  BY DeliveryTypes DEF BaseInv
<1>1. e \in Event /\ pull[d] \in PullRecord /\ s \in Slot
  BY <1>0 DEF PullStore, AtWorkOnEvent, EventTypes, PullRecord
<1>2. event[e] \in EventRecord
  BY <1>0, <1>1 DEF EventTypes
<1>3. event' = [event EXCEPT ![e] =
                  [event[e] EXCEPT !.pull_notify = pull[d].word \ {s}]]
  BY <1>0, <1>1 DEF PullStore, EventTypes
<1>4. /\ event'[e].pull_notify = pull[d].word \ {s}
      /\ \A f \in Event : f # e => event'[f] = event[f]
  BY <1>0, <1>1, <1>2, <1>3 DEF EventTypes, EventRecord
<1>5. forgotten' = forgotten \cup (gone \X {e}) /\ told' = told
  BY DEF PullStore
<1>6. \A t \in gone : <<t, e>> \in forgotten'
  BY <1>5
<1>7. \A t \in Slot : \/ t \in pull[d].word \ {s}
                      \/ t \notin event[e].pull_notify
                      \/ t \in gone
                      \/ t = s /\ ~pull[d].raced /\ owner[s] = d
  OBVIOUS
<1>8. forgotten \subseteq forgotten'
  BY <1>5
<1> QED BY <1>1, <1>4, <1>5, <1>6, <1>7, <1>8

LEMMA MissesTableStep ==
  ASSUME Deviations = {}, BaseInv, PullMissesNothing,
         \/ TableStep
         \/ \E d \in Clients : NewSubscription(d) \/ SetSync(d)
         \/ HandleStore \/ SyncEvents
  PROVE  PullMissesNothing'
<1>0. IInv /\ OwnerInv /\ EventTypes /\ AtWorkOnEvent
  BY DeliveryTypes DEF BaseInv
<1>1. CASE TableStep
  <2>1. UNCHANGED <<told, event, forgotten>>
    BY <1>1 DEF TableStep, ghosts
  <2> QED BY <1>0, <1>1, <2>1, SubscribedBefore DEF PullMissesNothing
<1>2. ASSUME NEW d \in Clients, NewSubscription(d) PROVE PullMissesNothing'
  <2>1. /\ told'[d] = [e \in Event |-> event[e].is_on]
        /\ \A c \in Clients \ {d} : told'[c] = told[c]
        /\ forgotten' = {f \in forgotten : f[1] # mine'[d].slot}
        /\ UNCHANGED event
    BY <1>0, <1>2 DEF NewSubscription, EventTypes
  <2>2. ASSUME NEW c \in Clients \ {d}, Subscribed(c, "pull")'
        PROVE  /\ Subscribed(c, "pull")
               /\ mine'[c].slot = mine[c].slot
               /\ mine'[d].slot # mine[c].slot
    BY <1>0, <1>2, <2>2, SubscribedBefore, NewSlotIsFree
  <2>3. ASSUME NEW c \in Clients \ {d}, Subscribed(c, "pull")', NEW e \in Event,
               <<mine[c].slot, e>> \in forgotten
        PROVE  <<mine'[c].slot, e>> \in forgotten'
    BY <2>1, <2>2, <2>3
  <2> QED BY <2>1, <2>2, <2>3 DEF PullMissesNothing
<1>3. ASSUME NEW d \in Clients, SetSync(d) PROVE PullMissesNothing'
  <2> DEFINE s == mine[d].slot
  <2>1. /\ \A e \in Event : /\ event'[e].is_on = event[e].is_on
                            /\ event[e].pull_notify
                                 \subseteq event'[e].pull_notify
                            /\ s \in event'[e].pull_notify
        /\ forgotten' = {f \in forgotten : f[1] # s}
        /\ UNCHANGED <<told, now, mine>>
    <3>1. \A e \in Event : event[e] \in EventRecord
      BY <1>0 DEF EventTypes
    <3>2. \A e \in Event : event'[e] = [event[e] EXCEPT
                             !.pull_notify = event[e].pull_notify \cup {s}]
      BY <1>3, <3>1 DEF SetSync
    <3>3. \A e \in Event : /\ event'[e].is_on = event[e].is_on
                           /\ event'[e].pull_notify
                                = event[e].pull_notify \cup {s}
      BY <3>1, <3>2 DEF EventRecord
    <3> QED BY <1>3, <3>3 DEF SetSync, SetSynchronizationPoint
  <2>2. ASSUME NEW c \in Clients, NEW e \in Event,
               <<mine[c].slot, e>> \in forgotten
        PROVE  \/ <<mine[c].slot, e>> \in forgotten'
               \/ mine[c].slot \in event'[e].pull_notify
    BY <2>1, <2>2
  <2> QED BY <2>1, <2>2 DEF PullMissesNothing, Subscribed, Live
<1>4. CASE HandleStore
  <2> DEFINE d == main.event
             pulls == {s \in Slot : sub[s].used = "pull"}
  <2>1. UNCHANGED <<sub, now, mine>>
    BY <1>0, <1>4, StoreEffect
  <2>2. ASSUME NEW c \in Clients, Subscribed(c, "pull")
        PROVE  mine[c].slot \in event'[d].pull_notify
    <3>1. mine[c].slot \in pulls
      BY <1>0, <2>2, LiveOwner DEF Subscribed
    <3> QED BY <1>0, <1>4, <3>1, StoreEffect
  <2>3. \A e \in Event : e # d =>
          /\ event'[e] = event[e]
          /\ \A c \in Clients : told'[c][e] = told[c][e]
          /\ \A s : <<s, e>> \in forgotten => <<s, e>> \in forgotten'
    BY <1>0, <1>4, StoreEffect
  <2> QED BY <2>1, <2>2, <2>3 DEF PullMissesNothing, Subscribed, Live
<1>5. CASE SyncEvents
  <2>1. UNCHANGED <<event, forgotten, now, mine>>
    BY <1>5 DEF SyncEvents, SyncServe
  <2>2. \A c \in Clients : Subscribed(c, "pull") => told'[c] = told[c]
    BY <1>0, <1>5, SyncSparesPull
  <2> QED BY <2>1, <2>2 DEF PullMissesNothing, Subscribed, Live
<1> QED BY <1>1, <1>2, <1>3, <1>4, <1>5

LEMMA MissesPullStep ==
  ASSUME BaseInv, PrintedIsTold, PullMissesNothing,
         NEW d \in Clients, PullBegin(d) \/ PullStep(d)
  PROVE  PullMissesNothing'
<1>0. IInv /\ EventTypes /\ AtWorkOnEvent /\ UNCHANGED tableVars
  BY DeliveryTypes, QuietStep DEF BaseInv
<1>1. UNCHANGED <<mine, now>>
  BY <1>0 DEF tableVars
<1>2. \A e \in Event : event'[e].is_on = event[e].is_on
  BY <1>0, IsOnKept
<1>3. CASE PullStore(d)
  <2> DEFINE e == pull[d].cursor
             s == pull[d].slot
  <2>1. ASSUME NEW c \in Clients, Subscribed(c, "pull"),
               told[c][e] # event[e].is_on
        PROVE  \/ mine[c].slot \in event'[e].pull_notify
               \/ <<mine[c].slot, e>> \in forgotten'
    <3>1. mine[c].slot \in Slot /\ owner[mine[c].slot] = c
      BY <1>0, <2>1, LiveOwner DEF Subscribed
    <3>2. ~(mine[c].slot = s /\ ~pull[d].raced /\ owner[s] = d)
      <4> SUFFICES ASSUME mine[c].slot = s, ~pull[d].raced, owner[s] = d
                   PROVE  FALSE
        OBVIOUS
      <4>1. c = d
        BY <3>1
      <4> QED BY <1>3, <2>1, <4>1 DEF PullStore, PrintedIsTold
    <3>3. \/ mine[c].slot \in event[e].pull_notify
          \/ <<mine[c].slot, e>> \in forgotten
      BY <1>3, <2>1, StoreTakes DEF PullMissesNothing
    <3> QED BY <1>3, <3>1, <3>2, <3>3, StoreTakes
  <2>2. ASSUME NEW c \in Clients, Subscribed(c, "pull"),
               NEW f \in Event, f # e, told[c][f] # event[f].is_on
        PROVE  \/ mine[c].slot \in event'[f].pull_notify
               \/ <<mine[c].slot, f>> \in forgotten'
    BY <1>3, <2>2, StoreTakes DEF PullMissesNothing
  <2>3. told' = told
    BY <1>3, StoreTakes
  <2> QED BY <1>1, <1>2, <2>1, <2>2, <2>3
          DEF PullMissesNothing, Subscribed, Live
<1>4. CASE PullPrint(d)
  <2>1. UNCHANGED <<event, forgotten>>
    BY <1>4 DEF PullPrint, daemonVars
  <2>2. pull[d].cursor \in Event
    BY <1>4 DEF PullPrint, Examined
  <2>3. \A c \in Clients, e \in Event :
          told'[c][e] = IF c = d /\ e = pull[d].cursor THEN event[e].is_on
                                                       ELSE told[c][e]
    BY <1>0, <1>4, <2>2 DEF PullPrint, EventTypes
  <2> QED BY <1>1, <2>1, <2>3 DEF PullMissesNothing, Subscribed, Live
<1>5. CASE PullBegin(d) \/ PullFound(d) \/ PullTimeout(d) \/ PullLength(d)
           \/ PullSkip(d) \/ PullLoad(d) \/ PullEnd(d)
  <2>1. UNCHANGED <<told, event, forgotten>>
    BY <1>5 DEF PullBegin, PullFound, PullTimeout, PullLength, PullSkip,
                PullLoad, PullEnd, daemonVars, ghosts
  <2> QED BY <1>1, <2>1 DEF PullMissesNothing, Subscribed, Live
<1> QED BY <1>3, <1>4, <1>5 DEF PullStep

LEMMA MissesStep ==
  /\ Deviations = {} /\ BaseInv /\ PrintedIsTold /\ PullMissesNothing
  /\ [DeliveryNext]_vars
  => PullMissesNothing'
<1> SUFFICES ASSUME Deviations = {}, BaseInv, PrintedIsTold, PullMissesNothing,
                    [DeliveryNext]_vars
             PROVE  PullMissesNothing'
  OBVIOUS
<1>1. ASSUME \/ \E e \in Event : FileChange(e) \/ PollRead(e)
             \/ HandleRead \/ UNCHANGED vars
      PROVE  PullMissesNothing'
  BY <1>1, NothingTold DEF PullMissesNothing, Subscribed, Live
<1>2. ASSUME NEW d \in Clients, PullBegin(d) \/ PullStep(d)
      PROVE  PullMissesNothing'
  BY <1>2, MissesPullStep
<1> QED BY <1>1, <1>2, MissesTableStep DEF DeliveryNext

(* No change of an event is lost for a PULL subscription, for any number   *)
(* of events, clients and slots and with or without inotify, except where  *)
(* the unlocked second pass of a PullMessages took the bit of a change     *)
(* that came in between or of a slot that is no longer its client's.       *)
THEOREM NothingIsMissed ==
  ASSUME Deviations = {}
  PROVE  DeliverySpec => []PullMissesNothing
<1> DEFINE I == BaseInv /\ PrintedIsTold /\ PullMissesNothing
<1>1. DeliveryInit => I
  <2>1. DeliveryInit => PrintedIsTold /\ PullMissesNothing
    <3> SUFFICES ASSUME DeliveryInit PROVE PrintedIsTold /\ PullMissesNothing
      OBVIOUS
    <3>1. \A c \in Clients : ~Subscribed(c, "pull")
      BY NobodyAtFirst
    <3> QED BY <3>1 DEF PrintedIsTold, PullMissesNothing
  <2> QED BY <2>1, BaseInit
<1>2. I /\ [DeliveryNext]_vars => I'
  BY BaseStep, PrintedStep, MissesStep
<1>3. I => PullMissesNothing
  OBVIOUS
<1> QED BY <1>1, <1>2, <1>3, PTL DEF DeliverySpec

-------------------------------------------------------------------------------
(* What was announced is printed. *)

(* The slot a PullMessages works on is its client's, or it was marked.     *)
WorksOnOwn ==
  \A c \in Clients :
    pull[c].at # "idle" /\ ~pull[c].outlived => owner[pull[c].slot] = c

Counted(c) ==
  pull[c].at \in {"print", "load", "store"} /\ ~pull[c].outlived =>
    \A e \in pull[c].announced :
      \/ e < pull[c].cursor
      \/ pull[c].slot \in event[e].pull_notify
      \/ <<pull[c].slot, e>> \in forgotten

(* AnnouncedIsPrinted between the two halves of a store as well. *)
CountedIsThere == \A c \in Clients : Counted(c)

(* A mark changes nothing else. *)
LEMMA MarkedRecord ==
  ASSUME NEW r \in PullRecord,
         NEW q \in {[r EXCEPT !.raced = TRUE], [r EXCEPT !.outlived = TRUE]}
  PROVE  /\ q.at = r.at /\ q.slot = r.slot /\ q.cursor = r.cursor
         /\ q.announced = r.announced
         /\ r.outlived => q.outlived
BY DEF PullRecord

LEMMA PullKept ==
  ASSUME EventTypes, NEW c \in Clients,
         \/ TableStep \/ HandleStore \/ UNCHANGED pull
         \/ \E d \in Clients : SetSync(d)
  PROVE  /\ pull'[c].at = pull[c].at /\ pull'[c].slot = pull[c].slot
         /\ pull'[c].cursor = pull[c].cursor
         /\ pull'[c].announced = pull[c].announced
         /\ pull[c].outlived => pull'[c].outlived
<1>1. pull[c] \in PullRecord
  BY DEF EventTypes
<1>2. \/ pull'[c] = pull[c]
      \/ pull'[c] = [pull[c] EXCEPT !.raced = TRUE]
      \/ pull'[c] = [pull[c] EXCEPT !.outlived = TRUE]
  BY DEF TableStep, HandleStore, SetSync, RacedBy, Outlived
<1> QED BY <1>1, <1>2, MarkedRecord

LEMMA WorksTableStep ==
  ASSUME Deviations = {}, BaseInv, WorksOnOwn,
         \/ TableStep \/ HandleStore \/ SyncEvents
         \/ \E d \in Clients : NewSubscription(d) \/ SetSync(d)
  PROVE  WorksOnOwn'
<1>0. IInv /\ EventTypes
  BY DeliveryTypes DEF BaseInv
<1>1. CASE TableStep
  <2>1. ASSUME NEW c \in Clients, pull'[c].at # "idle", ~pull'[c].outlived
        PROVE  owner'[pull'[c].slot] = c
    <3>1. pull[c] \in PullRecord
      BY <1>0 DEF EventTypes
    <3>2. pull'[c] = IF pull[c].at # "idle" /\ owner'[pull[c].slot] # c
                       THEN [pull[c] EXCEPT !.outlived = TRUE] ELSE pull[c]
      BY <1>1 DEF TableStep, Outlived
    <3> QED BY <2>1, <3>1, <3>2 DEF PullRecord
  <2> QED BY <2>1 DEF WorksOnOwn
<1>2. CASE HandleStore \/ SyncEvents \/ \E d \in Clients : SetSync(d)
  <2>1. owner' = owner
    BY <1>2 DEF HandleStore, SyncEvents, SyncServe, SetSync,
                SetSynchronizationPoint, tableVars
  <2>2. SyncEvents => UNCHANGED pull
    BY DEF SyncEvents
  <2> QED BY <1>0, <1>2, <2>1, <2>2, PullKept DEF WorksOnOwn
<1>3. ASSUME NEW d \in Clients, NewSubscription(d) PROVE WorksOnOwn'
  <2>1. pull' = pull
    BY <1>3 DEF NewSubscription
  <2>2. ASSUME NEW c \in Clients, owner[pull[c].slot] = c
        PROVE  owner'[pull[c].slot] = c
    <3>1. pull[c].slot \in Slot
      BY <1>0 DEF EventTypes, PullRecord
    <3>2. pull[c].slot # mine'[d].slot
      BY <1>0, <1>3, <2>2, <3>1, NewSlotIsFree, ClientsAssumption
    <3> QED BY <1>0, <1>3, <2>2, <3>1, <3>2, NewSlotIsFree
  <2> QED BY <2>1, <2>2 DEF WorksOnOwn
<1> QED BY <1>1, <1>2, <1>3

(* What a step of PullMessages does to the client's own record, as far as  *)
(* the two invariants read it.                                             *)
LEMMA PullRecordAfter ==
  ASSUME Deviations = {}, BaseInv, NEW d \in Clients,
         PullBegin(d) \/ PullStep(d)
  PROVE  \/ PullBegin(d) /\ pull'[d].at = "poll" /\ owner[pull'[d].slot] = d
         \/ PullEnd(d) /\ pull'[d].at = "idle"
         \/ /\ PullStep(d) /\ ~PullEnd(d)
            /\ pull[d].at # "idle"
            /\ pull'[d].slot = pull[d].slot
            /\ pull'[d].outlived = pull[d].outlived
            /\ ~PullLength(d) => pull'[d].announced = pull[d].announced
<1>0. IInv /\ EventTypes
  BY DeliveryTypes DEF BaseInv
<1>1. pull[d] \in PullRecord
  BY <1>0 DEF EventTypes
<1>2. CASE PullBegin(d)
  <2>1. PICK s \in Slot, timeout \in Timeouts, limit \in Limits :
          /\ Uses(d, s)
          /\ pull' = [pull EXCEPT ![d] =
                        [NoPull EXCEPT !.at = "poll", !.slot = s,
                                       !.limit = limit,
                                       !.deadline = now + timeout]]
    BY <1>2 DEF PullBegin
  <2>2. pull'[d].at = "poll" /\ pull'[d].slot = s
    BY <1>0, <2>1 DEF EventTypes, NoPull
  <2>3. Live(d) /\ mine[d].slot = s
    BY <2>1, SizesAssumption DEF Uses, Live, Slot
  <2>4. owner[s] = d
    BY <1>0, <2>3, LiveOwner
  <2> QED BY <1>2, <2>2, <2>4
<1>3. CASE PullEnd(d)
  BY <1>0, <1>3 DEF PullEnd, NoPull, EventTypes
<1>4. CASE PullStep(d) /\ ~PullEnd(d)
  <2>1. pull[d].at # "idle"
    BY <1>4 DEF PullStep, PullFound, PullTimeout, PullLength, PullSkip,
                PullPrint, PullLoad, PullStore
  <2>2. /\ pull'[d].slot = pull[d].slot
        /\ pull'[d].outlived = pull[d].outlived
        /\ ~PullLength(d) => pull'[d].announced = pull[d].announced
    BY <1>0, <1>1, <1>4
    DEF PullStep, PullFound, PullTimeout, PullLength, PullSkip, PullPrint,
        PullLoad, PullStore, Goto, EventTypes, PullRecord
  <2> QED BY <1>4, <2>1, <2>2
<1> QED BY <1>2, <1>3, <1>4

LEMMA WorksStep ==
  ASSUME Deviations = {}, BaseInv, WorksOnOwn, [DeliveryNext]_vars
  PROVE  WorksOnOwn'
<1>0. EventTypes
  BY DeliveryTypes DEF BaseInv
<1>1. ASSUME \/ \E e \in Event : FileChange(e) \/ PollRead(e)
             \/ HandleRead \/ UNCHANGED vars
      PROVE  WorksOnOwn'
  BY <1>1, NothingTold DEF WorksOnOwn
<1>2. ASSUME NEW d \in Clients, PullBegin(d) \/ PullStep(d) PROVE WorksOnOwn'
  <2>1. owner' = owner
    BY <1>2, QuietStep DEF tableVars
  <2>2. pull'[d].at # "idle" /\ ~pull'[d].outlived => owner[pull'[d].slot] = d
    BY <1>2, PullRecordAfter DEF WorksOnOwn
  <2> QED BY <1>0, <1>2, <2>1, <2>2, OthersPull DEF WorksOnOwn
<1> QED BY <1>1, <1>2, WorksTableStep DEF DeliveryNext

(* Bits and forgotten bits: what a slot has on record about an event.      *)
OnRecord(s, e) == s \in event[e].pull_notify \/ <<s, e>> \in forgotten

LEMMA CountedKept ==
  ASSUME NEW c \in Clients, Counted(c),
         pull'[c].at \in {"print", "load", "store"} /\ ~pull'[c].outlived =>
           /\ pull[c].at \in {"print", "load", "store"} /\ ~pull[c].outlived
           /\ pull'[c].slot = pull[c].slot
           /\ pull'[c].announced = pull[c].announced
           /\ \A e \in pull[c].announced : e < pull[c].cursor =>
                                             e < pull'[c].cursor
           /\ \A e \in pull[c].announced :
                OnRecord(pull[c].slot, e) =>
                  e < pull'[c].cursor \/ OnRecord(pull[c].slot, e)'
  PROVE  Counted(c)'
BY DEF Counted, OnRecord

LEMMA CountedTableStep ==
  ASSUME Deviations = {}, BaseInv, WorksOnOwn, CountedIsThere,
         \/ TableStep \/ HandleStore \/ SyncEvents
         \/ \E d \in Clients : NewSubscription(d) \/ SetSync(d),
         NEW c \in Clients
  PROVE  Counted(c)'
<1>0. /\ IInv /\ EventTypes /\ Counted(c) /\ pull[c] \in PullRecord
      /\ pull[c].announced \subseteq Event /\ pull[c].slot \in Slot
  BY DeliveryTypes DEF BaseInv, EventTypes, PullRecord, CountedIsThere
<1>3. /\ pull'[c].at = pull[c].at /\ pull'[c].slot = pull[c].slot
      /\ pull'[c].cursor = pull[c].cursor
      /\ pull'[c].announced = pull[c].announced
      /\ pull[c].outlived => pull'[c].outlived
  <2>1. CASE TableStep \/ HandleStore \/ \E d \in Clients : SetSync(d)
    BY <1>0, <2>1, PullKept
  <2>2. CASE SyncEvents \/ \E d \in Clients : NewSubscription(d)
    BY <1>0, <2>2, PullKept DEF SyncEvents, NewSubscription
  <2> QED BY <2>1, <2>2
<1>4. ASSUME NEW e \in Event, OnRecord(pull[c].slot, e),
             pull[c].at # "idle", ~pull[c].outlived
      PROVE  OnRecord(pull[c].slot, e)'
  <2> DEFINE s == pull[c].slot
  <2>1. CASE TableStep \/ SyncEvents
    BY <1>3, <1>4, <2>1 DEF TableStep, SyncEvents, OnRecord, ghosts
  <2>2. ASSUME NEW d \in Clients, NewSubscription(d) PROVE OnRecord(s, e)'
    <3>1. owner[s] = c
      BY <1>4 DEF WorksOnOwn
    <3>2. s # mine'[d].slot
      BY <1>0, <2>2, <3>1, NewSlotIsFree, ClientsAssumption
    <3>3. /\ forgotten' = {f \in forgotten : f[1] # mine'[d].slot}
          /\ UNCHANGED event
      BY <2>2 DEF NewSubscription
    <3> QED BY <1>3, <1>4, <3>2, <3>3 DEF OnRecord
  <2>3. ASSUME NEW d \in Clients, SetSync(d) PROVE OnRecord(s, e)'
    <3>1. event'[e].pull_notify = event[e].pull_notify \cup {mine[d].slot}
      <4>1. event[e] \in EventRecord
        BY <1>0 DEF EventTypes
      <4>2. event'[e] = [event[e] EXCEPT
                           !.pull_notify = @ \cup {mine[d].slot}]
        BY <2>3, <4>1 DEF SetSync
      <4> QED BY <4>1, <4>2 DEF EventRecord
    <3>2. forgotten' = {f \in forgotten : f[1] # mine[d].slot}
      BY <2>3 DEF SetSync
    <3> QED BY <1>3, <1>4, <3>1, <3>2 DEF OnRecord
  <2>4. CASE HandleStore
    <3> DEFINE d == main.event
               pulls == {t \in Slot : sub[t].used = "pull"}
    <3>1. /\ event'[d].pull_notify = event[d].pull_notify \cup pulls
          /\ forgotten' = forgotten \ (pulls \X {d})
          /\ e # d => event'[e] = event[e]
      BY <1>0, <2>4, StoreEffect
    <3>2. CASE e = d
      BY <1>3, <1>4, <3>1, <3>2 DEF OnRecord
    <3>3. CASE e # d
      BY <1>3, <1>4, <3>1, <3>3 DEF OnRecord
    <3> QED BY <3>2, <3>3
  <2> QED BY <2>1, <2>2, <2>3, <2>4
<1> QED BY <1>0, <1>3, <1>4, CountedKept

LEMMA CountedPullStep ==
  ASSUME Deviations = {}, BaseInv, WorksOnOwn, CountedIsThere,
         NEW d \in Clients, PullBegin(d) \/ PullStep(d), NEW c \in Clients
  PROVE  Counted(c)'
<1>0. /\ IInv /\ EventTypes /\ AtWorkOnEvent /\ Counted(c)
      /\ pull[c] \in PullRecord /\ pull[d] \in PullRecord
      /\ pull[c].announced \subseteq Event /\ pull[c].slot \in Slot
  BY DeliveryTypes DEF BaseInv, EventTypes, PullRecord, CountedIsThere
<1>1. pull'[d].at \in {"print", "load", "store"} =>
        /\ pull'[d].slot = pull[d].slot
        /\ pull'[d].outlived = pull[d].outlived
        /\ ~PullLength(d) => pull'[d].announced = pull[d].announced
  BY PullRecordAfter
<1>2. c # d => pull'[c] = pull[c]
  BY <1>0, OthersPull
<1>3. CASE PullStore(d)
  <2> DEFINE e == pull[d].cursor
  <2>1. pull[d].at = "store"
    BY <1>3 DEF PullStore
  <2>2. pull'[d].cursor = e + 1
    BY <1>0, <1>3 DEF PullStore, EventTypes, PullRecord
  <2>3. ASSUME NEW f \in Event, OnRecord(pull[c].slot, f),
               pull[c].at # "idle", ~pull[c].outlived,
               pull'[c].slot = pull[c].slot
        PROVE  \/ OnRecord(pull[c].slot, f)'
               \/ c = d /\ f = e
    <3>1. owner[pull[c].slot] = c
      BY <2>3 DEF WorksOnOwn
    <3>2. CASE f # e
      <4>1. event'[f] = event[f] /\ forgotten \subseteq forgotten'
        BY <1>3, <3>2, StoreTakes
      <4> QED BY <2>3, <4>1 DEF OnRecord
    <3>3. CASE f = e /\ c # d
      BY <1>0, <1>3, <2>3, <3>1, <3>3, StoreTakes DEF OnRecord
    <3> QED BY <3>2, <3>3
  <2>4. CASE c = d
    <3>1. \A f \in Event : f <= e => f < e + 1
      BY <1>0, <1>3, EventsInRange, StoreTakes
    <3>2. \A f \in Event : f < e => f < pull'[c].cursor
      BY <1>0, <1>3, <2>2, <2>4, EventsInRange, StoreTakes
    <3>3. e < pull'[c].cursor
      BY <1>0, <1>3, <2>2, <2>4, EventsInRange, StoreTakes
    <3> QED BY <1>0, <1>1, <1>3, <2>1, <2>3, <2>4, <3>2, <3>3, CountedKept
            DEF PullLength
  <2>5. CASE c # d
    BY <1>0, <1>2, <2>3, <2>5, CountedKept
  <2> QED BY <2>4, <2>5
<1>4. CASE PullLength(d)
  <2>1. UNCHANGED <<event, forgotten>>
    BY <1>4 DEF PullLength, daemonVars, ghosts
  <2>2. CASE c # d
    BY <1>0, <1>2, <2>1, <2>2 DEF Counted
  <2>3. CASE c = d
    <3>1. /\ pull'[d].announced = Examined(d) \cap Bits(pull[d].slot)
          /\ pull'[d].slot = pull[d].slot
      BY <1>0, <1>4 DEF PullLength, EventTypes, PullRecord
    <3> QED BY <2>1, <2>3, <3>1 DEF Counted, Bits
  <2> QED BY <2>2, <2>3
<1>5. CASE PullSkip(d)
  <2>1. UNCHANGED <<event, forgotten>>
    BY <1>5 DEF PullSkip, daemonVars, ghosts
  <2>2. CASE c # d
    BY <1>0, <1>2, <2>1, <2>2 DEF Counted
  <2>3. CASE c = d
    <3>1. pull[d].at = "print" /\ pull'[d].cursor = pull[d].cursor + 1
      BY <1>0, <1>5 DEF PullSkip, EventTypes, PullRecord
    <3>2. pull[d].cursor \in Nat
      BY <1>0, EventsInRange DEF PullRecord
    <3>3. \A f \in Event : f < pull[d].cursor => f < pull'[d].cursor
      BY <3>1, <3>2, EventsInRange
    <3> QED BY <1>0, <1>1, <1>5, <2>1, <2>3, <3>1, <3>3, CountedKept
            DEF PullLength, OnRecord
  <2> QED BY <2>2, <2>3
<1>6. CASE PullPrint(d) \/ PullLoad(d)
  <2>1. UNCHANGED <<event, forgotten>>
    BY <1>6 DEF PullPrint, PullLoad, daemonVars, ghosts
  <2>2. CASE c # d
    BY <1>0, <1>2, <2>1, <2>2 DEF Counted
  <2>3. CASE c = d
    <3>1. /\ pull[d].at \in {"print", "load"}
          /\ pull'[d].cursor = pull[d].cursor
          /\ ~PullLength(d)
          /\ pull'[d].slot = pull[d].slot
          /\ pull'[d].announced = pull[d].announced
          /\ pull'[d].outlived = pull[d].outlived
      BY <1>0, <1>6
      DEF PullPrint, PullLoad, PullLength, EventTypes, PullRecord
    <3> QED BY <1>0, <2>1, <2>3, <3>1, CountedKept DEF OnRecord
  <2> QED BY <2>2, <2>3
<1>7. CASE PullBegin(d) \/ PullFound(d) \/ PullTimeout(d) \/ PullEnd(d)
  <2>1. UNCHANGED <<event, forgotten>>
    BY <1>7 DEF PullBegin, PullFound, PullTimeout, PullEnd, daemonVars, ghosts
  <2>2. CASE c # d
    BY <1>0, <1>2, <2>1, <2>2 DEF Counted
  <2>3. CASE c = d
    <3>1. CASE PullFound(d) \/ PullTimeout(d)
      BY <1>0, <2>3, <3>1
      DEF PullFound, PullTimeout, Goto, Counted, EventTypes, PullRecord
    <3>2. CASE PullBegin(d) \/ PullEnd(d)
      <4>1. pull'[d].at \in {"poll", "idle"}
        BY <3>2, PullRecordAfter DEF PullEnd, AtEnd, PullBegin
      <4> QED BY <2>3, <4>1 DEF Counted
    <3> QED BY <1>7, <3>1, <3>2
  <2> QED BY <2>2, <2>3
<1> QED BY <1>3, <1>4, <1>5, <1>6, <1>7 DEF PullStep

LEMMA CountedStep ==
  ASSUME Deviations = {}, BaseInv, WorksOnOwn, CountedIsThere,
         [DeliveryNext]_vars
  PROVE  CountedIsThere'
<1>1. ASSUME \/ \E e \in Event : FileChange(e) \/ PollRead(e)
             \/ HandleRead \/ UNCHANGED vars
      PROVE  CountedIsThere'
  BY <1>1, NothingTold DEF CountedIsThere, Counted
<1>2. ASSUME NEW d \in Clients, PullBegin(d) \/ PullStep(d)
      PROVE  CountedIsThere'
  BY <1>2, CountedPullStep DEF CountedIsThere
<1>3. ASSUME \/ TableStep \/ HandleStore \/ SyncEvents
             \/ \E d \in Clients : NewSubscription(d) \/ SetSync(d)
      PROVE  CountedIsThere'
  BY <1>3, CountedTableStep DEF CountedIsThere
<1> QED BY <1>1, <1>2, <1>3 DEF DeliveryNext

(* A message that PullMessages counted when it computed the length of its  *)
(* answer is still there when it prints, for any number of events and      *)
(* clients at work at once, except where another PullMessages wrote back   *)
(* an older word or the slot had passed to another client.                 *)
THEOREM CountedIsPrinted ==
  ASSUME Deviations = {}
  PROVE  DeliverySpec => []AnnouncedIsPrinted
<1> DEFINE I == BaseInv /\ WorksOnOwn /\ CountedIsThere
<1>1. DeliveryInit => I
  <2>1. DeliveryInit => WorksOnOwn /\ CountedIsThere
    BY DEF DeliveryInit, WorksOnOwn, CountedIsThere, Counted, NoPull
  <2> QED BY <2>1, BaseInit
<1>2. I /\ [DeliveryNext]_vars => I'
  BY BaseStep, WorksStep, CountedStep
<1>3. I => AnnouncedIsPrinted
  BY DEF CountedIsThere, Counted, AnnouncedIsPrinted
<1> QED BY <1>1, <1>2, <1>3, PTL DEF DeliverySpec

-------------------------------------------------------------------------------
(* PUSH consumers end up with the state of the files. *)

(* What happened to the file of e and is not yet in the table. *)
Pending(e) ==
  \/ \E i \in 1..Len(queue) : queue[i].event = e
  \/ main.busy /\ main.event = e

(* PushConverges per event, with work on other events still pending.       *)
ConvergedUnlessPending ==
  \A c \in Clients : Subscribed(c, "push") =>
    \A e \in Event \ missed[c] :
      ~Pending(e) /\ file[e] = event[e].is_on => told[c][e] = file[e]

(* The main thread read the clock before it handles what it read.          *)
MainClock == main.busy => main.now <= now

LEMMA MainClockStep ==
  ASSUME BaseInv, MainClock, [DeliveryNext]_vars
  PROVE  MainClock'
<1>0. now \in Nat /\ main.now \in Nat
  BY DeliveryTypes, SizesAssumption, Types DEF BaseInv, EventTypes, MainRecord
<1>1. CASE TableStep
  <2>1. main' = main
    BY <1>1 DEF TableStep
  <2>2. now' = now \/ now' = now + 1
    BY <1>1 DEF TableStep, AskNew, AskRenew, Ask, Renew, Unsubscribe, SyncSee,
                CleanExpired, Tick
  <2> QED BY <1>0, <2>1, <2>2 DEF MainClock
<1>2. ASSUME UNCHANGED <<main, now>> PROVE MainClock'
  BY <1>2 DEF MainClock
<1>3. ASSUME NEW c \in Clients, NewSubscription(c) \/ SetSync(c)
      PROVE  UNCHANGED <<main, now>>
  BY <1>3 DEF NewSubscription, SetSync, CreatePullPointSubscription, Subscribe,
              SetSynchronizationPoint
<1>4. ASSUME NEW c \in Clients, PullBegin(c) \/ PullStep(c)
      PROVE  UNCHANGED <<main, now>>
  BY <1>4
  DEF PullBegin, PullStep, PullFound, PullTimeout, PullLength, PullSkip,
      PullPrint, PullLoad, PullStore, PullEnd, daemonVars, tableVars
<1>5. ASSUME HandleRead \/ HandleStore \/ \E e \in Event : PollRead(e)
      PROVE  MainClock'
  BY <1>0, <1>5
  DEF HandleRead, HandleStore, PollRead, MainClock, Idle, tableVars
<1>6. ASSUME SyncEvents \/ UNCHANGED vars \/ \E e \in Event : FileChange(e)
      PROVE  UNCHANGED <<main, now>>
  BY <1>6 DEF SyncEvents, SyncServe, vars, FileChange, tableVars
<1> QED BY <1>1, <1>2, <1>3, <1>4, <1>5, <1>6 DEF DeliveryNext

(* Neither files nor queue nor main: nothing is pending that was not.      *)
LEMMA SamePending ==
  ASSUME UNCHANGED <<queue, main>>, NEW e
  PROVE  Pending(e)' <=> Pending(e)
BY DEF Pending

LEMMA ConvergedTableStep ==
  ASSUME Deviations = {}, BaseInv, ConvergedUnlessPending,
         \/ TableStep \/ SyncEvents
         \/ \E d \in Clients : NewSubscription(d) \/ SetSync(d)
         \/ \E d \in Clients : PullBegin(d) \/ PullStep(d)
  PROVE  ConvergedUnlessPending'
<1>0. IInv /\ EventTypes /\ AtWorkOnEvent
  BY DeliveryTypes DEF BaseInv
<1>1. UNCHANGED <<file, queue, main>>
  BY DEF TableStep, SyncEvents, NewSubscription, SetSync, PullBegin, PullStep,
         PullFound, PullTimeout, PullLength, PullSkip, PullPrint, PullLoad,
         PullStore, PullEnd, daemonVars
<1>2. \A e \in Event : event'[e].is_on = event[e].is_on
  BY <1>0, IsOnKept
<1>3. ASSUME NEW c \in Clients, Subscribed(c, "push")' => Subscribed(c, "push"),
             missed'[c] = missed[c],
             \A e \in Event : \/ told'[c][e] = told[c][e]
                              \/ told'[c][e] = event[e].is_on
                              \/ told'[c][e] = file[e],
             Subscribed(c, "push")', NEW e \in Event \ missed'[c],
             ~Pending(e)', file'[e] = event'[e].is_on
      PROVE  told'[c][e] = file'[e]
  BY <1>1, <1>2, <1>3, SamePending DEF ConvergedUnlessPending
<1>4. CASE TableStep
  <2>1. UNCHANGED <<told, missed>>
    BY <1>4 DEF TableStep, ghosts
  <2> QED BY <1>0, <1>3, <1>4, <2>1, SubscribedBefore DEF ConvergedUnlessPending
<1>5. ASSUME NEW d \in Clients, NewSubscription(d) PROVE ConvergedUnlessPending'
  <2>1. /\ \A e \in Event : told'[d][e] = event[e].is_on
        /\ \A c \in Clients \ {d} : told'[c] = told[c] /\ missed'[c] = missed[c]
    BY <1>0, <1>5 DEF NewSubscription, EventTypes
  <2>2. \A c \in Clients \ {d} : Subscribed(c, "push")' => Subscribed(c, "push")
    BY <1>0, <1>5, SubscribedBefore
  <2>3. ASSUME NEW e \in Event, file'[e] = event'[e].is_on
        PROVE  told'[d][e] = file'[e]
    BY <1>2, <2>1, <2>3
  <2> QED BY <1>3, <2>1, <2>2, <2>3 DEF ConvergedUnlessPending
<1>6. CASE SyncEvents
  <2> DEFINE slots == {s \in {seen} : Active(s, now)}
  <2>1. PICK sent :
          /\ told' = [c \in Clients |->
                        IF c \in Consumers(sent)
                          THEN [e \in Event |-> IF e \in Event THEN file[e]
                                                               ELSE told[c][e]]
                          ELSE told[c]]
          /\ missed' = [c \in Clients |->
                          IF c \in Consumers(sent) THEN missed[c] \ Event
                          ELSE IF c \in Consumers(slots)
                            THEN missed[c] \cup Event ELSE missed[c]]
    BY <1>6 DEF SyncEvents, Notify
  <2>2. ASSUME NEW c \in Clients, NEW e \in Event \ missed'[c]
        PROVE  \/ told'[c][e] = file[e]
               \/ told'[c] = told[c] /\ missed'[c] = missed[c]
    BY <2>1, <2>2
  <2>3. \A c \in Clients : Subscribed(c, "push")' => Subscribed(c, "push")
    BY <1>6 DEF SyncEvents, SyncServe, Subscribed, Live
  <2> QED BY <1>1, <1>2, <2>2, <2>3, SamePending DEF ConvergedUnlessPending
<1>7. ASSUME NEW d \in Clients, SetSync(d) PROVE ConvergedUnlessPending'
  <2>1. UNCHANGED <<told, missed, now, mine>>
    BY <1>7 DEF SetSync, SetSynchronizationPoint
  <2> QED BY <1>3, <2>1 DEF ConvergedUnlessPending, Subscribed, Live
<1>8. ASSUME NEW d \in Clients, PullBegin(d) \/ PullStep(d)
      PROVE  ConvergedUnlessPending'
  <2>1. UNCHANGED <<missed, now, mine>>
    BY <1>8, QuietStep
    DEF PullBegin, PullStep, PullFound, PullTimeout, PullLength, PullSkip,
        PullPrint, PullLoad, PullStore, PullEnd, ghosts, tableVars
  <2>2. CASE PullPrint(d)
    <3>1. told' = [told EXCEPT
                     ![d][pull[d].cursor] = event[pull[d].cursor].is_on]
      BY <2>2 DEF PullPrint
    <3>2. \A c \in Clients, e \in Event :
            told'[c][e] = told[c][e] \/ told'[c][e] = event[e].is_on
      BY <1>0, <3>1 DEF EventTypes
    <3> QED BY <1>3, <2>1, <3>2 DEF ConvergedUnlessPending, Subscribed, Live
  <2>3. CASE ~PullPrint(d)
    <3>1. told' = told
      BY <1>8, <2>3
      DEF PullBegin, PullStep, PullFound, PullTimeout, PullLength, PullSkip,
          PullLoad, PullStore, PullEnd, ghosts
    <3> QED BY <1>3, <2>1, <3>1 DEF ConvergedUnlessPending, Subscribed, Live
  <2> QED BY <2>2, <2>3
<1> QED BY <1>4, <1>5, <1>6, <1>7, <1>8

(* The store settles its event for every consumer, and no other event. *)
LEMMA ConvergedStore ==
  ASSUME Deviations = {}, BaseInv, MainClock, ConvergedUnlessPending,
         HandleStore
  PROVE  ConvergedUnlessPending'
<1> DEFINE d == main.event
           pushes == {s \in Slot : Active(s, main.now)}
<1>0. IInv /\ OwnerInv /\ EventTypes
  BY DeliveryTypes DEF BaseInv
<1>1. /\ d \in Event /\ main.busy
      /\ event'[d].is_on = main.on
      /\ \A e \in Event : e # d => event'[e] = event[e]
      /\ UNCHANGED <<now, mine, file, queue>>
      /\ ~main'.busy
  BY <1>0, StoreEffect DEF HandleStore
<1>2. PICK sent :
        /\ told' = [c \in Clients |->
                      IF c \in Consumers(sent)
                        THEN [e \in Event |->
                                IF e \in {d}
                                  THEN [event EXCEPT ![d] = main.on][e]
                                  ELSE told[c][e]]
                        ELSE told[c]]
        /\ missed' = [c \in Clients |->
                        IF c \in Consumers(sent) THEN missed[c] \ {d}
                        ELSE IF c \in Consumers(pushes)
                          THEN missed[c] \cup {d} ELSE missed[c]]
  BY DEF HandleStore, Notify
<1>3. [event EXCEPT ![d] = main.on][d] = main.on
  BY <1>0, <1>1 DEF EventTypes
<1>4. ASSUME NEW c \in Clients, Subscribed(c, "push"), d \notin missed'[c]
      PROVE  told'[c][d] = main.on
  <2> DEFINE s == mine[c].slot
  <2>1. s \in Slot /\ sub[s].used = "push" /\ sub[s].expire = mine[c].until
        /\ owner[s] = c
    BY <1>0, <1>4, LiveOwner DEF Subscribed
  <2>2. main.now <= now /\ now <= sub[s].expire
    BY <1>1, <1>4, <2>1 DEF MainClock, Subscribed, Live
  <2>3. main.now \in Nat /\ now \in Nat /\ sub[s].expire \in Nat
    BY <1>0, <2>1, SizesAssumption, Types
    DEF IInv, EventTypes, MainRecord, SlotRecord
  <2>4. s \in pushes
    BY <2>1, <2>2, <2>3 DEF Active
  <2>5. sub[s].reference = c
    BY <1>0, <2>1 DEF OwnerInv, ReferenceIsOwner
  <2>6. c \in Consumers(pushes)
    BY <2>4, <2>5 DEF Consumers
  <2>7. c \in Consumers(sent)
    BY <1>2, <1>4, <2>6
  <2> QED BY <1>1, <1>2, <1>3, <2>7
<1>5. ASSUME NEW c \in Clients, NEW e \in Event, e # d
      PROVE  /\ told'[c][e] = told[c][e]
             /\ e \in missed[c] <=> e \in missed'[c]
             /\ Pending(e)' <=> Pending(e)
  <2>1. told'[c][e] = told[c][e] /\ (e \in missed[c] <=> e \in missed'[c])
    BY <1>2, <1>5
  <2>2. Pending(e)' <=> Pending(e)
    BY <1>1, <1>5 DEF Pending
  <2> QED BY <2>1, <2>2
<1>6. \A c \in Clients : Subscribed(c, "push")' <=> Subscribed(c, "push")
  BY <1>1 DEF Subscribed, Live
<1>7. ASSUME NEW c \in Clients, Subscribed(c, "push")',
             NEW e \in Event \ missed'[c],
             ~Pending(e)', file'[e] = event'[e].is_on
      PROVE  told'[c][e] = file'[e]
  <2>1. CASE e = d
    BY <1>1, <1>4, <1>6, <1>7, <2>1
  <2>2. CASE e # d
    BY <1>1, <1>5, <1>6, <1>7, <2>2 DEF ConvergedUnlessPending
  <2> QED BY <2>1, <2>2
<1> QED BY <1>7 DEF ConvergedUnlessPending

(* What happens to a file is pending from the moment it happens. *)
LEMMA ConvergedDaemonStep ==
  ASSUME Inotify, BaseInv, ConvergedUnlessPending,
         \/ \E e \in Event : FileChange(e) \/ PollRead(e)
         \/ HandleRead
  PROVE  ConvergedUnlessPending'
<1>0. EventTypes
  BY DeliveryTypes DEF BaseInv
<1>1. UNCHANGED <<now, mine, event, told, missed>>
  BY DEF FileChange, PollRead, HandleRead, tableVars, ghosts
<1>2. ASSUME NEW d \in Event, FileChange(d) PROVE ConvergedUnlessPending'
  <2> DEFINE n == Len(queue)
             entry == [event |-> d, on |-> ~file[d]]
  <2>1. /\ n \in Nat
        /\ Len(queue') = n + 1
        /\ queue'[n + 1] = entry
        /\ \A i \in 1..n : queue'[i] = queue[i]
    BY <1>0, <1>2 DEF FileChange, EventTypes, Entry
  <2>2. Pending(d)'
    BY <2>1 DEF Pending
  <2>3. ASSUME NEW e \in Event, Pending(e) PROVE Pending(e)'
    BY <1>2, <2>1, <2>3 DEF Pending, FileChange
  <2>4. \A e \in Event : e # d => file'[e] = file[e]
    BY <1>0, <1>2 DEF FileChange, EventTypes
  <2> QED BY <1>1, <2>2, <2>3, <2>4 DEF ConvergedUnlessPending, Subscribed, Live
<1>3. CASE HandleRead
  <2> DEFINE n == Len(queue)
  <2>1. /\ n \in Nat /\ n # 0
        /\ Len(queue') = n - 1
        /\ \A i \in 1..(n - 1) : queue'[i] = queue[i + 1]
    BY <1>0, <1>3 DEF HandleRead, EventTypes
  <2>2. main'.busy /\ main'.event = queue[1].event /\ ~main.busy /\ file' = file
    BY <1>0, <1>3 DEF HandleRead, EventTypes
  <2>3. ASSUME NEW e \in Event, Pending(e) PROVE Pending(e)'
    <3>1. PICK i \in 1..n : queue[i].event = e
      BY <2>2, <2>3 DEF Pending
    <3>2. CASE i = 1
      BY <2>2, <3>1, <3>2 DEF Pending
    <3>3. CASE i # 1
      <4>1. i - 1 \in 1..(n - 1) /\ (i - 1) + 1 = i
        BY <2>1, <3>3
      <4> QED BY <2>1, <3>1, <4>1 DEF Pending
    <3> QED BY <3>2, <3>3
  <2> QED BY <1>1, <2>2, <2>3 DEF ConvergedUnlessPending, Subscribed, Live
<1> QED BY <1>2, <1>3 DEF PollRead

(* With inotify, once nothing is pending, every PUSH consumer that could   *)
(* be reached knows the state of every file that the table has right, for  *)
(* any number of consumers, although two threads notify them at the same   *)
(* time and from different sources.                                        *)
THEOREM PushIsRight ==
  ASSUME Deviations = {}, Inotify
  PROVE  DeliverySpec => []PushConverges
<1> DEFINE I == BaseInv /\ MainClock /\ ConvergedUnlessPending
<1>1. DeliveryInit => I
  <2>1. DeliveryInit => MainClock
    BY DEF DeliveryInit, MainClock, Idle
  <2>2. DeliveryInit => ConvergedUnlessPending
    BY NobodyAtFirst DEF ConvergedUnlessPending
  <2> QED BY <2>1, <2>2, BaseInit
<1>2. I /\ [DeliveryNext]_vars => I'
  <2> SUFFICES ASSUME I, [DeliveryNext]_vars PROVE I'
    OBVIOUS
  <2>1. ASSUME UNCHANGED vars PROVE ConvergedUnlessPending'
    BY <2>1
    DEF vars, tableVars, ghosts, ConvergedUnlessPending, Subscribed, Live,
        Pending
  <2>2. ConvergedUnlessPending'
    BY <2>1, ConvergedTableStep, ConvergedStore, ConvergedDaemonStep
    DEF DeliveryNext
  <2> QED BY <2>2, BaseStep, MainClockStep
<1>3. I => PushConverges
  <2> SUFFICES ASSUME I, queue = <<>>, ~main.busy, NEW e \in Event
               PROVE  ~Pending(e)
    BY DEF ConvergedUnlessPending, PushConverges
  <2>1. 1..Len(queue) = {}
    OBVIOUS
  <2> QED BY <2>1 DEF Pending
<1> QED BY <1>1, <1>2, <1>3, PTL DEF DeliverySpec

-------------------------------------------------------------------------------
(* The whole way from a file to a client. *)

(* Once the daemon has nothing left to handle, the client of a PUSH        *)
(* subscription knows the state of every file, unless its consumer did not *)
(* answer send_notify; and the client of a PULL subscription knows it, or  *)
(* will be told by its next PullMessages, unless an unlocked second pass   *)
(* took the bit.                                                           *)
EverybodyKnows ==
  queue = <<>> /\ ~main.busy =>
    \A c \in Clients : \A e \in Event \ Preexisting :
      told[c][e] # file[e] =>
        /\ Subscribed(c, "push") => e \in missed[c]
        /\ Subscribed(c, "pull") => \/ mine[c].slot \in event[e].pull_notify
                                    \/ <<mine[c].slot, e>> \in forgotten

(* README.md:241 and :242 end to end, from the file system through the     *)
(* queue, the table and the bits or notifications to what the client has   *)
(* been told, for any number of events, slots and clients.                 *)
THEOREM EverybodyIsTold ==
  ASSUME Deviations = {}, Inotify
  PROVE  DeliverySpec => []EverybodyKnows
<1> DEFINE F == \A e \in Event \ Preexisting : Follows(e)
<1>1. ASSUME F, PushConverges, PullMissesNothing PROVE EverybodyKnows
  <2> SUFFICES ASSUME queue = <<>>, ~main.busy, NEW c \in Clients,
                      NEW e \in Event \ Preexisting, told[c][e] # file[e]
               PROVE  /\ Subscribed(c, "push") => e \in missed[c]
                      /\ Subscribed(c, "pull") =>
                           \/ mine[c].slot \in event[e].pull_notify
                           \/ <<mine[c].slot, e>> \in forgotten
    BY DEF EverybodyKnows
  <2>1. 1..Len(queue) = {}
    OBVIOUS
  <2>2. file[e] = event[e].is_on
    BY <1>1, <2>1 DEF Follows
  <2> QED BY <1>1, <2>2 DEF PushConverges, PullMissesNothing
<1> HIDE DEF F
<1>2. DeliverySpec => []F
  BY NewFilesAreFollowed DEF F
<1> QED BY <1>1, <1>2, PushIsRight, NothingIsMissed, PTL

-------------------------------------------------------------------------------
(* PullMessages comes back. *)

(* At most so many steps of its own are left to the PullMessages of c. *)
PullLeft(c) ==
  LET ahead == 3 * ((NEvents + 1) - pull[c].cursor)
  IN CASE pull[c].at = "poll" -> 3 * NEvents + 3
       [] pull[c].at = "length" -> 3 * NEvents + 2
       [] pull[c].at = "print" -> ahead + 1
       [] pull[c].at = "load" -> ahead
       [] pull[c].at = "store" -> ahead - 1
       [] OTHER -> 0

LEMMA PullLeftSame ==
  ASSUME NEW c \in Clients, pull'[c].at = pull[c].at,
         pull'[c].cursor = pull[c].cursor
  PROVE  PullLeft(c)' = PullLeft(c)
BY DEF PullLeft

LEMMA PullLeftNat ==
  ASSUME EventTypes, AtWorkOnEvent, NEW c \in Clients
  PROVE  PullLeft(c) \in 0..(3 * NEvents + 3)
<1>1. pull[c] \in PullRecord /\ NEvents \in Nat
  BY DeliveryAssumption DEF EventTypes
<1>2. pull[c].cursor \in 1..(NEvents + 1)
  BY <1>1 DEF PullRecord
<1>3. pull[c].at \in {"load", "store"} => pull[c].cursor \in 1..NEvents
  BY DEF AtWorkOnEvent, Event
<1> QED BY <1>1, <1>2, <1>3 DEF PullLeft

LEMMA PullLeftDecreases ==
  ASSUME EventTypes, AtWorkOnEvent, NEW c \in Clients, PullStep(c)
  PROVE  PullLeft(c)' < PullLeft(c)
<1>1. pull[c] \in PullRecord /\ pull \in [Clients -> PullRecord]
  BY DEF EventTypes
<1>2. pull[c].cursor \in 1..(NEvents + 1) /\ NEvents \in Nat
  BY <1>1, DeliveryAssumption DEF PullRecord
<1>3. pull[c].at \in {"load", "store"} => pull[c].cursor \in 1..NEvents
  BY DEF AtWorkOnEvent, Event
<1>4. CASE PullFound(c) \/ PullTimeout(c)
  <2>1. pull[c].at = "poll" /\ pull'[c].at = "length"
    BY <1>1, <1>4 DEF PullFound, PullTimeout, Goto, PullRecord
  <2> QED BY <1>2, <2>1 DEF PullLeft
<1>5. CASE PullLength(c)
  <2>1. /\ pull[c].at = "length" /\ pull'[c].at = "print"
        /\ pull'[c].cursor = pull[c].cursor
    BY <1>1, <1>5 DEF PullLength, PullRecord
  <2> QED BY <1>2, <2>1 DEF PullLeft
<1>6. CASE PullSkip(c)
  <2>1. /\ pull[c].at = "print" /\ pull'[c].at = "print"
        /\ pull'[c].cursor = pull[c].cursor + 1
    BY <1>1, <1>6 DEF PullSkip, PullRecord
  <2> QED BY <1>2, <2>1 DEF PullLeft
<1>7. CASE PullPrint(c)
  <2>1. /\ pull[c].at = "print" /\ pull'[c].at = "load"
        /\ pull'[c].cursor = pull[c].cursor
    BY <1>1, <1>7 DEF PullPrint, PullRecord
  <2> QED BY <1>2, <2>1 DEF PullLeft
<1>8. CASE PullLoad(c)
  <2>1. /\ pull[c].at = "load" /\ pull'[c].at = "store"
        /\ pull'[c].cursor = pull[c].cursor
    BY <1>1, <1>8 DEF PullLoad, PullRecord
  <2> QED BY <1>2, <2>1 DEF PullLeft
<1>9. CASE PullStore(c)
  <2>1. /\ pull[c].at = "store" /\ pull'[c].at = "print"
        /\ pull'[c].cursor = pull[c].cursor + 1
    BY <1>1, <1>9 DEF PullStore, PullRecord
  <2> QED BY <1>2, <1>3, <2>1 DEF PullLeft
<1>10. CASE PullEnd(c)
  <2>1. pull[c].at = "print" /\ pull'[c].at = "idle"
    BY <1>1, <1>10 DEF PullEnd, AtEnd, NoPull
  <2> QED BY <1>2, <2>1 DEF PullLeft
<1> QED BY <1>4, <1>5, <1>6, <1>7, <1>8, <1>9, <1>10 DEF PullStep

(* Whatever anybody else does, and the client itself in its other requests *)
(* that run at the same time: a PullMessages stays where it is.            *)
LEMMA PullUndisturbed ==
  ASSUME EventTypes, NEW c \in Clients, [DeliveryNext]_vars, ~PullStep(c),
         pull[c].at # "idle"
  PROVE  /\ pull'[c].at = pull[c].at
         /\ pull'[c].cursor = pull[c].cursor
<1>1. CASE UNCHANGED pull
  BY <1>1
<1>2. CASE TableStep
  BY <1>2, MarksOnly, MarkTypes DEF TableStep
<1>3. CASE HandleStore
  <2>1. main.event \in Event
    BY DEF EventTypes, MainRecord
  <2> QED BY <1>3, <2>1, MarksOnly, MarkTypes DEF HandleStore
<1>4. ASSUME NEW d \in Clients, SetSync(d)
      PROVE  pull'[c].at = pull[c].at /\ pull'[c].cursor = pull[c].cursor
  BY <1>4, MarksOnly, MarkTypes DEF SetSync
<1>5. ASSUME NEW d \in Clients, PullBegin(d) \/ PullStep(d)
      PROVE  pull'[c].at = pull[c].at /\ pull'[c].cursor = pull[c].cursor
  <2>1. d # c
    BY <1>5 DEF PullBegin
  <2> QED BY <1>5, <2>1, OthersPull
<1> QED
  BY <1>1, <1>2, <1>3, <1>4, <1>5
  DEF DeliveryNext, vars, NewSubscription, FileChange, PollRead, HandleRead,
      SyncEvents

(* The core of PullReturns, without its fairness: after the last look at   *)
(* the bits the answer of a PullMessages is a bounded number of its own    *)
(* steps away, every one of them brings it nearer, and nothing that the    *)
(* daemon or other requests do to the table and the bits while it runs     *)
(* without the semaphore ever sends it back.                               *)
THEOREM EveryPullAdvances ==
  DeliverySpec =>
    /\ [](\A c \in Clients : PullLeft(c) \in 0..(3 * NEvents + 3))
    /\ [][\A c \in Clients :
            /\ PullStep(c) => PullLeft(c)' < PullLeft(c)
            /\ ~PullStep(c) /\ pull[c].at # "idle"
                 => PullLeft(c)' = PullLeft(c)]_vars
<1> DEFINE I == DeliveryTypeOK /\ AtWorkOnEvent
           Bounded == \A c \in Clients : PullLeft(c) \in 0..(3 * NEvents + 3)
           A == \A c \in Clients :
                  /\ PullStep(c) => PullLeft(c)' < PullLeft(c)
                  /\ ~PullStep(c) /\ pull[c].at # "idle"
                       => PullLeft(c)' = PullLeft(c)
<1>1. DeliveryInit => I
  BY DeliveryInitTypes
<1>2. I /\ [DeliveryNext]_vars => I'
  BY DeliveryTypeStep
<1>3. I => Bounded
  BY PullLeftNat, DeliveryTypes
<1>4. I /\ [DeliveryNext]_vars => [A]_vars
  BY PullLeftDecreases, PullUndisturbed, PullLeftSame, DeliveryTypes
<1> HIDE DEF I, Bounded, A
<1>5. DeliverySpec => []Bounded /\ [][A]_vars
  BY <1>1, <1>2, <1>3, <1>4, PTL DEF DeliverySpec
<1> QED BY <1>5 DEF Bounded, A

===============================================================================
