------------------------------- MODULE Delivery -------------------------------
(***************************************************************************)
(* From a file that appears or disappears in INOTIFY_DIR to the clients:   *)
(* the daemon's handle_events and sync_events_thread, the table events[]   *)
(* of the shared segment, and PullMessages.  The requests that manage the  *)
(* subscriptions are those of Subscriptions.                               *)
(*                                                                         *)
(* PullMessages is not one step: it polls, computes the length of its      *)
(* answer under the semaphore and then prints the answer and clears the    *)
(* pull_notify bits without it.                                            *)
(***************************************************************************)
EXTENDS Subscriptions, Sequences

CONSTANTS
  NEvents,      (* events of the configuration file                         *)
  Preexisting,  (* events whose file may exist before the daemon starts     *)
  Inotify,      (* FALSE if the kernel has no inotify: files are polled     *)
  MaxChanges,   (* bound: files created or deleted                          *)
  Timeouts,     (* what interval2sec makes of the Timeout of PullMessages   *)
  Limits,       (* the MessageLimit values clients send                     *)
  Unreachable   (* TRUE if a consumer may fail to answer send_notify        *)

Event == 1..NEvents

ASSUME DeliveryAssumption ==
  /\ NEvents \in Nat \ {0}
  /\ Preexisting \subseteq Event
  /\ Inotify \in BOOLEAN
  /\ MaxChanges \in Nat
  /\ Timeouts \subseteq Nat
  /\ Limits \subseteq Nat
  /\ Unreachable \in BOOLEAN

VARIABLES
  file,     (* per event: does its file exist                               *)
  event,    (* events[]                                                     *)
  queue,    (* inotify: what happened to the files, in order                *)
  main,     (* the entry the daemon's main thread works on                  *)
  pull,     (* per client: the PullMessages in progress                     *)
  changes,  (* files created or deleted so far                              *)
  told,     (* ghost: per client and event, the value it knows              *)
  missed,   (* ghost: per client, events whose last message did not arrive  *)
  forgotten (* ghost: <<slot, event>> whose bit PullMessages cleared after  *)
            (* the change it stood for was printed for nobody or for        *)
            (* somebody else                                                *)

vars == <<tableVars, file, event, queue, main, pull, changes, told, missed,
          forgotten>>

ghosts == <<told, missed, forgotten>>
daemonVars == <<event, queue, main>>

Entry == [event : Event, on : BOOLEAN]
Idle == [busy |-> FALSE, event |-> 1, on |-> FALSE, now |-> 0]
NoPull == [at |-> "idle", slot |-> 1, deadline |-> 0, limit |-> 0,
           announced |-> {}, cursor |-> 1, word |-> {}, raced |-> FALSE,
           outlived |-> FALSE]

DeliveryTypeOK ==
  /\ TypeOK
  /\ file \in [Event -> BOOLEAN]
  /\ event \in [Event -> [is_on : BOOLEAN, pull_notify : SUBSET Slot]]
  /\ queue \in Seq(Entry)
  /\ main \in [busy : BOOLEAN, event : Event, on : BOOLEAN, now : Nat]
  /\ pull \in [Clients ->
       [at : {"idle", "poll", "length", "print", "load", "store"},
        slot : Slot, deadline : Nat, limit : Nat,
        announced : SUBSET Event, cursor : 1..(NEvents + 1),
        word : SUBSET Slot, raced : BOOLEAN, outlived : BOOLEAN]]
  /\ changes \in 0..MaxChanges
  /\ told \in [Clients -> [Event -> BOOLEAN]]
  /\ missed \in [Clients -> SUBSET Event]
  /\ forgotten \subseteq Slot \X Event

DeliveryInit ==
  /\ Init
  /\ \E present \in SUBSET Preexisting : file = [e \in Event |-> e \in present]
  /\ event = [e \in Event |-> [is_on |-> FALSE, pull_notify |-> {}]]
  /\ queue = <<>>
  /\ main = Idle
  /\ pull = [c \in Clients |-> NoPull]
  /\ changes = 0
  /\ told = [c \in Clients |-> [e \in Event |-> FALSE]]
  /\ missed = [c \in Clients |-> {}]
  /\ forgotten = {}

-------------------------------------------------------------------------------
(* The daemon. *)

FileChange(e) ==
  /\ changes < MaxChanges
  /\ changes' = changes + 1
  /\ file' = [file EXCEPT ![e] = ~@]
  /\ queue' = IF Inotify THEN Append(queue, [event |-> e, on |-> ~file[e]])
                         ELSE queue
  /\ UNCHANGED <<tableVars, event, main, pull, ghosts>>

(* Setting bits of e: a PullMessages that has printed e and not yet stored *)
(* its word will clear them.                                               *)
RacedBy(e) ==
  [c \in Clients |->
     IF pull[c].at \in {"load", "store"} /\ pull[c].cursor = e
       THEN [pull[c] EXCEPT !.raced = TRUE] ELSE pull[c]]

(* The clients behind a set of slots. *)
Consumers(slots) == {sub[s].reference : s \in slots}

(* send_notify to some slots about some events: those of sent arrive. *)
Notify(slots, events, value) ==
  \E sent \in IF Unreachable THEN SUBSET slots ELSE {slots} :
    /\ told' = [c \in Clients |->
                  IF c \in Consumers(sent)
                    THEN [e \in Event |-> IF e \in events THEN value[e]
                                                          ELSE told[c][e]]
                    ELSE told[c]]
    /\ missed' = [c \in Clients |->
                    IF c \in Consumers(sent) THEN missed[c] \ events
                    ELSE IF c \in Consumers(slots) THEN missed[c] \cup events
                    ELSE missed[c]]

(* Mutant: the boundary of the comparison. *)
ActiveStrict(s, t) == sub[s].used = "push" /\ t < sub[s].expire

(* A PUSH subscription that has not expired at time t. *)
Active(s, t) == sub[s].used = "push" /\ t <= sub[s].expire

(* Mutant: the half second is over, but only changes to TRUE are noticed. *)
PollReadCreated(e) ==
  /\ ~Inotify
  /\ ~main.busy
  /\ file[e] /\ ~event[e].is_on
  /\ main' = [busy |-> TRUE, event |-> e, on |-> file[e], now |-> now]
  /\ UNCHANGED <<tableVars, file, event, queue, pull, changes, ghosts>>

(* Mutant: only the first entry of the buffer is looked at. *)
HandleReadFirst ==
  /\ ~main.busy
  /\ queue # <<>>
  /\ main' = [busy |-> TRUE, event |-> Head(queue).event, on |-> Head(queue).on,
              now |-> now]
  /\ queue' = <<>>
  /\ UNCHANGED <<tableVars, file, event, pull, changes, ghosts>>

(* handle_events takes the next entry and reads the clock. *)
HandleRead ==
  /\ ~main.busy
  /\ queue # <<>>
  /\ main' = [busy |-> TRUE, event |-> Head(queue).event, on |-> Head(queue).on,
              now |-> now]
  /\ queue' = Tail(queue)
  /\ UNCHANGED <<tableVars, file, event, pull, changes, ghosts>>

(* Without inotify the main loop compares the files with the table every   *)
(* half a second.  It reads is_on outside the semaphore; it is the only    *)
(* writer.                                                                 *)
PollRead(e) ==
  /\ ~Inotify
  /\ ~main.busy
  /\ file[e] # event[e].is_on
  /\ main' = [busy |-> TRUE, event |-> e, on |-> file[e], now |-> now]
  /\ UNCHANGED <<tableVars, file, event, queue, pull, changes, ghosts>>

(* Either then stores the state under the semaphore, sets the bits of all  *)
(* PULL subscriptions and notifies the PUSH subscriptions not expired.     *)
HandleStore ==
  LET e == main.event
      pulls == {s \in Slot : sub[s].used = "pull"}
      pushes == {s \in Slot : Active(s, main.now)}
  IN /\ main.busy
     /\ event' = [event EXCEPT ![e].is_on = main.on,
                               ![e].pull_notify = @ \cup pulls]
     /\ Notify(pushes, {e}, [event EXCEPT ![e] = main.on])
     /\ pull' = RacedBy(e)
     /\ forgotten' = forgotten \ (pulls \X {e})
     /\ main' = Idle
     /\ UNCHANGED <<tableVars, file, queue, changes>>

(* sync_events, with its reset of need_sync: the values come from the file *)
(* system, and only a PUSH subscription gets them.                         *)
SyncEvents ==
  /\ SyncServe
  /\ Notify({s \in {seen} : Active(s, now)}, Event, file)
  /\ UNCHANGED <<file, event, queue, main, pull, changes, forgotten>>

-------------------------------------------------------------------------------
(* Requests on subscriptions, with what they mean for events[]. *)

(* A new subscription does not touch events[]; from now on its client      *)
(* wants to hear of every change.                                          *)
NewSubscription(c) ==
  /\ CreatePullPointSubscription(c) \/ Subscribe(c)
  /\ told' = [told EXCEPT ![c] = [e \in Event |-> event[e].is_on]]
  /\ missed' = [missed EXCEPT ![c] = {}]
  /\ forgotten' = {f \in forgotten : f[1] # mine'[c].slot}
  /\ UNCHANGED <<file, event, queue, main, pull, changes>>

(* events_set_synchronization_point sets the bit of the slot in every      *)
(* event.                                                                  *)
SetSync(c) ==
  /\ SetSynchronizationPoint(c)
  /\ event' = [e \in Event |->
                 [event[e] EXCEPT !.pull_notify = @ \cup {mine[c].slot}]]
  /\ pull' = [d \in Clients |->
                IF pull[d].at \in {"load", "store"}
                  THEN [pull[d] EXCEPT !.raced = TRUE] ELSE pull[d]]
  /\ forgotten' = {f \in forgotten : f[1] # mine[c].slot}
  /\ UNCHANGED <<file, queue, main, changes, told, missed>>

(* Ghost: a PullMessages goes on when its subscription ends. *)
Outlived ==
  [c \in Clients |->
     IF pull[c].at # "idle" /\ owner'[pull[c].slot] # c
       THEN [pull[c] EXCEPT !.outlived = TRUE] ELSE pull[c]]

(* The other steps of Subscriptions leave the events alone. *)
TableStep ==
  /\ \/ \E c \in Clients : AskNew(c) \/ AskRenew(c) \/ Renew(c) \/ Unsubscribe(c)
     \/ \E s \in Slot : SyncSee(s)
     \/ CleanExpired
     \/ Tick
  /\ pull' = Outlived
  /\ UNCHANGED <<file, event, queue, main, changes, ghosts>>

-------------------------------------------------------------------------------
(* events_pull_messages of client c. *)

Goto(c, at) == pull' = [pull EXCEPT ![c].at = at]

(* The slot is checked under the semaphore, once.  (Bound: the answer      *)
(* comes before the clock stops.)                                          *)
PullBegin(c) ==
  /\ pull[c].at = "idle"
  /\ \E s \in Slot, timeout \in Timeouts, limit \in Limits :
       /\ Uses(c, s)
       /\ sub[s].used = "pull"
       /\ now + timeout < MaxTime
       /\ pull' = [pull EXCEPT ![c] =
                     [NoPull EXCEPT !.at = "poll", !.slot = s, !.limit = limit,
                                    !.deadline = now + timeout]]
  /\ UNCHANGED <<tableVars, file, daemonVars, changes, ghosts>>

Bits(s) == {e \in Event : s \in event[e].pull_notify}

(* The loop under "Check if at least 1 message was triggered". *)
PullFound(c) ==
  /\ pull[c].at = "poll"
  /\ Bits(pull[c].slot) # {}
  /\ Goto(c, "length")
  /\ UNCHANGED <<tableVars, file, daemonVars, changes, ghosts>>

(* Time is up; a bit may have been set since the last look. *)
PullTimeout(c) ==
  /\ pull[c].at = "poll"
  /\ now > pull[c].deadline
  /\ Goto(c, "length")
  /\ UNCHANGED <<tableVars, file, daemonVars, changes, ghosts>>

(* Mutant: up to the limit, however many events there are. *)
ExaminedPastEnd(c) == 1..(pull[c].limit + 1)

(* count runs over the events, not over the messages. *)
Examined(c) == {e \in Event : e <= pull[c].limit}

(* The first pass, c = 0, under the semaphore: what the length is computed *)
(* from.                                                                   *)
PullLength(c) ==
  /\ pull[c].at = "length"
  /\ pull' = [pull EXCEPT
                ![c].at = "print",
                ![c].announced = Examined(c) \cap Bits(pull[c].slot)]
  /\ UNCHANGED <<tableVars, file, daemonVars, changes, ghosts>>

(* Mutant: the loop does not advance. *)
PullSkipStuck(c) ==
  /\ pull[c].at = "print"
  /\ pull[c].cursor \in Examined(c) \ Bits(pull[c].slot)
  /\ UNCHANGED vars

(* The second pass, c = 1, without the semaphore, event by event. *)
PullSkip(c) ==
  /\ pull[c].at = "print"
  /\ pull[c].cursor \in Examined(c) \ Bits(pull[c].slot)
  /\ pull' = [pull EXCEPT ![c].cursor = @ + 1]
  /\ UNCHANGED <<tableVars, file, daemonVars, changes, ghosts>>

PullPrint(c) ==
  LET e == pull[c].cursor
  IN /\ pull[c].at = "print"
     /\ e \in Examined(c) \cap Bits(pull[c].slot)
     /\ pull' = [pull EXCEPT
                   ![c].at = "load",
                   ![c].raced = owner[pull[c].slot] # c]
     /\ told' = [told EXCEPT ![c][e] = event[e].is_on]
     /\ UNCHANGED <<tableVars, file, daemonVars, changes, missed, forgotten>>

(* pull_notify &= ~(1 << sub_index): a load and a store. *)
PullLoad(c) ==
  /\ pull[c].at = "load"
  /\ pull' = [pull EXCEPT ![c].at = "store",
                          ![c].word = event[pull[c].cursor].pull_notify]
  /\ UNCHANGED <<tableVars, file, daemonVars, changes, ghosts>>

(* Mutants: pull_notify = 0; the bit is taken from all events. *)
PullStoreZero(c) ==
  /\ pull[c].at = "store"
  /\ event' = [event EXCEPT ![pull[c].cursor].pull_notify = {}]
  /\ pull' = [pull EXCEPT ![c].at = "print", ![c].cursor = @ + 1,
                          ![c].word = {}, ![c].raced = FALSE]
  /\ UNCHANGED <<tableVars, file, queue, main, changes, ghosts>>
PullStoreAll(c) ==
  /\ pull[c].at = "store"
  /\ event' = [e \in Event |-> [event[e] EXCEPT !.pull_notify = @ \ {pull[c].slot}]]
  /\ pull' = [pull EXCEPT ![c].at = "print", ![c].cursor = @ + 1,
                          ![c].word = {}, ![c].raced = FALSE]
  /\ UNCHANGED <<tableVars, file, queue, main, changes, ghosts>>

PullStore(c) ==
  LET e == pull[c].cursor
      s == pull[c].slot
      gone == (event[e].pull_notify \ pull[c].word)
                \cup (IF pull[c].raced \/ owner[s] # c THEN {s} ELSE {})
  IN /\ pull[c].at = "store"
     /\ event' = [event EXCEPT ![e].pull_notify = pull[c].word \ {s}]
     /\ forgotten' = forgotten \cup (gone \X {e})
     /\ pull' = [pull EXCEPT ![c].at = "print", ![c].cursor = @ + 1,
                             ![c].word = {}, ![c].raced = FALSE]
     /\ UNCHANGED <<tableVars, file, queue, main, changes, told, missed>>

AtEnd(c) == pull[c].at = "print" /\ pull[c].cursor \notin Examined(c)

PullEnd(c) ==
  /\ AtEnd(c)
  /\ pull' = [pull EXCEPT ![c] = NoPull]
  /\ UNCHANGED <<tableVars, file, daemonVars, changes, ghosts>>

PullStep(c) ==
  \/ PullFound(c) \/ PullTimeout(c) \/ PullLength(c) \/ PullSkip(c)
  \/ PullPrint(c) \/ PullLoad(c) \/ PullStore(c) \/ PullEnd(c)

-------------------------------------------------------------------------------

DeliveryNext ==
  \/ TableStep
  \/ \E c \in Clients : NewSubscription(c) \/ SetSync(c) \/ PullBegin(c) \/ PullStep(c)
  \/ \E e \in Event : FileChange(e) \/ PollRead(e)
  \/ HandleRead \/ HandleStore \/ SyncEvents

DeliverySpec == DeliveryInit /\ [][DeliveryNext]_vars

(* Time passes, a CGI process that can run runs, the daemon handles what   *)
(* inotify reports.                                                        *)
DeliveryFairness ==
  /\ WF_vars(TableStep /\ Tick)
  /\ \A c \in Clients : WF_vars(PullStep(c))
  /\ WF_vars(HandleRead)
  /\ WF_vars(\E e \in Event : PollRead(e))
  /\ WF_vars(HandleStore)

FairDelivery == DeliverySpec /\ DeliveryFairness

-------------------------------------------------------------------------------
(* Properties. *)

(* The client's subscription on slot s is alive and of that kind. *)
Subscribed(c, kind) ==
  Live(c) /\ mine[c].slot \in Slot /\ mine[c].used = kind

(* No change of an event is lost for a PULL subscription: what its client  *)
(* was last told is the state of the event, or the bit that makes the next *)
(* PullMessages report it is set -- except where the unlocked second pass  *)
(* of a PullMessages took the bit of a change that came in between, or of  *)
(* a slot that has meanwhile passed to another client.                     *)
PullMissesNothing ==
  \A c \in Clients : Subscribed(c, "pull") =>
    \A e \in Event :
      told[c][e] # event[e].is_on =>
        \/ mine[c].slot \in event[e].pull_notify
        \/ <<mine[c].slot, e>> \in forgotten

(* README.md:241, "When the file is created a new notify message with      *)
(* state "true" is sent to all subscribers": the same without exceptions.  *)
EveryChangeIsPulled ==
  \A c \in Clients : Subscribed(c, "pull") =>
    \A e \in Event :
      told[c][e] # event[e].is_on => mine[c].slot \in event[e].pull_notify

(* README.md:242, "When the file is deleted a new Notify message with      *)
(* state "false" is sent to all subscribers" (and :241 for its creation):  *)
(* once the table has caught up with the files, a PUSH consumer that could *)
(* be reached knows their state, although notifications come from two      *)
(* threads: the main thread with what it saw earlier, sync_events with     *)
(* the files as they are.                                                  *)
PushConverges ==
  queue = <<>> /\ ~main.busy =>
    \A c \in Clients : Subscribed(c, "push") =>
      \A e \in Event \ missed[c] :
        file[e] = event[e].is_on => told[c][e] = file[e]

(* Behind the queue the table follows the files: the last entry about an   *)
(* event, or else what the main thread has in hand, or else its is_on, is  *)
(* the state of its file.                                                  *)
TableFollowsFiles ==
  \A e \in Event :
    LET about == {i \in 1..Len(queue) : queue[i].event = e}
    IN /\ \A i \in about : (\A j \in about : j <= i) => file[e] = queue[i].on
       /\ about = {} => file[e] = IF main.busy /\ main.event = e
                                   THEN main.on ELSE event[e].is_on

(* "We need 1st step to evaluate content length": a message that is counted *)
(* in the announced length is still there when the second pass, without    *)
(* the semaphore, gets to its event -- except where another PullMessages,  *)
(* without the semaphore as well, wrote back an older word, or was still   *)
(* at work for a subscription that had the slot before.                    *)
AnnouncedIsPrinted ==
  \A c \in Clients :
    pull[c].at = "print" /\ ~pull[c].outlived =>
      \A e \in pull[c].announced :
        \/ e < pull[c].cursor
        \/ pull[c].slot \in event[e].pull_notify
        \/ <<pull[c].slot, e>> \in forgotten

(* When the files have come to rest the table shows their state for good.  *)
TableCatchesUp == \A e \in Event : <>[](event[e].is_on = file[e])

(* PullMessages comes back. *)
PullReturns == \A c \in Clients : pull[c].at # "idle" ~> pull[c].at = "idle"

===============================================================================
