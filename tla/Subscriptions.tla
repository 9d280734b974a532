---------------------------- MODULE Subscriptions ----------------------------
(***************************************************************************)
(* The table subs_evts->subscriptions[] of the shared segment: the life of *)
(* a subscription from the request that creates it to its end.             *)
(*                                                                         *)
(* Writers are the CGI processes that serve the requests of the clients    *)
(* (src/Cross/events_service.c) and the daemon's sync_events_thread        *)
(* (src/Cross/onvif_notify_server.c).  Every critical section is one       *)
(* action: when the semaphore keeps them apart is the subject of           *)
(* SharedMemory.  The other table of the segment, events[], and who is     *)
(* notified of what are added by Delivery.                                 *)
(***************************************************************************)
EXTENDS Naturals

CONSTANTS
  Clients,           (* each with one subscription at a time                *)
  MaxSubscriptions,  (* slots of the table                                  *)
  Durations,         (* what interval2sec makes of the times asked for;     *)
                     (* 0 is among them: that of an unreadable interval     *)
  MaxTime,           (* bound: the clock stops here                         *)
  Requests,          (* kinds of request the clients send                   *)
  Deviations         (* what clients and scheduling may do out of the       *)
                     (* ordinary: use a subscription that has lapsed or be  *)
                     (* served in a later second than the one in which the  *)
                     (* request read the clock ("late"), subscribe with a   *)
                     (* consumer address that does not fit ("long_address"),*)
                     (* or leave MessageID out ("no_message_id")            *)

CONSTANT NoOne       (* not a client *)

ASSUME ClientsAssumption ==
  /\ NoOne \notin Clients
  /\ NoOne \notin [kind : {"pull", "push"}, until : Nat]

ASSUME SizesAssumption ==
  /\ MaxSubscriptions \in Nat \ {0}
  /\ Durations \subseteq Nat
  /\ MaxTime \in Nat \ {0}

ASSUME KindsAssumption ==
  /\ Requests \subseteq {"create", "subscribe", "renew", "unsubscribe", "sync"}
  /\ Deviations \subseteq {"late", "long_address", "no_message_id"}

Slot == 1..MaxSubscriptions

VARIABLES
  sub,    (* subscriptions[]                                                *)
  now,    (* the clock, in seconds                                          *)
  req,    (* per client: the request between its read of the clock and its  *)
          (* critical section                                               *)
  mine,   (* per client: the subscription it was told it has                *)
  owner,  (* ghost: the client whose request put a slot to use              *)
  seen    (* sync_events_thread: the slot whose need_sync it has read, or 0 *)

tableVars == <<sub, now, req, mine, owner, seen>>

(* A slot after memset. *)
Blank == [reference |-> NoOne, used |-> "unused", expire |-> 0,
          need_sync |-> FALSE]

NoRequest == [kind |-> "none", now |-> 0, dur |-> 0, fits |-> TRUE,
              id |-> TRUE]
NoGrant == [slot |-> 0, used |-> "unused", until |-> 0]

(* What clients take for granted: the address they were given is that of   *)
(* their subscription up to the termination time they were told.           *)
Live(c) == mine[c].slot # 0 /\ now <= mine[c].until

(* A client works with the address it was given, and only "late" clients   *)
(* do so after the termination time.                                       *)
Uses(c, s) ==
  /\ mine[c].slot = s
  /\ s \in Slot
  /\ "late" \in Deviations \/ now <= mine[c].until

TypeOK ==
  /\ sub \in [Slot -> [reference : Clients \cup {NoOne},
                       used : {"unused", "pull", "push"},
                       expire : Nat, need_sync : BOOLEAN]]
  /\ now \in 1..MaxTime
  /\ req \in [Clients -> [kind : {"none", "create", "subscribe", "renew"},
                          now : Nat, dur : Nat, fits : BOOLEAN, id : BOOLEAN]]
  /\ mine \in [Clients -> [slot : 0..(MaxSubscriptions + 1),
                           used : {"unused", "pull", "push"}, until : Nat]]
  /\ owner \in [Slot -> Clients \cup {NoOne}]
  /\ seen \in 0..MaxSubscriptions

Init ==
  /\ sub = [s \in Slot |-> Blank]
  /\ now = 1
  /\ req = [c \in Clients |-> NoRequest]
  /\ mine = [c \in Clients |-> NoGrant]
  /\ owner = [s \in Slot |-> NoOne]
  /\ seen = 0

-------------------------------------------------------------------------------
(* The requests that ask for time: time(&now) comes first, the wait for    *)
(* the semaphore after it.                                                 *)

Ask(c, kind) ==
  /\ kind \in Requests
  /\ req[c].kind = "none"
  /\ \E d \in Durations :
       \E fits \in IF kind = "subscribe" /\ "long_address" \in Deviations
                     THEN BOOLEAN ELSE {TRUE},
          id \in IF kind # "create" /\ "no_message_id" \in Deviations
                   THEN BOOLEAN ELSE {TRUE} :
         /\ now + d < MaxTime
         /\ req' = [req EXCEPT ![c] = [kind |-> kind, now |-> now, dur |-> d,
                                       fits |-> fits, id |-> id]]
  /\ UNCHANGED <<sub, now, mine, owner, seen>>

(* A client without a subscription, or whose last one has lapsed. *)
AskNew(c) == ~Live(c) /\ (Ask(c, "create") \/ Ask(c, "subscribe"))

AskRenew(c) == (\E s \in Slot : Uses(c, s)) /\ Ask(c, "renew")

(* Mutant: only PUSH subscriptions count as in use. *)
IsFirstNotPush(s) ==
  /\ s \in 1..(MaxSubscriptions + 1)
  /\ s \in Slot => sub[s].used # "push"
  /\ \A i \in Slot : i < s => sub[i].used = "push"

(* for (i = 0; ...) if (used == SUB_UNUSED) ... break: one past the end if *)
(* every slot is in use.                                                   *)
IsFirstFree(s) ==
  /\ s \in 1..(MaxSubscriptions + 1)
  /\ s \in Slot => sub[s].used = "unused"
  /\ \A i \in Slot : i < s => sub[i].used # "unused"

(* The assignments to the slot that a new subscription gets; need_sync     *)
(* keeps its value.                                                        *)
Take(c, s, reference, used) ==
  /\ sub' = [sub EXCEPT ![s] = [reference |-> reference, used |-> used,
                                expire |-> req[c].now + req[c].dur,
                                need_sync |-> sub[s].need_sync]]
  /\ owner' = [owner EXCEPT ![s] = c]

Answer(c, s, used) ==
  /\ mine' = [mine EXCEPT ![c] = [slot |-> s, used |-> used,
                                  until |-> req[c].now + req[c].dur]]
  /\ req' = [req EXCEPT ![c] = NoRequest]

(* The critical section of events_create_pull_point_subscription and its   *)
(* answer, a success in any case.                                          *)
CreatePullPointSubscription(c) ==
  /\ req[c].kind = "create"
  /\ \E s \in 1..(MaxSubscriptions + 1) :
       /\ IsFirstFree(s)
       /\ IF s \in Slot THEN Take(c, s, NoOne, "pull")
                         ELSE UNCHANGED <<sub, owner>>
       /\ Answer(c, s, "pull")
  /\ UNCHANGED <<now, seen>>

(* events_subscribe: an address that does not fit leaves the free slot     *)
(* free, and the answer names it all the same; without MessageID a fault   *)
(* is sent after the slot was taken.                                       *)
Subscribe(c) ==
  /\ req[c].kind = "subscribe"
  /\ \E s \in 1..(MaxSubscriptions + 1) :
       /\ IsFirstFree(s)
       /\ IF s \in Slot /\ req[c].fits THEN Take(c, s, c, "push")
                                        ELSE UNCHANGED <<sub, owner>>
       /\ \/ req[c].id /\ Answer(c, s, "push")
          \/ /\ ~req[c].id
             /\ req' = [req EXCEPT ![c] = NoRequest]
             /\ UNCHANGED mine
  /\ UNCHANGED <<now, seen>>

(* events_renew: the slot has to be in use, by whomever.  Without          *)
(* MessageID the fault comes after the new expire time was stored.         *)
Renew(c) ==
  LET s == mine[c].slot
  IN /\ req[c].kind = "renew"
     /\ \/ /\ sub[s].used = "unused"
           /\ mine' = [mine EXCEPT ![c] = NoGrant]
           /\ UNCHANGED sub
        \/ /\ sub[s].used # "unused"
           /\ sub' = [sub EXCEPT ![s].expire = req[c].now + req[c].dur]
           /\ mine' = IF req[c].id
                        THEN [mine EXCEPT ![c].until = req[c].now + req[c].dur]
                        ELSE mine
     /\ req' = [req EXCEPT ![c] = NoRequest]
     /\ UNCHANGED <<now, owner, seen>>

(* Mutant: used = SUB_UNUSED in place of the memset. *)
UnsubscribeUsedOnly(c) ==
  /\ "unsubscribe" \in Requests
  /\ req[c].kind = "none"
  /\ \E s \in Slot :
       /\ Uses(c, s)
       /\ sub' = [sub EXCEPT ![s].used = "unused"]
       /\ owner' = [owner EXCEPT ![s] = NoOne]
  /\ mine' = [mine EXCEPT ![c] = NoGrant]
  /\ UNCHANGED <<now, req, seen>>

(* events_unsubscribe: memset, or a fault that tells the client that it    *)
(* has no subscription.                                                    *)
Unsubscribe(c) ==
  /\ "unsubscribe" \in Requests
  /\ req[c].kind = "none"
  /\ \E s \in Slot :
       /\ Uses(c, s)
       /\ sub' = [sub EXCEPT ![s] = IF @.used = "unused" THEN @ ELSE Blank]
       /\ owner' = [owner EXCEPT ![s] = IF sub[s].used = "unused" THEN @
                                                                  ELSE NoOne]
  /\ mine' = [mine EXCEPT ![c] = NoGrant]
  /\ UNCHANGED <<now, req, seen>>

(* events_set_synchronization_point, as far as subscriptions[] goes: the   *)
(* slot need not be in use.                                                *)
SetSynchronizationPoint(c) ==
  /\ "sync" \in Requests
  /\ req[c].kind = "none"
  /\ \E s \in Slot : Uses(c, s) /\ sub' = [sub EXCEPT ![s].need_sync = TRUE]
  /\ UNCHANGED <<now, req, mine, owner, seen>>

-------------------------------------------------------------------------------
(* sync_events_thread. *)

(* need_sync is read outside the semaphore ... *)
SyncSee(s) ==
  /\ seen = 0
  /\ sub[s].need_sync
  /\ seen' = s
  /\ UNCHANGED <<sub, now, req, mine, owner>>

(* Mutants: need_sync is not reset; the next slot is taken for seen too. *)
SyncServeKeeps == /\ seen # 0
                  /\ seen' = 0
                  /\ UNCHANGED <<sub, now, req, mine, owner>>
SyncServeNext == /\ seen # 0
                 /\ sub' = [sub EXCEPT ![seen].need_sync = FALSE]
                 /\ seen' = seen + 1
                 /\ UNCHANGED <<now, req, mine, owner>>

(* ... and reset inside. *)
SyncServe ==
  /\ seen # 0
  /\ sub' = [sub EXCEPT ![seen].need_sync = FALSE]
  /\ seen' = 0
  /\ UNCHANGED <<now, req, mine, owner>>

(* Mutants: the boundary of the comparison; only PULL subscriptions. *)
ExpiredEarly(s) == sub[s].expire # 0 /\ now >= sub[s].expire
ExpiredPull(s) == sub[s].used = "pull" /\ now > sub[s].expire

Expired(s) == sub[s].expire # 0 /\ now > sub[s].expire

(* clean_expired_subscriptions; a step that finds none changes nothing. *)
CleanExpired ==
  /\ seen = 0
  /\ \E s \in Slot : Expired(s)
  /\ sub' = [s \in Slot |-> IF Expired(s) THEN Blank ELSE sub[s]]
  /\ owner' = [s \in Slot |-> IF Expired(s) THEN NoOne ELSE owner[s]]
  /\ UNCHANGED <<now, req, mine, seen>>

Tick ==
  /\ now < MaxTime
  /\ "late" \in Deviations \/ \A c \in Clients : req[c].kind = "none"
  /\ now' = now + 1
  /\ UNCHANGED <<sub, req, mine, owner, seen>>

-------------------------------------------------------------------------------

Next ==
  \/ \E c \in Clients :
       \/ AskNew(c) \/ AskRenew(c)
       \/ CreatePullPointSubscription(c) \/ Subscribe(c) \/ Renew(c)
       \/ Unsubscribe(c) \/ SetSynchronizationPoint(c)
  \/ \E s \in Slot : SyncSee(s)
  \/ SyncServe \/ CleanExpired \/ Tick

Spec == Init /\ [][Next]_tableVars

(* Time passes, requests are answered, and the loop of sync_events_thread  *)
(* comes to every slot and to the clean-up again and again.                *)
TableFairness ==
  /\ WF_tableVars(Tick)
  /\ \A c \in Clients :
       WF_tableVars(CreatePullPointSubscription(c) \/ Subscribe(c) \/ Renew(c))
  /\ \A s \in Slot : SF_tableVars(SyncSee(s))
  /\ WF_tableVars(SyncServe)
  /\ SF_tableVars(CleanExpired)

FairSpec == Spec /\ TableFairness

-------------------------------------------------------------------------------
(* Properties. *)

(* A client that was told it has a subscription has it, of that kind and   *)
(* up to exactly that time: no other request, no clean-up and no reuse of  *)
(* a slot takes it away or shortens it.  (All requests and the clean-up    *)
(* together; slots are given out by number, without a check of who asks.)  *)
(* The answer for a full table names slot MaxSubscriptions + 1, which is   *)
(* none: that grant is void from the start, and not meant here.            *)
GrantHonoured ==
  \A c \in Clients :
    Live(c) /\ mine[c].slot \in Slot =>
      LET s == mine[c].slot
      IN /\ owner[s] = c
         /\ sub[s].used = mine[c].used
         /\ sub[s].expire = mine[c].until

(* A slot that is not in use is blank, so that whoever gets it next        *)
(* inherits neither an expire time, which would end the subscription, nor  *)
(* a pending synchronization.  (CreatePullPointSubscription and Subscribe  *)
(* do not reset need_sync.)                                                *)
UnusedIsBlank ==
  \A s \in Slot : sub[s].used = "unused" => sub[s] = Blank /\ owner[s] = NoOne

(* A renewal that is on its way is for a subscription that is still there. *)
RenewalsInTime ==
  \A c \in Clients :
    /\ req[c].kind # "none" => req[c].now = now
    /\ req[c].kind = "renew" => Live(c) /\ mine[c].slot \in Slot
    /\ req[c].kind \in {"create", "subscribe"} => ~Live(c)
    /\ req[c].fits
    /\ req[c].id

(* A client that was told of a slot was told what kind of subscription. *)
GrantsHaveKind ==
  \A c \in Clients : mine[c].slot # 0 => mine[c].used # "unused"

(* The inductive invariant behind GrantHonoured. *)
IInv == TypeOK /\ GrantsHaveKind /\ RenewalsInTime /\ UnusedIsBlank /\ GrantHonoured

(* A subscription ends only because its time is up or because its own      *)
(* client asked for it, and is never handed over from one to another       *)
(* client in one step.                                                     *)
EndsByClockOrOwner ==
  [][\A s \in Slot :
       owner[s] # NoOne /\ owner'[s] # owner[s] =>
         /\ owner'[s] = NoOne
         /\ now > sub[s].expire \/ mine'[owner[s]] = NoGrant]_tableVars

(* What a client holds: the subscription that the table has under the      *)
(* address the client was given, as long as the client counts on it.       *)
Held ==
  [c \in Clients |->
     IF Live(c) /\ mine[c].slot \in Slot
       THEN [kind |-> sub[mine[c].slot].used, until |-> sub[mine[c].slot].expire]
       ELSE NoOne]

Service == INSTANCE SubscriptionService WITH clock <- now, held <- Held

(* The table keeps the promise of SubscriptionService: clients that share  *)
(* a table of numbered slots, and a thread that cleans it up when it gets  *)
(* to it, look like a service that gives every client what it asked for    *)
(* until exactly the time it was told, and only refuses when as many       *)
(* subscriptions are held as it has room for.                              *)
ImplementsService == Service!ServiceSpec

(* No slot is used up for good: a subscription that nobody renews any more *)
(* is freed, those included whose client was sent a fault.                 *)
SlotsComeBack ==
  \A s \in Slot : sub[s].used # "unused" ~> sub[s].used = "unused"

(* A synchronization that was asked for does not stay pending. *)
SyncIsServed == \A s \in Slot : sub[s].need_sync ~> ~sub[s].need_sync

===============================================================================
