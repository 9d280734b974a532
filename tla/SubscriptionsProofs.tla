------------------------- MODULE SubscriptionsProofs -------------------------
(***************************************************************************)
(* For any number of clients and slots: the table keeps its type, and when *)
(* clients are in time, send addresses that fit and complete headers, each *)
(* of them has exactly the subscription it was told it has.  The table then*)
(* implements SubscriptionService: requests in two steps, slots that are   *)
(* reused and a clean-up that comes late cannot be told from a service     *)
(* that has none of these.                                                 *)
(***************************************************************************)
EXTENDS Subscriptions, FiniteSetTheorems, TLAPS

SlotRecord == [reference : Clients \cup {NoOne},
               used : {"unused", "pull", "push"},
               expire : Nat, need_sync : BOOLEAN]
RequestRecord == [kind : {"none", "create", "subscribe", "renew"},
                  now : Nat, dur : Nat, fits : BOOLEAN, id : BOOLEAN]
GrantRecord == [slot : 0..(MaxSubscriptions + 1),
                used : {"unused", "pull", "push"}, until : Nat]

LEMMA Types ==
  TypeOK <=> /\ sub \in [Slot -> SlotRecord]
             /\ now \in 1..MaxTime
             /\ req \in [Clients -> RequestRecord]
             /\ mine \in [Clients -> GrantRecord]
             /\ owner \in [Slot -> Clients \cup {NoOne}]
             /\ seen \in 0..MaxSubscriptions
BY DEF TypeOK, SlotRecord, RequestRecord, GrantRecord

LEMMA TypesPrimed ==
  TypeOK' <=> /\ sub' \in [Slot -> SlotRecord]
              /\ now' \in 1..MaxTime
              /\ req' \in [Clients -> RequestRecord]
              /\ mine' \in [Clients -> GrantRecord]
              /\ owner' \in [Slot -> Clients \cup {NoOne}]
              /\ seen' \in 0..MaxSubscriptions
BY DEF TypeOK, SlotRecord, RequestRecord, GrantRecord

LEMMA BlankRecords ==
  /\ Blank \in SlotRecord
  /\ NoRequest \in RequestRecord
  /\ NoGrant \in GrantRecord
BY SizesAssumption DEF Blank, NoRequest, NoGrant, SlotRecord, RequestRecord,
                       GrantRecord

(* Writing need_sync of one slot keeps the type of the table. *)
LEMMA NeedSyncUpdate ==
  ASSUME TypeOK, NEW s \in Slot, NEW b \in BOOLEAN
  PROVE  [sub EXCEPT ![s].need_sync = b] \in [Slot -> SlotRecord]
BY Types DEF SlotRecord

-------------------------------------------------------------------------------
(* Typing. *)

LEMMA InitTypes == Init => TypeOK
BY BlankRecords, SizesAssumption, Types DEF Init

LEMMA AskTypes ==
  ASSUME TypeOK, NEW c \in Clients, NEW k \in {"create", "subscribe", "renew"},
         Ask(c, k)
  PROVE  TypeOK'
<1>1. PICK d \in Durations, f \in BOOLEAN, i \in BOOLEAN :
        req' = [req EXCEPT ![c] = [kind |-> k, now |-> now, dur |-> d,
                                   fits |-> f, id |-> i]]
  BY DEF Ask
<1>2. d \in Nat /\ now \in Nat
  BY SizesAssumption, Types
<1>3. [kind |-> k, now |-> now, dur |-> d, fits |-> f, id |-> i]
        \in RequestRecord
  BY <1>2 DEF RequestRecord
<1>4. req' \in [Clients -> RequestRecord]
  BY <1>1, <1>3, Types
<1> QED BY <1>4, Types, TypesPrimed DEF Ask

(* What a request that is served leaves in req and mine. *)
LEMMA AnswerTypes ==
  ASSUME TypeOK, NEW c \in Clients, NEW s \in 1..(MaxSubscriptions + 1),
         NEW u \in {"pull", "push"}, Answer(c, s, u)
  PROVE  req' \in [Clients -> RequestRecord] /\ mine' \in [Clients -> GrantRecord]
<1>1. req[c].now + req[c].dur \in Nat
  BY Types DEF RequestRecord
<1>2. [slot |-> s, used |-> u, until |-> req[c].now + req[c].dur] \in GrantRecord
  BY <1>1, SizesAssumption DEF GrantRecord
<1> QED BY <1>2, BlankRecords, Types DEF Answer

LEMMA TakeTypes ==
  ASSUME TypeOK, NEW c \in Clients, NEW s \in Slot,
         NEW r \in Clients \cup {NoOne}, NEW u \in {"pull", "push"},
         Take(c, s, r, u)
  PROVE  sub' \in [Slot -> SlotRecord] /\ owner' \in [Slot -> Clients \cup {NoOne}]
<1>1. req[c].now + req[c].dur \in Nat
  BY Types DEF RequestRecord
<1>2. [reference |-> r, used |-> u, expire |-> req[c].now + req[c].dur,
       need_sync |-> sub[s].need_sync] \in SlotRecord
  BY <1>1, Types DEF SlotRecord
<1> QED BY <1>2, Types DEF Take

LEMMA CreateTypes ==
  ASSUME TypeOK, NEW c \in Clients, CreatePullPointSubscription(c)
  PROVE  TypeOK'
<1>1. PICK s \in 1..(MaxSubscriptions + 1) :
        /\ IF s \in Slot THEN Take(c, s, NoOne, "pull")
                          ELSE UNCHANGED <<sub, owner>>
        /\ Answer(c, s, "pull")
  BY DEF CreatePullPointSubscription
<1>3. sub' \in [Slot -> SlotRecord] /\ owner' \in [Slot -> Clients \cup {NoOne}]
  BY <1>1, TakeTypes, Types
<1>4. req' \in [Clients -> RequestRecord] /\ mine' \in [Clients -> GrantRecord]
  BY <1>1, AnswerTypes
<1> QED BY <1>3, <1>4, Types, TypesPrimed DEF CreatePullPointSubscription

LEMMA SubscribeTypes ==
  ASSUME TypeOK, NEW c \in Clients, Subscribe(c)
  PROVE  TypeOK'
<1>1. PICK s \in 1..(MaxSubscriptions + 1) :
        /\ IF s \in Slot /\ req[c].fits THEN Take(c, s, c, "push")
                                         ELSE UNCHANGED <<sub, owner>>
        /\ \/ req[c].id /\ Answer(c, s, "push")
           \/ /\ ~req[c].id
              /\ req' = [req EXCEPT ![c] = NoRequest]
              /\ UNCHANGED mine
  BY DEF Subscribe
<1>3. sub' \in [Slot -> SlotRecord] /\ owner' \in [Slot -> Clients \cup {NoOne}]
  BY <1>1, TakeTypes, Types
<1>4. req' \in [Clients -> RequestRecord] /\ mine' \in [Clients -> GrantRecord]
  BY <1>1, AnswerTypes, BlankRecords, Types
<1> QED BY <1>3, <1>4, Types, TypesPrimed DEF Subscribe

LEMMA RenewTypes ==
  ASSUME TypeOK, NEW c \in Clients, Renew(c)
  PROVE  TypeOK'
<1>1. req[c].now + req[c].dur \in Nat
  BY Types DEF RequestRecord
<1>2. sub' \in [Slot -> SlotRecord]
  <2> DEFINE s == mine[c].slot
             n == req[c].now + req[c].dur
  <2>1. [sub EXCEPT ![s].expire = n] \in [Slot -> SlotRecord]
    <3>1. CASE s \in Slot
      <4>1. [sub[s] EXCEPT !.expire = n] \in SlotRecord
        BY <1>1, <3>1, Types DEF SlotRecord
      <4> QED BY <3>1, <4>1, Types
    <3>2. CASE s \notin Slot
      BY <3>2, Types
    <3> QED BY <3>1, <3>2
  <2>2. sub' = sub \/ sub' = [sub EXCEPT ![s].expire = n]
    BY DEF Renew
  <2> QED BY <2>1, <2>2, Types
<1>3. req' \in [Clients -> RequestRecord]
  BY BlankRecords, Types DEF Renew
<1>4. mine' \in [Clients -> GrantRecord]
  <2>1. [mine EXCEPT ![c].until = req[c].now + req[c].dur]
          \in [Clients -> GrantRecord]
    BY <1>1, Types DEF GrantRecord
  <2> QED BY <2>1, BlankRecords, Types DEF Renew
<1> QED BY <1>2, <1>3, <1>4, Types, TypesPrimed DEF Renew

LEMMA OtherTypes ==
  ASSUME TypeOK,
         \/ \E c \in Clients : Unsubscribe(c) \/ SetSynchronizationPoint(c)
         \/ \E s \in Slot : SyncSee(s)
         \/ SyncServe \/ CleanExpired \/ Tick
         \/ UNCHANGED tableVars
  PROVE  TypeOK'
<1>1. CASE \E c \in Clients : Unsubscribe(c)
  BY <1>1, BlankRecords, Types, TypesPrimed DEF Unsubscribe
<1>2. CASE \E c \in Clients : SetSynchronizationPoint(c)
  <2>1. PICK c \in Clients : SetSynchronizationPoint(c)
    BY <1>2
  <2>2. PICK s \in Slot : sub' = [sub EXCEPT ![s].need_sync = TRUE]
    BY <2>1 DEF SetSynchronizationPoint
  <2>3. sub' \in [Slot -> SlotRecord]
    BY <2>2, NeedSyncUpdate
  <2> QED BY <2>1, <2>3, Types, TypesPrimed DEF SetSynchronizationPoint
<1>3. CASE \E s \in Slot : SyncSee(s)
  BY <1>3, Types, TypesPrimed, SizesAssumption DEF SyncSee, Slot
<1>4. CASE SyncServe
  <2>1. seen \in Slot
    BY <1>4, Types DEF SyncServe, Slot
  <2>2. sub' \in [Slot -> SlotRecord]
    BY <1>4, <2>1, NeedSyncUpdate DEF SyncServe
  <2> QED BY <1>4, <2>2, SizesAssumption, Types, TypesPrimed DEF SyncServe
<1>5. CASE CleanExpired
  BY <1>5, BlankRecords, Types, TypesPrimed DEF CleanExpired
<1>6. CASE Tick
  BY <1>6, SizesAssumption, Types, TypesPrimed DEF Tick
<1>7. CASE UNCHANGED tableVars
  BY <1>7, Types, TypesPrimed DEF tableVars
<1> QED BY <1>1, <1>2, <1>3, <1>4, <1>5, <1>6, <1>7

LEMMA TypeStep == TypeOK /\ [Next]_tableVars => TypeOK'
<1> SUFFICES ASSUME TypeOK, [Next]_tableVars PROVE TypeOK'
  OBVIOUS
<1>1. ASSUME NEW c \in Clients, AskNew(c) \/ AskRenew(c) PROVE TypeOK'
  BY <1>1, AskTypes DEF AskNew, AskRenew
<1>2. ASSUME NEW c \in Clients,
             CreatePullPointSubscription(c) \/ Subscribe(c) \/ Renew(c)
      PROVE  TypeOK'
  BY <1>2, CreateTypes, SubscribeTypes, RenewTypes
<1> QED BY <1>1, <1>2, OtherTypes DEF Next

(* The table, the clock and the requests keep their types, whatever        *)
(* clients do.                                                             *)
THEOREM TableTypes == Spec => []TypeOK
BY InitTypes, TypeStep, PTL DEF Spec

-------------------------------------------------------------------------------
(* The inductive invariant of clients that keep to the rules. *)

LEMMA InitInvariant == Deviations = {} /\ Init => IInv
<1> SUFFICES ASSUME Deviations = {}, Init PROVE IInv
  OBVIOUS
<1>1. TypeOK
  BY InitTypes
<1>2. GrantsHaveKind /\ RenewalsInTime /\ UnusedIsBlank /\ GrantHonoured
  BY DEF Init, GrantsHaveKind, RenewalsInTime, UnusedIsBlank, GrantHonoured,
         Live, NoRequest, NoGrant
<1> QED BY <1>1, <1>2 DEF IInv

(* Facts about the state before a step, in the form the cases need them.   *)
LEMMA LiveOwner ==
  ASSUME IInv, NEW c \in Clients, Live(c), mine[c].slot \in Slot
  PROVE  /\ owner[mine[c].slot] = c
         /\ sub[mine[c].slot].used = mine[c].used
         /\ sub[mine[c].slot].used # "unused"
         /\ sub[mine[c].slot].expire = mine[c].until
BY SizesAssumption DEF IInv, GrantHonoured, GrantsHaveKind, Slot

LEMMA AskInvariant ==
  ASSUME Deviations = {}, IInv, NEW c \in Clients, AskNew(c) \/ AskRenew(c)
  PROVE  IInv'
<1>1. PICK k \in {"create", "subscribe", "renew"} :
        /\ Ask(c, k)
        /\ k = "renew" => \E s \in Slot : Uses(c, s)
        /\ k # "renew" => ~Live(c)
  BY DEF AskNew, AskRenew
<1>2. TypeOK'
  BY <1>1, AskTypes DEF IInv
<1>3. UNCHANGED <<sub, now, mine, owner>>
  BY <1>1 DEF Ask
<1>4. /\ GrantsHaveKind'
      /\ UnusedIsBlank'
      /\ GrantHonoured'
  BY <1>3 DEF IInv, GrantsHaveKind, UnusedIsBlank, GrantHonoured, Live
<1>5. PICK d \in Durations :
        req' = [req EXCEPT ![c] = [kind |-> k, now |-> now, dur |-> d,
                                   fits |-> TRUE, id |-> TRUE]]
  BY <1>1 DEF Ask
<1>6. k = "renew" => Live(c) /\ mine[c].slot \in Slot
  BY <1>1, SizesAssumption DEF Uses, Live, Slot
<1>7. RenewalsInTime'
  BY <1>1, <1>3, <1>5, <1>6, Types DEF IInv, RenewalsInTime, Live
<1> QED BY <1>2, <1>4, <1>7 DEF IInv

(* A new subscription takes a slot nobody has. *)
LEMMA NewInvariant ==
  ASSUME Deviations = {}, IInv, NEW c \in Clients,
         CreatePullPointSubscription(c) \/ Subscribe(c)
  PROVE  IInv'
<1>1. TypeOK'
  BY CreateTypes, SubscribeTypes DEF IInv
<1>2. req[c].fits /\ req[c].id
  BY DEF IInv, RenewalsInTime
<1>3. PICK s \in 1..(MaxSubscriptions + 1), r \in Clients \cup {NoOne},
           u \in {"pull", "push"} :
        /\ IsFirstFree(s)
        /\ IF s \in Slot THEN Take(c, s, r, u) ELSE UNCHANGED <<sub, owner>>
        /\ Answer(c, s, u)
  BY <1>2 DEF CreatePullPointSubscription, Subscribe
<1>4. now' = now
  BY DEF CreatePullPointSubscription, Subscribe
<1>5. GrantsHaveKind'
  BY <1>3, Types DEF IInv, GrantsHaveKind, Answer
<1>6. RenewalsInTime'
  BY <1>3, <1>4, Types
  DEF IInv, RenewalsInTime, Answer, Live, NoRequest
<1>7. CASE s \notin Slot
  <2>1. UNCHANGED <<sub, owner>>
    BY <1>3, <1>7
  <2>2. \A d \in Clients : d # c => mine'[d] = mine[d]
    BY <1>3, Types DEF IInv, Answer
  <2>3. mine'[c].slot = s
    BY <1>3, Types DEF IInv, Answer
  <2>4. UnusedIsBlank'
    BY <2>1 DEF IInv, UnusedIsBlank
  <2>5. GrantHonoured'
    BY <1>4, <1>7, <2>1, <2>2, <2>3 DEF IInv, GrantHonoured, Live
  <2> QED BY <1>1, <1>5, <1>6, <2>4, <2>5 DEF IInv
<1>8. CASE s \in Slot
  <2>1. sub[s].used = "unused"
    BY <1>3, <1>8 DEF IsFirstFree
  <2>2. /\ sub'[s].used = u
        /\ sub'[s].expire = req[c].now + req[c].dur
        /\ owner'[s] = c
        /\ \A i \in Slot : i # s => sub'[i] = sub[i] /\ owner'[i] = owner[i]
    BY <1>3, <1>8, Types DEF IInv, Take
  <2>3. /\ mine'[c] = [slot |-> s, used |-> u, until |-> req[c].now + req[c].dur]
        /\ \A d \in Clients : d # c => mine'[d] = mine[d]
    BY <1>3, Types DEF IInv, Answer
  <2>4. UnusedIsBlank'
    BY <2>2 DEF IInv, UnusedIsBlank
  <2>5. ASSUME NEW d \in Clients, Live(d)', mine'[d].slot \in Slot
        PROVE  /\ owner'[mine'[d].slot] = d
               /\ sub'[mine'[d].slot].used = mine'[d].used
               /\ sub'[mine'[d].slot].expire = mine'[d].until
    <3>1. CASE d = c
      BY <2>2, <2>3, <3>1
    <3>2. CASE d # c
      <4>1. Live(d) /\ mine[d].slot \in Slot /\ mine'[d] = mine[d]
        BY <1>4, <2>3, <2>5, <3>2 DEF Live
      <4>2. mine[d].slot # s
        BY <2>1, <4>1, LiveOwner
      <4> QED BY <2>2, <4>1, <4>2, LiveOwner
    <3> QED BY <3>1, <3>2
  <2>6. GrantHonoured'
    BY <2>5 DEF GrantHonoured
  <2> QED BY <1>1, <1>5, <1>6, <2>4, <2>6 DEF IInv
<1> QED BY <1>7, <1>8

(* A renewal reaches the slot the client still has. *)
LEMMA RenewInvariant ==
  ASSUME Deviations = {}, IInv, NEW c \in Clients, Renew(c)
  PROVE  IInv'
<1> DEFINE s == mine[c].slot
           n == req[c].now + req[c].dur
<1>1. TypeOK'
  BY RenewTypes DEF IInv
<1>2. req[c].id /\ Live(c) /\ s \in Slot
  BY DEF IInv, RenewalsInTime, Renew
<1>3. owner[s] = c /\ sub[s].used = mine[c].used /\ sub[s].used # "unused"
  BY <1>2, LiveOwner
<1>4. /\ sub' = [sub EXCEPT ![s].expire = n]
      /\ mine' = [mine EXCEPT ![c].until = n]
      /\ req' = [req EXCEPT ![c] = NoRequest]
      /\ UNCHANGED <<now, owner>>
  BY <1>2, <1>3 DEF Renew
<1>5. /\ sub'[s].used = sub[s].used /\ sub'[s].expire = n
      /\ \A i \in Slot : i # s => sub'[i] = sub[i]
  BY <1>2, <1>4, Types DEF IInv, SlotRecord
<1>6. /\ mine'[c].slot = s /\ mine'[c].used = mine[c].used /\ mine'[c].until = n
      /\ \A d \in Clients : d # c => mine'[d] = mine[d]
  BY <1>4, Types DEF IInv, GrantRecord
<1>7. GrantsHaveKind'
  BY <1>6 DEF IInv, GrantsHaveKind
<1>8. RenewalsInTime'
  BY <1>4, <1>6, Types DEF IInv, RenewalsInTime, Live, NoRequest
<1>9. UnusedIsBlank'
  BY <1>3, <1>4, <1>5 DEF IInv, UnusedIsBlank
<1>10. ASSUME NEW d \in Clients, Live(d)', mine'[d].slot \in Slot
       PROVE  /\ owner'[mine'[d].slot] = d
              /\ sub'[mine'[d].slot].used = mine'[d].used
              /\ sub'[mine'[d].slot].expire = mine'[d].until
  <2>1. CASE d = c
    BY <1>3, <1>4, <1>5, <1>6, <2>1
  <2>2. CASE d # c
    <3>1. Live(d) /\ mine[d].slot \in Slot /\ mine'[d] = mine[d]
      BY <1>4, <1>6, <1>10, <2>2 DEF Live
    <3>2. mine[d].slot # s
      BY <1>3, <2>2, <3>1, LiveOwner
    <3> QED BY <1>4, <1>5, <3>1, <3>2, LiveOwner
  <2> QED BY <2>1, <2>2
<1>11. GrantHonoured'
  BY <1>10 DEF GrantHonoured
<1> QED BY <1>1, <1>7, <1>8, <1>9, <1>11 DEF IInv

(* Unsubscribe empties the slot of the client that asks, and no other's.   *)
LEMMA UnsubscribeInvariant ==
  ASSUME Deviations = {}, IInv, NEW c \in Clients, Unsubscribe(c)
  PROVE  IInv'
<1>1. TypeOK'
  BY OtherTypes DEF IInv
<1>2. PICK s \in Slot :
        /\ Uses(c, s)
        /\ sub' = [sub EXCEPT ![s] = IF @.used = "unused" THEN @ ELSE Blank]
        /\ owner' = [owner EXCEPT ![s] = IF sub[s].used = "unused" THEN @
                                                                   ELSE NoOne]
  BY DEF Unsubscribe
<1>3. /\ mine' = [mine EXCEPT ![c] = NoGrant]
      /\ req[c].kind = "none"
      /\ UNCHANGED <<now, req>>
  BY DEF Unsubscribe
<1>4. /\ mine[c].slot = s /\ Live(c) /\ mine[c].slot \in Slot
  BY <1>2, SizesAssumption DEF Uses, Live, Slot
<1>5. /\ owner[s] = c /\ sub[s].used # "unused"
  BY <1>4, LiveOwner
<1>6. /\ sub'[s] = Blank /\ owner'[s] = NoOne
      /\ \A i \in Slot : i # s => sub'[i] = sub[i] /\ owner'[i] = owner[i]
  BY <1>2, <1>5, Types DEF IInv
<1>7. mine'[c] = NoGrant /\ \A d \in Clients : d # c => mine'[d] = mine[d]
  BY <1>3, Types DEF IInv
<1>8. GrantsHaveKind' /\ UnusedIsBlank'
  BY <1>6, <1>7 DEF IInv, GrantsHaveKind, UnusedIsBlank, NoGrant
<1>9. RenewalsInTime'
  BY <1>3, <1>7 DEF IInv, RenewalsInTime, Live
<1>10. ASSUME NEW d \in Clients, Live(d)', mine'[d].slot \in Slot
       PROVE  /\ owner'[mine'[d].slot] = d
              /\ sub'[mine'[d].slot].used = mine'[d].used
              /\ sub'[mine'[d].slot].expire = mine'[d].until
  <2>1. d # c
    BY <1>7, <1>10 DEF Live, NoGrant
  <2>2. Live(d) /\ mine[d].slot \in Slot /\ mine'[d] = mine[d]
    BY <1>3, <1>7, <1>10, <2>1 DEF Live
  <2>3. mine[d].slot # s
    BY <1>5, <2>1, <2>2, LiveOwner
  <2> QED BY <1>6, <2>2, <2>3, LiveOwner
<1>11. GrantHonoured'
  BY <1>10 DEF GrantHonoured
<1> QED BY <1>1, <1>8, <1>9, <1>11 DEF IInv

(* Steps that write need_sync only. *)
LEMMA SyncInvariant ==
  ASSUME Deviations = {}, IInv,
         \/ \E c \in Clients : SetSynchronizationPoint(c)
         \/ SyncServe
  PROVE  IInv'
<1>1. TypeOK'
  BY OtherTypes DEF IInv
<1>2. UNCHANGED <<now, req, mine, owner>>
  BY DEF SetSynchronizationPoint, SyncServe
<1>3. PICK s \in Slot, b \in BOOLEAN :
        /\ sub' = [sub EXCEPT ![s].need_sync = b]
        /\ b => sub[s].used # "unused"
  <2>1. ASSUME NEW c \in Clients, NEW s \in Slot, Uses(c, s)
        PROVE  sub[s].used # "unused"
    <3>1. Live(c) /\ mine[c].slot = s /\ mine[c].slot \in Slot
      BY <2>1, SizesAssumption DEF Uses, Live, Slot
    <3> QED BY <3>1, LiveOwner
  <2>2. CASE \E c \in Clients : SetSynchronizationPoint(c)
    BY <2>1, <2>2 DEF SetSynchronizationPoint
  <2>3. CASE SyncServe
    <3>1. seen \in Slot
      BY <2>3, Types DEF SyncServe, Slot, IInv
    <3>2. sub' = [sub EXCEPT ![seen].need_sync = FALSE]
      BY <2>3 DEF SyncServe
    <3> QED BY <3>1, <3>2
  <2> QED BY <2>2, <2>3
<1>4. \A i \in Slot : /\ sub'[i].used = sub[i].used
                      /\ sub'[i].expire = sub[i].expire
                      /\ sub'[i].reference = sub[i].reference
                      /\ i # s => sub'[i] = sub[i]
  BY <1>3, Types DEF IInv, SlotRecord
<1>5. UnusedIsBlank'
  <2> SUFFICES ASSUME NEW i \in Slot, sub'[i].used = "unused"
               PROVE  sub'[i] = Blank /\ owner'[i] = NoOne
    BY DEF UnusedIsBlank
  <2>1. sub[i] = Blank /\ owner[i] = NoOne
    BY <1>4 DEF IInv, UnusedIsBlank
  <2>2. CASE i # s
    BY <1>2, <1>4, <2>1, <2>2
  <2>3. CASE i = s
    <3>1. b = FALSE
      BY <1>3, <1>4, <2>3
    <3>2. sub'[i] = [sub[i] EXCEPT !.need_sync = b]
      BY <1>3, <2>3, Types DEF IInv
    <3>3. sub[i] \in SlotRecord /\ sub'[i] \in SlotRecord
      BY <1>1, Types, TypesPrimed DEF IInv
    <3>4. sub'[i].need_sync = sub[i].need_sync
      <4>1. sub'[i].need_sync = FALSE
        BY <3>1, <3>2, <3>3 DEF SlotRecord
      <4>2. sub[i].need_sync = FALSE
        BY <2>1 DEF Blank
      <4> QED BY <4>1, <4>2
    <3>5. sub'[i] = sub[i]
      BY <1>4, <3>3, <3>4 DEF SlotRecord
    <3> QED BY <1>2, <2>1, <3>5
  <2> QED BY <2>2, <2>3
<1>6. GrantsHaveKind' /\ RenewalsInTime' /\ GrantHonoured'
  BY <1>2, <1>4 DEF IInv, GrantsHaveKind, RenewalsInTime, GrantHonoured, Live
<1> QED BY <1>1, <1>5, <1>6 DEF IInv

(* The clean-up takes expired slots; whoever had one knows that its time   *)
(* is up.                                                                  *)
LEMMA CleanInvariant ==
  ASSUME Deviations = {}, IInv, CleanExpired
  PROVE  IInv'
<1>1. TypeOK'
  BY OtherTypes DEF IInv
<1>2. UNCHANGED <<now, req, mine>>
  BY DEF CleanExpired
<1>3. \A s \in Slot : /\ Expired(s) => sub'[s] = Blank /\ owner'[s] = NoOne
                      /\ ~Expired(s) => sub'[s] = sub[s] /\ owner'[s] = owner[s]
  BY DEF CleanExpired
<1>4. GrantsHaveKind' /\ RenewalsInTime' /\ UnusedIsBlank'
  BY <1>2, <1>3 DEF IInv, GrantsHaveKind, RenewalsInTime, UnusedIsBlank, Live
<1>5. ASSUME NEW d \in Clients, Live(d), mine[d].slot \in Slot
      PROVE  ~Expired(mine[d].slot)
  BY <1>5, LiveOwner, Types DEF IInv, Expired, Live, GrantRecord
<1>6. GrantHonoured'
  BY <1>2, <1>3, <1>5 DEF IInv, GrantHonoured, Live
<1> QED BY <1>1, <1>4, <1>6 DEF IInv

LEMMA TickInvariant ==
  ASSUME Deviations = {}, IInv, Tick
  PROVE  IInv'
<1>1. TypeOK'
  BY OtherTypes DEF IInv
<1>2. /\ UNCHANGED <<sub, req, mine, owner>>
      /\ now' = now + 1
      /\ \A c \in Clients : req[c].kind = "none"
  BY DEF Tick
<1>3. \A c \in Clients : Live(c)' => Live(c)
  BY <1>2, Types DEF IInv, Live, GrantRecord
<1>4. GrantsHaveKind' /\ RenewalsInTime' /\ UnusedIsBlank' /\ GrantHonoured'
  BY <1>2, <1>3
  DEF IInv, GrantsHaveKind, RenewalsInTime, UnusedIsBlank, GrantHonoured
<1> QED BY <1>1, <1>4 DEF IInv

LEMMA InvariantStep == Deviations = {} /\ IInv /\ [Next]_tableVars => IInv'
<1> SUFFICES ASSUME Deviations = {}, IInv, [Next]_tableVars PROVE IInv'
  OBVIOUS
<1>1. CASE UNCHANGED tableVars
  BY <1>1, TypeStep
  DEF IInv, tableVars, GrantsHaveKind, RenewalsInTime, UnusedIsBlank,
      GrantHonoured, Live
<1>2. ASSUME NEW s \in Slot, SyncSee(s) PROVE IInv'
  BY <1>2, OtherTypes
  DEF IInv, SyncSee, GrantsHaveKind, RenewalsInTime, UnusedIsBlank,
      GrantHonoured, Live
<1> QED BY <1>1, <1>2, AskInvariant, NewInvariant, RenewInvariant,
           UnsubscribeInvariant, SyncInvariant, CleanInvariant, TickInvariant
        DEF Next

(* With clients that are in time and send complete requests, each of them  *)
(* has exactly the subscription it was told it has, whatever the others    *)
(* do and however the requests, the clean-up and the clock interleave.     *)
THEOREM GrantsAreHonoured ==
  ASSUME Deviations = {}
  PROVE  Spec => []GrantHonoured
<1>1. IInv => GrantHonoured
  BY DEF IInv
<1>2. Init => IInv
  BY InitInvariant
<1>3. IInv /\ [Next]_tableVars => IInv'
  BY InvariantStep
<1> QED BY <1>1, <1>2, <1>3, PTL DEF Spec

(* Under the same conditions a slot out of use is blank: nothing of a      *)
(* subscription survives in the slot it had.                               *)
THEOREM NothingIsInherited ==
  ASSUME Deviations = {}
  PROVE  Spec => []UnusedIsBlank
<1>1. IInv => UnusedIsBlank
  BY DEF IInv
<1>2. Init => IInv
  BY InitInvariant
<1>3. IInv /\ [Next]_tableVars => IInv'
  BY InvariantStep
<1> QED BY <1>1, <1>2, <1>3, PTL DEF Spec

(* The step form of EndsByClockOrOwner. *)
LEMMA EndStep ==
  ASSUME Deviations = {}, IInv, [Next]_tableVars, NEW s \in Slot,
         owner[s] # NoOne, owner'[s] # owner[s]
  PROVE  /\ owner'[s] = NoOne
         /\ now > sub[s].expire \/ mine'[owner[s]] = NoGrant
<1>1. sub[s].used # "unused"
  BY DEF IInv, UnusedIsBlank
<1>2. ASSUME NEW c \in Clients,
             CreatePullPointSubscription(c) \/ Subscribe(c)
      PROVE  FALSE
  <2>1. PICK i \in 1..(MaxSubscriptions + 1) :
          /\ IsFirstFree(i)
          /\ \/ UNCHANGED owner
             \/ i \in Slot /\ owner' = [owner EXCEPT ![i] = c]
    BY <1>2 DEF CreatePullPointSubscription, Subscribe, Take
  <2>2. i # s
    BY <1>1, <2>1 DEF IsFirstFree
  <2> QED BY <2>1, <2>2, Types DEF IInv
<1>3. ASSUME NEW c \in Clients, Unsubscribe(c)
      PROVE  owner'[s] = NoOne /\ mine'[owner[s]] = NoGrant
  <2>1. PICK i \in Slot :
          /\ Uses(c, i)
          /\ owner' = [owner EXCEPT ![i] = IF sub[i].used = "unused" THEN @
                                                                   ELSE NoOne]
    BY <1>3 DEF Unsubscribe
  <2>2. i = s
    BY <2>1, Types DEF IInv
  <2>3. Live(c) /\ mine[c].slot = s /\ mine[c].slot \in Slot
    BY <2>1, <2>2, SizesAssumption DEF Uses, Live, Slot
  <2>4. owner[s] = c
    BY <2>3, LiveOwner
  <2> QED BY <1>1, <1>3, <2>1, <2>2, <2>4, Types DEF IInv, Unsubscribe
<1>4. ASSUME CleanExpired
      PROVE  owner'[s] = NoOne /\ now > sub[s].expire
  BY <1>4 DEF CleanExpired, Expired
<1>5. ASSUME \/ \E c \in Clients : \/ AskNew(c) \/ AskRenew(c) \/ Renew(c)
                                   \/ SetSynchronizationPoint(c)
             \/ \E i \in Slot : SyncSee(i)
             \/ SyncServe \/ Tick \/ UNCHANGED tableVars
      PROVE  FALSE
  BY <1>5 DEF AskNew, AskRenew, Ask, Renew, SetSynchronizationPoint, SyncSee,
              SyncServe, Tick, tableVars
<1> QED BY <1>2, <1>3, <1>4, <1>5 DEF Next

(* A subscription ends by the clock or by its own client's request, for    *)
(* clients that keep to the rules.                                         *)
THEOREM EndsInOneOfTwoWays ==
  ASSUME Deviations = {}
  PROVE  Spec => EndsByClockOrOwner
<1>1. Init => IInv
  BY InitInvariant
<1>2. IInv /\ [Next]_tableVars => IInv'
  BY InvariantStep
<1>3. IInv /\ [Next]_tableVars =>
        [\A s \in Slot :
           owner[s] # NoOne /\ owner'[s] # owner[s] =>
             /\ owner'[s] = NoOne
             /\ now > sub[s].expire \/ mine'[owner[s]] = NoGrant]_tableVars
  BY EndStep
<1> QED BY <1>1, <1>2, <1>3, PTL DEF Spec, EndsByClockOrOwner

-------------------------------------------------------------------------------
(* Slots come back, whatever the clients do. *)

(* A request under way asks for an end that the clock will pass. *)
AskedToEnd ==
  \A c \in Clients :
    req[c].kind # "none" => req[c].now + req[c].dur \in 1..(MaxTime - 1)

(* A slot in use has an end that the clock will pass; with the 0 of a      *)
(* blank slot the clean-up would never look at it again.                   *)
EndsSomeDay ==
  \A s \in Slot : sub[s].used # "unused" => sub[s].expire \in 1..(MaxTime - 1)

LEMMA EndsAtFirst == Init => AskedToEnd /\ EndsSomeDay
BY DEF Init, AskedToEnd, EndsSomeDay, NoRequest, Blank

LEMMA AskedToEndStep ==
  ASSUME TypeOK, AskedToEnd, [Next]_tableVars
  PROVE  AskedToEnd'
<1>1. ASSUME NEW c \in Clients, NEW k \in {"create", "subscribe", "renew"},
             Ask(c, k)
      PROVE  AskedToEnd'
  <2>1. PICK d \in Durations, f \in BOOLEAN, i \in BOOLEAN :
          /\ req' = [req EXCEPT ![c] = [kind |-> k, now |-> now, dur |-> d,
                                        fits |-> f, id |-> i]]
          /\ now + d < MaxTime
    BY <1>1 DEF Ask
  <2>2. now + d \in 1..(MaxTime - 1)
    BY <2>1, SizesAssumption, Types
  <2> QED BY <2>1, <2>2, Types DEF AskedToEnd
<1>2. ASSUME NEW c \in Clients, req' = [req EXCEPT ![c] = NoRequest]
      PROVE  AskedToEnd'
  BY <1>2, Types DEF AskedToEnd, NoRequest
<1>3. CASE UNCHANGED req
  BY <1>3 DEF AskedToEnd
<1>4. ASSUME NEW c \in Clients, AskNew(c) \/ AskRenew(c) PROVE AskedToEnd'
  BY <1>1, <1>4 DEF AskNew, AskRenew
<1>5. ASSUME NEW c \in Clients,
             CreatePullPointSubscription(c) \/ Subscribe(c) \/ Renew(c)
      PROVE  AskedToEnd'
  BY <1>2, <1>5 DEF CreatePullPointSubscription, Subscribe, Renew, Answer
<1> QED BY <1>3, <1>4, <1>5
        DEF Next, Unsubscribe, SetSynchronizationPoint, SyncSee, SyncServe,
            CleanExpired, Tick, tableVars

LEMMA EndsSomeDayStep ==
  ASSUME TypeOK, AskedToEnd, EndsSomeDay, [Next]_tableVars
  PROVE  EndsSomeDay'
<1>1. CASE UNCHANGED sub
  BY <1>1 DEF EndsSomeDay
<1>2. ASSUME NEW c \in Clients,
             CreatePullPointSubscription(c) \/ Subscribe(c)
      PROVE  EndsSomeDay'
  <2>1. req[c].now + req[c].dur \in 1..(MaxTime - 1)
    BY <1>2 DEF CreatePullPointSubscription, Subscribe, AskedToEnd
  <2>2. PICK i \in 1..(MaxSubscriptions + 1) :
          \/ UNCHANGED sub
          \/ i \in Slot /\ Take(c, i, NoOne, "pull")
          \/ i \in Slot /\ Take(c, i, c, "push")
    BY <1>2 DEF CreatePullPointSubscription, Subscribe
  <2>3. ASSUME NEW s \in Slot
        PROVE  \/ sub'[s] = sub[s]
               \/ sub'[s].expire = req[c].now + req[c].dur
    BY <2>2, Types DEF Take
  <2> QED BY <2>1, <2>3 DEF EndsSomeDay
<1>3. ASSUME NEW c \in Clients, Renew(c) PROVE EndsSomeDay'
  <2>1. req[c].now + req[c].dur \in 1..(MaxTime - 1)
    BY <1>3 DEF Renew, AskedToEnd
  <2>2. \/ UNCHANGED sub
        \/ sub' = [sub EXCEPT ![mine[c].slot].expire =
                                req[c].now + req[c].dur]
    BY <1>3 DEF Renew
  <2> QED BY <2>1, <2>2, Types DEF EndsSomeDay, SlotRecord
<1>4. ASSUME \/ \E c \in Clients : Unsubscribe(c)
             \/ CleanExpired
      PROVE  EndsSomeDay'
  <2>1. \A s \in Slot : sub'[s] \in {sub[s], Blank}
    BY <1>4, Types DEF Unsubscribe, CleanExpired
  <2> QED BY <2>1 DEF EndsSomeDay, Blank
<1>5. ASSUME (\E c \in Clients : SetSynchronizationPoint(c)) \/ SyncServe
      PROVE  EndsSomeDay'
  <2>1. \A s \in Slot : /\ sub'[s].used = sub[s].used
                         /\ sub'[s].expire = sub[s].expire
    BY <1>5, Types DEF SetSynchronizationPoint, SyncServe, SlotRecord
  <2> QED BY <2>1 DEF EndsSomeDay
<1> QED BY <1>1, <1>2, <1>3, <1>4, <1>5
        DEF Next, AskNew, AskRenew, Ask, SyncSee, Tick, tableVars

(* The core of SlotsComeBack, without its fairness: no slot is in use      *)
(* without an end, not even one whose client was sent a fault after the    *)
(* slot was taken, was served late, or renewed a slot that is not its own; *)
(* so clean_expired_subscriptions, which skips slots without an end,       *)
(* leaves none in use whose time is over.                                  *)
THEOREM EverySlotEnds ==
  Spec => /\ []EndsSomeDay
          /\ [][CleanExpired =>
                  \A s \in Slot :
                    sub'[s].used # "unused" => now <= sub'[s].expire]_tableVars
<1> DEFINE I == TypeOK /\ AskedToEnd /\ EndsSomeDay
           A == CleanExpired =>
                  \A s \in Slot :
                    sub'[s].used # "unused" => now <= sub'[s].expire
<1>1. Init => I
  BY InitTypes, EndsAtFirst
<1>2. I /\ [Next]_tableVars => I'
  BY TypeStep, AskedToEndStep, EndsSomeDayStep
<1>3. ASSUME I, CleanExpired, NEW s \in Slot, sub'[s].used # "unused"
      PROVE  now <= sub'[s].expire
  <2>1. ~Expired(s) /\ sub'[s] = sub[s]
    BY <1>3 DEF CleanExpired, Blank
  <2>2. sub[s].expire \in 1..(MaxTime - 1) /\ now \in 1..MaxTime
    BY <1>3, <2>1, Types DEF EndsSomeDay
  <2> QED BY <2>1, <2>2, SizesAssumption DEF Expired
<1>4. I => [A]_tableVars
  BY <1>3
<1> HIDE DEF A
<1>5. Spec => []EndsSomeDay /\ [][A]_tableVars
  BY <1>1, <1>2, <1>4, PTL DEF Spec
<1> QED BY <1>5 DEF A

(* The core of SyncIsServed, without its fairness: a synchronization that  *)
(* was asked for stays pending, across a reuse of its slot too, until the  *)
(* thread has read need_sync of just that slot and serves it, or the       *)
(* subscription is over: its time is up, or a client that was told it has  *)
(* this slot gives it back.                                                *)
PendingEndsRightly ==
  \A s \in Slot :
    sub[s].need_sync /\ ~sub'[s].need_sync =>
      \/ seen = s /\ seen' = 0
      \/ now > sub[s].expire
      \/ \E c \in Clients : mine[c].slot = s /\ mine'[c] = NoGrant

LEMMA PendingStep ==
  ASSUME TypeOK, [Next]_tableVars, NEW s \in Slot,
         sub[s].need_sync, ~sub'[s].need_sync
  PROVE  \/ seen = s /\ seen' = 0
         \/ now > sub[s].expire
         \/ \E c \in Clients : mine[c].slot = s /\ mine'[c] = NoGrant
<1>1. CASE UNCHANGED sub
  BY <1>1
<1>2. ASSUME NEW c \in Clients,
             CreatePullPointSubscription(c) \/ Subscribe(c)
      PROVE  FALSE
  <2>1. PICK i \in 1..(MaxSubscriptions + 1) :
          \/ UNCHANGED sub
          \/ i \in Slot /\ Take(c, i, NoOne, "pull")
          \/ i \in Slot /\ Take(c, i, c, "push")
    BY <1>2 DEF CreatePullPointSubscription, Subscribe
  <2>2. sub'[s].need_sync = sub[s].need_sync
    BY <2>1, Types DEF Take
  <2> QED BY <2>2
<1>3. ASSUME NEW c \in Clients, Renew(c) PROVE FALSE
  BY <1>3, Types DEF Renew, SlotRecord
<1>4. ASSUME NEW c \in Clients, SetSynchronizationPoint(c) PROVE FALSE
  <2>1. PICK i \in Slot : sub' = [sub EXCEPT ![i].need_sync = TRUE]
    BY <1>4 DEF SetSynchronizationPoint
  <2> QED BY <2>1, Types DEF SlotRecord
<1>5. ASSUME NEW c \in Clients, Unsubscribe(c)
      PROVE  mine[c].slot = s /\ mine'[c] = NoGrant
  <2>1. PICK i \in Slot :
          /\ Uses(c, i)
          /\ sub' = [sub EXCEPT ![i] = IF @.used = "unused" THEN @ ELSE Blank]
    BY <1>5 DEF Unsubscribe
  <2>2. i = s
    BY <2>1, Types
  <2> QED BY <1>5, <2>1, <2>2, Types DEF Unsubscribe, Uses
<1>6. CASE SyncServe
  <2>1. seen = s
    BY <1>6, Types DEF SyncServe
  <2> QED BY <1>6, <2>1 DEF SyncServe
<1>7. CASE CleanExpired
  BY <1>7 DEF CleanExpired, Expired
<1> QED BY <1>1, <1>2, <1>3, <1>4, <1>5, <1>6, <1>7
        DEF Next, AskNew, AskRenew, Ask, SyncSee, Tick, tableVars

(* No synchronization is lost, whatever clients do: see PendingEndsRightly. *)
THEOREM SyncIsNotForgotten == Spec => [][PendingEndsRightly]_tableVars
<1>1. TypeOK /\ [Next]_tableVars => [PendingEndsRightly]_tableVars
  BY PendingStep DEF PendingEndsRightly
<1> QED BY <1>1, TableTypes, PTL DEF Spec

(***************************************************************************)
(* The table as an implementation of SubscriptionService.                  *)
(***************************************************************************)

(* Requests under way ask for times that can be asked for. *)
AskedFor == \A c \in Clients : req[c].kind # "none" => req[c].dur \in Durations

SInv == IInv /\ AskedFor

LEMMA InitAskedFor == Init => AskedFor
BY DEF Init, AskedFor, NoRequest

LEMMA AskedForStep == TypeOK /\ AskedFor /\ [Next]_tableVars => AskedFor'
<1> SUFFICES ASSUME TypeOK, AskedFor, [Next]_tableVars PROVE AskedFor'
  OBVIOUS
<1>1. ASSUME NEW c \in Clients, NEW k \in {"create", "subscribe", "renew"},
             Ask(c, k)
      PROVE  AskedFor'
  BY <1>1, Types DEF Ask, AskedFor
<1>2. ASSUME NEW c \in Clients, req' = [req EXCEPT ![c] = NoRequest]
      PROVE  AskedFor'
  BY <1>2, Types DEF AskedFor, NoRequest
<1>3. CASE UNCHANGED req
  BY <1>3 DEF AskedFor
<1>4. ASSUME NEW c \in Clients, AskNew(c) \/ AskRenew(c) PROVE AskedFor'
  BY <1>1, <1>4 DEF AskNew, AskRenew
<1>5. ASSUME NEW c \in Clients,
             CreatePullPointSubscription(c) \/ Subscribe(c) \/ Renew(c)
      PROVE  AskedFor'
  BY <1>2, <1>5 DEF CreatePullPointSubscription, Subscribe, Renew, Answer
<1>6. ASSUME NEW c \in Clients, Unsubscribe(c) \/ SetSynchronizationPoint(c)
      PROVE  AskedFor'
  BY <1>3, <1>6 DEF Unsubscribe, SetSynchronizationPoint
<1>7. CASE \/ \E s \in Slot : SyncSee(s)
           \/ SyncServe \/ CleanExpired \/ Tick \/ UNCHANGED tableVars
  BY <1>3, <1>7 DEF SyncSee, SyncServe, CleanExpired, Tick, tableVars
<1> QED BY <1>4, <1>5, <1>6, <1>7 DEF Next

LEMMA TimesAreNat ==
  ASSUME TypeOK
  PROVE  now \in Nat /\ \A c \in Clients : req[c].dur \in Nat
BY SizesAssumption, Types DEF RequestRecord

-------------------------------------------------------------------------------
(* What clients hold, told from what they were told alone. *)

Promised ==
  [c \in Clients |->
     IF Live(c) /\ mine[c].slot \in Slot
       THEN [kind |-> mine[c].used, until |-> mine[c].until] ELSE NoOne]

LEMMA HeldIsPromised == IInv => Held = Promised
BY LiveOwner DEF Held, Promised

LEMMA HeldIsPromisedPrimed == IInv' => Held' = Promised'
<1> SUFFICES ASSUME IInv' PROVE Held' = Promised'
  OBVIOUS
<1>1. ASSUME NEW c \in Clients, Live(c)', mine'[c].slot \in Slot
      PROVE  /\ sub'[mine'[c].slot].used = mine'[c].used
             /\ sub'[mine'[c].slot].expire = mine'[c].until
  BY <1>1 DEF IInv, GrantHonoured
<1> QED BY <1>1 DEF Held, Promised

(* A subscription that is held is not nothing. *)
LEMMA PromisedIsSome ==
  ASSUME IInv, NEW c \in Clients, Live(c), mine[c].slot \in Slot
  PROVE  /\ Promised[c] = [kind |-> mine[c].used, until |-> mine[c].until]
         /\ Promised[c] # NoOne
         /\ mine[c].used \in {"pull", "push"}
<1>1. mine[c].used \in {"pull", "push"} /\ mine[c].until \in Nat
  BY SizesAssumption, Types
  DEF IInv, GrantsHaveKind, GrantRecord, Slot
<1>2. [kind |-> mine[c].used, until |-> mine[c].until]
        \in [kind : {"pull", "push"}, until : Nat]
  BY <1>1
<1> QED BY <1>1, <1>2, ClientsAssumption DEF Promised

-------------------------------------------------------------------------------
(* While a slot is free, fewer subscriptions are held than there are slots. *)
LEMMA RoomIsLeft ==
  ASSUME IInv, NEW s \in Slot, sub[s].used = "unused"
  PROVE  Cardinality({c \in Clients : Promised[c] # NoOne}) < MaxSubscriptions
<1> DEFINE H == {c \in Clients : Promised[c] # NoOne}
           f == [c \in H |-> mine[c].slot]
<1>1. ASSUME NEW c \in H
      PROVE  /\ mine[c].slot \in Slot \ {s}
             /\ owner[mine[c].slot] = c
  BY LiveOwner DEF Promised
<1>2. f \in [H -> Slot \ {s}]
  BY <1>1
<1>3. \A c, d \in H : f[c] = f[d] => c = d
  BY <1>1
<1>4. f \in Injection(H, Slot \ {s})
  BY <1>2, <1>3 DEF Injection, IsInjective
<1>5. IsFiniteSet(Slot) /\ Cardinality(Slot) = MaxSubscriptions
  <2>1. MaxSubscriptions \in Int /\ 1 \in Int /\ ~(1 > MaxSubscriptions)
    BY SizesAssumption
  <2> QED BY <2>1, FS_Interval, SMT DEF Slot
<1>6. /\ IsFiniteSet(Slot \ {s})
      /\ Cardinality(Slot \ {s}) = MaxSubscriptions - 1
  BY <1>5, FS_RemoveElement
<1>7. IsFiniteSet(H) /\ Cardinality(H) <= MaxSubscriptions - 1
  BY <1>4, <1>6, FS_Injection
<1>8. Cardinality(H) \in Nat
  BY <1>7, FS_CardinalityType
<1> QED BY <1>7, <1>8, SizesAssumption

-------------------------------------------------------------------------------
(* The steps, each seen as one of the service.  Becomes(c, those) of the   *)
(* service, in terms of what was promised.                                 *)
Changes(c, those) ==
  /\ Promised'[c] \in those
  /\ Promised' = [Promised EXCEPT ![c] = Promised'[c]]
  /\ UNCHANGED now

(* Only the grant of c changes. *)
LEMMA OthersKeep ==
  ASSUME NEW c \in Clients, TypeOK, UNCHANGED now,
         \A d \in Clients : d # c => mine'[d] = mine[d]
  PROVE  Promised' = [Promised EXCEPT ![c] = Promised'[c]]
BY DEF Promised, Live

(* A request that is answered with slot s and a time. *)
LEMMA AnsweredPromise ==
  ASSUME SInv, NEW c \in Clients, NEW s \in 1..(MaxSubscriptions + 1),
         NEW u \in {"pull", "push"}, Deviations = {},
         req[c].kind # "none", Answer(c, s, u), UNCHANGED now
  PROVE  /\ Promised'[c] = IF s \in Slot
                             THEN [kind |-> u, until |-> now + req[c].dur]
                             ELSE NoOne
         /\ \A d \in Clients : d # c => mine'[d] = mine[d]
         /\ req[c].dur \in Durations
<1>1. mine' = [mine EXCEPT ![c] = [slot |-> s, used |-> u,
                                   until |-> req[c].now + req[c].dur]]
  BY DEF Answer
<1>2. mine'[c] = [slot |-> s, used |-> u, until |-> req[c].now + req[c].dur]
  BY <1>1, Types DEF SInv, IInv
<1>3. req[c].now = now /\ req[c].dur \in Durations
  BY DEF SInv, IInv, RenewalsInTime, AskedFor
<1>4. now \in Nat /\ req[c].dur \in Nat
  BY <1>3, TimesAreNat DEF SInv, IInv
<1>5. Live(c)' <=> s # 0 /\ now <= now + req[c].dur
  BY <1>2, <1>3 DEF Live
<1>6. Live(c)'
  BY <1>4, <1>5, SizesAssumption
<1>7. \A d \in Clients : d # c => mine'[d] = mine[d]
  BY <1>1, Types DEF SInv, IInv
<1> QED BY <1>2, <1>3, <1>6, <1>7 DEF Promised

(* A new subscription is granted while there is room, or not at all. *)
LEMMA NewStep ==
  ASSUME Deviations = {}, SInv, NEW c \in Clients,
         CreatePullPointSubscription(c) \/ Subscribe(c)
  PROVE  \/ UNCHANGED <<now, Promised>>
         \/ /\ Promised[c] = NoOne
            /\ Cardinality({d \in Clients : Promised[d] # NoOne})
                 < MaxSubscriptions
            /\ Changes(c, [kind : {"pull", "push"},
                           until : {now + d : d \in Durations}])
<1>1. PICK s \in 1..(MaxSubscriptions + 1), u \in {"pull", "push"} :
        IsFirstFree(s) /\ Answer(c, s, u)
  BY DEF CreatePullPointSubscription, Subscribe, SInv, IInv, RenewalsInTime
<1>2. UNCHANGED now /\ req[c].kind \in {"create", "subscribe"}
  BY DEF CreatePullPointSubscription, Subscribe
<1>3. Promised[c] = NoOne
  BY <1>2 DEF SInv, IInv, RenewalsInTime, Promised
<1>4. /\ Promised'[c] = IF s \in Slot
                          THEN [kind |-> u, until |-> now + req[c].dur]
                          ELSE NoOne
      /\ \A d \in Clients : d # c => mine'[d] = mine[d]
      /\ req[c].dur \in Durations
  BY <1>1, <1>2, AnsweredPromise
<1>5. Promised' = [Promised EXCEPT ![c] = Promised'[c]]
  BY <1>2, <1>4, OthersKeep DEF SInv, IInv
<1>6. CASE s \in Slot
  <2>1. Cardinality({d \in Clients : Promised[d] # NoOne}) < MaxSubscriptions
    BY <1>1, <1>6, RoomIsLeft DEF IsFirstFree, SInv
  <2>2. Promised'[c] \in [kind : {"pull", "push"},
                          until : {now + d : d \in Durations}]
    BY <1>4, <1>6
  <2> QED BY <1>2, <1>3, <1>5, <2>1, <2>2 DEF Changes
<1>7. CASE s \notin Slot
  <2>1. Promised' = Promised
    BY <1>3, <1>4, <1>5, <1>7 DEF Promised
  <2> QED BY <1>2, <2>1
<1> QED BY <1>6, <1>7

LEMMA RenewStep ==
  ASSUME Deviations = {}, SInv, NEW c \in Clients, Renew(c)
  PROVE  /\ Promised[c] # NoOne
         /\ Changes(c, [kind : {Promised[c].kind},
                        until : {now + d : d \in Durations}])
<1>1. Live(c) /\ mine[c].slot \in Slot /\ req[c].kind = "renew"
  BY DEF SInv, IInv, RenewalsInTime, Renew
<1>2. sub[mine[c].slot].used # "unused" /\ req[c].id /\ req[c].now = now
  BY <1>1, LiveOwner DEF SInv, IInv, RenewalsInTime
<1>3. mine' = [mine EXCEPT ![c].until = now + req[c].dur] /\ UNCHANGED now
  BY <1>2 DEF Renew
<1>4. /\ mine'[c].slot = mine[c].slot
      /\ mine'[c].used = mine[c].used
      /\ mine'[c].until = now + req[c].dur
      /\ \A d \in Clients : d # c => mine'[d] = mine[d]
  BY <1>3, Types DEF SInv, IInv, GrantRecord
<1>5. req[c].dur \in Durations /\ req[c].dur \in Nat /\ now \in Nat
  BY <1>1, TimesAreNat DEF SInv, IInv, AskedFor
<1>6. Live(c)'
  <2>1. now <= now + req[c].dur
    BY <1>5
  <2> QED BY <1>1, <1>3, <1>4, <2>1 DEF Live
<1>7. Promised'[c] = [kind |-> mine[c].used, until |-> now + req[c].dur]
  BY <1>1, <1>4, <1>6 DEF Promised
<1>8. /\ Promised[c] # NoOne
      /\ Promised[c] = [kind |-> mine[c].used, until |-> mine[c].until]
  BY <1>1, PromisedIsSome DEF SInv
<1>9. Promised' = [Promised EXCEPT ![c] = Promised'[c]]
  BY <1>3, <1>4, OthersKeep DEF SInv, IInv
<1> QED BY <1>3, <1>5, <1>7, <1>8, <1>9 DEF Changes

LEMMA UnsubscribeStep ==
  ASSUME Deviations = {}, SInv, NEW c \in Clients, Unsubscribe(c)
  PROVE  Promised[c] # NoOne /\ Changes(c, {NoOne})
<1>1. PICK s \in Slot : Uses(c, s)
  BY DEF Unsubscribe
<1>2. Live(c) /\ mine[c].slot \in Slot
  BY <1>1, SizesAssumption DEF Uses, Live, Slot
<1>3. Promised[c] # NoOne
  BY <1>2, PromisedIsSome DEF SInv
<1>4. UNCHANGED now /\ mine' = [mine EXCEPT ![c] = NoGrant]
  BY DEF Unsubscribe
<1>5. mine'[c].slot = 0 /\ \A d \in Clients : d # c => mine'[d] = mine[d]
  BY <1>4, Types DEF SInv, IInv, NoGrant
<1>6. Promised'[c] = NoOne
  BY <1>5 DEF Promised, Live
<1>7. Promised' = [Promised EXCEPT ![c] = Promised'[c]]
  BY <1>4, <1>5, OthersKeep DEF SInv, IInv
<1> QED BY <1>3, <1>4, <1>6, <1>7 DEF Changes

LEMMA TickStep ==
  ASSUME SInv, Tick
  PROVE  /\ now' = now + 1
         /\ Promised' = [c \in Clients |->
                           IF Promised[c] # NoOne /\ Promised[c].until < now'
                             THEN NoOne ELSE Promised[c]]
<1>1. now' = now + 1 /\ UNCHANGED mine /\ now \in Nat
  BY SizesAssumption, Types DEF Tick, SInv, IInv
<1>2. ASSUME NEW c \in Clients
      PROVE  Promised'[c] = IF Promised[c] # NoOne /\ Promised[c].until < now'
                              THEN NoOne ELSE Promised[c]
  <2>1. mine[c].until \in Nat
    BY Types DEF SInv, IInv, GrantRecord
  <2>2. CASE Live(c) /\ mine[c].slot \in Slot
    <3>0. /\ Promised[c] # NoOne
          /\ Promised[c] = [kind |-> mine[c].used, until |-> mine[c].until]
      BY <2>2, PromisedIsSome DEF SInv
    <3>1. Promised[c] # NoOne /\ Promised[c].until = mine[c].until
      BY <3>0
    <3>2. Live(c)' <=> ~(mine[c].until < now')
      BY <1>1, <2>1, <2>2 DEF Live
    <3> QED BY <1>1, <2>2, <3>1, <3>2 DEF Promised
  <2>3. CASE ~(Live(c) /\ mine[c].slot \in Slot)
    <3>1. ~(Live(c)' /\ mine'[c].slot \in Slot)
      BY <1>1, <2>1, <2>3 DEF Live
    <3> QED BY <2>3, <3>1 DEF Promised
  <2> QED BY <2>2, <2>3
<1> QED BY <1>1, <1>2 DEF Promised

(* The rest of the steps cannot be seen from outside. *)
LEMMA HiddenStep ==
  ASSUME \/ \E c \in Clients : AskNew(c) \/ AskRenew(c)
                               \/ SetSynchronizationPoint(c)
         \/ \E s \in Slot : SyncSee(s)
         \/ SyncServe \/ CleanExpired \/ UNCHANGED tableVars
  PROVE  UNCHANGED <<now, Promised>>
<1>1. UNCHANGED <<now, mine>>
  BY DEF AskNew, AskRenew, Ask, SetSynchronizationPoint, SyncSee, SyncServe,
         CleanExpired, tableVars
<1> QED BY <1>1 DEF Promised, Live

-------------------------------------------------------------------------------

LEMMA ServiceStep ==
  ASSUME Deviations = {}, SInv, IInv', [Next]_tableVars
  PROVE  [Service!ServiceNext]_<<now, Held>>
<1>1. Held = Promised /\ Held' = Promised'
  BY HeldIsPromised, HeldIsPromisedPrimed DEF SInv
<1>2. ASSUME NEW c \in Clients, NEW those, Changes(c, those)
      PROVE  Service!Becomes(c, those)
  BY <1>1, <1>2 DEF Changes, Service!Becomes
<1>3. ASSUME NEW c \in Clients, CreatePullPointSubscription(c) \/ Subscribe(c)
      PROVE  Service!Grant(c) \/ UNCHANGED <<now, Held>>
  <2>1. Service!Holders = {d \in Clients : Promised[d] # NoOne}
    BY <1>1 DEF Service!Holders
  <2>2. Service!Cardinality(Service!Holders) = Cardinality(Service!Holders)
    BY DEF Service!Cardinality, Cardinality
  <2> QED BY <1>1, <1>2, <1>3, <2>1, <2>2, NewStep
          DEF Service!Grant, Service!Granted
<1>4. ASSUME NEW c \in Clients, Renew(c) PROVE Service!Extend(c)
  BY <1>1, <1>2, <1>4, RenewStep DEF Service!Extend, Service!Granted
<1>5. ASSUME NEW c \in Clients, Unsubscribe(c) PROVE Service!GiveUp(c)
  BY <1>1, <1>2, <1>5, UnsubscribeStep DEF Service!GiveUp
<1>6. ASSUME Tick PROVE Service!Pass
  BY <1>1, <1>6, TickStep DEF Service!Pass, Service!Kept
<1>7. ASSUME \/ \E c \in Clients : AskNew(c) \/ AskRenew(c)
                                   \/ SetSynchronizationPoint(c)
             \/ \E s \in Slot : SyncSee(s)
             \/ SyncServe \/ CleanExpired \/ UNCHANGED tableVars
      PROVE  UNCHANGED <<now, Held>>
  BY <1>1, <1>7, HiddenStep
<1> QED BY <1>3, <1>4, <1>5, <1>6, <1>7 DEF Next, Service!ServiceNext

LEMMA ServiceStart == Init => Service!ServiceInit
BY DEF Init, Service!ServiceInit, Held, Live, NoGrant

(* Behaviours of the table, with clients that are in time, are behaviours  *)
(* of the service.                                                         *)
THEOREM TableImplementsService ==
  ASSUME Deviations = {}
  PROVE  Spec => ImplementsService
<1>1. Init => SInv
  BY InitInvariant, InitAskedFor DEF SInv
<1>2. SInv /\ [Next]_tableVars => SInv'
  BY InvariantStep, AskedForStep DEF SInv, IInv
<1>3. SInv /\ SInv' /\ [Next]_tableVars => [Service!ServiceNext]_<<now, Held>>
  BY ServiceStep DEF SInv
<1> QED BY <1>1, <1>2, <1>3, ServiceStart, PTL
        DEF Spec, ImplementsService, Service!ServiceSpec

===============================================================================
