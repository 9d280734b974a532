------------------------- MODULE SubscriptionService -------------------------
(***************************************************************************)
(* What the events service promises its clients, without slots, requests   *)
(* on their way or a thread that cleans up: a client holds a subscription  *)
(* of some kind until some time, never more of them than there is room     *)
(* for, and only its own requests and the clock change that.               *)
(***************************************************************************)
EXTENDS Naturals, FiniteSets

CONSTANTS
  Clients,           (* those who subscribe                                 *)
  MaxSubscriptions,  (* subscriptions held at the same time                 *)
  Durations,         (* for how long they are granted                       *)
  NoOne              (* not a client: here, what a client without           *)
                     (* subscription holds                                  *)

VARIABLES
  clock,
  held    (* per client: its subscription                                   *)

Kept(h, t) == [c \in Clients |-> IF h[c] # NoOne /\ h[c].until < t THEN NoOne
                                                                   ELSE h[c]]

Holders == {c \in Clients : held[c] # NoOne}

ServiceInit == clock = 1 /\ held = [c \in Clients |-> NoOne]

(* Only c's subscription changes, to one of those. *)
Becomes(c, those) ==
  /\ held'[c] \in those
  /\ held' = [held EXCEPT ![c] = held'[c]]
  /\ UNCHANGED clock

Granted(kinds) == [kind : kinds, until : {clock + d : d \in Durations}]

Grant(c) ==
  /\ held[c] = NoOne
  /\ Cardinality(Holders) < MaxSubscriptions
  /\ Becomes(c, Granted({"pull", "push"}))

Extend(c) == held[c] # NoOne /\ Becomes(c, Granted({held[c].kind}))

GiveUp(c) == held[c] # NoOne /\ Becomes(c, {NoOne})

(* Time passes, and takes away what has been granted until now. *)
Pass ==
  /\ clock' = clock + 1
  /\ held' = Kept(held, clock')

ServiceNext == Pass \/ \E c \in Clients : Grant(c) \/ Extend(c) \/ GiveUp(c)

ServiceSpec == ServiceInit /\ [][ServiceNext]_<<clock, held>>

===============================================================================
