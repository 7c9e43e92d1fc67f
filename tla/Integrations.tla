---------------------------- MODULE Integrations -----------------------------
(***************************************************************************)
(* What a person's row remembers of the services he pays for or is paid    *)
(* through: a landlord's Stripe billing customer with its subscription,    *)
(* his Stripe Connect account and his Twilio number, a tenant's Stripe     *)
(* customer.  All follow one protocol: read the row, create the object at  *)
(* the service, write its id to the row; and a look at the service or an   *)
(* event of it may change the row later.  Each                             *)
(* await is a step, so requests and event handlers interleave, and each    *)
(* may stop between two steps.  The columns are disjoint and no handler of *)
(* one service touches another's: a behaviour is about one "kind".         *)
(*                                                                         *)
(* Stripe delivers an event at least once and in any order.  The portal,   *)
(* the cancellation at the end of the period (one of the changes at Stripe *)
(* here) and notices are left out; a messaging service counts as part of   *)
(* its number.  What customers are for is Wallets' matter.                 *)
(***************************************************************************)
EXTENDS Integers, Sequences, FiniteSets

CONSTANTS
  Kinds,      \* what behaviours are about: Services, or a topic of Wallets
  Objs,       \* customers, accounts or numbers at the service
  Subs,       \* subscriptions at Stripe
  Slots,      \* bound: requests and event handlers in progress at a time
  None,       \* no object, no subscription
  MaxEvents,  \* bound: events on their way
  MaxDoubts   \* bound: kinds of trouble in one behaviour

Services == {"customer", "account", "number", "tenant"}

ASSUME KindAssumption == Kinds \subseteq Services \cup {"card", "units"}
ASSUME BoundAssumption == MaxEvents \in Nat /\ MaxDoubts \in Nat

VARIABLES
  kind,    \* the service this behaviour is about
  row,     \* the columns of the landlord's row
  remote,  \* the objects at the service
  ready,   \* accounts that can be paid out
  open,    \* checkout sessions not yet completed, by customer
  sub,     \* the subscriptions at Stripe
  events,  \* events on their way, oldest first
  req,     \* what each slot is doing
  doubt    \* history: what may have set row and service apart

service == <<remote, ready, open, sub>>
vars == <<kind, row, service, events, req, doubt>>

SubStatus    == {"active", "past_due", "canceled"}
RemoteStatus == {"unused", "made", "live", "gone"}

(* "overlap": the row was written under a request that had read it;        *)
(* "cut": a request stopped after it had created something; "blind": the   *)
(* service did not answer for an object that exists; "reorder": an event   *)
(* overtook another; "twice": a checkout was begun with another session    *)
(* open, with events on their way or with a payment overdue; "replaced": a *)
(* deleted customer was replaced with events on their way, which no longer *)
(* find the landlord.                                                      *)
Doubts == {"overlap", "cut", "blind", "reorder", "twice", "replaced"}

Row == [id : Objs \cup {None}, onboarded : BOOLEAN,
        sub : Subs \cup {None}, status : SubStatus \cup {None}]

Event == [type : {"updated", "deleted", "completed", "failed"}, sub : Subs, status : SubStatus]
         \cup [type : {"account"}, id : Objs, ready : BOOLEAN]
         \cup [type : {"deauthorized"}, id : Objs]

Subscription == [customer : Objs, status : SubStatus]

ASSUME NoneAssumption == None \notin Objs \cup Subs \cup SubStatus \cup Event \cup Subscription

(* What a customer is needed for: nothing more, a checkout, or a tenant's  *)
(* bank accounts.                                                          *)
Purposes == {"none", "checkout", "connect", "list", "amounts", "remove"}

(* A handler keeps the event it was called for.                            *)
Idle == [step |-> "idle"]
Request ==
  {Idle} \cup [step : {"verify", "create"}, id : Objs \cup {None}, why : Purposes]
         \cup [step : {"attach", "persist", "ready"}, id : Objs, why : Purposes]
         \cup [step : {"poll"}, id : Objs, onboarded : BOOLEAN]
         \cup [step : {"sync"}, id : Objs, onboarded : BOOLEAN, event : Event \cup {None}]
         \cup [step : {"remove"}, id : Objs]
         \cup [step : {"clear"}, id : Objs, event : Event \cup {None}]
         \cup [step : {"settle"}, sub : Subs, status : SubStatus, event : Event]

TypeOK ==
  /\ kind   \in Kinds
  /\ row    \in Row
  /\ remote \in [Objs -> RemoteStatus]
  /\ ready  \in SUBSET Objs
  /\ open   \in SUBSET (Slots \X Objs)
  /\ sub    \in [Subs -> Subscription \cup {None}]
  /\ events \in Seq(Event) /\ Len(events) <= MaxEvents
  /\ req    \in [Slots -> Request]
  /\ doubt  \in SUBSET Doubts

Init ==
  /\ kind \in Kinds
  /\ row    = [id |-> None, onboarded |-> FALSE, sub |-> None, status |-> None]
  /\ remote = [o \in Objs |-> "unused"]
  /\ ready  = {}
  /\ open   = {}
  /\ sub    = [x \in Subs |-> None]
  /\ events = <<>>
  /\ req    = [s \in Slots |-> Idle]
  /\ doubt  = {}

-----------------------------------------------------------------------------
Exists(o)  == remote[o] \in {"made", "live"}
Billed     == {x \in Subs : sub[x] # None /\ sub[x].status # "canceled"}
Paying     == {x \in Billed : sub[x].status = "active"}

Begin(s, r)   == req[s] = Idle /\ req' = [req EXCEPT ![s] = r]
Proceed(s, r) == req' = [req EXCEPT ![s] = r]
End(s)        == req' = [req EXCEPT ![s] = Idle]
Doubted(why)  == doubt' = doubt \cup why /\ Cardinality(doubt') <= MaxDoubts

(* A write to the row under another request in progress.                   *)
Overlap(s) == IF \E r \in Slots \ {s} : req[r] # Idle THEN {"overlap"} ELSE {}

Twice == IF open # {} \/ events # <<>> \/ Billed # Paying THEN {"twice"} ELSE {}

(* Stripe sends events for what changed there.                             *)
Emit(new) == Len(events) + Len(new) <= MaxEvents /\ events' = events \o new

SubEvent(type, x, status) == [type |-> type, sub |-> x, status |-> status]

-----------------------------------------------------------------------------
(* Requests that need the object: createCheckoutSession and the set-up of  *)
(* a card, the onboarding link, provisionSmsNumber, all of a tenant's      *)
(* requests about bank accounts.                                           *)

(* An account is reused as it is, a number refuses a second one and        *)
(* neither changes anything; a customer is looked up first.                *)
Asks(s, why) ==
  /\ row.id # None => kind \in {"customer", "tenant"}
  /\ Begin(s, [step |-> IF row.id = None THEN "create" ELSE "verify", id |-> row.id, why |-> why])
  /\ Doubted(IF why = "checkout" THEN Twice ELSE {})
  /\ UNCHANGED <<kind, row, service, events>>

(* Mutation: a landlord who has a plan may check out again.                *)
AskForAnything(s) ==
  /\ kind \in Services \ {"tenant"}
  /\ \E why \in {"none", "checkout"} :
       /\ why = "checkout" => kind = "customer"
       /\ Asks(s, why)

Ask(s) ==
  /\ kind \in Services \ {"tenant"}
  /\ \E why \in {"none", "checkout"} :
       /\ why = "checkout" => kind = "customer" /\ ~(row.sub # None /\ row.status = "active")
       /\ Asks(s, why)

(* A deleted customer is replaced, and so is one Stripe gives no answer on.*)
Verify(s) ==
  /\ req[s].step = "verify"
  /\ \/ Exists(req[s].id) /\ req[s].why = "none" /\ End(s) /\ UNCHANGED doubt
     \/ Exists(req[s].id) /\ req[s].why # "none" /\ UNCHANGED doubt
        /\ Proceed(s, [req[s] EXCEPT !.step = "ready"])
     \/ /\ Proceed(s, [req[s] EXCEPT !.step = "create"])
        /\ Doubted(IF Exists(req[s].id) THEN {"blind"} ELSE {})
  /\ UNCHANGED <<kind, row, service, events>>

CreateRemote(s) ==
  /\ req[s].step = "create"
  /\ \E o \in Objs :
       /\ remote[o] = "unused"
       /\ remote' = [remote EXCEPT ![o] = "made"]
       /\ Proceed(s, [req[s] EXCEPT !.id = o,
                                    !.step = IF kind = "number" THEN "attach" ELSE "persist"])
  /\ UNCHANGED <<kind, row, ready, open, sub, events, doubt>>

(* Mutation: a number whose service cannot be set up is kept.              *)
AttachOrKeep(s) ==
  /\ req[s].step = "attach"
  /\ \/ /\ remote' = [remote EXCEPT ![req[s].id] = "live"]
        /\ Proceed(s, [req[s] EXCEPT !.step = "persist"])
     \/ End(s) /\ UNCHANGED remote
  /\ UNCHANGED <<kind, row, ready, open, sub, events, doubt>>

(* The messaging service for a number just bought.  If it cannot be set up *)
(* the number is released, which may fail as well.                         *)
Attach(s) ==
  /\ req[s].step = "attach"
  /\ \/ /\ remote' = [remote EXCEPT ![req[s].id] = "live"]
        /\ Proceed(s, [req[s] EXCEPT !.step = "persist"])
        /\ UNCHANGED doubt
     \/ /\ remote' = [remote EXCEPT ![req[s].id] = "gone"]
        /\ End(s)
        /\ UNCHANGED doubt
     \/ /\ Doubted({"cut"})
        /\ End(s)
        /\ UNCHANGED remote
  /\ UNCHANGED <<kind, row, ready, open, sub, events>>

(* The id is written over whatever the column holds by now.                *)
Persist(s) ==
  /\ req[s].step = "persist"
  /\ row' = [row EXCEPT !.id = req[s].id, !.onboarded = FALSE]
  /\ remote' = [remote EXCEPT ![req[s].id] = IF @ = "made" THEN "live" ELSE @]
  /\ Doubted(Overlap(s) \cup (IF row.id # None /\ events # <<>> THEN {"replaced"} ELSE {}))
  /\ IF req[s].why = "none" THEN End(s) ELSE Proceed(s, [req[s] EXCEPT !.step = "ready"])
  /\ UNCHANGED <<kind, ready, open, sub, events>>

OpenSession(s) ==
  /\ req[s].step = "ready" /\ req[s].why = "checkout"
  /\ Exists(req[s].id)
  /\ \E n \in Slots :
       /\ <<n, req[s].id>> \notin open
       /\ open' = open \cup {<<n, req[s].id>>}
  /\ Doubted(Twice)
  /\ End(s)
  /\ UNCHANGED <<kind, row, remote, ready, sub, events>>

-----------------------------------------------------------------------------
(* What happens at the services.                                           *)

CompleteSession ==
  \E session \in open, x \in Subs :
    /\ Exists(session[2])
    /\ sub[x] = None
    /\ sub' = [sub EXCEPT ![x] = [customer |-> session[2], status |-> "active"]]
    /\ open' = open \ {session}
    /\ Emit(<<SubEvent("updated", x, "active"), SubEvent("completed", x, "active")>>)
    /\ UNCHANGED <<kind, row, remote, ready, req, doubt>>

(* An invoice fails or is paid late; the landlord cancels or Stripe does.  *)
SubChanges ==
  \E x \in Billed, status \in SubStatus :
    /\ status # sub[x].status
    /\ sub' = [sub EXCEPT ![x].status = status]
    /\ Emit(CASE status = "active"   -> <<SubEvent("updated", x, status)>>
              [] status = "past_due" -> <<SubEvent("updated", x, status),
                                          SubEvent("failed", x, status)>>
              [] status = "canceled" -> <<SubEvent("deleted", x, status)>>)
    /\ UNCHANGED <<kind, row, remote, ready, open, req, doubt>>

(* The landlord completes or loses the verification of an account he has   *)
(* been given a link to.                                                   *)
AccountChanges ==
  \E o \in Objs :
    /\ kind = "account"
    /\ remote[o] = "live"
    /\ ready' = IF o \in ready THEN ready \ {o} ELSE ready \cup {o}
    /\ Emit(<<[type |-> "account", id |-> o, ready |-> o \notin ready]>>)
    /\ UNCHANGED <<kind, row, remote, open, sub, req, doubt>>

(* Deleted in the dashboard; an account is disconnected, with an event.    *)
RemoteGoes ==
  \E o \in Objs :
    /\ remote[o] = "live"
    /\ \A x \in Billed : sub[x].customer # o
    /\ remote' = [remote EXCEPT ![o] = "gone"]
    /\ open' = {session \in open : session[2] # o}
    /\ ready' = ready \ {o}
    /\ IF kind = "account" THEN Emit(<<[type |-> "deauthorized", id |-> o]>>)
                           ELSE UNCHANGED events
    /\ UNCHANGED <<kind, row, sub, req, doubt>>

-----------------------------------------------------------------------------
(* Events.                                                                 *)

(* The i-th event on its way arrives; Stripe sends it again when the       *)
(* answer is lost or an error.                                             *)
Arrives(i, s, again) ==
  /\ req[s] = Idle
  /\ events' = IF again THEN events ELSE SubSeq(events, 1, i - 1) \o SubSeq(events, i + 1, Len(events))
  /\ Doubted((IF i > 1 THEN {"reorder"} ELSE {}) \cup Overlap(s))

OfLandlord(x) == sub[x].customer = row.id

(* Mutation: a subscription that ends leaves the status as it is.          *)
SettledKeepingStatus(type, x, status) ==
  IF type = "deleted" THEN [row EXCEPT !.sub = None]
  ELSE IF type = "failed" THEN [row EXCEPT !.status = "past_due"]
  ELSE [row EXCEPT !.sub = x, !.status = status]

(* onSubscriptionUpdated, onSubscriptionDeleted and the failed invoice.    *)
Settled(type, x, status) ==
  IF type = "deleted" THEN [row EXCEPT !.sub = None, !.status = "canceled"]
  ELSE IF type = "failed" THEN [row EXCEPT !.status = "past_due"]
  ELSE [row EXCEPT !.sub = x, !.status = status]

SubscriptionEvent(s) ==
  \E i \in 1 .. Len(events), again \in BOOLEAN :
    LET e == events[i] IN
    /\ e.type \in {"updated", "deleted", "failed"}
    /\ Arrives(i, s, again)
    /\ row' = IF OfLandlord(e.sub) THEN Settled(e.type, e.sub, e.status) ELSE row
    /\ UNCHANGED <<kind, service, req>>

(* checkout.session.completed: the subscription is fetched as it is now.   *)
SessionEvent(s) ==
  \E i \in 1 .. Len(events), again \in BOOLEAN :
    LET e == events[i] IN
    /\ e.type = "completed"
    /\ Arrives(i, s, again)
    /\ IF OfLandlord(e.sub)
       THEN Proceed(s, [step |-> "settle", sub |-> e.sub, status |-> sub[e.sub].status,
                       event |-> e])
       ELSE UNCHANGED req
    /\ UNCHANGED <<kind, row, service>>

Settle(s) ==
  /\ req[s].step = "settle"
  /\ row' = Settled("updated", req[s].sub, req[s].status)
  /\ Doubted(Overlap(s))
  /\ End(s)
  /\ UNCHANGED <<kind, service, events>>

(* The account's owner is read, and written when the event says otherwise. *)
AccountEvent(s) ==
  \E i \in 1 .. Len(events), again \in BOOLEAN :
    LET e == events[i] IN
    /\ e.type \in {"account", "deauthorized"}
    /\ Arrives(i, s, again)
    /\ \/ e.id # row.id /\ UNCHANGED req
       \/ /\ e.id = row.id /\ e.type = "account"
          /\ IF e.ready = row.onboarded
             THEN UNCHANGED req
             ELSE Proceed(s, [step |-> "sync", id |-> e.id, onboarded |-> e.ready, event |-> e])
       \/ /\ e.id = row.id /\ e.type = "deauthorized"
          /\ Proceed(s, [step |-> "clear", id |-> e.id, event |-> e])
    /\ UNCHANGED <<kind, row, service>>

-----------------------------------------------------------------------------
(* Requests that look at the object or give it up: getConnectStatus,       *)
(* deprovisionSmsNumber.                                                   *)

LookUp(s) ==
  /\ row.id # None
  /\ \/ kind = "account" /\ Begin(s, [step |-> "poll", id |-> row.id, onboarded |-> row.onboarded])
     \/ kind = "number"  /\ Begin(s, [step |-> "remove", id |-> row.id])
  /\ UNCHANGED <<kind, row, service, events, doubt>>

(* An account that cannot be retrieved is taken for deleted.               *)
Poll(s) ==
  /\ req[s].step = "poll"
  /\ LET o == req[s].id IN
       \/ Exists(o) /\ (o \in ready) = req[s].onboarded /\ End(s) /\ UNCHANGED doubt
       \/ Exists(o) /\ (o \in ready) # req[s].onboarded /\ UNCHANGED doubt
          /\ Proceed(s, [step |-> "sync", id |-> o, onboarded |-> o \in ready, event |-> None])
       \/ /\ Proceed(s, [step |-> "clear", id |-> o, event |-> None])
          /\ Doubted(IF Exists(o) THEN {"blind"} ELSE {})
  /\ UNCHANGED <<kind, row, service, events>>

(* The id is written with the flag, whatever the column holds by now.      *)
Sync(s) ==
  /\ req[s].step = "sync"
  /\ row' = [row EXCEPT !.id = req[s].id, !.onboarded = req[s].onboarded]
  /\ Doubted(Overlap(s))
  /\ End(s)
  /\ UNCHANGED <<kind, service, events>>

(* A number that is gone already is given up all the same.                 *)
Remove(s) ==
  /\ req[s].step = "remove"
  /\ remote' = [remote EXCEPT ![req[s].id] = "gone"]
  /\ Proceed(s, [step |-> "clear", id |-> req[s].id, event |-> None])
  /\ UNCHANGED <<kind, row, ready, open, sub, events, doubt>>

Clear(s) ==
  /\ req[s].step = "clear"
  /\ row' = [row EXCEPT !.id = None, !.onboarded = FALSE]
  /\ Doubted(Overlap(s))
  /\ End(s)
  /\ UNCHANGED <<kind, service, events>>

(* The event of a request that is stopped, if it has one.                  *)
Unanswered(r) ==
  IF r.step \in {"sync", "clear", "settle"} /\ r.event # None THEN <<r.event>> ELSE <<>>

(* A call fails or the process dies; Stripe sends an event again that was  *)
(* not answered, behind those on their way.                                *)
Stops(s) ==
  /\ req[s] # Idle
  /\ Emit(Unanswered(req[s]))
  /\ Doubted(IF req[s].step \in {"attach", "persist"} THEN {"cut"}
             ELSE IF Unanswered(req[s]) # <<>> /\ events # <<>> THEN {"reorder"} ELSE {})
  /\ End(s)
  /\ UNCHANGED <<kind, row, service>>

Next ==
  \/ \E s \in Slots : Ask(s) \/ Verify(s) \/ CreateRemote(s) \/ Attach(s) \/ Persist(s)
  \/ \E s \in Slots : OpenSession(s) \/ SubscriptionEvent(s) \/ SessionEvent(s) \/ Settle(s)
  \/ \E s \in Slots : AccountEvent(s) \/ LookUp(s) \/ Poll(s) \/ Sync(s) \/ Remove(s) \/ Clear(s)
  \/ \E s \in Slots : Stops(s)
  \/ CompleteSession \/ SubChanges \/ AccountChanges \/ RemoteGoes

Spec == Init /\ [][Next]_vars

-----------------------------------------------------------------------------
Quiet == events = <<>> /\ \A s \in Slots : req[s] = Idle

(* Whatever exists at a service is in the row or in the hands of a request *)
(* that will write it: no customer, account or number is paid for and      *)
(* forgotten, unless requests overlapped, one stopped halfway or the       *)
(* service did not answer.  Events in any order never cause it.            *)
RemoteIsKept ==
  \A o \in Objs :
    /\ Exists(o)
    /\ doubt \cap {"overlap", "cut", "blind"} = {}
    => \/ row.id = o
       \/ \E s \in Slots : req[s].step \in {"attach", "persist", "remove"} /\ req[s].id = o

(* Once all events are in, the plan the gates read is the one Stripe bills:*)
(* nobody pays without access or has access without paying.  The same for  *)
(* an account and its readiness for payouts.                               *)
RowIsSettled ==
  /\ Quiet
  /\ doubt \subseteq {"cut"}
  => /\ row.status = "active" <=> Paying # {}
     /\ row.id # None /\ Exists(row.id) => (row.onboarded <=> row.id \in ready)

(* A landlord is billed by one subscription: checkout is refused to who has *)
(* a plan, and nothing but the doubts above makes the row forget it.       *)
OneSubscription ==
  doubt \subseteq {"cut"} => \A x, y \in Billed : x = y
===============================================================================
