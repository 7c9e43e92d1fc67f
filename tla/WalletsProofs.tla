----------------------------- MODULE WalletsProofs -----------------------------
(***************************************************************************)
(* Proofs about Integrations and Wallets together, for any number of       *)
(* objects, subscriptions, banks, cards, requests and events.              *)
(*                                                                         *)
(* RemoteIsKept needs that a row about to be given an id holds none that   *)
(* exists, and that what a request has read of the row is still there      *)
(* while nobody wrote beside it (KeptInv), which rests on ids never being  *)
(* shared (IdsInv).  RowIsSettled and OneSubscription need, of the events  *)
(* on their way, that the last change among them says what Stripe says     *)
(* (PlanInv, AccountInv).  The topics of Wallets need what a list has read *)
(* so far (ListInv) and what a save or a sync has found out (CardInv,      *)
(* UnitInv).                                                               *)
(***************************************************************************)
EXTENDS Wallets, SequenceTheorems, FiniteSetTheorems, TLAPS

-----------------------------------------------------------------------------
(* What each topic has nothing to do with, whatever happens.               *)

SubTypes  == {"updated", "deleted", "failed", "completed"}
BankPurposes == {"connect", "list", "amounts", "remove"}
CardSteps == {"row", "customer", "subscription", "answer"}
UnitSteps == {"count", "find", "write"}

Held(s) == req[s].step \in {"sync", "clear", "settle"} /\ req[s].event # None

Sound(e) ==
  /\ e.type \in SubTypes => kind = "customer" /\ sub[e.sub] # None
  /\ e.type \in {"updated", "failed", "completed"} => e.status # "canceled"
  /\ e.type = "deleted" => e.status = "canceled"
  /\ e.type = "failed"  => e.status = "past_due"
  /\ e.type = "account" => kind = "account" /\ remote[e.id] \in {"live", "gone"}
  /\ e.type = "deauthorized" => kind = "account" /\ remote[e.id] = "gone"

EventsInv ==
  /\ \A i \in DOMAIN events : Sound(events[i])
  /\ \A s \in Slots : Held(s) => Sound(req[s].event)
  /\ \A s \in Slots :
       /\ req[s].step = "settle" => req[s].event.type = "completed" /\ req[s].event.sub = req[s].sub
       /\ req[s].step = "sync" /\ req[s].event # None =>
            /\ req[s].event.type = "account" /\ req[s].event.id = req[s].id
            /\ req[s].event.ready <=> req[s].onboarded
       /\ req[s].step = "clear" /\ req[s].event # None =>
            req[s].event.type = "deauthorized" /\ req[s].event.id = req[s].id

(* What a request is about fits the topic.                                 *)
Fits(r) ==
  /\ r.step # "idle" => kind \in Services
  /\ r.step = "verify" => kind \in {"customer", "tenant"}
  /\ r.step \in {"attach", "remove"} => kind = "number"
  /\ r.step \in {"poll", "sync"} => kind = "account"
  /\ r.step = "clear" => kind \in {"account", "number"}
  /\ r.step = "settle" => kind = "customer"
  /\ r.step = "ready" => kind \in {"customer", "tenant"}
  /\ r.step \in {"verify", "create", "attach", "persist", "ready"} =>
       /\ kind = "tenant" <=> r.why \in BankPurposes
       /\ r.why = "checkout" => kind = "customer"
       /\ kind \in {"account", "number"} => r.why = "none"

TopicInv ==
  /\ \A s \in Slots : Fits(req[s])
  /\ open # {} => kind = "customer"
  /\ ready # {} => kind = "account"
  /\ row.onboarded => kind = "account"
  /\ \A x \in Subs : sub[x] # None => kind = "customer"
  /\ kind # "customer" => row.sub = None /\ row.status = None

-----------------------------------------------------------------------------
(* The ids.                                                                *)

Fresh(s) == req[s].step \in {"attach", "persist"}
Named(s) == req[s].step \in {"verify", "create", "attach", "persist", "ready", "poll",
                             "sync", "remove", "clear"}

IdInv(s) ==
  /\ req[s].step = "verify" => req[s].id # None
  /\ Named(s) /\ ~Fresh(s) /\ req[s].id # None => remote[req[s].id] \in {"live", "gone"}
  /\ req[s].step = "attach" => remote[req[s].id] = "made"
  /\ req[s].step = "persist" =>
       IF kind = "number" THEN remote[req[s].id] \in {"live", "gone"} ELSE remote[req[s].id] = "made"
  /\ Fresh(s) => req[s].id # row.id

IdsInv ==
  /\ row.id # None => remote[row.id] \in {"live", "gone"}
  /\ \A o \in ready : remote[o] = "live"
  /\ \A s \in Slots : IdInv(s)
  /\ \A s, r \in Slots : s # r /\ Fresh(s) /\ Named(r) => req[r].id # req[s].id

-----------------------------------------------------------------------------
(* What exists is in the row or in hand.  The row holds nothing that exists*)
(* while a request is about to replace its id, and what a request has read *)
(* of the row is still there.                                              *)

Trusted == doubt \cap {"overlap", "blind"} = {}

KeptInv ==
  /\ RemoteIsKept
  /\ Trusted =>
       \A s \in Slots :
         /\ req[s].step \in {"create", "attach", "persist"} => row.id = None \/ ~Exists(row.id)
         /\ req[s].step \in {"verify", "ready", "poll", "remove", "sync", "clear"} => req[s].id = row.id
         /\ req[s].step = "clear" => ~Exists(req[s].id)

-----------------------------------------------------------------------------
(* The plan.                                                               *)

Orderly == doubt \subseteq {"cut"}

Right(status) == (status = "active") <=> Paying # {}

Changing(e) == e.type \in {"updated", "deleted", "failed"}
NoChange(q) == \A i \in DOMAIN q : ~Changing(q[i])
LastChange(q, i) == \A j \in DOMAIN q : j > i => ~Changing(q[j])

(* The last change says what Stripe says, of the landlord's subscription;  *)
(* what is fetched for a session after it is right as well.                *)
Tells(q) ==
  \A i \in DOMAIN q : LastChange(q, i) =>
    /\ Changing(q[i]) => Right(q[i].status) /\ sub[q[i].sub].customer = row.id
    /\ q[i].type = "completed" => Right(sub[q[i].sub].status)

Stages == {"verify", "create", "persist", "ready"}

Standing ==
  /\ row.status = "active" => row.sub # None
  /\ \A session \in open : Exists(session[2])
  /\ \A x \in Billed : Exists(sub[x].customer)

OnePlan ==
  /\ \A x, y \in Billed : x = y
  /\ open # {} => Billed = {}
  /\ \A m, n \in open : m = n
  /\ \A session \in open : session[2] = row.id
  /\ \A x \in Billed : sub[x].customer = row.id

(* A checkout under way found no plan, and none has come since.            *)
Asking(s) == req[s].step \in Stages /\ req[s].why = "checkout"
Asked     == \A s \in Slots : Asking(s) /\ open = {} /\ events = <<>> => Billed = {}

Settling(s) == req[s].step = "settle" => Right(req[s].status) /\ Right(sub[req[s].sub].status)
Known == NoChange(events) => Right(row.status) /\ \A s \in Slots : Settling(s)

PlanInv == Standing /\ (Orderly => OnePlan /\ Asked /\ Tells(events) /\ Known)

-----------------------------------------------------------------------------
(* The account.                                                            *)

About(e, o)        == e.type = "account" /\ e.id = o
Silent(q, o)       == \A i \in DOMAIN q : ~About(q[i], o)
LastAbout(q, i, o) == \A j \in DOMAIN q : j > i => ~About(q[j], o)

TellsOf(q, o) ==
  \A i \in DOMAIN q : About(q[i], o) /\ LastAbout(q, i, o) => (q[i].ready <=> o \in ready)

(* With no word on its way, the row is right or about to be.               *)
ReadyKnown ==
  row.id # None /\ Exists(row.id) /\ Silent(events, row.id) =>
    /\ \A s \in Slots : req[s].step = "sync" => (req[s].onboarded <=> row.id \in ready)
    /\ \/ row.onboarded <=> row.id \in ready
       \/ \E s \in Slots : req[s].step = "sync" /\ req[s].event # None

AccountInv ==
  Orderly => (\A o \in Objs : remote[o] = "live" => TellsOf(events, o)) /\ ReadyKnown

-----------------------------------------------------------------------------
(* The banks, the card and the units.                                      *)

(* What a slot has to do goes with its request.                            *)
SlotFits(s) ==
  /\ job[s].step = "list" <=> req[s].step \in Stages /\ req[s].why = "list"
  /\ job[s].step = "list" /\ (job[s].held # None \/ job[s].pending # None) => req[s].step = "ready"
  /\ job[s].step = "verify" => req[s].step = "ready" /\ req[s].why = "amounts"
  /\ job[s].step = "detach" => req[s].step = "ready" /\ req[s].why = "remove"
  /\ job[s].step \in {"amounts", "remove", "verify", "detach"} => bank[job[s].bank] # None
  /\ job[s].step = "list" /\ job[s].held # None =>
       \A b \in job[s].held : bank[b] # None /\ bank[b].customer = req[s].id

PageFits ==
  /\ \A b \in Banks : listed[b] # "absent" => bank[b] # None
  /\ \A n \in DOMAIN setups : setups[n].bank # None =>
       bank[setups[n].bank] # None /\ bank[setups[n].bank].customer = setups[n].customer
  /\ \A b \in Banks : bank[b] # None =>
       \E n \in DOMAIN setups : setups[n].bank = b /\ setups[n].customer = bank[b].customer
  /\ dialog.step = "form" => setups # <<>> /\ setups[Len(setups)].bank = None

BankInv == PageFits /\ \A s \in Slots : SlotFits(s)

(* What a list has found no pending set-up for is not pending.             *)
ListFits(s) ==
  job[s].step = "list" /\ job[s].pending # None =>
    \A b \in Banks :
      /\ bank[b] # None /\ bank[b].state = "pending" /\ bank[b].customer = req[s].id
      /\ IF job[s].held = None THEN TRUE ELSE b \in job[s].held
      => b \in job[s].pending

ListInv ==
  /\ "window" \notin slip => \A c \in Objs : Cardinality(SetupsOf(c)) <= Window
  /\ slip \cap {"straddle", "window"} = {} =>
       /\ \A s \in Slots : ListFits(s)
       /\ \A b \in Banks : listed[b] = "verified" => bank[b].state # "pending"

CardInv ==
  slip = {} =>
    /\ \A s, r \in Slots : job[s].step \in CardSteps /\ job[r] # NoJob => s = r
    /\ \A s \in Slots : job[s].step \in CardSteps \ {"row"} => (job[s].subscribed <=> card.runs)
    /\ \A s \in Slots : job[s].step = "answer" /\ card.runs => card.own = job[s].card
    /\ card.said # None /\ card.runs /\ (\A s \in Slots : job[s].step \notin CardSteps)
       => card.own = card.said

UnitInv ==
  slip = {} =>
    /\ ~units.item => units.billed = 0
    /\ \A s, r \in Slots : job[s].step \in UnitSteps /\ job[r] # NoJob => s = r
    /\ \A s \in Slots : job[s].step \in {"find", "write"} => job[s].quantity = units.has
    /\ \A s \in Slots : job[s].step = "write" => (job[s].item <=> units.item)
    /\ (\A s \in Slots : job[s].step \notin UnitSteps) => units.billed = units.has

-----------------------------------------------------------------------------
(* What the operators give.                                                *)

LEMMA RequestFacts ==
  ASSUME NEW r \in Request
  PROVE  /\ r = Idle <=> r.step = "idle"
         /\ r.step \in {"verify", "create"} =>
              r \in [step : {"verify", "create"}, id : Objs \cup {None}, why : Purposes]
         /\ r.step \in {"attach", "persist", "ready"} =>
              r \in [step : {"attach", "persist", "ready"}, id : Objs, why : Purposes]
         /\ r.step = "poll" => r \in [step : {"poll"}, id : Objs, onboarded : BOOLEAN]
         /\ r.step = "sync" =>
              r \in [step : {"sync"}, id : Objs, onboarded : BOOLEAN, event : Event \cup {None}]
         /\ r.step = "remove" => r \in [step : {"remove"}, id : Objs]
         /\ r.step = "clear" => r \in [step : {"clear"}, id : Objs, event : Event \cup {None}]
         /\ r.step = "settle" =>
              r \in [step : {"settle"}, sub : Subs, status : SubStatus, event : Event]
         /\ r.step \in {"idle", "verify", "create", "attach", "persist", "ready", "poll", "sync",
                        "remove", "clear", "settle"}
<1>1. Idle.step = "idle"
  BY DEF Idle
<1>2. CASE r = Idle
  BY <1>1, <1>2
<1>3. CASE r \in [step : {"verify", "create"}, id : Objs \cup {None}, why : Purposes]
  BY <1>1, <1>3
<1>4. CASE r \in [step : {"attach", "persist", "ready"}, id : Objs, why : Purposes]
  BY <1>1, <1>4
<1>5. CASE r \in [step : {"poll"}, id : Objs, onboarded : BOOLEAN]
  BY <1>1, <1>5
<1>6. CASE r \in [step : {"sync"}, id : Objs, onboarded : BOOLEAN, event : Event \cup {None}]
  BY <1>1, <1>6
<1>7. CASE r \in [step : {"remove"}, id : Objs]
  BY <1>1, <1>7
<1>8. CASE r \in [step : {"clear"}, id : Objs, event : Event \cup {None}]
  BY <1>1, <1>8
<1>9. CASE r \in [step : {"settle"}, sub : Subs, status : SubStatus, event : Event]
  BY <1>1, <1>9
<1> QED  BY <1>2, <1>3, <1>4, <1>5, <1>6, <1>7, <1>8, <1>9 DEF Request

LEMMA EventFacts ==
  ASSUME NEW e \in Event
  PROVE  /\ e # None
         /\ e.type \in {"updated", "deleted", "completed", "failed"} =>
              e.sub \in Subs /\ e.status \in SubStatus
         /\ e.type \in {"account", "deauthorized"} => e.id \in Objs
         /\ e.type = "account" => e.ready \in BOOLEAN
         /\ e.type \in {"updated", "deleted", "completed", "failed", "account", "deauthorized"}
<1>1. CASE e \in [type : {"updated", "deleted", "completed", "failed"}, sub : Subs,
                  status : SubStatus]
  BY <1>1, NoneAssumption
<1>2. CASE e \in [type : {"account"}, id : Objs, ready : BOOLEAN]
  BY <1>2, NoneAssumption
<1>3. CASE e \in [type : {"deauthorized"}, id : Objs]
  BY <1>3, NoneAssumption
<1> QED  BY <1>1, <1>2, <1>3 DEF Event

LEMMA SubEventType ==
  ASSUME NEW type \in SubTypes, NEW x \in Subs, NEW status \in SubStatus
  PROVE  SubEvent(type, x, status) \in Event
  BY DEF SubEvent, Event, SubTypes

(* A slot takes up another request, or none.                               *)
LEMMA SlotBecomes ==
  ASSUME TypeOK, NEW s \in Slots, NEW r \in Request, req' = [req EXCEPT ![s] = r]
  PROVE  /\ req' \in [Slots -> Request]
         /\ req'[s] = r
         /\ \A t \in Slots \ {s} : req'[t] = req[t]
  BY DEF TypeOK

LEMMA DoubtedFacts ==
  ASSUME TypeOK, NEW why \in SUBSET Doubts, Doubted(why)
  PROVE  doubt' \in SUBSET Doubts /\ doubt' = doubt \cup why
  BY DEF TypeOK, Doubted

LEMMA OverlapFacts ==
  ASSUME TypeOK, NEW s \in Slots
  PROVE  /\ Overlap(s) \in SUBSET Doubts
         /\ "overlap" \notin Overlap(s) => \A t \in Slots \ {s} : req[t].step = "idle"
  BY RequestFacts DEF Overlap, Doubts, TypeOK

LEMMA ArrivesFacts ==
  ASSUME TypeOK, NEW i \in 1 .. Len(events), NEW s \in Slots, NEW again \in BOOLEAN,
         Arrives(i, s, again)
  PROVE  /\ events' \in Seq(Event) /\ Len(events') <= MaxEvents
         /\ again => events' = events
         /\ ~again => Len(events') = Len(events) - 1
         /\ ~again => \A j \in DOMAIN events' :
                        j \in DOMAIN events /\ j + 1 \in DOMAIN events /\
                        events'[j] = IF j < i THEN events[j] ELSE events[j + 1]
         /\ \A j \in DOMAIN events' : \E k \in DOMAIN events : events'[j] = events[k]
         /\ req[s].step = "idle"
         /\ doubt' \in SUBSET Doubts /\ doubt \subseteq doubt'
         /\ "overlap" \notin doubt' => \A t \in Slots \ {s} : req[t].step = "idle"
         /\ "reorder" \notin doubt' => i = 1
<1>1. events \in Seq(Event) /\ Len(events) \in Nat /\ Len(events) <= MaxEvents
      /\ DOMAIN events = 1 .. Len(events) /\ \A j \in DOMAIN events : events[j] \in Event
  BY LenProperties, ElementOfSeq DEF TypeOK
<1>2. req[s].step = "idle"
  BY RequestFacts DEF Arrives, TypeOK
<1>3. /\ doubt' \in SUBSET Doubts /\ doubt \subseteq doubt'
      /\ "overlap" \notin doubt' => \A t \in Slots \ {s} : req[t].step = "idle"
      /\ "reorder" \notin doubt' => i = 1
  <2>1. PICK why \in SUBSET Doubts :
          /\ why = (IF i > 1 THEN {"reorder"} ELSE {}) \cup Overlap(s)
          /\ Doubted(why)
    BY OverlapFacts DEF Arrives, Doubts
  <2>2. doubt' = doubt \cup why /\ doubt' \in SUBSET Doubts
    BY <2>1, DoubtedFacts
  <2> QED  BY <2>1, <2>2, OverlapFacts
<1>4. CASE again
  BY <1>1, <1>2, <1>3, <1>4 DEF Arrives
<1>5. CASE ~again
  <2> DEFINE before == SubSeq(events, 1, i - 1)
             after  == SubSeq(events, i + 1, Len(events))
  <2>1. /\ before \in Seq(Event) /\ Len(before) = i - 1
        /\ \A j \in 1 .. i - 1 : before[j] = events[j]
    BY <1>1, SubSeqProperties
  <2>2. /\ after \in Seq(Event) /\ Len(after) = Len(events) - i
        /\ \A j \in 1 .. Len(events) - i : after[j] = events[i + j]
    <3>1. i + 1 \in Int /\ Len(events) \in Int /\ \A j \in (i + 1) .. Len(events) : events[j] \in Event
      BY <1>1
    <3>2. /\ after \in Seq(Event)
          /\ Len(after) = IF i + 1 <= Len(events) THEN Len(events) - (i + 1) + 1 ELSE 0
          /\ \A j \in 1 .. Len(events) - (i + 1) + 1 : after[j] = events[(i + 1) + j - 1]
      BY <3>1, SubSeqProperties
    <3> HIDE DEF after
    <3>3. ASSUME NEW j \in 1 .. Len(events) - i  PROVE after[j] = events[i + j]
      <4>1. j \in 1 .. Len(events) - (i + 1) + 1 /\ (i + 1) + j - 1 = i + j
        BY <1>1
      <4> QED  BY <3>2, <4>1
    <3>4. Len(after) = Len(events) - i
      <4>1. Len(after) = IF i + 1 <= Len(events) THEN Len(events) - (i + 1) + 1 ELSE 0
        BY <3>2
      <4>2. i \in Nat /\ i <= Len(events) /\ Len(events) \in Nat
        BY <1>1
      <4>3. CASE i + 1 <= Len(events)
        BY <4>1, <4>2, <4>3
      <4>4. CASE ~(i + 1 <= Len(events))
        BY <4>1, <4>2, <4>4
      <4> QED  BY <4>3, <4>4
    <3> QED  BY <3>2, <3>3, <3>4
  <2>3. events' = before \o after
    BY <1>5 DEF Arrives
  <2> HIDE DEF before, after
  <2>4. /\ events' \in Seq(Event) /\ Len(events') = Len(events) - 1
        /\ DOMAIN events' = 1 .. Len(events) - 1
        /\ \A j \in 1 .. Len(events) - 1 : events'[j] = IF j <= i - 1 THEN before[j] ELSE after[j - (i - 1)]
    <3>1. /\ before \o after \in Seq(Event) /\ Len(before \o after) = Len(before) + Len(after)
          /\ \A j \in 1 .. Len(before) + Len(after) :
               (before \o after)[j] = IF j <= Len(before) THEN before[j] ELSE after[j - Len(before)]
      BY <2>1, <2>2, ConcatProperties
    <3>2. Len(before) + Len(after) = Len(events) - 1
      <4>1. Len(before) = i - 1 /\ Len(after) = Len(events) - i
        BY <2>1, <2>2
      <4> QED  BY <1>1, <4>1
    <3>3. DOMAIN events' = 1 .. Len(events')
      BY <2>3, <3>1, LenProperties
    <3> QED  BY <2>1, <2>3, <3>1, <3>2, <3>3
  <2>5. \A j \in 1 .. Len(events) - 1 : events'[j] = IF j < i THEN events[j] ELSE events[j + 1]
    <3> SUFFICES ASSUME NEW j \in 1 .. Len(events) - 1
                 PROVE  events'[j] = IF j < i THEN events[j] ELSE events[j + 1]
      OBVIOUS
    <3>1. CASE j < i
      BY <1>1, <2>1, <2>4, <3>1
    <3>2. CASE ~(j < i)
      <4>1. j - (i - 1) \in 1 .. Len(events) - i /\ i + (j - (i - 1)) = j + 1
        BY <1>1, <3>2
      <4>2. events'[j] = after[j - (i - 1)]
        BY <1>1, <2>4, <3>2
      <4> QED  BY <2>2, <3>2, <4>1, <4>2
    <3> QED  BY <3>1, <3>2
  <2>6. Len(events') <= MaxEvents
    BY <1>1, <2>4, BoundAssumption
  <2>7. ASSUME NEW j \in DOMAIN events'
        PROVE  /\ j \in DOMAIN events /\ j + 1 \in DOMAIN events
               /\ events'[j] = IF j < i THEN events[j] ELSE events[j + 1]
    BY <1>1, <2>4, <2>5
  <2>8. \A j \in DOMAIN events' : \E k \in DOMAIN events : events'[j] = events[k]
    BY <2>7
  <2> QED  BY <1>2, <1>3, <1>5, <2>4, <2>6, <2>7, <2>8
<1> QED  BY <1>4, <1>5

LEMMA EmitFacts ==
  ASSUME TypeOK, NEW new \in Seq(Event), Emit(new)
  PROVE  /\ events' \in Seq(Event) /\ Len(events') <= MaxEvents
         /\ DOMAIN events' = 1 .. Len(events) + Len(new)
         /\ DOMAIN events = 1 .. Len(events) /\ Len(events) \in Nat
         /\ \A i \in DOMAIN events : events'[i] = events[i]
         /\ \A i \in 1 .. Len(new) : new[i] \in Event /\ events'[Len(events) + i] = new[i]
         /\ \A i \in DOMAIN events' :
              i \in DOMAIN events \/ \E j \in 1 .. Len(new) : i = Len(events) + j
<1>1. events \in Seq(Event) /\ events' = events \o new
  BY DEF TypeOK, Emit
<1>2. Len(events) \in Nat /\ Len(new) \in Nat /\ DOMAIN events = 1 .. Len(events)
      /\ Len(events) + Len(new) <= MaxEvents
  BY <1>1, LenProperties DEF Emit
<1>3. /\ events' \in Seq(Event) /\ Len(events') = Len(events) + Len(new)
      /\ \A i \in 1 .. Len(events) + Len(new) :
           events'[i] = IF i <= Len(events) THEN events[i] ELSE new[i - Len(events)]
  BY <1>1, ConcatProperties
<1>4. DOMAIN events' = 1 .. Len(events) + Len(new)
  BY <1>3, LenProperties
<1>5. ASSUME NEW i \in 1 .. Len(new)
      PROVE  new[i] \in Event /\ events'[Len(events) + i] = new[i]
  <2>1. Len(events) + i \in 1 .. Len(events) + Len(new) /\ ~(Len(events) + i <= Len(events))
        /\ (Len(events) + i) - Len(events) = i
    BY <1>2
  <2> QED  BY <1>3, <2>1, ElementOfSeq
<1>6. ASSUME NEW i \in DOMAIN events', i \notin DOMAIN events
      PROVE  \E j \in 1 .. Len(new) : i = Len(events) + j
  <2>1. i - Len(events) \in 1 .. Len(new) /\ i = Len(events) + (i - Len(events))
    BY <1>2, <1>4, <1>6
  <2> QED  BY <2>1
<1> QED  BY <1>2, <1>3, <1>4, <1>5, <1>6

-----------------------------------------------------------------------------
(* The steps of Integrations, whichever topic takes them.                  *)

Requests(s) ==
  \E why \in Purposes :
    /\ kind \in Services
    /\ kind = "tenant" <=> why \in BankPurposes
    /\ why = "checkout" => kind = "customer" /\ ~(row.sub # None /\ row.status = "active")
    /\ Asks(s, why)

Leaves(s) ==
  /\ kind = "tenant"
  /\ req[s].step = "ready"
  /\ End(s)
  /\ UNCHANGED <<kind, row, service, events, doubt>>

CoreNext ==
  \/ \E s \in Slots : Requests(s) \/ Verify(s) \/ CreateRemote(s) \/ Attach(s) \/ Persist(s)
  \/ \E s \in Slots : OpenSession(s) \/ SubscriptionEvent(s) \/ SessionEvent(s) \/ Settle(s)
  \/ \E s \in Slots : AccountEvent(s) \/ LookUp(s) \/ Poll(s) \/ Sync(s) \/ Remove(s) \/ Clear(s)
  \/ \E s \in Slots : Stops(s) \/ Leaves(s)
  \/ CompleteSession \/ SubChanges \/ AccountChanges \/ RemoteGoes
  \/ UNCHANGED vars

-----------------------------------------------------------------------------
(* Types.                                                                  *)

LEMMA IdleType == Idle \in Request
  BY DEF Request

LEMMA RequestsType ==
  ASSUME TypeOK, IdsInv, NEW s \in Slots,
         \/ Requests(s) \/ Verify(s) \/ CreateRemote(s) \/ Attach(s) \/ Persist(s) \/ OpenSession(s)
  PROVE  TypeOK'
<1>0. req[s] \in Request /\ row \in Row /\ row.id \in Objs \cup {None}
  BY DEF TypeOK, Row
<1>1. CASE Requests(s)
  <2>1. PICK why \in Purposes : Asks(s, why)
    BY <1>1 DEF Requests
  <2>2. [step |-> IF row.id = None THEN "create" ELSE "verify", id |-> row.id, why |-> why] \in Request
    BY <1>0 DEF Request
  <2>3. req' \in [Slots -> Request]
    BY <2>1, <2>2, SlotBecomes DEF Asks, Begin
  <2>4. doubt' \in SUBSET Doubts
    BY <2>1, DoubtedFacts DEF Asks, Twice, Doubts
  <2> QED  BY <2>1, <2>3, <2>4 DEF Asks, service, TypeOK
<1>2. CASE Verify(s)
  <2>1. /\ req[s] \in [step : {"verify", "create"}, id : Objs \cup {None}, why : Purposes]
        /\ req[s].id \in Objs
    BY <1>0, <1>2, RequestFacts DEF Verify, IdsInv, IdInv
  <2>2. [req[s] EXCEPT !.step = "ready"] \in Request /\ [req[s] EXCEPT !.step = "create"] \in Request
    BY <2>1 DEF Request
  <2>3. req' \in [Slots -> Request]
    BY <1>2, <2>2, SlotBecomes, IdleType DEF Verify, Proceed, End
  <2>4. doubt' \in SUBSET Doubts
    BY <1>2, DoubtedFacts DEF Verify, Doubts, TypeOK
  <2> QED  BY <1>2, <2>3, <2>4 DEF Verify, service, TypeOK
<1>3. CASE CreateRemote(s)
  <2>1. req[s] \in [step : {"verify", "create"}, id : Objs \cup {None}, why : Purposes]
    BY <1>0, <1>3, RequestFacts DEF CreateRemote
  <2>2. PICK o \in Objs :
          /\ remote' = [remote EXCEPT ![o] = "made"]
          /\ Proceed(s, [req[s] EXCEPT !.id = o,
                                       !.step = IF kind = "number" THEN "attach" ELSE "persist"])
    BY <1>3 DEF CreateRemote
  <2>3. [req[s] EXCEPT !.id = o, !.step = IF kind = "number" THEN "attach" ELSE "persist"] \in Request
    BY <2>1 DEF Request
  <2>4. req' \in [Slots -> Request]
    BY <2>2, <2>3, SlotBecomes DEF Proceed
  <2>5. remote' \in [Objs -> RemoteStatus]
    BY <2>2 DEF TypeOK, RemoteStatus
  <2> QED  BY <1>3, <2>4, <2>5 DEF CreateRemote, TypeOK
<1>4. CASE Attach(s)
  <2>1. req[s] \in [step : {"attach", "persist", "ready"}, id : Objs, why : Purposes]
    BY <1>0, <1>4, RequestFacts DEF Attach
  <2>2. [req[s] EXCEPT !.step = "persist"] \in Request
    BY <2>1 DEF Request
  <2>3. req' \in [Slots -> Request]
    BY <1>4, <2>2, SlotBecomes, IdleType DEF Attach, Proceed, End
  <2>4. remote' \in [Objs -> RemoteStatus]
    BY <1>4 DEF Attach, TypeOK, RemoteStatus
  <2>5. doubt' \in SUBSET Doubts
    BY <1>4, DoubtedFacts DEF Attach, Doubts, TypeOK
  <2> QED  BY <1>4, <2>3, <2>4, <2>5 DEF Attach, TypeOK
<1>5. CASE Persist(s)
  <2>1. req[s] \in [step : {"attach", "persist", "ready"}, id : Objs, why : Purposes]
    BY <1>0, <1>5, RequestFacts DEF Persist
  <2>2. [req[s] EXCEPT !.step = "ready"] \in Request
    BY <2>1 DEF Request
  <2>3. req' \in [Slots -> Request]
    BY <1>5, <2>2, SlotBecomes, IdleType DEF Persist, Proceed, End
  <2>4. remote' \in [Objs -> RemoteStatus]
    BY <1>5 DEF Persist, TypeOK, RemoteStatus
  <2>5. doubt' \in SUBSET Doubts
    <3>1. PICK why \in SUBSET Doubts : Doubted(why)
      BY <1>5, OverlapFacts DEF Persist, Doubts
    <3> QED  BY <3>1, DoubtedFacts
  <2>6. row' \in Row
    BY <1>0, <1>5, <2>1 DEF Persist, Row
  <2> QED  BY <1>5, <2>3, <2>4, <2>5, <2>6 DEF Persist, TypeOK
<1>6. CASE OpenSession(s)
  <2>1. req[s].id \in Objs
    BY <1>0, <1>6, RequestFacts DEF OpenSession
  <2>2. req' \in [Slots -> Request]
    BY <1>6, SlotBecomes, IdleType DEF OpenSession, End
  <2>3. open' \in SUBSET (Slots \X Objs)
    BY <1>6, <2>1 DEF OpenSession, TypeOK
  <2>4. doubt' \in SUBSET Doubts
    BY <1>6, DoubtedFacts DEF OpenSession, Twice, Doubts
  <2> QED  BY <1>6, <2>2, <2>3, <2>4 DEF OpenSession, TypeOK
<1> QED  BY <1>1, <1>2, <1>3, <1>4, <1>5, <1>6

LEMMA EventsType ==
  ASSUME TypeOK, EventsInv, NEW s \in Slots,
         SubscriptionEvent(s) \/ SessionEvent(s) \/ Settle(s) \/ AccountEvent(s)
  PROVE  TypeOK'
<1>0. req[s] \in Request /\ row \in Row /\ \A i \in 1 .. Len(events) : events[i] \in Event
  BY ElementOfSeq DEF TypeOK
<1>1. CASE SubscriptionEvent(s)
  <2>1. PICK i \in 1 .. Len(events), again \in BOOLEAN :
          /\ events[i].type \in {"updated", "deleted", "failed"}
          /\ Arrives(i, s, again)
          /\ row' = IF OfLandlord(events[i].sub)
                    THEN Settled(events[i].type, events[i].sub, events[i].status) ELSE row
    BY <1>1 DEF SubscriptionEvent
  <2>2. events[i].sub \in Subs /\ events[i].status \in SubStatus
    BY <1>0, <2>1, EventFacts
  <2>3. row' \in Row
    BY <1>0, <2>1, <2>2 DEF Settled, Row, SubStatus
  <2>4. /\ events' \in Seq(Event) /\ Len(events') <= MaxEvents /\ doubt' \in SUBSET Doubts
    BY <2>1, ArrivesFacts
  <2> QED  BY <1>1, <2>3, <2>4 DEF SubscriptionEvent, service, TypeOK
<1>2. CASE SessionEvent(s)
  <2>1. PICK i \in 1 .. Len(events), again \in BOOLEAN :
          /\ events[i].type = "completed"
          /\ Arrives(i, s, again)
          /\ IF OfLandlord(events[i].sub)
             THEN Proceed(s, [step |-> "settle", sub |-> events[i].sub,
                              status |-> sub[events[i].sub].status, event |-> events[i]])
             ELSE UNCHANGED req
    BY <1>2 DEF SessionEvent
  <2>2. i \in DOMAIN events
    BY LenProperties DEF TypeOK
  <2>3. events[i].sub \in Subs /\ sub[events[i].sub] # None
    BY <1>0, <2>1, <2>2, EventFacts DEF EventsInv, Sound, SubTypes
  <2>4. sub[events[i].sub].status \in SubStatus
    BY <2>3 DEF TypeOK, Subscription
  <2>5. [step |-> "settle", sub |-> events[i].sub, status |-> sub[events[i].sub].status,
         event |-> events[i]] \in Request
    BY <1>0, <2>3, <2>4 DEF Request
  <2>6. req' \in [Slots -> Request]
    BY <2>1, <2>5, SlotBecomes DEF Proceed, TypeOK
  <2>7. /\ events' \in Seq(Event) /\ Len(events') <= MaxEvents /\ doubt' \in SUBSET Doubts
    BY <2>1, ArrivesFacts
  <2> QED  BY <1>2, <2>6, <2>7 DEF SessionEvent, service, TypeOK
<1>3. CASE Settle(s)
  <2>1. req[s].sub \in Subs /\ req[s].status \in SubStatus
    BY <1>0, <1>3, RequestFacts DEF Settle
  <2>2. row' \in Row
    BY <1>0, <1>3, <2>1 DEF Settle, Settled, Row
  <2>3. req' \in [Slots -> Request]
    BY <1>3, SlotBecomes, IdleType DEF Settle, End
  <2>4. doubt' \in SUBSET Doubts
    BY <1>3, OverlapFacts, DoubtedFacts DEF Settle
  <2> QED  BY <1>3, <2>2, <2>3, <2>4 DEF Settle, service, TypeOK
<1>4. CASE AccountEvent(s)
  <2>1. PICK i \in 1 .. Len(events), again \in BOOLEAN :
          /\ events[i].type \in {"account", "deauthorized"}
          /\ Arrives(i, s, again)
          /\ \/ UNCHANGED req
             \/ /\ events[i].type = "account"
                /\ Proceed(s, [step |-> "sync", id |-> events[i].id, onboarded |-> events[i].ready,
                               event |-> events[i]])
             \/ Proceed(s, [step |-> "clear", id |-> events[i].id, event |-> events[i]])
    <3>1. PICK i \in 1 .. Len(events), again \in BOOLEAN :
            LET e == events[i] IN
            /\ e.type \in {"account", "deauthorized"}
            /\ Arrives(i, s, again)
            /\ \/ e.id # row.id /\ UNCHANGED req
               \/ /\ e.id = row.id /\ e.type = "account"
                  /\ IF e.ready = row.onboarded
                     THEN UNCHANGED req
                     ELSE Proceed(s, [step |-> "sync", id |-> e.id, onboarded |-> e.ready, event |-> e])
               \/ /\ e.id = row.id /\ e.type = "deauthorized"
                  /\ Proceed(s, [step |-> "clear", id |-> e.id, event |-> e])
      BY <1>4 DEF AccountEvent
    <3> QED  BY <3>1
  <2>2. events[i] \in Event /\ events[i].id \in Objs
        /\ (events[i].type = "account" => events[i].ready \in BOOLEAN)
    BY <1>0, <2>1, EventFacts
  <2>3. events[i].type = "account" =>
          [step |-> "sync", id |-> events[i].id, onboarded |-> events[i].ready,
           event |-> events[i]] \in Request
    BY <2>2 DEF Request
  <2>4. [step |-> "clear", id |-> events[i].id, event |-> events[i]] \in Request
    BY <2>2 DEF Request
  <2>5. req' \in [Slots -> Request]
    BY <2>1, <2>3, <2>4, SlotBecomes DEF Proceed, TypeOK
  <2>6. /\ events' \in Seq(Event) /\ Len(events') <= MaxEvents /\ doubt' \in SUBSET Doubts
    BY <2>1, ArrivesFacts
  <2> QED  BY <1>4, <2>5, <2>6 DEF AccountEvent, service, TypeOK
<1> QED  BY <1>1, <1>2, <1>3, <1>4

(* A request that is stopped leaves its event, if it has one, behind the   *)
(* others.                                                                 *)
LEMMA StopsFacts ==
  ASSUME TypeOK, EventsInv, NEW s \in Slots, Stops(s)
  PROVE  /\ events' \in Seq(Event) /\ Len(events') <= MaxEvents
         /\ ~Held(s) => events' = events
         /\ Held(s) =>
              /\ DOMAIN events' = 1 .. Len(events) + 1
              /\ DOMAIN events = 1 .. Len(events) /\ Len(events) \in Nat
              /\ \A i \in DOMAIN events : events'[i] = events[i]
              /\ events'[Len(events) + 1] = req[s].event
              /\ "reorder" \notin doubt' => events = <<>>
         /\ \A i \in DOMAIN events' :
              (\E k \in DOMAIN events : events'[i] = events[k]) \/ (Held(s) /\ events'[i] = req[s].event)
         /\ \A k \in DOMAIN events : \E i \in DOMAIN events' : events'[i] = events[k]
         /\ doubt' \in SUBSET Doubts /\ doubt \subseteq doubt'
         /\ "cut" \notin doubt' => req[s].step \notin {"attach", "persist"}
         /\ req' \in [Slots -> Request] /\ req'[s].step = "idle"
         /\ \A t \in Slots \ {s} : req'[t] = req[t]
<1>1. req[s] \in Request /\ events \in Seq(Event) /\ Len(events) <= MaxEvents /\ doubt \in SUBSET Doubts
  BY DEF TypeOK
<1>2. /\ req' \in [Slots -> Request] /\ req'[s].step = "idle"
      /\ \A t \in Slots \ {s} : req'[t] = req[t]
  BY SlotBecomes, IdleType, RequestFacts DEF Stops, End
<1>3. PICK why \in SUBSET Doubts :
        /\ Doubted(why)
        /\ why = IF req[s].step \in {"attach", "persist"} THEN {"cut"}
                 ELSE IF Unanswered(req[s]) # <<>> /\ events # <<>> THEN {"reorder"} ELSE {}
  BY DEF Stops, Doubts
<1>4. doubt' \in SUBSET Doubts /\ doubt' = doubt \cup why
  BY <1>3, DoubtedFacts
<1>5. "cut" \notin doubt' => req[s].step \notin {"attach", "persist"}
  BY <1>3, <1>4
<1>6. CASE ~Held(s)
  <2>1. Unanswered(req[s]) = <<>>
    BY <1>6 DEF Held, Unanswered
  <2>2. events' = events
    BY <1>1, <2>1, ConcatEmptySeq DEF Stops, Emit
  <2> QED  BY <1>1, <1>2, <1>4, <1>5, <1>6, <2>2
<1>7. CASE Held(s)
  <2>1. Unanswered(req[s]) = <<req[s].event>> /\ req[s].event \in Event
    BY <1>1, <1>7, RequestFacts, EventFacts DEF Held, Unanswered
  <2> DEFINE new == <<req[s].event>>
  <2>2. new \in Seq(Event) /\ Len(new) = 1 /\ new # <<>> /\ new[1] = req[s].event
    BY <2>1
  <2>3. Emit(new) /\ Unanswered(req[s]) = new
    BY <2>1 DEF Stops
  <2> HIDE DEF new
  <2>4. /\ events' \in Seq(Event) /\ Len(events') <= MaxEvents
        /\ DOMAIN events' = 1 .. Len(events) + 1
        /\ DOMAIN events = 1 .. Len(events) /\ Len(events) \in Nat
        /\ \A i \in DOMAIN events : events'[i] = events[i]
        /\ events'[Len(events) + 1] = req[s].event
    BY <2>2, <2>3, EmitFacts
  <2>5. "reorder" \notin doubt' => events = <<>>
    BY <1>3, <1>4, <1>7, <2>1, <2>2 DEF Held
  <2>6. ASSUME NEW i \in DOMAIN events'
        PROVE  (\E k \in DOMAIN events : events'[i] = events[k]) \/ events'[i] = req[s].event
    BY <2>4
  <2>7. ASSUME NEW k \in DOMAIN events
        PROVE  \E i \in DOMAIN events' : events'[i] = events[k]
    BY <2>4
  <2> QED  BY <1>2, <1>4, <1>5, <1>7, <2>4, <2>5, <2>6, <2>7
<1> QED  BY <1>6, <1>7

LEMMA LooksType ==
  ASSUME TypeOK, EventsInv, NEW s \in Slots,
         LookUp(s) \/ Poll(s) \/ Sync(s) \/ Remove(s) \/ Clear(s) \/ Stops(s) \/ Leaves(s)
  PROVE  TypeOK'
<1>0. req[s] \in Request /\ row \in Row /\ row.id \in Objs \cup {None} /\ row.onboarded \in BOOLEAN
  BY DEF TypeOK, Row
<1>1. CASE LookUp(s)
  <2>1. PICK r : /\ req' = [req EXCEPT ![s] = r]
                 /\ r \in {[step |-> "poll", id |-> row.id, onboarded |-> row.onboarded],
                           [step |-> "remove", id |-> row.id]}
    BY <1>1 DEF LookUp, Begin
  <2>2. row.id \in Objs
    BY <1>0, <1>1 DEF LookUp
  <2>3. r \in Request
    BY <1>0, <2>1, <2>2 DEF Request
  <2>4. req' \in [Slots -> Request]
    BY <2>1, <2>3, SlotBecomes
  <2> QED  BY <1>1, <2>4 DEF LookUp, service, TypeOK
<1>2. CASE Poll(s)
  <2>1. req[s].id \in Objs
    BY <1>0, <1>2, RequestFacts DEF Poll
  <2>2. /\ [step |-> "sync", id |-> req[s].id, onboarded |-> req[s].id \in ready, event |-> None] \in Request
        /\ [step |-> "clear", id |-> req[s].id, event |-> None] \in Request
    BY <2>1 DEF Request
  <2>3. req' \in [Slots -> Request]
    BY <1>2, <2>2, SlotBecomes, IdleType DEF Poll, Proceed, End
  <2>4. doubt' \in SUBSET Doubts
    BY <1>2, DoubtedFacts DEF Poll, Doubts, TypeOK
  <2> QED  BY <1>2, <2>3, <2>4 DEF Poll, service, TypeOK
<1>3. CASE Sync(s)
  <2>1. req[s].id \in Objs /\ req[s].onboarded \in BOOLEAN
    BY <1>0, <1>3, RequestFacts DEF Sync
  <2>2. req' \in [Slots -> Request]
    BY <1>3, SlotBecomes, IdleType DEF Sync, End
  <2>3. row' \in Row
    BY <1>0, <1>3, <2>1 DEF Sync, Row
  <2>4. doubt' \in SUBSET Doubts
    BY <1>3, OverlapFacts, DoubtedFacts DEF Sync
  <2> QED  BY <1>3, <2>2, <2>3, <2>4 DEF Sync, service, TypeOK
<1>4. CASE Remove(s)
  <2>1. req[s].id \in Objs
    BY <1>0, <1>4, RequestFacts DEF Remove
  <2>2. [step |-> "clear", id |-> req[s].id, event |-> None] \in Request
    BY <2>1 DEF Request
  <2>3. req' \in [Slots -> Request]
    BY <1>4, <2>2, SlotBecomes DEF Remove, Proceed
  <2>4. remote' \in [Objs -> RemoteStatus]
    BY <1>4 DEF Remove, TypeOK, RemoteStatus
  <2> QED  BY <1>4, <2>3, <2>4 DEF Remove, TypeOK
<1>5. CASE Clear(s)
  <2>1. req' \in [Slots -> Request]
    BY <1>5, SlotBecomes, IdleType DEF Clear, End
  <2>2. row' \in Row
    BY <1>0, <1>5 DEF Clear, Row
  <2>3. doubt' \in SUBSET Doubts
    BY <1>5, OverlapFacts, DoubtedFacts DEF Clear
  <2> QED  BY <1>5, <2>1, <2>2, <2>3 DEF Clear, service, TypeOK
<1>6. CASE Stops(s)
  BY <1>6, StopsFacts DEF Stops, service, TypeOK
<1>7. CASE Leaves(s)
  <2>1. req' \in [Slots -> Request]
    BY <1>7, SlotBecomes, IdleType DEF Leaves, End
  <2> QED  BY <1>7, <2>1 DEF Leaves, service, TypeOK
<1> QED  BY <1>1, <1>2, <1>3, <1>4, <1>5, <1>6, <1>7

(* What a change of a subscription emits.                                  *)
LEMMA SubChangesFacts ==
  ASSUME TypeOK, SubChanges
  PROVE  \E x \in Billed, status \in SubStatus, new \in Seq(Event) :
           /\ x \in Subs /\ sub[x] # None /\ status # sub[x].status
           /\ sub' = [sub EXCEPT ![x].status = status]
           /\ Emit(new) /\ Len(new) \in {1, 2}
           /\ \A i \in 1 .. Len(new) :
                /\ new[i].type \in {"updated", "deleted", "failed"}
                /\ new[i].sub = x /\ new[i].status = status
                /\ new[i].type = "deleted" <=> status = "canceled"
                /\ new[i].type = "failed" => status = "past_due"
           /\ UNCHANGED <<kind, row, remote, ready, open, req, doubt>>
<1>1. PICK x \in Billed, status \in SubStatus :
        /\ status # sub[x].status
        /\ sub' = [sub EXCEPT ![x].status = status]
        /\ Emit(CASE status = "active"   -> <<SubEvent("updated", x, status)>>
                  [] status = "past_due" -> <<SubEvent("updated", x, status),
                                              SubEvent("failed", x, status)>>
                  [] status = "canceled" -> <<SubEvent("deleted", x, status)>>)
        /\ UNCHANGED <<kind, row, remote, ready, open, req, doubt>>
  BY DEF SubChanges
<1>2. x \in Subs /\ sub[x] # None
  BY DEF Billed
<1>3. \A type \in SubTypes : /\ SubEvent(type, x, status) \in Event
                             /\ SubEvent(type, x, status).type = type
                             /\ SubEvent(type, x, status).sub = x
                             /\ SubEvent(type, x, status).status = status
  BY <1>2, SubEventType DEF SubEvent
<1> DEFINE u == SubEvent("updated", x, status)
           f == SubEvent("failed", x, status)
           d == SubEvent("deleted", x, status)
<1>4. /\ u \in Event /\ u.type = "updated" /\ u.sub = x /\ u.status = status
      /\ f \in Event /\ f.type = "failed"  /\ f.sub = x /\ f.status = status
      /\ d \in Event /\ d.type = "deleted" /\ d.sub = x /\ d.status = status
  BY <1>3 DEF SubTypes
<1>5. /\ status = "active"   => Emit(<<u>>)
      /\ status = "past_due" => Emit(<<u, f>>)
      /\ status = "canceled" => Emit(<<d>>)
      /\ status \in {"active", "past_due", "canceled"}
  BY <1>1 DEF SubStatus
<1> HIDE DEF u, f, d
<1>6. CASE status = "active"
  <2>1. <<u>> \in Seq(Event) /\ Len(<<u>>) = 1 /\ <<u>>[1] = u
    BY <1>4
  <2>2. \A i \in 1 .. Len(<<u>>) : <<u>>[i] = u
    BY <2>1
  <2> QED  BY <1>1, <1>2, <1>4, <1>5, <1>6, <2>1, <2>2
<1>7. CASE status = "past_due"
  <2>1. <<u, f>> \in Seq(Event) /\ Len(<<u, f>>) = 2 /\ <<u, f>>[1] = u /\ <<u, f>>[2] = f
    BY <1>4
  <2>2. \A i \in 1 .. Len(<<u, f>>) : <<u, f>>[i] = u \/ <<u, f>>[i] = f
    BY <2>1
  <2> QED  BY <1>1, <1>2, <1>4, <1>5, <1>7, <2>1, <2>2
<1>8. CASE status = "canceled"
  <2>1. <<d>> \in Seq(Event) /\ Len(<<d>>) = 1 /\ <<d>>[1] = d
    BY <1>4
  <2>2. \A i \in 1 .. Len(<<d>>) : <<d>>[i] = d
    BY <2>1
  <2> QED  BY <1>1, <1>2, <1>4, <1>5, <1>8, <2>1, <2>2
<1> QED  BY <1>5, <1>6, <1>7, <1>8

LEMMA CompleteSessionFacts ==
  ASSUME TypeOK, CompleteSession
  PROVE  \E session \in open, x \in Subs, new \in Seq(Event) :
           /\ session[2] \in Objs /\ Exists(session[2])
           /\ sub[x] = None
           /\ sub' = [sub EXCEPT ![x] = [customer |-> session[2], status |-> "active"]]
           /\ open' = open \ {session}
           /\ Emit(new) /\ Len(new) = 2
           /\ new[1].type = "updated" /\ new[2].type = "completed"
           /\ \A i \in 1 .. 2 : new[i].sub = x /\ new[i].status = "active"
           /\ UNCHANGED <<kind, row, remote, ready, req, doubt>>
<1>1. PICK session \in open, x \in Subs :
        /\ Exists(session[2])
        /\ sub[x] = None
        /\ sub' = [sub EXCEPT ![x] = [customer |-> session[2], status |-> "active"]]
        /\ open' = open \ {session}
        /\ Emit(<<SubEvent("updated", x, "active"), SubEvent("completed", x, "active")>>)
        /\ UNCHANGED <<kind, row, remote, ready, req, doubt>>
  BY DEF CompleteSession
<1>2. session[2] \in Objs
  BY DEF TypeOK
<1> DEFINE u == SubEvent("updated", x, "active")
           c == SubEvent("completed", x, "active")
<1>3. /\ u \in Event /\ u.type = "updated" /\ u.sub = x /\ u.status = "active"
      /\ c \in Event /\ c.type = "completed" /\ c.sub = x /\ c.status = "active"
  BY SubEventType DEF SubEvent, SubTypes, SubStatus
<1>4. Emit(<<u, c>>)
  BY <1>1
<1> HIDE DEF u, c
<1>5. /\ <<u, c>> \in Seq(Event) /\ Len(<<u, c>>) = 2
      /\ <<u, c>>[1] = u /\ <<u, c>>[2] = c
  BY <1>3
<1>6. \A i \in 1 .. 2 : <<u, c>>[i].sub = x /\ <<u, c>>[i].status = "active"
  BY <1>3, <1>5
<1> QED  BY <1>1, <1>2, <1>3, <1>4, <1>5, <1>6

LEMMA AccountChangesFacts ==
  ASSUME TypeOK, AccountChanges
  PROVE  \E o \in Objs, new \in Seq(Event) :
           /\ kind = "account" /\ remote[o] = "live"
           /\ ready' = IF o \in ready THEN ready \ {o} ELSE ready \cup {o}
           /\ Emit(new) /\ Len(new) = 1
           /\ new[1].type = "account" /\ new[1].id = o /\ (new[1].ready <=> o \in ready')
           /\ UNCHANGED <<kind, row, remote, open, sub, req, doubt>>
<1>1. PICK o \in Objs :
        /\ kind = "account" /\ remote[o] = "live"
        /\ ready' = IF o \in ready THEN ready \ {o} ELSE ready \cup {o}
        /\ Emit(<<[type |-> "account", id |-> o, ready |-> o \notin ready]>>)
        /\ UNCHANGED <<kind, row, remote, open, sub, req, doubt>>
  BY DEF AccountChanges
<1> DEFINE e == [type |-> "account", id |-> o, ready |-> o \notin ready]
<1>2. e \in Event /\ e.type = "account" /\ e.id = o /\ (e.ready <=> o \notin ready)
  BY DEF Event
<1>3. Emit(<<e>>)
  BY <1>1
<1>4. o \notin ready <=> o \in ready'
  BY <1>1
<1> HIDE DEF e
<1>5. <<e>> \in Seq(Event) /\ Len(<<e>>) = 1 /\ <<e>>[1] = e
  BY <1>2
<1> QED  BY <1>1, <1>2, <1>3, <1>4, <1>5

LEMMA RemoteGoesFacts ==
  ASSUME TypeOK, RemoteGoes
  PROVE  \E o \in Objs, new \in Seq(Event) :
           /\ remote[o] = "live"
           /\ \A x \in Billed : sub[x].customer # o
           /\ remote' = [remote EXCEPT ![o] = "gone"]
           /\ open' = {session \in open : session[2] # o}
           /\ ready' = ready \ {o}
           /\ \/ kind = "account" /\ Emit(new) /\ Len(new) = 1
                 /\ new[1].type = "deauthorized" /\ new[1].id = o
              \/ kind # "account" /\ events' = events
           /\ UNCHANGED <<kind, row, sub, req, doubt>>
<1>1. PICK o \in Objs :
        /\ remote[o] = "live"
        /\ \A x \in Billed : sub[x].customer # o
        /\ remote' = [remote EXCEPT ![o] = "gone"]
        /\ open' = {session \in open : session[2] # o}
        /\ ready' = ready \ {o}
        /\ IF kind = "account" THEN Emit(<<[type |-> "deauthorized", id |-> o]>>)
                               ELSE UNCHANGED events
        /\ UNCHANGED <<kind, row, sub, req, doubt>>
  BY DEF RemoteGoes
<1> DEFINE e == [type |-> "deauthorized", id |-> o]
<1>2. e \in Event /\ e.type = "deauthorized" /\ e.id = o
  BY DEF Event
<1>3. kind = "account" => Emit(<<e>>)
  BY <1>1
<1> HIDE DEF e
<1>4. <<e>> \in Seq(Event) /\ Len(<<e>>) = 1 /\ <<e>>[1] = e
  BY <1>2
<1> QED  BY <1>1, <1>2, <1>3, <1>4

LEMMA ServicesType ==
  ASSUME TypeOK, CompleteSession \/ SubChanges \/ AccountChanges \/ RemoteGoes
  PROVE  TypeOK'
<1>1. CASE CompleteSession
  <2>1. PICK session \in open, x \in Subs, new \in Seq(Event) :
          /\ session[2] \in Objs
          /\ sub' = [sub EXCEPT ![x] = [customer |-> session[2], status |-> "active"]]
          /\ open' = open \ {session}
          /\ Emit(new)
          /\ UNCHANGED <<kind, row, remote, ready, req, doubt>>
    BY <1>1, CompleteSessionFacts
  <2>2. sub' \in [Subs -> Subscription \cup {None}]
    BY <2>1 DEF TypeOK, Subscription, SubStatus
  <2>3. events' \in Seq(Event) /\ Len(events') <= MaxEvents
    BY <2>1, EmitFacts
  <2> QED  BY <2>1, <2>2, <2>3 DEF TypeOK
<1>2. CASE SubChanges
  <2>1. PICK x \in Billed, status \in SubStatus, new \in Seq(Event) :
          /\ x \in Subs /\ sub[x] # None
          /\ sub' = [sub EXCEPT ![x].status = status]
          /\ Emit(new)
          /\ UNCHANGED <<kind, row, remote, ready, open, req, doubt>>
    BY <1>2, SubChangesFacts
  <2>2. sub' \in [Subs -> Subscription \cup {None}]
    BY <2>1 DEF TypeOK, Subscription
  <2>3. events' \in Seq(Event) /\ Len(events') <= MaxEvents
    BY <2>1, EmitFacts
  <2> QED  BY <2>1, <2>2, <2>3 DEF TypeOK
<1>3. CASE AccountChanges
  <2>1. PICK o \in Objs, new \in Seq(Event) :
          /\ ready' = IF o \in ready THEN ready \ {o} ELSE ready \cup {o}
          /\ Emit(new)
          /\ UNCHANGED <<kind, row, remote, open, sub, req, doubt>>
    BY <1>3, AccountChangesFacts
  <2>2. events' \in Seq(Event) /\ Len(events') <= MaxEvents
    BY <2>1, EmitFacts
  <2> QED  BY <2>1, <2>2 DEF TypeOK
<1>4. CASE RemoteGoes
  <2>1. PICK o \in Objs, new \in Seq(Event) :
          /\ remote' = [remote EXCEPT ![o] = "gone"]
          /\ open' = {session \in open : session[2] # o}
          /\ ready' = ready \ {o}
          /\ Emit(new) \/ events' = events
          /\ UNCHANGED <<kind, row, sub, req, doubt>>
    BY <1>4, RemoteGoesFacts
  <2>2. events' \in Seq(Event) /\ Len(events') <= MaxEvents
    BY <2>1, EmitFacts DEF TypeOK
  <2>3. remote' \in [Objs -> RemoteStatus]
    BY <2>1 DEF TypeOK, RemoteStatus
  <2> QED  BY <2>1, <2>2, <2>3 DEF TypeOK
<1> QED  BY <1>1, <1>2, <1>3, <1>4

LEMMA CoreType ==
  ASSUME TypeOK, EventsInv, IdsInv, CoreNext
  PROVE  TypeOK'
<1>1. CASE UNCHANGED vars
  BY <1>1 DEF vars, service, TypeOK
<1> QED  BY <1>1, RequestsType, EventsType, LooksType, ServicesType DEF CoreNext

-----------------------------------------------------------------------------
(* What is gone stays gone, and what was created stays.                    *)

LEMMA Onwards ==
  ASSUME TypeOK, EventsInv, IdsInv, CoreNext
  PROVE  /\ kind' = kind
         /\ \A x \in Subs : sub[x] # None => sub'[x] # None
         /\ \A o \in Objs : remote[o] = "gone" => remote'[o] = "gone"
         /\ \A o \in Objs : remote[o] \in {"live", "gone"} => remote'[o] \in {"live", "gone"}
         /\ doubt \subseteq doubt'
<1>0. \A t \in Slots : req[t] \in Request
  BY DEF TypeOK
<1>1. ASSUME NEW s \in Slots,
             \/ Requests(s) \/ Verify(s) \/ OpenSession(s) \/ SubscriptionEvent(s) \/ SessionEvent(s)
             \/ Settle(s) \/ AccountEvent(s) \/ LookUp(s) \/ Poll(s) \/ Sync(s) \/ Clear(s)
             \/ Stops(s) \/ Leaves(s)
      PROVE  UNCHANGED <<kind, sub, remote>> /\ doubt \subseteq doubt'
  <2>1. UNCHANGED <<kind, sub, remote>>
    BY <1>1 DEF Requests, Asks, Verify, OpenSession, SubscriptionEvent, SessionEvent, Settle,
                AccountEvent, LookUp, Poll, Sync, Clear, Stops, Leaves, service
  <2>2. doubt \subseteq doubt'
    BY <1>1 DEF Requests, Asks, Verify, OpenSession, SubscriptionEvent, SessionEvent, Settle,
                AccountEvent, LookUp, Poll, Sync, Clear, Stops, Leaves, Arrives, Doubted
  <2> QED  BY <2>1, <2>2
<1>2. ASSUME NEW s \in Slots, CreateRemote(s) \/ Attach(s) \/ Persist(s) \/ Remove(s)
      PROVE  /\ UNCHANGED <<kind, sub>> /\ doubt \subseteq doubt'
             /\ \A o \in Objs : remote[o] = "gone" => remote'[o] = "gone"
             /\ \A o \in Objs : remote[o] \in {"live", "gone"} => remote'[o] \in {"live", "gone"}
  <2>1. UNCHANGED <<kind, sub>> /\ doubt \subseteq doubt'
    BY <1>2 DEF CreateRemote, Attach, Persist, Remove, Doubted
  <2>2. req[s].step = "attach" => remote[req[s].id] = "made"
    BY DEF IdsInv, IdInv
  <2>3. ASSUME NEW o \in Objs
        PROVE  /\ remote[o] = "gone" => remote'[o] = "gone"
               /\ remote[o] \in {"live", "gone"} => remote'[o] \in {"live", "gone"}
    BY <1>2, <2>2 DEF CreateRemote, Attach, Persist, Remove, TypeOK
  <2> QED  BY <2>1, <2>3
<1>3. CASE CompleteSession
  <2>1. PICK session \in open, x \in Subs :
          /\ sub' = [sub EXCEPT ![x] = [customer |-> session[2], status |-> "active"]]
          /\ session[2] \in Objs
          /\ UNCHANGED <<kind, row, remote, ready, req, doubt>>
    BY <1>3, CompleteSessionFacts
  <2>2. [customer |-> session[2], status |-> "active"] # None
    BY <2>1, NoneAssumption DEF Subscription, SubStatus
  <2> QED  BY <2>1, <2>2 DEF TypeOK
<1>4. CASE SubChanges
  <2>1. PICK x \in Billed, status \in SubStatus :
          /\ x \in Subs /\ sub[x] # None
          /\ sub' = [sub EXCEPT ![x].status = status]
          /\ UNCHANGED <<kind, row, remote, ready, open, req, doubt>>
    BY <1>4, SubChangesFacts
  <2>2. sub'[x] \in Subscription
    BY <2>1 DEF TypeOK, Subscription
  <2> QED  BY <2>1, <2>2, NoneAssumption DEF TypeOK
<1>5. CASE AccountChanges
  BY <1>5 DEF AccountChanges
<1>6. CASE RemoteGoes
  BY <1>6, RemoteGoesFacts DEF TypeOK
<1>7. CASE UNCHANGED vars
  BY <1>7 DEF vars, service
<1> QED  BY <1>1, <1>2, <1>3, <1>4, <1>5, <1>6, <1>7 DEF CoreNext

-----------------------------------------------------------------------------
(* Events are about what exists.                                           *)

SoundHeld(r) ==
  /\ r.step = "settle" => r.event.type = "completed" /\ r.event.sub = r.sub
  /\ r.step = "sync" /\ r.event # None =>
       /\ r.event.type = "account" /\ r.event.id = r.id
       /\ r.event.ready <=> r.onboarded
  /\ r.step = "clear" /\ r.event # None => r.event.type = "deauthorized" /\ r.event.id = r.id

LEMMA EventsKept ==
  ASSUME TypeOK, TypeOK', EventsInv, IdsInv, CoreNext,
         \A i \in DOMAIN events' :
            \/ \E k \in DOMAIN events : events'[i] = events[k]
            \/ \E t \in Slots : Held(t) /\ events'[i] = req[t].event
            \/ \E e \in Event : events'[i] = e /\ Sound(e)',
         \A t \in Slots :
            \/ req'[t] = req[t]
            \/ req'[t].step \notin {"sync", "clear", "settle"}
            \/ req'[t].step # "settle" /\ req'[t].event = None
            \/ SoundHeld(req'[t]) /\ \E k \in DOMAIN events : req'[t].event = events[k]
  PROVE  EventsInv'
<1>0. /\ \A i \in DOMAIN events : events[i] \in Event
      /\ \A i \in DOMAIN events' : events'[i] \in Event
      /\ \A t \in Slots : req[t] \in Request /\ req'[t] \in Request
  BY ElementOfSeq, LenProperties DEF TypeOK
<1>1. ASSUME NEW e \in Event, Sound(e)
      PROVE  Sound(e)'
  <2>1. /\ e.type \in SubTypes => e.sub \in Subs
        /\ e.type \in {"account", "deauthorized"} => e.id \in Objs
    BY EventFacts DEF SubTypes
  <2> QED  BY <1>1, <2>1, Onwards DEF Sound
<1>2. ASSUME NEW t \in Slots, Held(t)
      PROVE  req[t].event \in Event /\ Sound(req[t].event)
  BY <1>0, <1>2, RequestFacts DEF Held, EventsInv
<1>3. ASSUME NEW e \in Event,
             (\E k \in DOMAIN events : e = events[k]) \/ (\E t \in Slots : Held(t) /\ e = req[t].event)
      PROVE  Sound(e)'
  BY <1>1, <1>2, <1>3 DEF EventsInv
<1>4. ASSUME NEW i \in DOMAIN events'
      PROVE  \E e \in Event : e = events'[i] /\ Sound(e)'
  <2>1. PICK e \in Event : e = events'[i]
    BY <1>0
  <2> QED  BY <1>3, <2>1
<1>5. ASSUME NEW t \in Slots, Held(t)'
      PROVE  \E e \in Event : e = req'[t].event /\ Sound(e)'
  <2>1. req'[t].step \in {"sync", "clear", "settle"} /\ req'[t].event # None
    BY <1>5 DEF Held
  <2>2. PICK e \in Event : e = req'[t].event
    BY <1>0, <2>1, RequestFacts
  <2>3. CASE req'[t] = req[t]
    <3>1. Held(t) /\ e = req[t].event
      BY <2>1, <2>2, <2>3 DEF Held
    <3> QED  BY <1>3, <2>2, <3>1
  <2>4. CASE \E k \in DOMAIN events : req'[t].event = events[k]
    BY <1>3, <2>2, <2>4
  <2> QED  BY <2>1, <2>3, <2>4
<1>6. ASSUME NEW t \in Slots
      PROVE  SoundHeld(req'[t])
  <2>1. CASE req'[t] = req[t]
    BY <2>1 DEF SoundHeld, EventsInv
  <2>2. CASE req'[t].step # "settle" /\ req'[t].event = None
    BY <2>2 DEF SoundHeld
  <2>3. CASE req'[t].step \notin {"sync", "clear", "settle"}
    BY <2>3 DEF SoundHeld
  <2> QED  BY <2>1, <2>2, <2>3
<1>7. \A t \in Slots :
       /\ req'[t].step = "settle" => req'[t].event.type = "completed" /\ req'[t].event.sub = req'[t].sub
       /\ req'[t].step = "sync" /\ req'[t].event # None =>
            /\ req'[t].event.type = "account" /\ req'[t].event.id = req'[t].id
            /\ req'[t].event.ready <=> req'[t].onboarded
       /\ req'[t].step = "clear" /\ req'[t].event # None =>
            req'[t].event.type = "deauthorized" /\ req'[t].event.id = req'[t].id
  BY <1>6 DEF SoundHeld
<1>8. /\ (\A i \in DOMAIN events : Sound(events[i]))'
      /\ (\A t \in Slots : Held(t) => Sound(req[t].event))'
  BY <1>4, <1>5 DEF Sound
<1> QED  BY <1>7, <1>8 DEF EventsInv

LEMMA CoreEvents ==
  ASSUME TypeOK, EventsInv, TopicInv, IdsInv, CoreNext
  PROVE  EventsInv'
<1>0. /\ TypeOK' /\ events \in Seq(Event) /\ DOMAIN events = 1 .. Len(events)
      /\ \A t \in Slots : req[t] \in Request
      /\ \A i \in DOMAIN events : events[i] \in Event
  BY CoreType, LenProperties, ElementOfSeq DEF TypeOK
<1> DEFINE Keeps == \A i \in DOMAIN events' :
                      \/ \E k \in DOMAIN events : events'[i] = events[k]
                      \/ \E t \in Slots : Held(t) /\ events'[i] = req[t].event
                      \/ \E e \in Event : events'[i] = e /\ Sound(e)'
           Moves == \A t \in Slots :
                      \/ req'[t] = req[t]
                      \/ req'[t].step \notin {"sync", "clear", "settle"}
                      \/ req'[t].step # "settle" /\ req'[t].event = None
                      \/ SoundHeld(req'[t]) /\ \E k \in DOMAIN events : req'[t].event = events[k]
<1> SUFFICES Keeps /\ Moves
  BY <1>0, EventsKept
<1>1. events' = events => Keeps
  OBVIOUS
<1>2. req' = req => Moves
  OBVIOUS
<1>3. \A s \in Slots, r \in Request :
        r.step \notin {"sync", "clear", "settle"} /\ req' = [req EXCEPT ![s] = r] => Moves
  BY SlotBecomes
<1>4. Idle \in Request /\ Idle.step = "idle"
  BY IdleType DEF Idle
<1>5. ASSUME NEW s \in Slots,
             \/ Requests(s) \/ Verify(s) \/ CreateRemote(s) \/ Attach(s) \/ Persist(s) \/ OpenSession(s)
             \/ LookUp(s) \/ Leaves(s)
      PROVE  Keeps /\ Moves
  <2>1. events' = events
    BY <1>5 DEF Requests, Asks, Verify, CreateRemote, Attach, Persist, OpenSession, LookUp, Leaves
  <2>2. \A t \in Slots : req'[t] = req[t] \/ req'[t].step \notin {"sync", "clear", "settle"}
    <3>1. CASE Requests(s)
      <4>1. PICK why \in Purposes, step \in {"create", "verify"} :
              req' = [req EXCEPT ![s] = [step |-> step, id |-> row.id, why |-> why]]
        BY <3>1 DEF Requests, Asks, Begin
      <4> QED  BY <4>1 DEF TypeOK
    <3>4. CASE LookUp(s)
      BY <3>4 DEF LookUp, Begin, TypeOK
    <3>2. CASE Verify(s) \/ CreateRemote(s) \/ Attach(s) \/ Persist(s)
      <4>1. PICK r : req' = [req EXCEPT ![s] = r]
                     /\ (r = Idle \/ \E o \in Objs \cup {None} :
                                       \/ r = [req[s] EXCEPT !.step = "ready"]
                                       \/ r = [req[s] EXCEPT !.step = "create"]
                                       \/ r = [req[s] EXCEPT !.step = "persist"]
                                       \/ r = [req[s] EXCEPT !.id = o,
                                              !.step = IF kind = "number" THEN "attach" ELSE "persist"])
        BY <3>2 DEF Verify, CreateRemote, Attach, Persist, Proceed, End
      <4>2. req[s].step \in {"verify", "create", "attach", "persist"}
        BY <3>2 DEF Verify, CreateRemote, Attach, Persist
      <4>3. \/ req[s] \in [step : {"verify", "create"}, id : Objs \cup {None}, why : Purposes]
            \/ req[s] \in [step : {"attach", "persist", "ready"}, id : Objs, why : Purposes]
        BY <1>0, <4>2, RequestFacts
      <4>4. r.step \notin {"sync", "clear", "settle"}
        BY <1>4, <4>1, <4>3
      <4> QED  BY <4>1, <4>4 DEF TypeOK
    <3>3. CASE OpenSession(s) \/ Leaves(s)
      BY <1>4, <3>3 DEF OpenSession, Leaves, End, TypeOK
    <3> QED  BY <1>5, <3>1, <3>2, <3>3, <3>4
  <2> QED  BY <2>1, <2>2
<1>6. ASSUME NEW s \in Slots, SubscriptionEvent(s)  PROVE Keeps /\ Moves
  <2>1. PICK i \in 1 .. Len(events), again \in BOOLEAN : Arrives(i, s, again)
    BY <1>6 DEF SubscriptionEvent
  <2> QED  BY <1>6, <2>1, ArrivesFacts DEF SubscriptionEvent
<1>7. ASSUME NEW s \in Slots, SessionEvent(s)  PROVE Keeps /\ Moves
  <2>1. PICK i \in 1 .. Len(events), again \in BOOLEAN :
          /\ events[i].type = "completed"
          /\ Arrives(i, s, again)
          /\ IF OfLandlord(events[i].sub)
             THEN Proceed(s, [step |-> "settle", sub |-> events[i].sub,
                              status |-> sub[events[i].sub].status, event |-> events[i]])
             ELSE UNCHANGED req
    BY <1>7 DEF SessionEvent
  <2>2. Keeps
    BY <2>1, ArrivesFacts
  <2>3. CASE req' = [req EXCEPT ![s] = [step |-> "settle", sub |-> events[i].sub,
                              status |-> sub[events[i].sub].status, event |-> events[i]]]
    <3>1. req'[s].event = events[i] /\ SoundHeld(req'[s])
      BY <2>1, <2>3 DEF SoundHeld, TypeOK
    <3>2. \A t \in Slots \ {s} : req'[t] = req[t]
      BY <2>3 DEF TypeOK
    <3> QED  BY <1>0, <2>2, <3>1, <3>2
  <2> QED  BY <2>1, <2>2, <2>3 DEF Proceed
<1>8. ASSUME NEW s \in Slots, Settle(s) \/ Sync(s) \/ Clear(s)  PROVE Keeps /\ Moves
  BY <1>1, <1>3, <1>4, <1>8 DEF Settle, Sync, Clear, End
<1>9. ASSUME NEW s \in Slots, AccountEvent(s)  PROVE Keeps /\ Moves
  <2>1. PICK i \in 1 .. Len(events), again \in BOOLEAN :
          LET e == events[i] IN
          /\ Arrives(i, s, again)
          /\ \/ UNCHANGED req
             \/ e.type = "account" /\ req' = [req EXCEPT ![s] =
                   [step |-> "sync", id |-> e.id, onboarded |-> e.ready, event |-> e]]
             \/ e.type = "deauthorized" /\ req' = [req EXCEPT ![s] =
                   [step |-> "clear", id |-> e.id, event |-> e]]
    BY <1>9 DEF AccountEvent, Proceed
  <2>2. Keeps
    BY <2>1, ArrivesFacts
  <2>3. req' # req => SoundHeld(req'[s]) /\ req'[s].event = events[i]
                      /\ \A t \in Slots \ {s} : req'[t] = req[t]
    BY <2>1 DEF SoundHeld, TypeOK
  <2> QED  BY <1>0, <2>2, <2>3
<1>10. ASSUME NEW s \in Slots, Poll(s) \/ Remove(s)  PROVE Keeps /\ Moves
  <2>1. PICK r : /\ req' = [req EXCEPT ![s] = r]
                 /\ r.step = "idle" \/ (r.step # "settle" /\ r.event = None)
    BY <1>4, <1>10 DEF Poll, Remove, Proceed, End
  <2>2. req'[s] = r /\ \A t \in Slots \ {s} : req'[t] = req[t]
    BY <2>1 DEF TypeOK
  <2> QED  BY <1>1, <1>10, <2>1, <2>2 DEF Poll, Remove
<1>11. ASSUME NEW s \in Slots, Stops(s)  PROVE Keeps /\ Moves
  BY <1>11, StopsFacts
<1>12. CASE CompleteSession
  <2>1. PICK session \in open, x \in Subs, new \in Seq(Event) :
           /\ session \in Slots \X Objs
           /\ sub' = [sub EXCEPT ![x] = [customer |-> session[2], status |-> "active"]]
           /\ Emit(new) /\ Len(new) = 2
           /\ new[1].type = "updated" /\ new[2].type = "completed"
           /\ \A i \in 1 .. 2 : new[i].sub = x /\ new[i].status = "active"
           /\ UNCHANGED <<kind, row, remote, ready, req, doubt>>
    BY <1>12, CompleteSessionFacts DEF TypeOK
  <2>2. kind' = "customer" /\ sub'[x] # None
    <3>1. kind = "customer" /\ [customer |-> session[2], status |-> "active"] # None
      BY <2>1, NoneAssumption DEF TopicInv, Subscription, SubStatus
    <3> QED  BY <2>1, <3>1 DEF TypeOK
  <2>3. ASSUME NEW e \in Event, e = new[1] \/ e = new[2]  PROVE Sound(e)'
    BY <2>1, <2>2, <2>3 DEF Sound, SubTypes
  <2>4. /\ DOMAIN events' = 1 .. Len(events) + 2 /\ Len(events) \in Nat
        /\ \A i \in DOMAIN events : events'[i] = events[i]
        /\ events'[Len(events) + 1] = new[1] /\ events'[Len(events) + 2] = new[2]
        /\ new[1] \in Event /\ new[2] \in Event
    <3>1. 1 \in 1 .. Len(new) /\ 2 \in 1 .. Len(new)
      BY <2>1
    <3> QED  BY <2>1, <3>1, EmitFacts
  <2>5. ASSUME NEW i \in DOMAIN events'
        PROVE  (\E k \in DOMAIN events : events'[i] = events[k]) \/ (\E e \in Event : events'[i] = e /\ Sound(e)')
    <3>1. i \in DOMAIN events \/ i = Len(events) + 1 \/ i = Len(events) + 2
      BY <1>0, <2>4
    <3> QED  BY <2>3, <2>4, <3>1
  <2> QED  BY <1>2, <2>1, <2>5
<1>13. CASE SubChanges
  <2>1. PICK x \in Billed, status \in SubStatus, new \in Seq(Event) :
          /\ x \in Subs /\ sub[x] # None
          /\ sub' = [sub EXCEPT ![x].status = status]
          /\ Emit(new) /\ Len(new) \in {1, 2}
          /\ \A i \in 1 .. Len(new) :
               /\ new[i].type \in {"updated", "deleted", "failed"}
               /\ new[i].sub = x /\ new[i].status = status
               /\ new[i].type = "deleted" <=> status = "canceled"
               /\ new[i].type = "failed" => status = "past_due"
          /\ UNCHANGED <<kind, row, remote, ready, open, req, doubt>>
    BY <1>13, SubChangesFacts
  <2>2. kind' = "customer" /\ sub'[x] # None
    BY <1>13, <2>1, Onwards DEF TopicInv, CoreNext
  <2>3. ASSUME NEW j \in 1 .. Len(new), NEW e \in Event, e = new[j]  PROVE Sound(e)'
    BY <2>1, <2>2, <2>3 DEF Sound, SubTypes
  <2>4. /\ DOMAIN events' = 1 .. Len(events) + Len(new) /\ Len(events) \in Nat
        /\ \A i \in DOMAIN events : events'[i] = events[i]
        /\ \A j \in 1 .. Len(new) : events'[Len(events) + j] = new[j] /\ new[j] \in Event
    BY <2>1, EmitFacts, ElementOfSeq
  <2>5. ASSUME NEW i \in DOMAIN events'
        PROVE  (\E k \in DOMAIN events : events'[i] = events[k]) \/ (\E e \in Event : events'[i] = e /\ Sound(e)')
    BY <2>1, <2>3, <2>4, EmitFacts
  <2> QED  BY <1>2, <2>1, <2>5
<1>14. CASE AccountChanges
  <2>1. PICK o \in Objs, new \in Seq(Event) :
          /\ kind = "account" /\ remote[o] = "live"
          /\ Emit(new) /\ Len(new) = 1
          /\ new[1].type = "account" /\ new[1].id = o
          /\ UNCHANGED <<kind, row, remote, open, sub, req, doubt>>
    BY <1>14, AccountChangesFacts
  <2>2. new[1] \in Event
    <3>1. 1 \in 1 .. Len(new)
      BY <2>1
    <3> QED  BY <3>1, ElementOfSeq
  <2>3. ASSUME NEW e \in Event, e = new[1]  PROVE Sound(e)'
    BY <2>1, <2>3 DEF Sound, SubTypes
  <2>4. ASSUME NEW i \in DOMAIN events'
        PROVE  (\E k \in DOMAIN events : events'[i] = events[k]) \/ events'[i] = new[1]
    <3>1. \A j \in 1 .. Len(new) : j = 1
      BY <2>1
    <3> QED  BY <2>1, <3>1, EmitFacts
  <2> QED  BY <1>2, <2>1, <2>2, <2>3, <2>4
<1>15. CASE RemoteGoes
  <2>1. PICK o \in Objs, new \in Seq(Event) :
          /\ remote' = [remote EXCEPT ![o] = "gone"]
          /\ \/ kind = "account" /\ Emit(new) /\ Len(new) = 1
                /\ new[1].type = "deauthorized" /\ new[1].id = o
             \/ kind # "account" /\ events' = events
          /\ UNCHANGED <<kind, row, sub, req, doubt>>
    BY <1>15, RemoteGoesFacts
  <2>2. CASE events' = events
    BY <1>1, <1>2, <2>1, <2>2
  <2>3. CASE kind = "account" /\ Emit(new) /\ Len(new) = 1 /\ new[1].type = "deauthorized"
             /\ new[1].id = o
    <3>1. new[1] \in Event /\ remote'[o] = "gone"
      <4>1. 1 \in 1 .. Len(new)
        BY <2>3
      <4> QED  BY <2>1, <4>1, ElementOfSeq DEF TypeOK
    <3>2. ASSUME NEW e \in Event, e = new[1]  PROVE Sound(e)'
      BY <2>1, <2>3, <3>1, <3>2 DEF Sound, SubTypes
    <3>3. ASSUME NEW i \in DOMAIN events'
          PROVE  (\E k \in DOMAIN events : events'[i] = events[k]) \/ events'[i] = new[1]
      <4>1. \A j \in 1 .. Len(new) : j = 1
        BY <2>3
      <4> QED  BY <2>3, <4>1, EmitFacts
    <3> QED  BY <1>2, <2>1, <3>1, <3>2, <3>3
  <2> QED  BY <2>1, <2>2, <2>3
<1>16. CASE UNCHANGED vars
  BY <1>1, <1>2, <1>16 DEF vars
<1> QED  BY <1>5, <1>6, <1>7, <1>8, <1>9, <1>10, <1>11, <1>12, <1>13, <1>14, <1>15, <1>16 DEF CoreNext

-----------------------------------------------------------------------------
(* What a request becomes.                                                 *)

LEMMA RequestBecomes ==
  ASSUME TypeOK, IdsInv, NEW s \in Slots
  PROVE  /\ Requests(s) =>
              \E why \in Purposes, r \in Request :
                /\ req[s].step = "idle" /\ req' = [req EXCEPT ![s] = r]
                /\ r.step = IF row.id = None THEN "create" ELSE "verify"
                /\ r.id = row.id /\ r.why = why
                /\ kind = "tenant" <=> why \in BankPurposes
                /\ why = "checkout" => kind = "customer" /\ ~(row.sub # None /\ row.status = "active")
                /\ row.id # None => kind \in {"customer", "tenant"}
                /\ kind \in Services
                /\ Doubted(IF why = "checkout" THEN Twice ELSE {})
                /\ UNCHANGED <<kind, row, remote, ready, open, sub, events>>
         /\ Verify(s) =>
              \E r \in Request :
                /\ req[s].step = "verify" /\ req[s].id \in Objs /\ req' = [req EXCEPT ![s] = r]
                /\ \/ Exists(req[s].id) /\ req[s].why = "none" /\ r.step = "idle" /\ UNCHANGED doubt
                   \/ Exists(req[s].id) /\ r.step = "ready" /\ req[s].why # "none" /\ UNCHANGED doubt
                   \/ r.step = "create" /\ Doubted(IF Exists(req[s].id) THEN {"blind"} ELSE {})
                /\ r.step # "idle" => r.id = req[s].id /\ r.why = req[s].why
                /\ UNCHANGED <<kind, row, remote, ready, open, sub, events>>
         /\ CreateRemote(s) =>
              \E o \in Objs, r \in Request :
                /\ req[s].step = "create" /\ req' = [req EXCEPT ![s] = r]
                /\ remote[o] = "unused" /\ remote' = [remote EXCEPT ![o] = "made"]
                /\ r.step = IF kind = "number" THEN "attach" ELSE "persist"
                /\ r.id = o /\ r.why = req[s].why
                /\ UNCHANGED <<kind, row, ready, open, sub, events, doubt>>
         /\ Attach(s) =>
              \E r \in Request :
                /\ req[s].step = "attach" /\ req[s].id \in Objs /\ req' = [req EXCEPT ![s] = r]
                /\ \/ /\ remote' = [remote EXCEPT ![req[s].id] = "live"]
                      /\ r.step = "persist" /\ r.id = req[s].id /\ r.why = req[s].why
                      /\ UNCHANGED doubt
                   \/ remote' = [remote EXCEPT ![req[s].id] = "gone"] /\ r.step = "idle" /\ UNCHANGED doubt
                   \/ r.step = "idle" /\ UNCHANGED remote /\ Doubted({"cut"})
                /\ UNCHANGED <<kind, row, ready, open, sub, events>>
         /\ Persist(s) =>
              \E r \in Request :
                /\ req[s].step = "persist" /\ req[s].id \in Objs /\ req' = [req EXCEPT ![s] = r]
                /\ IF req[s].why = "none" THEN r.step = "idle"
                   ELSE r.step = "ready" /\ r.id = req[s].id /\ r.why = req[s].why
                /\ row' = [row EXCEPT !.id = req[s].id, !.onboarded = FALSE]
                /\ remote' = [remote EXCEPT ![req[s].id] = IF @ = "made" THEN "live" ELSE @]
                /\ Doubted(Overlap(s) \cup (IF row.id # None /\ events # <<>> THEN {"replaced"} ELSE {}))
                /\ UNCHANGED <<kind, ready, open, sub, events>>
<1>0. req[s] \in Request /\ row.id \in Objs \cup {None}
  BY DEF TypeOK, Row
<1>1. Idle \in Request /\ Idle.step = "idle"
  BY IdleType DEF Idle
<1>2. ASSUME Requests(s)
      PROVE  \E why \in Purposes, r \in Request :
                /\ req[s].step = "idle" /\ req' = [req EXCEPT ![s] = r]
                /\ r.step = IF row.id = None THEN "create" ELSE "verify"
                /\ r.id = row.id /\ r.why = why
                /\ kind = "tenant" <=> why \in BankPurposes
                /\ why = "checkout" => kind = "customer" /\ ~(row.sub # None /\ row.status = "active")
                /\ row.id # None => kind \in {"customer", "tenant"}
                /\ kind \in Services
                /\ Doubted(IF why = "checkout" THEN Twice ELSE {})
                /\ UNCHANGED <<kind, row, remote, ready, open, sub, events>>
  <2>1. PICK why \in Purposes :
          /\ kind \in Services
          /\ kind = "tenant" <=> why \in BankPurposes
          /\ why = "checkout" => kind = "customer" /\ ~(row.sub # None /\ row.status = "active")
          /\ Asks(s, why)
    BY <1>2 DEF Requests
  <2> DEFINE r == [step |-> IF row.id = None THEN "create" ELSE "verify", id |-> row.id, why |-> why]
  <2>2. r \in Request /\ r.id = row.id /\ r.why = why
        /\ r.step = IF row.id = None THEN "create" ELSE "verify"
    BY <1>0 DEF Request
  <2>3. req[s] = Idle /\ req' = [req EXCEPT ![s] = r]
    BY <2>1 DEF Asks, Begin
  <2> HIDE DEF r
  <2> QED  BY <1>1, <2>1, <2>2, <2>3 DEF Asks, service
<1>3. ASSUME Verify(s)
      PROVE  \E r \in Request :
                /\ req[s].step = "verify" /\ req[s].id \in Objs /\ req' = [req EXCEPT ![s] = r]
                /\ \/ Exists(req[s].id) /\ req[s].why = "none" /\ r.step = "idle" /\ UNCHANGED doubt
                   \/ Exists(req[s].id) /\ r.step = "ready" /\ req[s].why # "none" /\ UNCHANGED doubt
                   \/ r.step = "create" /\ Doubted(IF Exists(req[s].id) THEN {"blind"} ELSE {})
                /\ r.step # "idle" => r.id = req[s].id /\ r.why = req[s].why
                /\ UNCHANGED <<kind, row, remote, ready, open, sub, events>>
  <2>1. /\ req[s] \in [step : {"verify", "create"}, id : Objs \cup {None}, why : Purposes]
        /\ req[s].step = "verify" /\ req[s].id \in Objs
    BY <1>0, <1>3, RequestFacts DEF Verify, IdsInv, IdInv
  <2> DEFINE y == [req[s] EXCEPT !.step = "ready"]
             c == [req[s] EXCEPT !.step = "create"]
  <2>2. /\ y \in Request /\ y.step = "ready" /\ y.id = req[s].id /\ y.why = req[s].why
        /\ c \in Request /\ c.step = "create" /\ c.id = req[s].id /\ c.why = req[s].why
    BY <2>1 DEF Request
  <2>3. \/ Exists(req[s].id) /\ req[s].why = "none" /\ req' = [req EXCEPT ![s] = Idle] /\ UNCHANGED doubt
        \/ Exists(req[s].id) /\ req' = [req EXCEPT ![s] = y] /\ req[s].why # "none" /\ UNCHANGED doubt
        \/ req' = [req EXCEPT ![s] = c] /\ Doubted(IF Exists(req[s].id) THEN {"blind"} ELSE {})
    BY <1>3 DEF Verify, Proceed, End
  <2> HIDE DEF y, c
  <2>4. UNCHANGED <<kind, row, remote, ready, open, sub, events>>
    BY <1>3 DEF Verify, service
  <2> QED  BY <1>1, <2>1, <2>2, <2>3, <2>4
<1>4. ASSUME CreateRemote(s)
      PROVE  \E o \in Objs, r \in Request :
                /\ req[s].step = "create" /\ req' = [req EXCEPT ![s] = r]
                /\ remote[o] = "unused" /\ remote' = [remote EXCEPT ![o] = "made"]
                /\ r.step = IF kind = "number" THEN "attach" ELSE "persist"
                /\ r.id = o /\ r.why = req[s].why
                /\ UNCHANGED <<kind, row, ready, open, sub, events, doubt>>
  <2>1. /\ req[s] \in [step : {"verify", "create"}, id : Objs \cup {None}, why : Purposes]
        /\ req[s].step = "create"
    BY <1>0, <1>4, RequestFacts DEF CreateRemote
  <2>2. PICK o \in Objs :
          /\ remote[o] = "unused" /\ remote' = [remote EXCEPT ![o] = "made"]
          /\ req' = [req EXCEPT ![s] = [req[s] EXCEPT !.id = o,
                                          !.step = IF kind = "number" THEN "attach" ELSE "persist"]]
    BY <1>4 DEF CreateRemote, Proceed
  <2> DEFINE r == [req[s] EXCEPT !.id = o, !.step = IF kind = "number" THEN "attach" ELSE "persist"]
  <2>3. /\ r \in Request /\ r.step = IF kind = "number" THEN "attach" ELSE "persist"
        /\ r.id = o /\ r.why = req[s].why
    BY <2>1 DEF Request
  <2>4. req' = [req EXCEPT ![s] = r]
    BY <2>2
  <2> HIDE DEF r
  <2> QED  BY <1>4, <2>1, <2>2, <2>3, <2>4 DEF CreateRemote
<1>5. ASSUME Attach(s)
      PROVE  \E r \in Request :
                /\ req[s].step = "attach" /\ req[s].id \in Objs /\ req' = [req EXCEPT ![s] = r]
                /\ \/ /\ remote' = [remote EXCEPT ![req[s].id] = "live"]
                      /\ r.step = "persist" /\ r.id = req[s].id /\ r.why = req[s].why
                      /\ UNCHANGED doubt
                   \/ remote' = [remote EXCEPT ![req[s].id] = "gone"] /\ r.step = "idle" /\ UNCHANGED doubt
                   \/ r.step = "idle" /\ UNCHANGED remote /\ Doubted({"cut"})
                /\ UNCHANGED <<kind, row, ready, open, sub, events>>
  <2>1. /\ req[s] \in [step : {"attach", "persist", "ready"}, id : Objs, why : Purposes]
        /\ req[s].step = "attach"
    BY <1>0, <1>5, RequestFacts DEF Attach
  <2> DEFINE r == [req[s] EXCEPT !.step = "persist"]
  <2>2. r \in Request /\ r.step = "persist" /\ r.id = req[s].id /\ r.why = req[s].why
    BY <2>1 DEF Request
  <2>3. \/ remote' = [remote EXCEPT ![req[s].id] = "live"] /\ req' = [req EXCEPT ![s] = r] /\ UNCHANGED doubt
        \/ /\ remote' = [remote EXCEPT ![req[s].id] = "gone"]
           /\ req' = [req EXCEPT ![s] = Idle] /\ UNCHANGED doubt
        \/ req' = [req EXCEPT ![s] = Idle] /\ UNCHANGED remote /\ Doubted({"cut"})
    BY <1>5 DEF Attach, Proceed, End
  <2> HIDE DEF r
  <2> QED  BY <1>1, <1>5, <2>1, <2>2, <2>3 DEF Attach
<1>6. ASSUME Persist(s)
      PROVE  \E r \in Request :
                /\ req[s].step = "persist" /\ req[s].id \in Objs /\ req' = [req EXCEPT ![s] = r]
                /\ IF req[s].why = "none" THEN r.step = "idle"
                   ELSE r.step = "ready" /\ r.id = req[s].id /\ r.why = req[s].why
                /\ row' = [row EXCEPT !.id = req[s].id, !.onboarded = FALSE]
                /\ remote' = [remote EXCEPT ![req[s].id] = IF @ = "made" THEN "live" ELSE @]
                /\ Doubted(Overlap(s) \cup (IF row.id # None /\ events # <<>> THEN {"replaced"} ELSE {}))
                /\ UNCHANGED <<kind, ready, open, sub, events>>
  <2>1. /\ req[s] \in [step : {"attach", "persist", "ready"}, id : Objs, why : Purposes]
        /\ req[s].step = "persist"
    BY <1>0, <1>6, RequestFacts DEF Persist
  <2> DEFINE y == [req[s] EXCEPT !.step = "ready"]
  <2>2. y \in Request /\ y.step = "ready" /\ y.id = req[s].id /\ y.why = req[s].why
    BY <2>1 DEF Request
  <2>3. IF req[s].why = "none" THEN req' = [req EXCEPT ![s] = Idle] ELSE req' = [req EXCEPT ![s] = y]
    BY <1>6 DEF Persist, Proceed, End
  <2> HIDE DEF y
  <2>4. /\ row' = [row EXCEPT !.id = req[s].id, !.onboarded = FALSE]
        /\ remote' = [remote EXCEPT ![req[s].id] = IF @ = "made" THEN "live" ELSE @]
        /\ Doubted(Overlap(s) \cup (IF row.id # None /\ events # <<>> THEN {"replaced"} ELSE {}))
        /\ UNCHANGED <<kind, ready, open, sub, events>>
    BY <1>6 DEF Persist
  <2> QED  BY <1>1, <2>1, <2>2, <2>3, <2>4
<1> QED  BY <1>2, <1>3, <1>4, <1>5, <1>6

LEMMA EventBecomes ==
  ASSUME TypeOK, NEW s \in Slots
  PROVE  /\ SubscriptionEvent(s) =>
              \E i \in 1 .. Len(events), again \in BOOLEAN :
                /\ Arrives(i, s, again) /\ events[i].type \in {"updated", "deleted", "failed"}
                /\ row' = IF OfLandlord(events[i].sub)
                          THEN Settled(events[i].type, events[i].sub, events[i].status) ELSE row
                /\ row'.id = row.id /\ row'.onboarded = row.onboarded
                /\ UNCHANGED <<kind, remote, ready, open, sub, req>>
         /\ SessionEvent(s) =>
              \E i \in 1 .. Len(events), again \in BOOLEAN :
                /\ Arrives(i, s, again) /\ events[i].type = "completed"
                /\ \/ req' = req
                   \/ /\ OfLandlord(events[i].sub)
                      /\ \A t \in Slots \ {s} : req'[t] = req[t]
                      /\ req'[s].step = "settle" /\ req'[s].sub = events[i].sub
                      /\ req'[s].status = sub[events[i].sub].status /\ req'[s].event = events[i]
                /\ UNCHANGED <<kind, row, remote, ready, open, sub>>
         /\ AccountEvent(s) =>
              \E i \in 1 .. Len(events), again \in BOOLEAN :
                /\ Arrives(i, s, again) /\ events[i].type \in {"account", "deauthorized"}
                /\ \A t \in Slots \ {s} : req'[t] = req[t]
                /\ \/ /\ req' = req
                      /\ \/ events[i].id # row.id
                         \/ events[i].type = "account" /\ events[i].ready = row.onboarded
                   \/ /\ events[i].type = "account" /\ events[i].id = row.id
                      /\ req'[s].step = "sync" /\ req'[s].id = row.id /\ req'[s].event = events[i]
                      /\ req'[s].onboarded = events[i].ready
                   \/ /\ events[i].type = "deauthorized" /\ events[i].id = row.id
                      /\ req'[s].step = "clear" /\ req'[s].id = row.id /\ req'[s].event = events[i]
                /\ UNCHANGED <<kind, row, remote, ready, open, sub>>
         /\ Settle(s) =>
              /\ req[s].step = "settle" /\ req'[s].step = "idle"
              /\ \A t \in Slots \ {s} : req'[t] = req[t]
              /\ row' = [row EXCEPT !.sub = req[s].sub, !.status = req[s].status]
              /\ row'.id = row.id /\ row'.onboarded = row.onboarded
              /\ Doubted(Overlap(s))
              /\ UNCHANGED <<kind, remote, ready, open, sub, events>>
<1>0. req[s] \in Request /\ req \in [Slots -> Request] /\ row \in Row
      /\ Idle.step = "idle" /\ Idle \in Request
  BY IdleType DEF TypeOK, Idle
<1>1. ASSUME SubscriptionEvent(s)
      PROVE   \E i \in 1 .. Len(events), again \in BOOLEAN :
                /\ Arrives(i, s, again) /\ events[i].type \in {"updated", "deleted", "failed"}
                /\ row' = IF OfLandlord(events[i].sub)
                          THEN Settled(events[i].type, events[i].sub, events[i].status) ELSE row
                /\ row'.id = row.id /\ row'.onboarded = row.onboarded
                /\ UNCHANGED <<kind, remote, ready, open, sub, req>>
  <2>1. PICK i \in 1 .. Len(events), again \in BOOLEAN :
          /\ events[i].type \in {"updated", "deleted", "failed"}
          /\ Arrives(i, s, again)
          /\ row' = IF OfLandlord(events[i].sub)
                    THEN Settled(events[i].type, events[i].sub, events[i].status) ELSE row
    BY <1>1 DEF SubscriptionEvent
  <2>2. row'.id = row.id /\ row'.onboarded = row.onboarded
    BY <1>0, <2>1 DEF Settled, Row
  <2> QED  BY <1>1, <2>1, <2>2 DEF SubscriptionEvent, service
<1>2. ASSUME SessionEvent(s)
      PROVE   \E i \in 1 .. Len(events), again \in BOOLEAN :
                /\ Arrives(i, s, again) /\ events[i].type = "completed"
                /\ \/ req' = req
                   \/ /\ OfLandlord(events[i].sub)
                      /\ \A t \in Slots \ {s} : req'[t] = req[t]
                      /\ req'[s].step = "settle" /\ req'[s].sub = events[i].sub
                      /\ req'[s].status = sub[events[i].sub].status /\ req'[s].event = events[i]
                /\ UNCHANGED <<kind, row, remote, ready, open, sub>>
  <2>1. PICK i \in 1 .. Len(events), again \in BOOLEAN :
          /\ events[i].type = "completed"
          /\ Arrives(i, s, again)
          /\ \/ /\ OfLandlord(events[i].sub)
                /\ req' = [req EXCEPT ![s] = [step |-> "settle", sub |-> events[i].sub,
                              status |-> sub[events[i].sub].status, event |-> events[i]]]
             \/ req' = req
    BY <1>2 DEF SessionEvent, Proceed
  <2>2. \/ req' = req
        \/ /\ OfLandlord(events[i].sub)
           /\ \A t \in Slots \ {s} : req'[t] = req[t]
           /\ req'[s].step = "settle" /\ req'[s].sub = events[i].sub
           /\ req'[s].status = sub[events[i].sub].status /\ req'[s].event = events[i]
    BY <1>0, <2>1
  <2> QED  BY <1>2, <2>1, <2>2 DEF SessionEvent, service
<1>3. ASSUME AccountEvent(s)
      PROVE   \E i \in 1 .. Len(events), again \in BOOLEAN :
                /\ Arrives(i, s, again) /\ events[i].type \in {"account", "deauthorized"}
                /\ \A t \in Slots \ {s} : req'[t] = req[t]
                /\ \/ /\ req' = req
                      /\ \/ events[i].id # row.id
                         \/ events[i].type = "account" /\ events[i].ready = row.onboarded
                   \/ /\ events[i].type = "account" /\ events[i].id = row.id
                      /\ req'[s].step = "sync" /\ req'[s].id = row.id /\ req'[s].event = events[i]
                      /\ req'[s].onboarded = events[i].ready
                   \/ /\ events[i].type = "deauthorized" /\ events[i].id = row.id
                      /\ req'[s].step = "clear" /\ req'[s].id = row.id /\ req'[s].event = events[i]
                /\ UNCHANGED <<kind, row, remote, ready, open, sub>>
  <2>1. PICK i \in 1 .. Len(events), again \in BOOLEAN :
          LET e == events[i] IN
          /\ e.type \in {"account", "deauthorized"}
          /\ Arrives(i, s, again)
          /\ \/ e.id # row.id /\ UNCHANGED req
             \/ /\ e.id = row.id /\ e.type = "account"
                /\ IF e.ready = row.onboarded
                   THEN UNCHANGED req
                   ELSE Proceed(s, [step |-> "sync", id |-> e.id, onboarded |-> e.ready, event |-> e])
             \/ /\ e.id = row.id /\ e.type = "deauthorized"
                /\ Proceed(s, [step |-> "clear", id |-> e.id, event |-> e])
    BY <1>3 DEF AccountEvent
  <2>2. CASE req' = req /\ (events[i].id # row.id
                            \/ (events[i].type = "account" /\ events[i].ready = row.onboarded))
    BY <1>3, <2>1, <2>2 DEF AccountEvent, service
  <2>3. CASE /\ events[i].id = row.id /\ events[i].type = "account"
             /\ req' = [req EXCEPT ![s] = [step |-> "sync", id |-> events[i].id,
                          onboarded |-> events[i].ready, event |-> events[i]]]
    <3>1. /\ \A t \in Slots \ {s} : req'[t] = req[t]
          /\ req'[s].step = "sync" /\ req'[s].id = row.id /\ req'[s].event = events[i]
          /\ req'[s].onboarded = events[i].ready
      BY <1>0, <2>3
    <3> QED  BY <1>3, <2>1, <2>3, <3>1 DEF AccountEvent, service
  <2>4. CASE /\ events[i].id = row.id /\ events[i].type = "deauthorized"
             /\ req' = [req EXCEPT ![s] = [step |-> "clear", id |-> events[i].id, event |-> events[i]]]
    <3>1. /\ \A t \in Slots \ {s} : req'[t] = req[t]
          /\ req'[s].step = "clear" /\ req'[s].id = row.id /\ req'[s].event = events[i]
      BY <1>0, <2>4
    <3> QED  BY <1>3, <2>1, <2>4, <3>1 DEF AccountEvent, service
  <2> QED  BY <2>1, <2>2, <2>3, <2>4 DEF Proceed
<1>4. ASSUME Settle(s)
      PROVE  /\ req[s].step = "settle" /\ req'[s].step = "idle"
             /\ \A t \in Slots \ {s} : req'[t] = req[t]
             /\ row' = [row EXCEPT !.sub = req[s].sub, !.status = req[s].status]
             /\ row'.id = row.id /\ row'.onboarded = row.onboarded
             /\ Doubted(Overlap(s))
             /\ UNCHANGED <<kind, remote, ready, open, sub, events>>
  <2>1. row' = [row EXCEPT !.sub = req[s].sub, !.status = req[s].status]
    BY <1>4 DEF Settle, Settled
  <2> QED  BY <1>0, <1>4, <2>1 DEF Settle, End, service, Row
<1> QED  BY <1>1, <1>2, <1>3, <1>4

LEMMA LookBecomes ==
  ASSUME TypeOK, NEW s \in Slots
  PROVE  /\ LookUp(s) =>
              /\ row.id # None /\ row.id \in Objs /\ req[s].step = "idle"
              /\ \A t \in Slots \ {s} : req'[t] = req[t]
              /\ \/ kind = "account" /\ req'[s].step = "poll"
                 \/ kind = "number" /\ req'[s].step = "remove"
              /\ req'[s].id = row.id
              /\ UNCHANGED <<kind, row, remote, ready, open, sub, events, doubt>>
         /\ Poll(s) =>
              /\ req[s].step = "poll" /\ req[s].id \in Objs
              /\ \A t \in Slots \ {s} : req'[t] = req[t]
              /\ \/ req'[s].step = "idle" /\ UNCHANGED doubt
                 \/ /\ req'[s].step = "sync" /\ req'[s].id = req[s].id /\ req'[s].event = None
                    /\ (req'[s].onboarded <=> req[s].id \in ready) /\ UNCHANGED doubt
                 \/ /\ req'[s].step = "clear" /\ req'[s].id = req[s].id /\ req'[s].event = None
                    /\ Doubted(IF Exists(req[s].id) THEN {"blind"} ELSE {})
              /\ UNCHANGED <<kind, row, remote, ready, open, sub, events>>
         /\ Sync(s) =>
              /\ req[s].step = "sync" /\ req[s].id \in Objs /\ req'[s].step = "idle"
              /\ \A t \in Slots \ {s} : req'[t] = req[t]
              /\ row' = [row EXCEPT !.id = req[s].id, !.onboarded = req[s].onboarded]
              /\ row'.id = req[s].id /\ row'.onboarded = req[s].onboarded
              /\ row'.sub = row.sub /\ row'.status = row.status
              /\ Doubted(Overlap(s))
              /\ UNCHANGED <<kind, remote, ready, open, sub, events>>
         /\ Remove(s) =>
              /\ req[s].step = "remove" /\ req[s].id \in Objs
              /\ \A t \in Slots \ {s} : req'[t] = req[t]
              /\ req'[s].step = "clear" /\ req'[s].id = req[s].id /\ req'[s].event = None
              /\ remote' = [remote EXCEPT ![req[s].id] = "gone"]
              /\ UNCHANGED <<kind, row, ready, open, sub, events, doubt>>
         /\ Clear(s) =>
              /\ req[s].step = "clear" /\ req[s].id \in Objs /\ req'[s].step = "idle"
              /\ \A t \in Slots \ {s} : req'[t] = req[t]
              /\ row'.id = None /\ row'.onboarded = FALSE
              /\ row'.sub = row.sub /\ row'.status = row.status
              /\ Doubted(Overlap(s))
              /\ UNCHANGED <<kind, remote, ready, open, sub, events>>
         /\ Leaves(s) \/ OpenSession(s) =>
              /\ req[s].step = "ready" /\ req[s].id \in Objs /\ req'[s].step = "idle"
              /\ \A t \in Slots \ {s} : req'[t] = req[t]
              /\ UNCHANGED <<kind, row, remote, ready, sub, events>>
<1>0. /\ req[s] \in Request /\ req \in [Slots -> Request] /\ row \in Row
      /\ row.id \in Objs \cup {None} /\ Idle.step = "idle"
  BY DEF TypeOK, Idle, Row
<1>1. ASSUME LookUp(s)
      PROVE   /\ row.id # None /\ row.id \in Objs /\ req[s].step = "idle"
              /\ \A t \in Slots \ {s} : req'[t] = req[t]
              /\ \/ kind = "account" /\ req'[s].step = "poll"
                 \/ kind = "number" /\ req'[s].step = "remove"
              /\ req'[s].id = row.id
              /\ UNCHANGED <<kind, row, remote, ready, open, sub, events, doubt>>
  BY <1>0, <1>1 DEF LookUp, Begin, service
<1>2. ASSUME Poll(s)
      PROVE   /\ req[s].step = "poll" /\ req[s].id \in Objs
              /\ \A t \in Slots \ {s} : req'[t] = req[t]
              /\ \/ req'[s].step = "idle" /\ UNCHANGED doubt
                 \/ /\ req'[s].step = "sync" /\ req'[s].id = req[s].id /\ req'[s].event = None
                    /\ (req'[s].onboarded <=> req[s].id \in ready) /\ UNCHANGED doubt
                 \/ /\ req'[s].step = "clear" /\ req'[s].id = req[s].id /\ req'[s].event = None
                    /\ Doubted(IF Exists(req[s].id) THEN {"blind"} ELSE {})
              /\ UNCHANGED <<kind, row, remote, ready, open, sub, events>>
  <2>1. req[s].id \in Objs /\ req[s].step = "poll"
    BY <1>0, <1>2, RequestFacts DEF Poll
  <2>2. \/ req' = [req EXCEPT ![s] = Idle] /\ UNCHANGED doubt
        \/ /\ req' = [req EXCEPT ![s] = [step |-> "sync", id |-> req[s].id,
                                           onboarded |-> req[s].id \in ready, event |-> None]]
           /\ UNCHANGED doubt
        \/ /\ req' = [req EXCEPT ![s] = [step |-> "clear", id |-> req[s].id, event |-> None]]
           /\ Doubted(IF Exists(req[s].id) THEN {"blind"} ELSE {})
    BY <1>2 DEF Poll, Proceed, End
  <2>3. UNCHANGED <<kind, row, remote, ready, open, sub, events>>
    BY <1>2 DEF Poll, service
  <2>4. CASE req' = [req EXCEPT ![s] = Idle] /\ UNCHANGED doubt
    BY <1>0, <2>1, <2>3, <2>4
  <2>5. CASE /\ req' = [req EXCEPT ![s] = [step |-> "sync", id |-> req[s].id,
                                           onboarded |-> req[s].id \in ready, event |-> None]]
             /\ UNCHANGED doubt
    BY <1>0, <2>1, <2>3, <2>5
  <2>6. CASE /\ req' = [req EXCEPT ![s] = [step |-> "clear", id |-> req[s].id, event |-> None]]
             /\ Doubted(IF Exists(req[s].id) THEN {"blind"} ELSE {})
    BY <1>0, <2>1, <2>3, <2>6
  <2> QED  BY <2>2, <2>4, <2>5, <2>6
<1>3. ASSUME Sync(s)
      PROVE   /\ req[s].step = "sync" /\ req[s].id \in Objs /\ req'[s].step = "idle"
              /\ \A t \in Slots \ {s} : req'[t] = req[t]
              /\ row' = [row EXCEPT !.id = req[s].id, !.onboarded = req[s].onboarded]
              /\ row'.id = req[s].id /\ row'.onboarded = req[s].onboarded
              /\ row'.sub = row.sub /\ row'.status = row.status
              /\ Doubted(Overlap(s))
              /\ UNCHANGED <<kind, remote, ready, open, sub, events>>
  <2>1. req[s].id \in Objs
    BY <1>0, <1>3, RequestFacts DEF Sync
  <2> QED  BY <1>0, <1>3, <2>1 DEF Sync, End, service, Row
<1>4. ASSUME Remove(s)
      PROVE   /\ req[s].step = "remove" /\ req[s].id \in Objs
              /\ \A t \in Slots \ {s} : req'[t] = req[t]
              /\ req'[s].step = "clear" /\ req'[s].id = req[s].id /\ req'[s].event = None
              /\ remote' = [remote EXCEPT ![req[s].id] = "gone"]
              /\ UNCHANGED <<kind, row, ready, open, sub, events, doubt>>
  <2>1. req[s].id \in Objs
    BY <1>0, <1>4, RequestFacts DEF Remove
  <2> QED  BY <1>0, <1>4, <2>1 DEF Remove, Proceed
<1>5. ASSUME Clear(s)
      PROVE   /\ req[s].step = "clear" /\ req[s].id \in Objs /\ req'[s].step = "idle"
              /\ \A t \in Slots \ {s} : req'[t] = req[t]
              /\ row'.id = None /\ row'.onboarded = FALSE
              /\ row'.sub = row.sub /\ row'.status = row.status
              /\ Doubted(Overlap(s))
              /\ UNCHANGED <<kind, remote, ready, open, sub, events>>
  <2>1. req[s].id \in Objs
    BY <1>0, <1>5, RequestFacts DEF Clear
  <2> QED  BY <1>0, <1>5, <2>1 DEF Clear, End, service, Row
<1>6. ASSUME Leaves(s) \/ OpenSession(s)
      PROVE   /\ req[s].step = "ready" /\ req[s].id \in Objs /\ req'[s].step = "idle"
              /\ \A t \in Slots \ {s} : req'[t] = req[t]
              /\ UNCHANGED <<kind, row, remote, ready, sub, events>>
  <2>1. req[s].step = "ready"
    BY <1>6 DEF Leaves, OpenSession
  <2>2. req[s].id \in Objs
    BY <1>0, <2>1, RequestFacts
  <2> QED  BY <1>0, <1>6, <2>1, <2>2 DEF Leaves, OpenSession, End, service
<1> QED  BY <1>1, <1>2, <1>3, <1>4, <1>5, <1>6

-----------------------------------------------------------------------------
(* Topics.                                                                 *)

LEMMA CoreTopics ==
  ASSUME TypeOK, EventsInv, TopicInv, IdsInv, CoreNext
  PROVE  TopicInv'
<1>0. /\ TypeOK' /\ kind' = kind /\ kind \in Kinds /\ row \in Row
      /\ \A t \in Slots : req[t] \in Request /\ req'[t] \in Request
      /\ \A i \in 1 .. Len(events) : events[i] \in Event /\ Sound(events[i])
  BY CoreType, Onwards, LenProperties, ElementOfSeq DEF TypeOK, EventsInv
<1> DEFINE Rest == /\ open # {} => kind = "customer"
                   /\ ready # {} => kind = "account"
                   /\ row.onboarded => kind = "account"
                   /\ \A x \in Subs : sub[x] # None => kind = "customer"
                   /\ kind # "customer" => row.sub = None /\ row.status = None
<1>1. Rest
  BY DEF TopicInv
<1>2. ASSUME \A t \in Slots : req'[t] = req[t] \/ \E r \in Request : req'[t] = r /\ Fits(r),
             Rest'
      PROVE  TopicInv'
  <2>1. ASSUME NEW t \in Slots  PROVE \E r \in Request : req'[t] = r /\ Fits(r)
    BY <1>0, <1>2 DEF TopicInv
  <2>2. ASSUME NEW r \in Request, Fits(r)  PROVE Fits(r)'
    BY <1>0, <2>2 DEF Fits
  <2>3. (\A t \in Slots : Fits(req[t]))'
    <3>1. \A t \in Slots : \E r \in Request : req'[t] = r /\ Fits(r)'
      BY <2>1, <2>2
    <3> QED  BY <3>1 DEF Fits
  <2> QED  BY <1>2, <2>3 DEF TopicInv
<1>3. UNCHANGED <<row, open, ready, sub>> => Rest'
  BY <1>0, <1>1
<1>4. ASSUME NEW r \in Request, r.step = "idle"  PROVE Fits(r)
  BY <1>4 DEF Fits
<1> HIDE DEF Rest
<1>5. ASSUME NEW s \in Slots, Requests(s)  PROVE TopicInv'
  <2>1. PICK why \in Purposes, r \in Request :
          /\ req' = [req EXCEPT ![s] = r]
          /\ r.step = IF row.id = None THEN "create" ELSE "verify"
          /\ r.id = row.id /\ r.why = why
          /\ kind = "tenant" <=> why \in BankPurposes
          /\ why = "checkout" => kind = "customer" /\ ~(row.sub # None /\ row.status = "active")
          /\ row.id # None => kind \in {"customer", "tenant"}
          /\ kind \in Services
          /\ UNCHANGED <<kind, row, remote, ready, open, sub, events>>
    BY <1>5, RequestBecomes
  <2>2. Fits(r)
    BY <2>1 DEF Fits, Purposes, BankPurposes, Services
  <2> QED  BY <1>2, <1>3, <2>1, <2>2 DEF TypeOK
<1>6. ASSUME NEW s \in Slots, Verify(s)  PROVE TopicInv'
  <2>1. PICK r \in Request :
          /\ req[s].step = "verify" /\ req' = [req EXCEPT ![s] = r]
          /\ r.step \in {"idle", "ready", "create"}
          /\ r.step # "idle" => r.id = req[s].id /\ r.why = req[s].why
          /\ UNCHANGED <<kind, row, remote, ready, open, sub, events>>
    BY <1>6, RequestBecomes
  <2>2. Fits(r)
    BY <1>4, <2>1 DEF Fits, TopicInv
  <2> QED  BY <1>2, <1>3, <2>1, <2>2 DEF TypeOK
<1>7. ASSUME NEW s \in Slots, CreateRemote(s)  PROVE TopicInv'
  <2>1. PICK o \in Objs, r \in Request :
          /\ req[s].step = "create" /\ req' = [req EXCEPT ![s] = r]
          /\ r.step = IF kind = "number" THEN "attach" ELSE "persist"
          /\ r.why = req[s].why
          /\ UNCHANGED <<kind, row, ready, open, sub, events, doubt>>
    BY <1>7, RequestBecomes
  <2>2. Fits(r)
    BY <2>1 DEF Fits, TopicInv
  <2> QED  BY <1>2, <1>3, <2>1, <2>2 DEF TypeOK
<1>8. ASSUME NEW s \in Slots, Attach(s)  PROVE TopicInv'
  <2>1. PICK r \in Request :
          /\ req[s].step = "attach" /\ req' = [req EXCEPT ![s] = r]
          /\ r.step = "idle" \/ (r.step = "persist" /\ r.why = req[s].why)
          /\ UNCHANGED <<kind, row, ready, open, sub, events>>
    BY <1>8, RequestBecomes
  <2>2. Fits(r)
    BY <1>4, <2>1 DEF Fits, TopicInv
  <2> QED  BY <1>2, <1>3, <2>1, <2>2 DEF TypeOK
<1>9. ASSUME NEW s \in Slots, Persist(s)  PROVE TopicInv'
  <2>1. PICK r \in Request :
          /\ req[s].step = "persist" /\ req' = [req EXCEPT ![s] = r]
          /\ IF req[s].why = "none" THEN r.step = "idle" ELSE r.step = "ready" /\ r.why = req[s].why
          /\ row' = [row EXCEPT !.id = req[s].id, !.onboarded = FALSE]
          /\ UNCHANGED <<kind, ready, open, sub, events>>
    BY <1>9, RequestBecomes
  <2>2. Fits(r)
    BY <1>4, <2>1 DEF Fits, TopicInv, Services
  <2>3. Rest'
    BY <1>0, <1>1, <2>1 DEF Row, Rest
  <2> QED  BY <1>2, <2>1, <2>2, <2>3 DEF TypeOK
<1>10. ASSUME NEW s \in Slots, Leaves(s) \/ OpenSession(s)  PROVE TopicInv'
  <2>1. /\ req[s].step = "ready" /\ req'[s].step = "idle"
        /\ \A t \in Slots \ {s} : req'[t] = req[t]
        /\ UNCHANGED <<kind, row, remote, ready, sub, events>>
    BY <1>10, LookBecomes
  <2>2. open' = open \/ (req[s].why = "checkout")
    BY <1>10 DEF Leaves, OpenSession, service
  <2>3. open' = open \/ kind = "customer"
    BY <2>1, <2>2 DEF TopicInv, Fits
  <2>4. Rest'
    BY <1>0, <1>1, <2>1, <2>3 DEF Rest
  <2> QED  BY <1>0, <1>2, <1>4, <2>1, <2>4
<1>11. ASSUME NEW s \in Slots, SubscriptionEvent(s)  PROVE TopicInv'
  <2>1. PICK i \in 1 .. Len(events) :
          /\ events[i].type \in {"updated", "deleted", "failed"}
          /\ row'.onboarded = row.onboarded
          /\ UNCHANGED <<kind, remote, ready, open, sub, req>>
    BY <1>11, EventBecomes
  <2>2. kind = "customer"
    BY <1>0, <2>1 DEF Sound, SubTypes
  <2>3. Rest'
    BY <1>0, <1>1, <2>1, <2>2 DEF Rest
  <2> QED  BY <1>2, <2>1, <2>3
<1>12. ASSUME NEW s \in Slots, SessionEvent(s)  PROVE TopicInv'
  <2>1. PICK i \in 1 .. Len(events) :
          /\ events[i].type = "completed"
          /\ req' = req \/ (req'[s].step = "settle" /\ \A t \in Slots \ {s} : req'[t] = req[t])
          /\ UNCHANGED <<kind, row, remote, ready, open, sub>>
    BY <1>12, EventBecomes
  <2>2. kind = "customer"
    BY <1>0, <2>1 DEF Sound, SubTypes
  <2>3. req'[s].step = "settle" => Fits(req'[s])
    BY <2>2 DEF Fits, Services
  <2> QED  BY <1>0, <1>2, <1>3, <2>1, <2>3
<1>13. ASSUME NEW s \in Slots, Settle(s)  PROVE TopicInv'
  <2>1. /\ req[s].step = "settle" /\ req'[s].step = "idle"
        /\ \A t \in Slots \ {s} : req'[t] = req[t]
        /\ row'.onboarded = row.onboarded
        /\ UNCHANGED <<kind, remote, ready, open, sub, events>>
    BY <1>13, EventBecomes
  <2>2. kind = "customer"
    BY <2>1 DEF TopicInv, Fits
  <2>3. Rest'
    BY <1>0, <1>1, <2>1, <2>2 DEF Rest
  <2> QED  BY <1>0, <1>2, <1>4, <2>1, <2>3
<1>14. ASSUME NEW s \in Slots, AccountEvent(s)  PROVE TopicInv'
  <2>1. PICK i \in 1 .. Len(events) :
          /\ events[i].type \in {"account", "deauthorized"}
          /\ \A t \in Slots \ {s} : req'[t] = req[t]
          /\ req' = req \/ req'[s].step \in {"sync", "clear"}
          /\ UNCHANGED <<kind, row, remote, ready, open, sub>>
    BY <1>14, EventBecomes
  <2>2. kind = "account"
    BY <1>0, <2>1 DEF Sound
  <2>3. req'[s].step \in {"sync", "clear"} => Fits(req'[s])
    BY <2>2 DEF Fits, Services
  <2> QED  BY <1>0, <1>2, <1>3, <2>1, <2>3
<1>15. ASSUME NEW s \in Slots, LookUp(s)  PROVE TopicInv'
  <2>1. /\ \A t \in Slots \ {s} : req'[t] = req[t]
        /\ \/ kind = "account" /\ req'[s].step = "poll"
           \/ kind = "number" /\ req'[s].step = "remove"
        /\ UNCHANGED <<kind, row, remote, ready, open, sub, events, doubt>>
    BY <1>15, LookBecomes
  <2>2. Fits(req'[s])
    BY <2>1 DEF Fits, Services
  <2> QED  BY <1>0, <1>2, <1>3, <2>1, <2>2
<1>16. ASSUME NEW s \in Slots, Poll(s) \/ Remove(s)  PROVE TopicInv'
  <2>1. /\ req[s].step \in {"poll", "remove"} /\ req'[s].step \in {"idle", "sync", "clear"}
        /\ req[s].step = "remove" => req'[s].step = "clear"
        /\ \A t \in Slots \ {s} : req'[t] = req[t]
        /\ UNCHANGED <<kind, row, ready, open, sub, events>>
    BY <1>16, LookBecomes
  <2>2. Fits(req'[s])
    BY <1>0, <1>4, <2>1 DEF Fits, TopicInv
  <2> QED  BY <1>0, <1>2, <1>3, <2>1, <2>2
<1>17. ASSUME NEW s \in Slots, Sync(s) \/ Clear(s)  PROVE TopicInv'
  <2>1. /\ req'[s].step = "idle" /\ req[s].step \in {"sync", "clear"}
        /\ \A t \in Slots \ {s} : req'[t] = req[t]
        /\ row'.onboarded => req[s].step = "sync"
        /\ row'.sub = row.sub /\ row'.status = row.status
        /\ UNCHANGED <<kind, remote, ready, open, sub, events>>
    BY <1>17, LookBecomes
  <2>2. row'.onboarded => kind = "account"
    BY <2>1 DEF TopicInv, Fits
  <2>3. Rest'
    BY <1>0, <1>1, <2>1, <2>2 DEF Rest
  <2> QED  BY <1>0, <1>2, <1>4, <2>1, <2>3
<1>18. ASSUME NEW s \in Slots, Stops(s)  PROVE TopicInv'
  <2>1. /\ req'[s].step = "idle" /\ \A t \in Slots \ {s} : req'[t] = req[t]
        /\ UNCHANGED <<kind, row, remote, ready, open, sub>>
    BY <1>18, StopsFacts DEF Stops, service
  <2> QED  BY <1>0, <1>2, <1>3, <1>4, <2>1
<1>19. CASE CompleteSession
  <2>1. PICK session \in open :
          /\ open' = open \ {session}
          /\ UNCHANGED <<kind, row, remote, ready, req, doubt>>
    BY <1>19, CompleteSessionFacts
  <2>2. kind = "customer"
    BY <2>1 DEF TopicInv
  <2>3. Rest'
    BY <1>0, <1>1, <2>1, <2>2 DEF Rest
  <2> QED  BY <1>2, <2>1, <2>3
<1>20. CASE SubChanges
  <2>1. PICK x \in Billed :
          /\ x \in Subs /\ sub[x] # None
          /\ UNCHANGED <<kind, row, remote, ready, open, req, doubt>>
    BY <1>20, SubChangesFacts
  <2>2. kind = "customer"
    BY <2>1 DEF TopicInv
  <2>3. Rest'
    BY <1>0, <1>1, <2>1, <2>2 DEF Rest
  <2> QED  BY <1>2, <2>1, <2>3
<1>21. CASE AccountChanges
  <2>1. kind = "account" /\ UNCHANGED <<row, open, sub, req>>
    BY <1>21 DEF AccountChanges
  <2>2. Rest'
    BY <1>0, <1>1, <2>1 DEF Rest
  <2> QED  BY <1>2, <2>1, <2>2
<1>22. CASE RemoteGoes
  <2>1. open' \subseteq open /\ ready' \subseteq ready /\ UNCHANGED <<row, sub, req>>
    BY <1>22, RemoteGoesFacts
  <2>2. Rest'
    BY <1>0, <1>1, <2>1 DEF Rest
  <2> QED  BY <1>2, <2>1, <2>2
<1>23. CASE UNCHANGED vars
  BY <1>2, <1>3, <1>23 DEF vars, service
<1> QED  BY <1>5, <1>6, <1>7, <1>8, <1>9, <1>10, <1>11, <1>12, <1>13, <1>14, <1>15, <1>16, <1>17,
            <1>18, <1>19, <1>20, <1>21, <1>22, <1>23 DEF CoreNext

-----------------------------------------------------------------------------
(* Ids.                                                                    *)

(* A step in which no slot but s changes and no id of others does.         *)
LEMMA IdsKept ==
  ASSUME TypeOK, TypeOK', TopicInv, IdsInv, kind' = kind, NEW s \in Slots,
         \A t \in Slots \ {s} : req'[t] = req[t],
         row'.id # None => remote'[row'.id] \in {"live", "gone"},
         \A o \in ready' : remote'[o] = "live",
         IdInv(s)',
         \A t \in Slots \ {s} : Fresh(t) =>
            /\ req[t].id # row'.id
            /\ Named(s)' => req'[s].id # req[t].id
            /\ Fresh(s)' => req'[s].id # req[t].id
            /\ remote'[req[t].id] = remote[req[t].id]
               \/ (req[t].step = "persist" /\ kind = "number" /\ remote'[req[t].id] = "gone"),
         \A t \in Slots \ {s} : Named(t) /\ Fresh(s)' => req[t].id # req'[s].id,
         \A o \in Objs : remote[o] \in {"live", "gone"} => remote'[o] \in {"live", "gone"}
  PROVE  IdsInv'
<1>0. \A t \in Slots : req[t] \in Request
  BY DEF TypeOK
<1>1. ASSUME NEW t \in Slots \ {s}
      PROVE  /\ Fresh(t)' <=> Fresh(t)
             /\ Named(t)' <=> Named(t)
             /\ IdInv(t)'
  <2>1. (Fresh(t)' <=> Fresh(t)) /\ (Named(t)' <=> Named(t))
    BY DEF Fresh, Named
  <2>2. Named(t) => req[t].id \in Objs \cup {None}
    BY <1>0, RequestFacts DEF Named
  <2>3. IdInv(t)
    BY DEF IdsInv
  <2>4. IdInv(t)'
    BY <2>1, <2>2, <2>3 DEF IdInv, Fresh
  <2> QED  BY <2>1, <2>4
<1>2. ASSUME NEW t \in Slots, NEW r \in Slots, t # r, Fresh(t)', Named(r)'
      PROVE  req'[r].id # req'[t].id
  <2>1. CASE t = s
    BY <1>1, <1>2, <2>1
  <2>2. CASE t # s /\ r = s
    BY <1>1, <1>2, <2>2
  <2>3. CASE t # s /\ r # s
    BY <1>1, <1>2, <2>3 DEF IdsInv
  <2> QED  BY <2>1, <2>2, <2>3
<1>3. \A t \in Slots : IdInv(t)'
  BY <1>1
<1>4. /\ (row.id # None => remote[row.id] \in {"live", "gone"})'
      /\ (\A o \in ready : remote[o] = "live")'
      /\ (\A t, r \in Slots : t # r /\ Fresh(t) /\ Named(r) => req[r].id # req[t].id)'
  BY <1>2
<1> QED  BY <1>3, <1>4 DEF IdsInv

(* The remote objects are as they were, or older.                          *)
LEMMA IdsOnwards ==
  ASSUME TypeOK, TypeOK', EventsInv, TopicInv, IdsInv, CoreNext, NEW s \in Slots,
         \A t \in Slots \ {s} : req'[t] = req[t],
         UNCHANGED <<remote, ready>>,
         row'.id \in {row.id, None} \/ (Named(s) /\ ~Fresh(s) /\ row'.id = req[s].id),
         Fresh(s)' => req'[s] = req[s] /\ row'.id \in {row.id, None},
         Named(s)' => req'[s].id = row.id \/ (Named(s) /\ req'[s].id = req[s].id
                                               /\ (Fresh(s) <=> Fresh(s)')),
         req'[s].step = "verify" => req'[s].id # None
  PROVE  IdsInv'
<1>0. kind' = kind /\ req[s] \in Request /\ row.id \in Objs \cup {None}
  BY Onwards DEF TypeOK, Row
<1>1. Named(s) => req[s].id \in Objs \cup {None}
  BY <1>0, RequestFacts DEF Named
<1>2. IdInv(s) /\ \A t \in Slots \ {s} : Fresh(t) => req[t].id # row.id
                                                     /\ (Named(s) => req[t].id # req[s].id)
  BY DEF IdsInv, IdInv
<1>3. \A t \in Slots : Fresh(t) => req[t].id \in Objs
  BY RequestFacts DEF Fresh, TypeOK
<1>4. row'.id # None => remote'[row'.id] \in {"live", "gone"}
  BY <1>0, <1>1, <1>2 DEF IdsInv, IdInv
<1>5. IdInv(s)'
  <2>1. CASE Fresh(s)'
    <3>1. Fresh(s) /\ Named(s) /\ req[s].id \in Objs
      BY <1>3, <2>1 DEF Fresh, Named
    <3> QED  BY <1>0, <1>2, <2>1, <3>1, NoneAssumption DEF IdInv, Fresh, Named
  <2>2. CASE ~Fresh(s)'
    <3>1. Named(s)' /\ req'[s].id # None => remote'[req'[s].id] \in {"live", "gone"}
      BY <1>2, <2>2 DEF IdsInv, IdInv
    <3> QED  BY <2>2, <3>1 DEF IdInv, Fresh
  <2> QED  BY <2>1, <2>2
<1>6. \A t \in Slots \ {s} : Fresh(t) => /\ req[t].id # row'.id
                                         /\ Named(s)' => req'[s].id # req[t].id
                                         /\ Fresh(s)' => req'[s].id # req[t].id
  <2>1. Fresh(s)' => Named(s)'
    BY DEF Fresh, Named
  <2> QED  BY <1>2, <1>3, <2>1, NoneAssumption
<1>7. \A t \in Slots \ {s} : Named(t) /\ Fresh(s)' => req[t].id # req'[s].id
  BY DEF IdsInv, Fresh
<1> QED  BY <1>0, <1>4, <1>5, <1>6, <1>7, IdsKept DEF IdsInv

LEMMA CoreIds ==
  ASSUME TypeOK, EventsInv, TopicInv, IdsInv, CoreNext
  PROVE  IdsInv'
<1>0. /\ TypeOK' /\ kind' = kind /\ row.id \in Objs \cup {None}
      /\ \A t \in Slots : req[t] \in Request /\ IdInv(t)
      /\ \A o \in Objs : remote[o] \in {"live", "gone"} => remote'[o] \in {"live", "gone"}
  BY CoreType, Onwards DEF TypeOK, Row, IdsInv
<1>1. ASSUME NEW s \in Slots, Requests(s) \/ Verify(s)  PROVE IdsInv'
  <2>1. PICK r \in Request :
          /\ req' = [req EXCEPT ![s] = r]
          /\ \/ Named(s) /\ ~Fresh(s) /\ r.id = req[s].id /\ r.step # "verify"
             \/ r.id = row.id /\ r.step = IF row.id = None THEN "create" ELSE "verify"
             \/ r.step = "idle"
          /\ r.step \in {"idle", "ready", "create", "verify"}
          /\ UNCHANGED <<kind, row, remote, ready, open, sub, events>>
    BY <1>1, RequestBecomes DEF Named, Fresh
  <2>2. req'[s] = r /\ \A t \in Slots \ {s} : req'[t] = req[t]
    BY <2>1 DEF TypeOK
  <2> QED  BY <1>0, <2>1, <2>2, IdsOnwards DEF Named, Fresh
<1>2. ASSUME NEW s \in Slots, CreateRemote(s)  PROVE IdsInv'
  <2>1. PICK o \in Objs, r \in Request :
          /\ req[s].step = "create" /\ req' = [req EXCEPT ![s] = r]
          /\ remote[o] = "unused" /\ remote' = [remote EXCEPT ![o] = "made"]
          /\ r.step = IF kind = "number" THEN "attach" ELSE "persist"
          /\ r.id = o /\ r.why = req[s].why
          /\ UNCHANGED <<kind, row, ready, open, sub, events, doubt>>
    BY <1>2, RequestBecomes
  <2>2. req'[s] = r /\ \A t \in Slots \ {s} : req'[t] = req[t]
    BY <2>1 DEF TypeOK
  <2>3. remote'[o] = "made" /\ \A p \in Objs \ {o} : remote'[p] = remote[p]
    BY <2>1 DEF TypeOK
  <2>4. /\ row.id # o
        /\ \A t \in Slots : Named(t) => req[t].id # o
        /\ o \notin ready
    BY <1>0, <2>1, NoneAssumption DEF IdsInv, IdInv, Named, Fresh
  <2>5. IdInv(s)'
    BY <1>0, <2>1, <2>2, <2>3, <2>4 DEF IdInv, Fresh, Named
  <2>6. \A t \in Slots \ {s} : Fresh(t) =>
            /\ req[t].id # row'.id /\ req'[s].id # req[t].id
            /\ remote'[req[t].id] = remote[req[t].id]
    <3>1. \A t \in Slots : Fresh(t) => req[t].id \in Objs /\ req[t].id # o /\ req[t].id # row.id
      BY <1>0, <2>4, RequestFacts DEF Fresh, Named, IdInv
    <3> QED  BY <2>1, <2>2, <2>3, <3>1
  <2>7. /\ row'.id # None => remote'[row'.id] \in {"live", "gone"}
        /\ \A p \in ready' : remote'[p] = "live"
    BY <1>0, <2>1, <2>3, <2>4 DEF IdsInv, TypeOK
  <2>8. \A t \in Slots \ {s} : Named(t) /\ Fresh(s)' => req[t].id # req'[s].id
    BY <2>1, <2>2, <2>4
  <2> QED  BY <1>0, <2>2, <2>5, <2>6, <2>7, <2>8, IdsKept
<1>3. ASSUME NEW s \in Slots, Attach(s)  PROVE IdsInv'
  <2>1. PICK r \in Request :
          /\ req[s].step = "attach" /\ req[s].id \in Objs /\ req' = [req EXCEPT ![s] = r]
          /\ \/ remote' = [remote EXCEPT ![req[s].id] = "live"] /\ r.step = "persist" /\ r.id = req[s].id
             \/ remote' = [remote EXCEPT ![req[s].id] = "gone"] /\ r.step = "idle"
             \/ r.step = "idle" /\ UNCHANGED remote
          /\ UNCHANGED <<kind, row, ready, open, sub, events>>
    BY <1>3, RequestBecomes
  <2>2. req'[s] = r /\ \A t \in Slots \ {s} : req'[t] = req[t]
    BY <2>1 DEF TypeOK
  <2>3. /\ \A p \in Objs \ {req[s].id} : remote'[p] = remote[p]
        /\ r.step = "persist" => remote'[req[s].id] = "live"
    BY <2>1 DEF TypeOK
  <2>4. /\ remote[req[s].id] = "made" /\ row.id # req[s].id /\ req[s].id \notin ready
        /\ kind = "number"
        /\ \A t \in Slots \ {s} : Named(t) => req[t].id # req[s].id
    BY <1>0, <2>1 DEF IdsInv, IdInv, Fresh, TopicInv, Fits
  <2>5. IdInv(s)'
    BY <1>0, <2>1, <2>2, <2>3, <2>4 DEF IdInv, Fresh, Named
  <2>6. \A t \in Slots \ {s} : Fresh(t) =>
            /\ req[t].id # row'.id /\ (Named(s)' => req'[s].id # req[t].id)
            /\ (Fresh(s)' => req'[s].id # req[t].id)
            /\ remote'[req[t].id] = remote[req[t].id]
    <3>1. \A t \in Slots \ {s} : Fresh(t) => req[t].id \in Objs /\ req[t].id # req[s].id /\ req[t].id # row.id
      BY <1>0, <2>4, RequestFacts DEF Fresh, Named, IdInv
    <3>2. Named(s)' \/ Fresh(s)' => req'[s].id = req[s].id
      BY <2>1, <2>2 DEF Named, Fresh
    <3> QED  BY <2>1, <2>3, <3>1, <3>2
  <2>7. /\ row'.id # None => remote'[row'.id] \in {"live", "gone"}
        /\ \A p \in ready' : remote'[p] = "live"
    BY <1>0, <2>1, <2>3, <2>4 DEF IdsInv, TypeOK
  <2>8. \A t \in Slots \ {s} : Named(t) /\ Fresh(s)' => req[t].id # req'[s].id
    BY <2>1, <2>2, <2>4 DEF Fresh
  <2> QED  BY <1>0, <2>2, <2>5, <2>6, <2>7, <2>8, IdsKept
<1>4. ASSUME NEW s \in Slots, Persist(s)  PROVE IdsInv'
  <2>1. PICK r \in Request :
          /\ req[s].step = "persist" /\ req[s].id \in Objs /\ req' = [req EXCEPT ![s] = r]
          /\ r.step = "idle" \/ (r.step = "ready" /\ r.id = req[s].id)
          /\ row' = [row EXCEPT !.id = req[s].id, !.onboarded = FALSE]
          /\ remote' = [remote EXCEPT ![req[s].id] = IF @ = "made" THEN "live" ELSE @]
          /\ UNCHANGED <<kind, ready, open, sub, events>>
    BY <1>4, RequestBecomes
  <2>2. req'[s] = r /\ (\A t \in Slots \ {s} : req'[t] = req[t]) /\ row'.id = req[s].id
    BY <2>1 DEF TypeOK, Row
  <2>3. /\ \A p \in Objs \ {req[s].id} : remote'[p] = remote[p]
        /\ remote[req[s].id] \in {"made", "live", "gone"}
        /\ remote'[req[s].id] = IF remote[req[s].id] = "made" THEN "live" ELSE remote[req[s].id]
    BY <1>0, <2>1 DEF TypeOK, IdInv
  <2>4. \A t \in Slots \ {s} : Named(t) => req[t].id # req[s].id
    BY <2>1 DEF IdsInv, Fresh
  <2>5. IdInv(s)'
    BY <1>0, <2>1, <2>2, <2>3 DEF IdInv, Fresh, Named
  <2>6. \A t \in Slots \ {s} : Fresh(t) =>
            /\ req[t].id # row'.id /\ (Named(s)' => req'[s].id # req[t].id)
            /\ (Fresh(s)' => req'[s].id # req[t].id)
            /\ remote'[req[t].id] = remote[req[t].id]
    <3>1. \A t \in Slots \ {s} : Fresh(t) => req[t].id \in Objs /\ req[t].id # req[s].id
      BY <1>0, <2>4, RequestFacts DEF Fresh, Named
    <3>2. Named(s)' \/ Fresh(s)' => req'[s].id = req[s].id
      BY <2>1, <2>2 DEF Named, Fresh
    <3> QED  BY <2>2, <2>3, <3>1, <3>2
  <2>7. /\ remote'[row'.id] \in {"live", "gone"}
        /\ \A p \in ready' : remote'[p] = "live"
    BY <1>0, <2>1, <2>2, <2>3 DEF IdsInv, TypeOK
  <2>8. ~Fresh(s)'
    BY <2>1, <2>2 DEF Fresh
  <2> QED  BY <1>0, <2>2, <2>5, <2>6, <2>7, <2>8, IdsKept
<1>5. ASSUME NEW s \in Slots, Leaves(s) \/ OpenSession(s)  PROVE IdsInv'
  <2>1. /\ req'[s].step = "idle" /\ \A t \in Slots \ {s} : req'[t] = req[t]
        /\ UNCHANGED <<kind, row, remote, ready, sub, events>>
    BY <1>5, LookBecomes
  <2> QED  BY <1>0, <2>1, IdsOnwards DEF Named, Fresh
<1>6. ASSUME NEW s \in Slots, SubscriptionEvent(s) \/ SessionEvent(s) \/ Settle(s)  PROVE IdsInv'
  <2>1. /\ \A t \in Slots \ {s} : req'[t] = req[t]
        /\ req' = req \/ req'[s].step \in {"idle", "settle"}
        /\ row'.id = row.id /\ UNCHANGED <<remote, ready>>
    BY <1>6, EventBecomes
  <2>2. req'[s].step = "verify" => req'[s].id # None
    BY <1>0, <2>1 DEF IdInv
  <2> QED  BY <1>0, <2>1, <2>2, IdsOnwards DEF Named, Fresh
<1>7. ASSUME NEW s \in Slots, AccountEvent(s)  PROVE IdsInv'
  <2>1. /\ \A t \in Slots \ {s} : req'[t] = req[t]
        /\ req' = req \/ (req'[s].step \in {"sync", "clear"} /\ req'[s].id = row.id)
        /\ row' = row /\ UNCHANGED <<remote, ready>>
    BY <1>7, EventBecomes
  <2>2. req'[s].step = "verify" => req'[s].id # None
    BY <1>0, <2>1 DEF IdInv
  <2> QED  BY <1>0, <2>1, <2>2, IdsOnwards DEF Named, Fresh
<1>8. ASSUME NEW s \in Slots, LookUp(s) \/ Poll(s)  PROVE IdsInv'
  <2>1. /\ \A t \in Slots \ {s} : req'[t] = req[t]
        /\ \/ req'[s].step \in {"poll", "remove"} /\ req'[s].id = row.id
           \/ req'[s].step = "idle"
           \/ req[s].step = "poll" /\ req'[s].step \in {"sync", "clear"} /\ req'[s].id = req[s].id
        /\ row' = row /\ UNCHANGED <<remote, ready>>
    BY <1>8, LookBecomes
  <2> QED  BY <1>0, <2>1, IdsOnwards DEF Named, Fresh
<1>9. ASSUME NEW s \in Slots, Sync(s) \/ Clear(s)  PROVE IdsInv'
  <2>1. /\ \A t \in Slots \ {s} : req'[t] = req[t]
        /\ req[s].step \in {"sync", "clear"} /\ req'[s].step = "idle"
        /\ row'.id \in {None, req[s].id} /\ UNCHANGED <<remote, ready>>
    BY <1>9, LookBecomes
  <2> QED  BY <1>0, <2>1, IdsOnwards DEF Named, Fresh
<1>10. ASSUME NEW s \in Slots, Remove(s)  PROVE IdsInv'
  <2>1. /\ req[s].step = "remove" /\ req[s].id \in Objs
        /\ \A t \in Slots \ {s} : req'[t] = req[t]
        /\ req'[s].step = "clear" /\ req'[s].id = req[s].id /\ req'[s].event = None
        /\ remote' = [remote EXCEPT ![req[s].id] = "gone"]
        /\ UNCHANGED <<kind, row, ready, open, sub, events, doubt>>
    BY <1>10, LookBecomes
  <2>2. /\ \A p \in Objs \ {req[s].id} : remote'[p] = remote[p]
        /\ remote'[req[s].id] = "gone" /\ ready = {}
    BY <1>0, <2>1 DEF TypeOK, TopicInv, Fits
  <2>3. \A t \in Slots : Fresh(t) => req[t].id # req[s].id /\ req[t].id # row.id /\ req[t].id \in Objs
    BY <1>0, <2>1, RequestFacts DEF IdsInv, IdInv, Fresh, Named
  <2>4. IdInv(s)'
    BY <1>0, <2>1, <2>2 DEF IdInv, Fresh, Named
  <2>5. /\ row'.id # None => remote'[row'.id] \in {"live", "gone"}
        /\ \A p \in ready' : remote'[p] = "live"
    BY <1>0, <2>1, <2>2 DEF IdsInv
  <2>6. ~Fresh(s)'
    BY <2>1 DEF Fresh
  <2> QED  BY <1>0, <2>1, <2>2, <2>3, <2>4, <2>5, <2>6, IdsKept
<1>11. ASSUME NEW s \in Slots, Stops(s)  PROVE IdsInv'
  <2>1. /\ req'[s].step = "idle" /\ \A t \in Slots \ {s} : req'[t] = req[t]
        /\ UNCHANGED <<row, remote, ready>>
    BY <1>11, StopsFacts DEF Stops, service
  <2> QED  BY <1>0, <2>1, IdsOnwards DEF Named, Fresh
<1>12. ASSUME UNCHANGED <<row, remote, req>>, \A o \in ready' : remote'[o] = "live"  PROVE IdsInv'
  BY <1>0, <1>12 DEF IdsInv, IdInv, Fresh, Named
<1>13. CASE CompleteSession \/ SubChanges \/ UNCHANGED vars
  BY <1>12, <1>13 DEF CompleteSession, SubChanges, vars, service, IdsInv
<1>14. CASE AccountChanges
  BY <1>12, <1>14, AccountChangesFacts DEF IdsInv
<1>15. CASE RemoteGoes
  <2>1. PICK o \in Objs :
          /\ remote[o] = "live" /\ remote' = [remote EXCEPT ![o] = "gone"]
          /\ ready' = ready \ {o} /\ UNCHANGED <<kind, row, sub, req, doubt>>
    BY <1>15, RemoteGoesFacts
  <2>2. remote'[o] = "gone" /\ \A p \in Objs \ {o} : remote'[p] = remote[p]
    BY <2>1 DEF TypeOK
  <2>3. ASSUME NEW t \in Slots
        PROVE  IdInv(t)' /\ (Named(t)' <=> Named(t)) /\ (Fresh(t)' <=> Fresh(t))
    <3>1. Named(t) => req[t].id \in Objs \cup {None}
      BY <1>0, RequestFacts DEF Named
    <3>2. (Named(t)' <=> Named(t)) /\ (Fresh(t)' <=> Fresh(t))
      BY <2>1 DEF Named, Fresh
    <3>3. Named(t) /\ req[t].id # None => remote'[req[t].id] = remote[req[t].id]
                                          \/ (req[t].id = o /\ remote'[req[t].id] = "gone")
      BY <2>2, <3>1
    <3>4. Fresh(t) => Named(t) /\ req[t].id \in Objs /\ req[t].id # None
      BY <1>0, RequestFacts, NoneAssumption DEF Fresh, Named
    <3>5. IdInv(t)'
      BY <1>0, <2>1, <3>2, <3>3, <3>4 DEF IdInv, Fresh
    <3> QED  BY <3>2, <3>5
  <2>4. /\ row'.id # None => remote'[row'.id] \in {"live", "gone"}
        /\ \A p \in ready' : remote'[p] = "live"
    BY <1>0, <2>1, <2>2 DEF IdsInv, TypeOK
  <2> QED  BY <2>1, <2>3, <2>4 DEF IdsInv
<1> QED  BY <1>1, <1>2, <1>3, <1>4, <1>5, <1>6, <1>7, <1>8, <1>9, <1>10, <1>11, <1>13, <1>14, <1>15
         DEF CoreNext

-----------------------------------------------------------------------------
(* What exists is kept.                                                    *)

Clean == doubt \cap {"overlap", "cut", "blind"} = {}

Holding(s, o) == req[s].step \in {"attach", "persist", "remove"} /\ req[s].id = o

RowKept(s) ==
  /\ req[s].step \in {"create", "attach", "persist"} => row.id = None \/ ~Exists(row.id)
  /\ req[s].step \in {"verify", "ready", "poll", "remove", "sync", "clear"} => req[s].id = row.id
  /\ req[s].step = "clear" => ~Exists(req[s].id)

LEMMA KeptMeans ==
  /\ KeptInv <=> RemoteIsKept /\ (Trusted => \A s \in Slots : RowKept(s))
  /\ RemoteIsKept <=>
       \A o \in Objs : Exists(o) /\ Clean => row.id = o \/ \E s \in Slots : Holding(s, o)
<1>1. KeptInv <=> RemoteIsKept /\ (Trusted => \A s \in Slots : RowKept(s))
  BY DEF KeptInv, RowKept
<1>2. RemoteIsKept <=>
       \A o \in Objs : Exists(o) /\ Clean => row.id = o \/ \E s \in Slots : Holding(s, o)
  BY DEF RemoteIsKept, Clean, Holding
<1> QED  BY <1>1, <1>2

(* A step of slot s, or of nobody, that leaves the others alone.           *)
LEMMA KeptKept ==
  ASSUME TypeOK, TypeOK', EventsInv, IdsInv, KeptInv, CoreNext, NEW s \in Slots,
         \A t \in Slots \ {s} : req'[t] = req[t],
         Trusted' => row'.id = row.id \/ \A t \in Slots \ {s} : req[t].step = "idle",
         Trusted /\ Trusted' => RowKept(s)',
         \A o \in Objs : Clean /\ Clean' /\ Exists(o)' /\ (row.id = o \/ Holding(s, o)) =>
                           row'.id = o \/ Holding(s, o)',
         \A o \in Objs : Exists(o)' => Exists(o) \/ Holding(s, o)'
  PROVE  KeptInv'
<1>0. /\ doubt \subseteq doubt' /\ row.id \in Objs \cup {None}
      /\ \A t \in Slots : req[t] \in Request /\ IdInv(t)
      /\ \A o \in Objs : remote[o] = "gone" => remote'[o] = "gone"
  BY Onwards DEF TypeOK, Row, IdsInv
<1>1. (Trusted' => Trusted) /\ (Clean' => Clean)
  BY <1>0 DEF Trusted, Clean
<1>2. row.id # None /\ ~Exists(row.id) => remote'[row.id] = "gone"
  <2>1. row.id # None => row.id \in Objs /\ remote[row.id] \in {"live", "gone"}
    BY <1>0 DEF IdsInv
  <2> QED  BY <1>0, <2>1 DEF Exists
<1>3. ASSUME NEW t \in Slots \ {s}, Trusted'  PROVE RowKept(t)'
  <2>1. RowKept(t) /\ req'[t] = req[t]
    BY <1>1, <1>3, KeptMeans
  <2>2. CASE req[t].step = "idle"
    BY <2>1, <2>2 DEF RowKept
  <2>3. CASE row'.id = row.id
    <3>1. req[t].step = "clear" => req[t].id = row.id /\ req[t].id \in Objs
      BY <1>0, <2>1, RequestFacts DEF RowKept
    <3>2. req[t].step = "clear" => remote'[row.id] = "gone"
      BY <1>2, <2>1, <3>1, NoneAssumption DEF RowKept
    <3> QED  BY <1>2, <2>1, <2>3, <3>1, <3>2 DEF RowKept, Exists
  <2> QED  BY <1>3, <2>2, <2>3
<1>4. Trusted' => \A t \in Slots : RowKept(t)'
  BY <1>1, <1>3
<1>5. ASSUME NEW o \in Objs, Exists(o)', Clean'
      PROVE  row'.id = o \/ \E t \in Slots : Holding(t, o)'
  <2>1. CASE Holding(s, o)'
    BY <2>1
  <2>2. CASE Exists(o)
    <3>1. row.id = o \/ \E t \in Slots : Holding(t, o)
      BY <1>1, <1>5, <2>2, KeptMeans DEF KeptInv
    <3>2. \A t \in Slots \ {s} : Holding(t, o) => Holding(t, o)'
      BY DEF Holding
    <3> QED  BY <1>1, <1>5, <3>1, <3>2
  <2> QED  BY <1>5, <2>1, <2>2
<1>6. RemoteIsKept'
  BY <1>5 DEF RemoteIsKept, Clean, Holding, Exists
<1> QED  BY <1>4, <1>6 DEF KeptInv, RowKept

LEMMA CoreKept ==
  ASSUME TypeOK, EventsInv, TopicInv, IdsInv, KeptInv, CoreNext
  PROVE  KeptInv'
<1>0. /\ TypeOK' /\ kind' = kind /\ row.id \in Objs \cup {None} /\ doubt \subseteq doubt'
      /\ \A t \in Slots : req[t] \in Request /\ IdInv(t)
      /\ \A o \in Objs : remote[o] = "gone" => remote'[o] = "gone"
      /\ Trusted => \A t \in Slots : RowKept(t)
  <2>1. Trusted => \A t \in Slots : RowKept(t)
    BY KeptMeans
  <2> QED  BY <2>1, CoreType, Onwards DEF TypeOK, Row, IdsInv
<1>1. row.id # None /\ ~Exists(row.id) => remote'[row.id] = "gone"
  <2>1. row.id # None => row.id \in Objs /\ remote[row.id] \in {"live", "gone"}
    BY DEF IdsInv, TypeOK, Row
  <2> QED  BY <1>0, <2>1 DEF Exists
<1>2. /\ Trusted' => "overlap" \notin doubt' /\ "blind" \notin doubt'
      /\ Clean' => "cut" \notin doubt' /\ Trusted'
      /\ Clean => Trusted
  BY DEF Trusted, Clean
<1>3. remote' = remote => \A o \in Objs : Exists(o)' => Exists(o)
  BY DEF Exists
<1>4. ASSUME NEW s \in Slots, Requests(s)  PROVE KeptInv'
  <2>1. PICK r \in Request :
          /\ req[s].step = "idle" /\ req' = [req EXCEPT ![s] = r]
          /\ r.step = IF row.id = None THEN "create" ELSE "verify"
          /\ r.id = row.id
          /\ UNCHANGED <<kind, row, remote, ready, open, sub, events>>
    BY <1>4, RequestBecomes
  <2>2. req'[s] = r /\ \A t \in Slots \ {s} : req'[t] = req[t]
    BY <2>1 DEF TypeOK
  <2>3. RowKept(s)'
    BY <2>1, <2>2 DEF RowKept
  <2>4. \A o \in Objs : ~Holding(s, o)
    BY <2>1 DEF Holding
  <2> QED  BY <1>0, <1>3, <2>1, <2>2, <2>3, <2>4, KeptKept
<1>5. ASSUME NEW s \in Slots, Verify(s)  PROVE KeptInv'
  <2>1. PICK r \in Request :
          /\ req[s].step = "verify" /\ req[s].id \in Objs /\ req' = [req EXCEPT ![s] = r]
          /\ r.step \in {"idle", "ready"}
             \/ (r.step = "create" /\ Doubted(IF Exists(req[s].id) THEN {"blind"} ELSE {}))
          /\ r.step # "idle" => r.id = req[s].id
          /\ UNCHANGED <<kind, row, remote, ready, open, sub, events>>
    BY <1>5, RequestBecomes
  <2>2. req'[s] = r /\ \A t \in Slots \ {s} : req'[t] = req[t]
    BY <2>1 DEF TypeOK
  <2>3. Trusted' /\ r.step = "create" => ~Exists(req[s].id)
    BY <1>2, <2>1 DEF Doubted
  <2>4. Trusted /\ Trusted' => RowKept(s)'
    BY <1>0, <2>1, <2>2, <2>3 DEF RowKept, Exists
  <2>5. \A o \in Objs : ~Holding(s, o)
    BY <2>1 DEF Holding
  <2> QED  BY <1>0, <1>3, <2>1, <2>2, <2>4, <2>5, KeptKept
<1>6. ASSUME NEW s \in Slots, CreateRemote(s)  PROVE KeptInv'
  <2>1. PICK o \in Objs, r \in Request :
          /\ req[s].step = "create" /\ req' = [req EXCEPT ![s] = r]
          /\ remote[o] = "unused" /\ remote' = [remote EXCEPT ![o] = "made"]
          /\ r.step = IF kind = "number" THEN "attach" ELSE "persist"
          /\ r.id = o /\ r.why = req[s].why
          /\ UNCHANGED <<kind, row, ready, open, sub, events, doubt>>
    BY <1>6, RequestBecomes
  <2>2. req'[s] = r /\ \A t \in Slots \ {s} : req'[t] = req[t]
    BY <2>1 DEF TypeOK
  <2>3. \A p \in Objs \ {o} : remote'[p] = remote[p]
    BY <2>1 DEF TypeOK
  <2>4. Holding(s, o)' /\ \A p \in Objs : ~Holding(s, p)
    BY <2>1, <2>2 DEF Holding
  <2>5. \A p \in Objs : Exists(p)' => Exists(p) \/ Holding(s, p)'
    BY <2>3, <2>4 DEF Exists
  <2>6. Trusted => RowKept(s)'
    <3>1. Trusted => row.id = None \/ ~Exists(row.id)
      BY <1>0, <2>1 DEF RowKept
    <3>2. Trusted => row'.id = None \/ remote'[row'.id] = "gone"
      BY <1>1, <2>1, <3>1
    <3> QED  BY <2>1, <2>2, <3>2 DEF RowKept, Exists
  <2> QED  BY <1>0, <2>1, <2>2, <2>4, <2>5, <2>6, KeptKept
<1>7. ASSUME NEW s \in Slots, Attach(s)  PROVE KeptInv'
  <2>1. PICK r \in Request :
          /\ req[s].step = "attach" /\ req[s].id \in Objs /\ req' = [req EXCEPT ![s] = r]
          /\ \/ remote' = [remote EXCEPT ![req[s].id] = "live"] /\ r.step = "persist" /\ r.id = req[s].id
             \/ remote' = [remote EXCEPT ![req[s].id] = "gone"] /\ r.step = "idle"
             \/ r.step = "idle" /\ UNCHANGED remote /\ Doubted({"cut"})
          /\ UNCHANGED <<kind, row, ready, open, sub, events>>
    BY <1>7, RequestBecomes
  <2>2. req'[s] = r /\ \A t \in Slots \ {s} : req'[t] = req[t]
    BY <2>1 DEF TypeOK
  <2>3. /\ \A p \in Objs \ {req[s].id} : remote'[p] = remote[p]
        /\ remote[req[s].id] = "made" /\ row.id # req[s].id
    BY <1>0, <2>1 DEF TypeOK, IdInv, Fresh
  <2>4. \A p \in Objs : Exists(p)' => Exists(p)
    BY <2>3 DEF Exists
  <2>5. Clean' => \A p \in Objs : Exists(p)' /\ Holding(s, p) => Holding(s, p)'
    <3>1. CASE r.step = "persist" /\ r.id = req[s].id
      BY <2>2, <3>1 DEF Holding
    <3>2. CASE remote' = [remote EXCEPT ![req[s].id] = "gone"]
      BY <2>1, <3>2 DEF Holding, Exists, TypeOK
    <3>3. CASE Doubted({"cut"})
      BY <1>2, <3>3 DEF Doubted
    <3> QED  BY <2>1, <3>1, <3>2, <3>3
  <2>6. Trusted => RowKept(s)'
    <3>1. Trusted => row.id = None \/ ~Exists(row.id)
      BY <1>0, <2>1 DEF RowKept
    <3>2. Trusted => row'.id = None \/ remote'[row'.id] = "gone"
      BY <1>1, <2>1, <3>1
    <3> QED  BY <2>1, <2>2, <3>2 DEF RowKept, Exists
  <2> QED  BY <1>0, <2>1, <2>2, <2>4, <2>5, <2>6, KeptKept
<1>8. ASSUME NEW s \in Slots, Persist(s)  PROVE KeptInv'
  <2>1. PICK r \in Request :
          /\ req[s].step = "persist" /\ req[s].id \in Objs /\ req' = [req EXCEPT ![s] = r]
          /\ r.step = "idle" \/ (r.step = "ready" /\ r.id = req[s].id)
          /\ row' = [row EXCEPT !.id = req[s].id, !.onboarded = FALSE]
          /\ remote' = [remote EXCEPT ![req[s].id] = IF @ = "made" THEN "live" ELSE @]
          /\ Doubted(Overlap(s) \cup (IF row.id # None /\ events # <<>> THEN {"replaced"} ELSE {}))
          /\ UNCHANGED <<kind, ready, open, sub, events>>
    BY <1>8, RequestBecomes
  <2>2. req'[s] = r /\ (\A t \in Slots \ {s} : req'[t] = req[t]) /\ row'.id = req[s].id
    BY <2>1 DEF TypeOK, Row
  <2>3. \A p \in Objs : Exists(p)' => Exists(p)
    BY <2>1 DEF Exists, TypeOK
  <2>4. Overlap(s) \subseteq doubt'
    BY <2>1 DEF Doubted
  <2>5. Trusted' => \A t \in Slots \ {s} : req[t].step = "idle"
    BY <1>2, <2>4, OverlapFacts
  <2>6. RowKept(s)'
    BY <2>1, <2>2 DEF RowKept
  <2>7. \A o \in Objs : Clean /\ Exists(o)' /\ (row.id = o \/ Holding(s, o)) => row'.id = o
    <3>1. Clean => row.id = None \/ ~Exists(row.id)
      BY <1>0, <1>2, <2>1 DEF RowKept
    <3>2. \A o \in Objs : Clean /\ row.id = o => ~Exists(o)
      BY <3>1, NoneAssumption
    <3>3. \A o \in Objs : Holding(s, o) => row'.id = o
      BY <2>2 DEF Holding
    <3> QED  BY <2>3, <3>2, <3>3
  <2> QED  BY <1>0, <2>2, <2>3, <2>5, <2>6, <2>7, KeptKept
<1>9. ASSUME NEW s \in Slots, Leaves(s) \/ OpenSession(s)  PROVE KeptInv'
  <2>1. /\ req[s].step = "ready" /\ req'[s].step = "idle" /\ \A t \in Slots \ {s} : req'[t] = req[t]
        /\ UNCHANGED <<kind, row, remote, ready, sub, events>>
    BY <1>9, LookBecomes
  <2>2. RowKept(s)' /\ \A o \in Objs : ~Holding(s, o)
    BY <2>1 DEF RowKept, Holding
  <2> QED  BY <1>0, <1>3, <2>1, <2>2, KeptKept
<1>10. ASSUME NEW s \in Slots, SubscriptionEvent(s)  PROVE KeptInv'
  <2>1. row'.id = row.id /\ UNCHANGED <<kind, remote, req>>
    BY <1>10, EventBecomes
  <2>2. Trusted => RowKept(s)'
    BY <1>0, <2>1 DEF RowKept, Exists
  <2>3. \A o \in Objs : Holding(s, o) => Holding(s, o)'
    BY <2>1 DEF Holding
  <2> QED  BY <1>0, <1>3, <2>1, <2>2, <2>3, KeptKept
<1>11. ASSUME NEW s \in Slots, SessionEvent(s) \/ Settle(s)  PROVE KeptInv'
  <2>1. /\ req[s].step \in {"idle", "settle"} /\ req'[s].step \in {"idle", "settle"}
        /\ \A t \in Slots \ {s} : req'[t] = req[t]
        /\ row'.id = row.id /\ UNCHANGED <<kind, remote>>
    <3>1. CASE SessionEvent(s)
      <4>0. PICK i \in 1 .. Len(events), again \in BOOLEAN :
              /\ Arrives(i, s, again) /\ events[i].type = "completed"
              /\ \/ req' = req
                 \/ /\ OfLandlord(events[i].sub)
                    /\ \A t \in Slots \ {s} : req'[t] = req[t]
                    /\ req'[s].step = "settle" /\ req'[s].sub = events[i].sub
                    /\ req'[s].status = sub[events[i].sub].status /\ req'[s].event = events[i]
              /\ UNCHANGED <<kind, row, remote, ready, open, sub>>
        BY <3>1, EventBecomes
      <4>1. /\ \E j \in 1 .. Len(events), more \in BOOLEAN : Arrives(j, s, more)
            /\ req' = req \/ (req'[s].step = "settle" /\ \A t \in Slots \ {s} : req'[t] = req[t])
            /\ UNCHANGED <<kind, row, remote>>
        BY <4>0
      <4>2. req[s].step = "idle"
        BY <4>1, ArrivesFacts
      <4> QED  BY <4>1, <4>2
    <3>2. CASE Settle(s)
      BY <3>2, EventBecomes
    <3> QED  BY <1>11, <3>1, <3>2
  <2>2. RowKept(s)' /\ \A o \in Objs : ~Holding(s, o)
    BY <2>1 DEF RowKept, Holding
  <2> QED  BY <1>0, <1>3, <2>1, <2>2, KeptKept
<1>12. ASSUME NEW s \in Slots, AccountEvent(s)  PROVE KeptInv'
  <2>1. PICK i \in 1 .. Len(events), again \in BOOLEAN :
          /\ Arrives(i, s, again) /\ events[i].type \in {"account", "deauthorized"}
          /\ \A t \in Slots \ {s} : req'[t] = req[t]
          /\ \/ /\ req' = req
                /\ \/ events[i].id # row.id
                   \/ events[i].type = "account" /\ events[i].ready = row.onboarded
             \/ /\ events[i].type = "account" /\ events[i].id = row.id
                /\ req'[s].step = "sync" /\ req'[s].id = row.id /\ req'[s].event = events[i]
                /\ req'[s].onboarded = events[i].ready
             \/ /\ events[i].type = "deauthorized" /\ events[i].id = row.id
                /\ req'[s].step = "clear" /\ req'[s].id = row.id /\ req'[s].event = events[i]
          /\ UNCHANGED <<kind, row, remote, ready, open, sub>>
    BY <1>12, EventBecomes
  <2>2. req[s].step = "idle" /\ events[i] \in Event /\ Sound(events[i])
    BY <2>1, ArrivesFacts, LenProperties, ElementOfSeq DEF TypeOK, EventsInv
  <2>3. RowKept(s)' /\ \A o \in Objs : ~Holding(s, o)
    BY <2>1, <2>2 DEF RowKept, Holding, Sound, Exists
  <2> QED  BY <1>0, <1>3, <2>1, <2>3, KeptKept
<1>13. ASSUME NEW s \in Slots, LookUp(s)  PROVE KeptInv'
  <2>1. /\ req[s].step = "idle" /\ \A t \in Slots \ {s} : req'[t] = req[t]
        /\ req'[s].step \in {"poll", "remove"} /\ req'[s].id = row.id
        /\ UNCHANGED <<kind, row, remote, ready, open, sub, events, doubt>>
    BY <1>13, LookBecomes
  <2>2. RowKept(s)' /\ \A o \in Objs : ~Holding(s, o)
    BY <2>1 DEF RowKept, Holding
  <2> QED  BY <1>0, <1>3, <2>1, <2>2, KeptKept
<1>14. ASSUME NEW s \in Slots, Poll(s)  PROVE KeptInv'
  <2>1. /\ req[s].step = "poll" /\ \A t \in Slots \ {s} : req'[t] = req[t]
        /\ \/ req'[s].step = "idle"
           \/ req'[s].step = "sync" /\ req'[s].id = req[s].id
           \/ /\ req'[s].step = "clear" /\ req'[s].id = req[s].id
              /\ Doubted(IF Exists(req[s].id) THEN {"blind"} ELSE {})
        /\ UNCHANGED <<kind, row, remote>>
    BY <1>14, LookBecomes
  <2>2. Trusted' /\ req'[s].step = "clear" => ~Exists(req[s].id)
    BY <1>2, <2>1 DEF Doubted
  <2>3. Trusted /\ Trusted' => RowKept(s)'
    BY <1>0, <2>1, <2>2 DEF RowKept, Exists
  <2>4. \A o \in Objs : ~Holding(s, o)
    BY <2>1 DEF Holding
  <2> QED  BY <1>0, <1>3, <2>1, <2>3, <2>4, KeptKept
<1>15. ASSUME NEW s \in Slots, Sync(s)  PROVE KeptInv'
  <2>1. /\ req[s].step = "sync" /\ req'[s].step = "idle"
        /\ \A t \in Slots \ {s} : req'[t] = req[t]
        /\ row'.id = req[s].id /\ UNCHANGED <<kind, remote>>
    BY <1>15, LookBecomes
  <2>2. Trusted => row'.id = row.id
    BY <1>0, <2>1 DEF RowKept
  <2>3. Trusted' => Trusted
    BY <1>0 DEF Trusted
  <2>4. RowKept(s)' /\ \A o \in Objs : ~Holding(s, o)
    BY <2>1 DEF RowKept, Holding
  <2> QED  BY <1>0, <1>2, <1>3, <2>1, <2>2, <2>3, <2>4, KeptKept
<1>16. ASSUME NEW s \in Slots, Remove(s)  PROVE KeptInv'
  <2>1. /\ req[s].step = "remove" /\ req[s].id \in Objs
        /\ \A t \in Slots \ {s} : req'[t] = req[t]
        /\ req'[s].step = "clear" /\ req'[s].id = req[s].id
        /\ remote' = [remote EXCEPT ![req[s].id] = "gone"]
        /\ UNCHANGED <<kind, row, ready, open, sub, events, doubt>>
    BY <1>16, LookBecomes
  <2>2. /\ remote'[req[s].id] = "gone"
        /\ \A p \in Objs \ {req[s].id} : remote'[p] = remote[p]
    BY <2>1 DEF TypeOK
  <2>3. \A o \in Objs : (Exists(o)' => Exists(o)) /\ (Holding(s, o) => ~Exists(o)')
    BY <2>2 DEF Exists, Holding
  <2>4. Trusted => RowKept(s)'
    BY <1>0, <2>1, <2>2 DEF RowKept, Exists
  <2> QED  BY <1>0, <2>1, <2>3, <2>4, KeptKept
<1>17. ASSUME NEW s \in Slots, Clear(s)  PROVE KeptInv'
  <2>1. /\ req[s].step = "clear" /\ req[s].id \in Objs /\ req'[s].step = "idle"
        /\ \A t \in Slots \ {s} : req'[t] = req[t]
        /\ row'.id = None /\ Doubted(Overlap(s))
        /\ UNCHANGED <<kind, remote>>
    BY <1>17, LookBecomes
  <2>2. Trusted' => \A t \in Slots \ {s} : req[t].step = "idle"
    BY <1>2, <2>1, OverlapFacts DEF Doubted
  <2>3. RowKept(s)' /\ \A o \in Objs : ~Holding(s, o)
    BY <2>1 DEF RowKept, Holding
  <2>4. \A o \in Objs : Clean /\ row.id = o => ~Exists(o)
    BY <1>0, <1>2, <2>1 DEF RowKept
  <2> QED  BY <1>0, <1>3, <2>1, <2>2, <2>3, <2>4, KeptKept
<1>18. ASSUME NEW s \in Slots, Stops(s)  PROVE KeptInv'
  <2>1. /\ req'[s].step = "idle" /\ \A t \in Slots \ {s} : req'[t] = req[t]
        /\ "cut" \notin doubt' => req[s].step \notin {"attach", "persist"}
        /\ UNCHANGED <<kind, row, remote>>
    BY <1>18, StopsFacts DEF Stops, service
  <2>2. RowKept(s)'
    BY <2>1 DEF RowKept
  <2>3. \A o \in Objs : Clean /\ Clean' /\ Holding(s, o) => row'.id = o
    BY <1>0, <1>2, <2>1 DEF RowKept, Holding
  <2> QED  BY <1>0, <1>3, <2>1, <2>2, <2>3, KeptKept
<1>19. ASSUME row'.id = row.id, req' = req, doubt' = doubt, \A o \in Objs : Exists(o)' => Exists(o)
       PROVE  KeptInv'
  <2>1. RemoteIsKept'
    BY <1>19, KeptMeans DEF RemoteIsKept, KeptInv, Clean, Holding
  <2>2. ASSUME NEW s \in Slots, Trusted'  PROVE RowKept(s)'
    <3>1. RowKept(s)
      BY <1>0, <1>19, <2>2 DEF Trusted
    <3>2. req[s].step = "clear" => req[s].id \in Objs
      BY <1>0, RequestFacts
    <3>3. row.id = None \/ ~Exists(row.id) => row'.id = None \/ ~(remote'[row'.id] \in {"made", "live"})
      BY <1>0, <1>19, NoneAssumption DEF Exists
    <3>4. req[s].step = "clear" => ~(remote'[req[s].id] \in {"made", "live"})
      BY <1>19, <3>1, <3>2 DEF RowKept, Exists
    <3> QED  BY <1>19, <3>1, <3>3, <3>4 DEF RowKept, Exists
  <2> QED  BY <2>1, <2>2 DEF KeptInv, RowKept
<1>20. CASE CompleteSession \/ SubChanges \/ AccountChanges \/ UNCHANGED vars
  BY <1>3, <1>19, <1>20 DEF CompleteSession, SubChanges, AccountChanges, vars, service
<1>21. CASE RemoteGoes
  <2>1. PICK o \in Objs :
          /\ remote[o] = "live" /\ remote' = [remote EXCEPT ![o] = "gone"]
          /\ UNCHANGED <<kind, row, sub, req, doubt>>
    BY <1>21, RemoteGoesFacts
  <2>2. \A p \in Objs : Exists(p)' => Exists(p)
    BY <2>1 DEF Exists, TypeOK
  <2> QED  BY <1>19, <2>1, <2>2
<1> QED  BY <1>4, <1>5, <1>6, <1>7, <1>8, <1>9, <1>10, <1>11, <1>12, <1>13, <1>14, <1>15, <1>16,
            <1>17, <1>18, <1>20, <1>21 DEF CoreNext

-----------------------------------------------------------------------------
(* The plan.                                                               *)

LEMMA PlanElsewhere ==
  ASSUME TypeOK, EventsInv, TopicInv, kind # "customer"
  PROVE  PlanInv
<1>1. Billed = {} /\ Paying = {} /\ open = {} /\ row.status = None
  BY DEF TopicInv, Billed, Paying
<1>2. row.status # "active"
  BY <1>1, NoneAssumption DEF SubStatus
<1>3. \A s \in Slots : ~Asking(s) /\ req[s].step # "settle"
  BY DEF TopicInv, Fits, Asking, Stages
<1>4. \A i \in DOMAIN events : ~Changing(events[i]) /\ events[i].type # "completed"
  BY DEF EventsInv, Sound, SubTypes, Changing
<1>5. Standing /\ OnePlan /\ Asked
  BY <1>1, <1>2, <1>3 DEF Standing, OnePlan, Asked
<1>6. Tells(events) /\ Known
  BY <1>1, <1>2, <1>3, <1>4 DEF Tells, Known, Right, Settling
<1> QED  BY <1>5, <1>6 DEF PlanInv

(* The types these leaves need.                                            *)
LEMMA PlanFacts ==
  ASSUME TypeOK, EventsInv
  PROVE  /\ row.id \in Objs \cup {None} /\ row.sub \in Subs \cup {None}
         /\ Billed \subseteq Subs /\ Paying \subseteq Billed
         /\ \A x \in Subs : sub[x] # None => sub[x].customer \in Objs /\ sub[x].status \in SubStatus
         /\ \A x \in Billed : sub[x] # None /\ sub[x].customer \in Objs
         /\ \A session \in open : session[2] \in Objs
         /\ \A i \in DOMAIN events : events[i] \in Event /\ Sound(events[i])
         /\ DOMAIN events = 1 .. Len(events) /\ Len(events) \in Nat
         /\ \A i \in DOMAIN events : Changing(events[i]) \/ events[i].type = "completed" =>
              events[i].sub \in Subs /\ sub[events[i].sub] # None /\ events[i].status \in SubStatus
<1>1. events \in Seq(Event)
  BY DEF TypeOK
<1>2. DOMAIN events = 1 .. Len(events) /\ Len(events) \in Nat
  BY <1>1, LenProperties
<1>3. \A i \in DOMAIN events : events[i] \in Event /\ Sound(events[i])
  BY <1>1, <1>2, ElementOfSeq DEF EventsInv
<1>4. \A i \in DOMAIN events : Changing(events[i]) \/ events[i].type = "completed" =>
        events[i].sub \in Subs /\ sub[events[i].sub] # None /\ events[i].status \in SubStatus
  BY <1>3, EventFacts DEF Changing, Sound, SubTypes
<1>5. \A x \in Subs : sub[x] # None => sub[x].customer \in Objs /\ sub[x].status \in SubStatus
  BY DEF TypeOK, Subscription
<1>6. row.id \in Objs \cup {None} /\ row.sub \in Subs \cup {None}
  BY DEF TypeOK, Row
<1>7. \A session \in open : session[2] \in Objs
  BY DEF TypeOK
<1> QED  BY <1>2, <1>3, <1>4, <1>5, <1>6, <1>7 DEF Billed, Paying

(* Nobody writes beside a step that leaves things in order.                *)
LEMMA OrderlyBefore ==
  ASSUME doubt \subseteq doubt', Orderly'
  PROVE  Orderly
  BY DEF Orderly

LEMMA OrderlyTrusted ==
  ASSUME Orderly
  PROVE  Trusted
  BY DEF Orderly, Trusted

(* Only what a slot is doing changes, or what exists grows.                *)
LEMMA PlanStays ==
  ASSUME TypeOK, EventsInv, PlanInv, doubt \subseteq doubt',
         UNCHANGED <<row, open, sub, events>>,
         \A o \in Objs : Exists(o) => Exists(o)',
         Orderly /\ Orderly' /\ open = {} /\ events = <<>> =>
            \A s \in Slots : Asking(s)' => Asking(s) \/ Billed = {},
         \A s \in Slots : req'[s].step = "settle" => req'[s] = req[s]
  PROVE  PlanInv'
<1>1. Billed' = Billed /\ Paying' = Paying
  BY DEF Billed, Paying
<1>2. Standing'
  <2>1. \A session \in open : Exists(session[2])'
    BY PlanFacts DEF PlanInv, Standing
  <2>2. \A x \in Billed : Exists(sub[x].customer)'
    BY PlanFacts DEF PlanInv, Standing
  <2> QED  BY <1>1, <2>1, <2>2 DEF PlanInv, Standing
<1>3. ASSUME Orderly'  PROVE OnePlan' /\ Asked' /\ Tells(events)' /\ Known'
  <2>1. Orderly /\ OnePlan /\ Asked /\ Tells(events) /\ Known
    BY <1>3, OrderlyBefore DEF PlanInv
  <2>2. OnePlan'
    BY <1>1, <2>1 DEF OnePlan
  <2>3. Asked'
    BY <1>1, <1>3, <2>1 DEF Asked
  <2>4. Tells(events)'
    BY <1>1, <2>1 DEF Tells, LastChange, Right
  <2>5. Known'
    BY <1>1, <2>1 DEF Known, NoChange, Right, Settling
  <2> QED  BY <2>2, <2>3, <2>4, <2>5
<1> QED  BY <1>2, <1>3 DEF PlanInv

LEMMA PlanPersist ==
  ASSUME TypeOK, EventsInv, IdsInv, KeptInv, PlanInv, NEW s \in Slots, Persist(s)
  PROVE  PlanInv'
<1>1. PICK r \in Request :
        /\ req[s].step = "persist" /\ req[s].id \in Objs /\ req' = [req EXCEPT ![s] = r]
        /\ IF req[s].why = "none" THEN r.step = "idle"
           ELSE r.step = "ready" /\ r.id = req[s].id /\ r.why = req[s].why
        /\ row' = [row EXCEPT !.id = req[s].id, !.onboarded = FALSE]
        /\ remote' = [remote EXCEPT ![req[s].id] = IF @ = "made" THEN "live" ELSE @]
        /\ Doubted(Overlap(s) \cup (IF row.id # None /\ events # <<>> THEN {"replaced"} ELSE {}))
        /\ UNCHANGED <<kind, ready, open, sub, events>>
  BY RequestBecomes
<1>2. /\ doubt \subseteq doubt' /\ row'.sub = row.sub /\ row'.status = row.status
      /\ req'[s] = r /\ \A t \in Slots \ {s} : req'[t] = req[t]
      /\ \A o \in Objs : Exists(o) => Exists(o)'
      /\ Billed' = Billed /\ Paying' = Paying
  BY <1>1 DEF Doubted, TypeOK, Row, Exists, Billed, Paying
<1>3. Standing'
  <2>1. \A session \in open : Exists(session[2])'
    BY <1>1, <1>2, PlanFacts DEF PlanInv, Standing
  <2>2. \A x \in Billed : Exists(sub[x].customer)'
    BY <1>1, <1>2, PlanFacts DEF PlanInv, Standing
  <2> QED  BY <1>1, <1>2, <2>1, <2>2 DEF PlanInv, Standing
<1>4. ASSUME Orderly'  PROVE OnePlan' /\ Asked' /\ Tells(events)' /\ Known'
  <2>1. Orderly /\ Trusted /\ OnePlan /\ Asked /\ Tells(events) /\ Known
    BY <1>2, <1>4, OrderlyBefore, OrderlyTrusted DEF PlanInv
  <2>2. Overlap(s) \subseteq doubt' /\ (row.id = None \/ events = <<>>)
    BY <1>1, <1>4 DEF Doubted, Orderly
  <2>3. \A t \in Slots \ {s} : req[t].step = "idle"
    BY <1>4, <2>2, OverlapFacts DEF Orderly
  <2>4. row.id = None \/ ~Exists(row.id)
    BY <1>1, <2>1 DEF KeptInv
  <2>5. open = {} /\ Billed = {}
    <3>1. \A session \in open : Exists(row.id) /\ row.id # None
      BY <2>1, PlanFacts, NoneAssumption DEF OnePlan, PlanInv, Standing
    <3>2. \A x \in Billed : Exists(row.id) /\ row.id # None
      BY <2>1, PlanFacts, NoneAssumption DEF OnePlan, PlanInv, Standing
    <3> QED  BY <2>4, <3>1, <3>2
  <2>6. OnePlan' /\ Asked'
    BY <1>1, <1>2, <2>5 DEF OnePlan, Asked
  <2>7. \A i \in DOMAIN events : LastChange(events, i) => ~Changing(events[i])
    <3>1. CASE events = <<>>
      BY <3>1
    <3>2. CASE row.id = None
      BY <2>1, <3>2, PlanFacts, NoneAssumption DEF Tells
    <3> QED  BY <2>2, <3>1, <3>2
  <2>8. Tells(events)'
    BY <1>1, <1>2, <2>1, <2>7 DEF Tells, LastChange, Right
  <2>9. Known'
    BY <1>1, <1>2, <2>1, <2>3 DEF Known, NoChange, Right, Settling
  <2> QED  BY <2>6, <2>8, <2>9
<1> QED  BY <1>3, <1>4 DEF PlanInv

LEMMA PlanOpens ==
  ASSUME TypeOK, EventsInv, IdsInv, KeptInv, PlanInv, NEW s \in Slots, OpenSession(s)
  PROVE  PlanInv'
<1>1. PICK n \in Slots :
        /\ req[s].step = "ready" /\ req[s].why = "checkout" /\ Exists(req[s].id)
        /\ open' = open \cup {<<n, req[s].id>>}
        /\ Doubted(Twice)
  BY DEF OpenSession
<1>2. /\ req[s].id \in Objs /\ req'[s].step = "idle"
      /\ \A t \in Slots \ {s} : req'[t] = req[t]
      /\ UNCHANGED <<kind, row, remote, ready, sub, events>>
  BY LookBecomes
<1>3. Billed' = Billed /\ Paying' = Paying /\ doubt \subseteq doubt'
  BY <1>1, <1>2 DEF Billed, Paying, Doubted
<1>4. Standing'
  <2>1. \A session \in open' : Exists(session[2])'
    BY <1>1, <1>2 DEF PlanInv, Standing, Exists
  <2>2. \A x \in Billed : Exists(sub[x].customer)'
    BY <1>2 DEF PlanInv, Standing, Exists
  <2> QED  BY <1>2, <1>3, <2>1, <2>2 DEF PlanInv, Standing
<1>5. ASSUME Orderly'  PROVE OnePlan' /\ Asked' /\ Tells(events)' /\ Known'
  <2>1. Orderly /\ Trusted /\ OnePlan /\ Asked /\ Tells(events) /\ Known
    BY <1>3, <1>5, OrderlyBefore, OrderlyTrusted DEF PlanInv
  <2>2. open = {} /\ events = <<>> /\ Billed = {}
    <3>1. Twice = {}
      BY <1>1, <1>5 DEF Doubted, Orderly, Twice
    <3>2. open = {} /\ events = <<>>
      BY <3>1 DEF Twice
    <3> QED  BY <1>1, <2>1, <3>2 DEF Asked, Asking, Stages
  <2>3. req[s].id = row.id
    BY <1>1, <2>1 DEF KeptInv
  <2>4. OnePlan' /\ Asked'
    BY <1>1, <1>2, <1>3, <2>2, <2>3 DEF OnePlan, Asked
  <2>5. Tells(events)'
    BY <1>2, <2>2 DEF Tells
  <2>6. Known'
    BY <1>2, <1>3, <2>1 DEF Known, NoChange, Right, Settling
  <2> QED  BY <2>4, <2>5, <2>6
<1> QED  BY <1>4, <1>5 DEF PlanInv

(* The oldest event arrives, and what is said of the rest stays true.      *)
LEMMA PlanArrives ==
  ASSUME TypeOK, EventsInv, NEW i \in 1 .. Len(events), NEW s \in Slots, NEW again \in BOOLEAN,
         Arrives(i, s, again), "reorder" \notin doubt', Tells(events),
         UNCHANGED sub, row'.id = row.id
  PROVE  /\ i = 1 /\ 1 \in DOMAIN events
         /\ Tells(events)'
         /\ NoChange(events)' => LastChange(events, 1)
         /\ NoChange(events)' /\ ~Changing(events[1]) => NoChange(events)
<1>1. i = 1 /\ 1 \in DOMAIN events /\ DOMAIN events = 1 .. Len(events) /\ Len(events) \in Nat
  BY ArrivesFacts, PlanFacts
<1>2. Paying' = Paying
  BY DEF Paying, Billed
<1>3. CASE again
  <2>1. events' = events
    BY <1>3, ArrivesFacts
  <2> QED  BY <1>1, <1>2, <2>1 DEF Tells, NoChange, LastChange, Right
<1>4. CASE ~again
  <2>1. /\ events' \in Seq(Event) /\ Len(events') = Len(events) - 1
        /\ \A j \in DOMAIN events' :
             j \in DOMAIN events /\ j + 1 \in DOMAIN events
             /\ events'[j] = IF j < i THEN events[j] ELSE events[j + 1]
    BY <1>4, ArrivesFacts
  <2>2. DOMAIN events' = 1 .. Len(events')
    BY <2>1, LenProperties
  <2>3. \A j \in DOMAIN events' : j \in Nat /\ j + 1 \in DOMAIN events /\ events'[j] = events[j + 1]
    BY <1>1, <2>1, <2>2
  <2>4. \A k \in DOMAIN events : k > 1 => k - 1 \in DOMAIN events' /\ events'[k - 1] = events[k]
    BY <1>1, <2>1, <2>2
  <2>5. ASSUME NEW j \in DOMAIN events', LastChange(events', j)  PROVE LastChange(events, j + 1)
    BY <1>1, <2>3, <2>4, <2>5 DEF LastChange
  <2>6. Tells(events)'
    <3> SUFFICES ASSUME NEW j \in DOMAIN events', LastChange(events', j)
                 PROVE  /\ Changing(events'[j]) =>
                             Right(events'[j].status) /\ sub[events'[j].sub].customer = row.id
                        /\ events'[j].type = "completed" => Right(sub[events'[j].sub].status)
      BY <1>2 DEF Tells, LastChange, Right
    <3>1. LastChange(events, j + 1) /\ j + 1 \in DOMAIN events /\ events'[j] = events[j + 1]
      BY <2>3, <2>5
    <3>2. /\ Changing(events[j + 1]) =>
               Right(events[j + 1].status) /\ sub[events[j + 1].sub].customer = row.id
          /\ events[j + 1].type = "completed" => Right(sub[events[j + 1].sub].status)
      BY <3>1 DEF Tells
    <3> QED  BY <3>1, <3>2
  <2>7. NoChange(events') => LastChange(events, 1)
    BY <1>1, <2>4 DEF NoChange, LastChange
  <2>8. NoChange(events') /\ ~Changing(events[1]) => NoChange(events)
    BY <1>1, <2>4 DEF NoChange
  <2>9. NoChange(events)' <=> NoChange(events')
    BY DEF NoChange
  <2> QED  BY <1>1, <2>6, <2>7, <2>8, <2>9
<1> QED  BY <1>3, <1>4

LEMMA PlanSettles ==
  ASSUME TypeOK, EventsInv, IdsInv, PlanInv, NEW s \in Slots, SubscriptionEvent(s)
  PROVE  PlanInv'
<1>1. PICK i \in 1 .. Len(events), again \in BOOLEAN :
        /\ Arrives(i, s, again) /\ events[i].type \in {"updated", "deleted", "failed"}
        /\ row' = IF OfLandlord(events[i].sub)
                  THEN Settled(events[i].type, events[i].sub, events[i].status) ELSE row
        /\ row'.id = row.id /\ row'.onboarded = row.onboarded
        /\ UNCHANGED <<kind, remote, ready, open, sub, req>>
  BY EventBecomes
<1>2. i \in DOMAIN events /\ Sound(events[i]) /\ Changing(events[i])
  BY <1>1, PlanFacts DEF Changing
<1>3. events[i].sub \in Subs /\ sub[events[i].sub] # None /\ events[i].status \in SubStatus
  BY <1>2, PlanFacts
<1>4. Billed' = Billed /\ Paying' = Paying /\ doubt \subseteq doubt'
  BY <1>1, ArrivesFacts DEF Billed, Paying
<1>5. \/ row' = row
      \/ /\ OfLandlord(events[i].sub) /\ row'.status = events[i].status
         /\ row'.status = "active" => row'.sub # None
  <2>1. CASE OfLandlord(events[i].sub)
    <3>1. row' = Settled(events[i].type, events[i].sub, events[i].status)
      BY <1>1, <2>1
    <3>2. events[i].type = "deleted" => row'.status = "canceled" /\ events[i].status = "canceled"
      BY <1>2, <3>1 DEF Settled, Sound, TypeOK, Row
    <3>3. events[i].type = "failed" => row'.status = "past_due" /\ events[i].status = "past_due"
      BY <1>2, <3>1 DEF Settled, Sound, TypeOK, Row
    <3>4. events[i].type = "updated" => row'.status = events[i].status /\ row'.sub = events[i].sub
      BY <3>1 DEF Settled, TypeOK, Row
    <3> QED  BY <1>1, <1>3, <2>1, <3>2, <3>3, <3>4, NoneAssumption
  <2> QED  BY <1>1, <2>1
<1>6. OfLandlord(events[i].sub) => row'.status = events[i].status
  BY <1>1, <1>2, <1>5 DEF Settled, Sound, TypeOK, Row
<1>7. Standing'
  <2>1. \A session \in open : Exists(session[2])'
    BY <1>1 DEF PlanInv, Standing, Exists
  <2>2. \A x \in Billed : Exists(sub[x].customer)'
    BY <1>1 DEF PlanInv, Standing, Exists
  <2>3. row'.status = "active" => row'.sub # None
    BY <1>5 DEF PlanInv, Standing
  <2> QED  BY <1>1, <1>4, <2>1, <2>2, <2>3 DEF Standing
<1>8. ASSUME Orderly'  PROVE OnePlan' /\ Asked' /\ Tells(events)' /\ Known'
  <2>1. Orderly /\ OnePlan /\ Asked /\ Tells(events) /\ Known
        /\ "reorder" \notin doubt' /\ "overlap" \notin doubt'
    BY <1>4, <1>8, OrderlyBefore DEF PlanInv, Orderly
  <2>2. \A t \in Slots : req'[t].step = "idle"
    BY <1>1, <2>1, ArrivesFacts
  <2>3. i = 1 /\ Tells(events)' /\ (NoChange(events)' => LastChange(events, 1))
    BY <1>1, <2>1, PlanArrives
  <2>4. OnePlan' /\ Asked'
    BY <1>1, <1>4, <2>1, <2>2 DEF OnePlan, Asked, Asking, Stages
  <2>5. Known'
    <3>1. NoChange(events)' => Right(row.status)'
      <4>1. NoChange(events)' => Right(events[i].status) /\ OfLandlord(events[i].sub)
        BY <1>2, <2>1, <2>3 DEF Tells, OfLandlord
      <4> QED  BY <1>4, <1>6, <4>1 DEF Right
    <3> QED  BY <2>2, <3>1 DEF Known, Settling
  <2> QED  BY <2>3, <2>4, <2>5
<1> QED  BY <1>7, <1>8 DEF PlanInv

LEMMA PlanFetches ==
  ASSUME TypeOK, EventsInv, IdsInv, PlanInv, NEW s \in Slots, SessionEvent(s)
  PROVE  PlanInv'
<1>1. PICK i \in 1 .. Len(events), again \in BOOLEAN :
        /\ Arrives(i, s, again) /\ events[i].type = "completed"
        /\ \/ req' = req
           \/ /\ OfLandlord(events[i].sub)
              /\ \A t \in Slots \ {s} : req'[t] = req[t]
              /\ req'[s].step = "settle" /\ req'[s].sub = events[i].sub
              /\ req'[s].status = sub[events[i].sub].status /\ req'[s].event = events[i]
        /\ UNCHANGED <<kind, row, remote, ready, open, sub>>
  BY EventBecomes
<1>2. i \in DOMAIN events /\ ~Changing(events[i])
  BY <1>1, PlanFacts DEF Changing
<1>4. Billed' = Billed /\ Paying' = Paying /\ doubt \subseteq doubt'
  BY <1>1, ArrivesFacts DEF Billed, Paying
<1>7. Standing'
  <2>1. \A session \in open : Exists(session[2])'
    BY <1>1 DEF PlanInv, Standing, Exists
  <2>2. \A x \in Billed : Exists(sub[x].customer)'
    BY <1>1 DEF PlanInv, Standing, Exists
  <2> QED  BY <1>1, <1>4, <2>1, <2>2 DEF PlanInv, Standing
<1>8. ASSUME Orderly'  PROVE OnePlan' /\ Asked' /\ Tells(events)' /\ Known'
  <2>1. Orderly /\ OnePlan /\ Asked /\ Tells(events) /\ Known
        /\ "reorder" \notin doubt' /\ "overlap" \notin doubt'
    BY <1>4, <1>8, OrderlyBefore DEF PlanInv, Orderly
  <2>2. \A t \in Slots : req[t].step = "idle"
    BY <1>1, <2>1, ArrivesFacts
  <2>3. /\ i = 1 /\ Tells(events)' /\ (NoChange(events)' => LastChange(events, 1))
        /\ NoChange(events)' /\ ~Changing(events[1]) => NoChange(events)
    BY <1>1, <2>1, PlanArrives
  <2>4. \A t \in Slots : ~Asking(t)'
    BY <1>1, <2>2 DEF Asking, Stages
  <2>5. OnePlan' /\ Asked'
    BY <1>1, <1>4, <2>1, <2>4 DEF OnePlan, Asked
  <2>6. NoChange(events)' => Right(row.status) /\ Right(sub[events[i].sub].status)
    BY <1>1, <1>2, <2>1, <2>3 DEF Known, Tells
  <2>7. \A t \in Slots : req'[t].step = "settle" =>
          t = s /\ req'[t].sub = events[i].sub /\ req'[t].status = sub[events[i].sub].status
    BY <1>1, <2>2
  <2>8. Known'
    BY <1>1, <1>4, <2>6, <2>7 DEF Known, Right, Settling
  <2> QED  BY <2>3, <2>5, <2>8
<1> QED  BY <1>7, <1>8 DEF PlanInv

LEMMA PlanSettle ==
  ASSUME TypeOK, EventsInv, IdsInv, PlanInv, NEW s \in Slots, Settle(s)
  PROVE  PlanInv'
<1>1. /\ req[s].step = "settle" /\ req'[s].step = "idle"
      /\ \A t \in Slots \ {s} : req'[t] = req[t]
      /\ row' = [row EXCEPT !.sub = req[s].sub, !.status = req[s].status]
      /\ row'.id = row.id /\ row'.onboarded = row.onboarded
      /\ Doubted(Overlap(s))
      /\ UNCHANGED <<kind, remote, ready, open, sub, events>>
  BY EventBecomes
<1>2. req[s].sub \in Subs /\ req[s].status \in SubStatus
  BY <1>1, RequestFacts DEF TypeOK
<1>3. row'.sub = req[s].sub /\ row'.status = req[s].status /\ row'.sub # None
  BY <1>1, <1>2, NoneAssumption DEF TypeOK, Row
<1>4. Billed' = Billed /\ Paying' = Paying /\ doubt \subseteq doubt'
  BY <1>1 DEF Billed, Paying, Doubted
<1>7. Standing'
  <2>1. \A session \in open : Exists(session[2])'
    BY <1>1 DEF PlanInv, Standing, Exists
  <2>2. \A x \in Billed : Exists(sub[x].customer)'
    BY <1>1 DEF PlanInv, Standing, Exists
  <2> QED  BY <1>1, <1>3, <1>4, <2>1, <2>2 DEF Standing
<1>8. ASSUME Orderly'  PROVE OnePlan' /\ Asked' /\ Tells(events)' /\ Known'
  <2>1. Orderly /\ OnePlan /\ Asked /\ Tells(events) /\ Known /\ "overlap" \notin doubt'
    BY <1>4, <1>8, OrderlyBefore DEF PlanInv, Orderly
  <2>2. \A t \in Slots : req'[t].step = "idle"
    <3>1. "overlap" \notin Overlap(s)
      BY <1>1, <2>1 DEF Doubted
    <3> QED  BY <1>1, <3>1, OverlapFacts
  <2>3. OnePlan' /\ Asked'
    BY <1>1, <1>4, <2>1, <2>2 DEF OnePlan, Asked, Asking, Stages
  <2>4. Tells(events)'
    BY <1>1, <1>4, <2>1 DEF Tells, LastChange, Right
  <2>5. Known'
    BY <1>1, <1>3, <1>4, <2>1, <2>2 DEF Known, NoChange, Right, Settling
  <2> QED  BY <2>3, <2>4, <2>5
<1> QED  BY <1>7, <1>8 DEF PlanInv

LEMMA PlanStops ==
  ASSUME TypeOK, EventsInv, TopicInv, IdsInv, PlanInv, NEW s \in Slots, Stops(s), kind = "customer"
  PROVE  PlanInv'
<1>1. /\ ~Held(s) => events' = events
      /\ Held(s) =>
           /\ DOMAIN events' = 1 .. Len(events) + 1
           /\ DOMAIN events = 1 .. Len(events) /\ Len(events) \in Nat
           /\ events'[Len(events) + 1] = req[s].event
           /\ "reorder" \notin doubt' => events = <<>>
      /\ doubt \subseteq doubt' /\ req'[s].step = "idle"
      /\ \A t \in Slots \ {s} : req'[t] = req[t]
  BY StopsFacts
<1>2. UNCHANGED <<row, remote, open, sub>>
  BY DEF Stops, service
<1>3. CASE ~Held(s)
  <2>1. \A t \in Slots : Asking(t)' => Asking(t)
    BY <1>1 DEF Asking, Stages
  <2>2. \A t \in Slots : req'[t].step = "settle" => req'[t] = req[t]
    BY <1>1
  <2> QED  BY <1>1, <1>2, <1>3, <2>1, <2>2, PlanStays DEF Exists
<1>4. CASE Held(s)
  <2>1. /\ req[s].step = "settle" /\ req[s].event.type = "completed" /\ req[s].event.sub = req[s].sub
    BY <1>4 DEF Held, TopicInv, Fits, EventsInv
  <2>2. Billed' = Billed /\ Paying' = Paying
    BY <1>2 DEF Billed, Paying
  <2>3. Standing'
    <3>1. \A session \in open : Exists(session[2])'
      BY <1>2 DEF PlanInv, Standing, Exists
    <3>2. \A x \in Billed : Exists(sub[x].customer)'
      BY <1>2 DEF PlanInv, Standing, Exists
    <3> QED  BY <1>2, <2>2, <3>1, <3>2 DEF PlanInv, Standing
  <2>4. ASSUME Orderly'  PROVE OnePlan' /\ Asked' /\ Tells(events)' /\ Known'
    <3>1. Orderly /\ OnePlan /\ Asked /\ Tells(events) /\ Known /\ "reorder" \notin doubt'
      BY <1>1, <2>4, OrderlyBefore DEF PlanInv, Orderly
    <3>2. events = <<>> /\ Len(events) = 0
      BY <1>1, <1>4, <3>1
    <3>3. DOMAIN events' = {1} /\ events'[1] = req[s].event
      BY <1>1, <1>4, <3>2
    <3>4. Right(row.status) /\ \A t \in Slots : Settling(t)
      BY <3>1, <3>2 DEF Known, NoChange
    <3>5. Right(sub[req[s].sub].status)
      BY <2>1, <3>4 DEF Settling
    <3>6. Tells(events)'
      BY <1>2, <2>1, <2>2, <3>3, <3>5 DEF Tells, Right, Changing
    <3>7. Known'
      BY <1>1, <1>2, <2>2, <3>4 DEF Known, Settling, Right
    <3>8. OnePlan'
      BY <1>2, <2>2, <3>1 DEF OnePlan
    <3>9. Asked'
      BY <3>3 DEF Asked
    <3> QED  BY <3>6, <3>7, <3>8, <3>9
  <2> QED  BY <2>3, <2>4 DEF PlanInv
<1> QED  BY <1>3, <1>4

(* A subscription begins or changes at Stripe, which sends word of it.     *)
LEMMA PlanEmits ==
  ASSUME TypeOK, EventsInv, PlanInv, NEW x \in Subs, NEW status \in SubStatus, NEW c \in Objs,
         NEW new \in Seq(Event), Emit(new), Len(new) \in {1, 2},
         sub' = [sub EXCEPT ![x] = [customer |-> c, status |-> status]],
         Exists(c), open' \subseteq open, UNCHANGED <<kind, row, remote, req, doubt>>,
         \A i \in 1 .. Len(new) : Changing(new[i]) \/ new[i].type = "completed" =>
           new[i].sub = x /\ new[i].status = status,
         \E i \in 1 .. Len(new) : Changing(new[i]),
         Orderly => c = row.id /\ Billed \subseteq {x} /\ (open # {} => open' = {})
  PROVE  PlanInv'
<1> DEFINE plan == [customer |-> c, status |-> status]
<1>1. /\ sub'[x] = plan /\ \A y \in Subs \ {x} : sub'[y] = sub[y]
      /\ plan # None /\ plan.customer = c /\ plan.status = status
  BY NoneAssumption DEF TypeOK, Subscription
<1> HIDE DEF plan
<1>2. /\ \A y \in Billed' : y # x => y \in Billed /\ sub'[y] = sub[y]
      /\ x \in Paying' <=> status = "active"
      /\ Paying' \subseteq Billed' /\ Billed' \subseteq Subs
  <2>1. ASSUME NEW y \in Billed', y # x  PROVE y \in Billed /\ sub'[y] = sub[y]
    <3>1. y \in Subs /\ sub'[y] # None /\ sub'[y].status # "canceled"
      BY DEF Billed
    <3>2. sub'[y] = sub[y]
      BY <1>1, <2>1, <3>1
    <3> QED  BY <3>1, <3>2 DEF Billed
  <2>2. x \in Billed' <=> status # "canceled"
    BY <1>1 DEF Billed
  <2>3. x \in Paying' <=> status = "active"
    BY <1>1, <2>2 DEF Paying
  <2>4. Paying' \subseteq Billed' /\ Billed' \subseteq Subs
    BY DEF Billed, Paying
  <2> QED  BY <2>1, <2>3, <2>4
<1>3. /\ DOMAIN events' = 1 .. Len(events) + Len(new)
      /\ DOMAIN events = 1 .. Len(events) /\ Len(events) \in Nat
      /\ \A i \in DOMAIN events : events'[i] = events[i]
      /\ \A i \in 1 .. Len(new) : new[i] \in Event /\ events'[Len(events) + i] = new[i]
      /\ \A i \in DOMAIN events' :
           i \in DOMAIN events \/ \E j \in 1 .. Len(new) : i = Len(events) + j
  BY EmitFacts
<1>4. PICK n \in 1 .. Len(new) : Changing(new[n])
  OBVIOUS
<1>5. Len(events) + n \in DOMAIN events' /\ Changing(events'[Len(events) + n])
  BY <1>3, <1>4
<1>6. ~NoChange(events') /\ events' # <<>>
  BY <1>5 DEF NoChange
<1>7. Standing'
  <2>1. \A session \in open' : Exists(session[2])'
    BY DEF PlanInv, Standing, Exists
  <2>2. \A y \in Billed' : Exists(sub[y].customer)'
    <3> SUFFICES ASSUME NEW y \in Billed'  PROVE Exists(sub[y].customer)'
      OBVIOUS
    <3>1. CASE y = x
      BY <1>1, <3>1 DEF Exists
    <3>2. CASE y \in Billed /\ sub'[y] = sub[y]
      BY <3>2 DEF PlanInv, Standing, Exists
    <3> QED  BY <1>2, <3>1, <3>2
  <2> QED  BY <2>1, <2>2 DEF PlanInv, Standing
<1>8. ASSUME Orderly'  PROVE OnePlan' /\ Asked' /\ Tells(events)' /\ Known'
  <2>1. Orderly /\ OnePlan /\ c = row.id /\ Billed \subseteq {x} /\ (open # {} => open' = {})
    BY <1>8 DEF PlanInv, Orderly
  <2>2. Billed' \subseteq {x} /\ open' = {}
    BY <1>2, <2>1
  <2>3. OnePlan'
    BY <1>1, <2>1, <2>2 DEF OnePlan
  <2>4. Asked'
    BY <1>6 DEF Asked
  <2>5. Known'
    BY <1>6 DEF Known, NoChange
  <2>6. status = "active" <=> Paying' # {}
    BY <1>2, <2>2
  <2>7. Tells(events)'
    <3> SUFFICES ASSUME NEW i \in DOMAIN events', LastChange(events', i)
                 PROVE  /\ Changing(events'[i]) =>
                             /\ (events'[i].status = "active") <=> Paying' # {}
                             /\ sub'[events'[i].sub].customer = row'.id
                        /\ events'[i].type = "completed" =>
                             ((sub'[events'[i].sub].status = "active") <=> Paying' # {})
      BY DEF Tells, LastChange, Right
    <3>1. i >= Len(events) + n
      BY <1>3, <1>5 DEF LastChange
    <3>2. PICK j \in 1 .. Len(new) : events'[i] = new[j]
      <4>1. i \notin DOMAIN events
        BY <1>3, <3>1
      <4> QED  BY <1>3, <4>1
    <3>3. Changing(events'[i]) \/ events'[i].type = "completed" =>
            events'[i].sub = x /\ events'[i].status = status
      BY <3>2
    <3> QED  BY <1>1, <2>1, <2>6, <3>3
  <2> QED  BY <2>3, <2>4, <2>5, <2>7
<1> QED  BY <1>7, <1>8 DEF PlanInv

LEMMA PlanCompletes ==
  ASSUME TypeOK, EventsInv, PlanInv, CompleteSession
  PROVE  PlanInv'
<1>1. PICK session \in open, x \in Subs, new \in Seq(Event) :
        /\ session[2] \in Objs /\ Exists(session[2])
        /\ sub[x] = None
        /\ sub' = [sub EXCEPT ![x] = [customer |-> session[2], status |-> "active"]]
        /\ open' = open \ {session}
        /\ Emit(new) /\ Len(new) = 2
        /\ new[1].type = "updated" /\ new[2].type = "completed"
        /\ \A i \in 1 .. 2 : new[i].sub = x /\ new[i].status = "active"
        /\ UNCHANGED <<kind, row, remote, ready, req, doubt>>
  BY CompleteSessionFacts
<1>2. Orderly => session[2] = row.id /\ Billed \subseteq {x} /\ open' = {}
  BY <1>1 DEF PlanInv, OnePlan
<1>3. \E i \in 1 .. Len(new) : Changing(new[i])
  BY <1>1 DEF Changing
<1> QED  BY <1>1, <1>2, <1>3, PlanEmits DEF SubStatus

LEMMA PlanChanges ==
  ASSUME TypeOK, EventsInv, PlanInv, SubChanges
  PROVE  PlanInv'
<1>1. PICK x \in Billed, status \in SubStatus, new \in Seq(Event) :
        /\ x \in Subs /\ sub[x] # None /\ status # sub[x].status
        /\ sub' = [sub EXCEPT ![x].status = status]
        /\ Emit(new) /\ Len(new) \in {1, 2}
        /\ \A i \in 1 .. Len(new) :
             /\ new[i].type \in {"updated", "deleted", "failed"}
             /\ new[i].sub = x /\ new[i].status = status
             /\ new[i].type = "deleted" <=> status = "canceled"
             /\ new[i].type = "failed" => status = "past_due"
        /\ UNCHANGED <<kind, row, remote, ready, open, req, doubt>>
  BY SubChangesFacts
<1>2. sub[x].customer \in Objs /\ Exists(sub[x].customer)
  BY <1>1, PlanFacts DEF PlanInv, Standing
<1>3. sub' = [sub EXCEPT ![x] = [customer |-> sub[x].customer, status |-> status]]
  <2>1. sub[x] \in Subscription
    BY <1>1 DEF TypeOK
  <2>2. [sub[x] EXCEPT !.status = status] = [customer |-> sub[x].customer, status |-> status]
    BY <2>1 DEF Subscription
  <2> QED  BY <1>1, <2>2
<1>4. Orderly => sub[x].customer = row.id /\ Billed \subseteq {x} /\ (open # {} => open' = {})
  BY <1>1 DEF PlanInv, OnePlan
<1>5. \A i \in 1 .. Len(new) : Changing(new[i]) /\ new[i].sub = x /\ new[i].status = status
  BY <1>1 DEF Changing
<1>6. 1 \in 1 .. Len(new)
  <2>1. Len(new) = 1 \/ Len(new) = 2
    BY <1>1
  <2>2. CASE Len(new) = 1
    BY <2>2
  <2>3. CASE Len(new) = 2
    BY <2>3
  <2> QED  BY <2>1, <2>2, <2>3
<1>7. \E i \in 1 .. Len(new) : Changing(new[i])
  BY <1>5, <1>6
<1>8. open' \subseteq open
  BY <1>1
<1>9. UNCHANGED <<kind, row, remote, req, doubt>> /\ Emit(new) /\ Len(new) \in {1, 2}
  BY <1>1
<1>10. \A i \in 1 .. Len(new) : Changing(new[i]) \/ new[i].type = "completed" =>
         new[i].sub = x /\ new[i].status = status
  BY <1>5
<1> QED  BY <1>2, <1>3, <1>4, <1>7, <1>8, <1>9, <1>10, PlanEmits DEF Billed

LEMMA PlanGoes ==
  ASSUME TypeOK, EventsInv, PlanInv, RemoteGoes, kind = "customer"
  PROVE  PlanInv'
<1>1. PICK o \in Objs :
        /\ remote[o] = "live"
        /\ \A x \in Billed : sub[x].customer # o
        /\ remote' = [remote EXCEPT ![o] = "gone"]
        /\ open' = {session \in open : session[2] # o}
        /\ events' = events
        /\ UNCHANGED <<row, sub, req, doubt>>
  BY RemoteGoesFacts
<1>2. Billed' = Billed /\ Paying' = Paying /\ (Orderly' <=> Orderly)
  BY <1>1 DEF Billed, Paying, Orderly
<1>3. \A q \in Objs \ {o} : Exists(q) => Exists(q)'
  BY <1>1 DEF Exists, TypeOK
<1>4. Standing'
  <2>1. \A session \in open' : Exists(session[2])'
    BY <1>1, <1>3, PlanFacts DEF PlanInv, Standing
  <2>2. \A x \in Billed : Exists(sub[x].customer)'
    <3> SUFFICES ASSUME NEW x \in Billed  PROVE Exists(sub[x].customer)'
      OBVIOUS
    <3>1. sub[x].customer \in Objs \ {o} /\ Exists(sub[x].customer)
      BY <1>1, PlanFacts DEF PlanInv, Standing
    <3> QED  BY <1>1, <1>3, <3>1
  <2> QED  BY <1>1, <1>2, <2>1, <2>2 DEF PlanInv, Standing
<1>5. ASSUME Orderly'  PROVE OnePlan' /\ Asked' /\ Tells(events)' /\ Known'
  <2>1. OnePlan /\ Asked /\ Tells(events) /\ Known
    BY <1>2, <1>5 DEF PlanInv
  <2>2. OnePlan'
    BY <1>1, <1>2, <2>1 DEF OnePlan
  <2>3. Asked'
    BY <1>1, <1>2, <2>1 DEF Asked, Asking, OnePlan
  <2>4. Tells(events)'
    BY <1>1, <1>2, <2>1 DEF Tells, LastChange, Right
  <2>5. Known'
    BY <1>1, <1>2, <2>1 DEF Known, NoChange, Right, Settling
  <2> QED  BY <2>2, <2>3, <2>4, <2>5
<1> QED  BY <1>4, <1>5 DEF PlanInv

LEMMA CorePlan ==
  ASSUME TypeOK, EventsInv, TopicInv, IdsInv, KeptInv, PlanInv, CoreNext
  PROVE  PlanInv'
<1>0. /\ TypeOK' /\ EventsInv' /\ TopicInv' /\ kind' = kind /\ doubt \subseteq doubt'
      /\ \A t \in Slots : req[t] \in Request
  BY CoreType, CoreEvents, CoreTopics, Onwards DEF TypeOK
<1>1. CASE kind # "customer"
  <2>1. (TypeOK /\ EventsInv /\ TopicInv /\ kind # "customer" => PlanInv)'
    BY PlanElsewhere, PTL
  <2> QED  BY <1>0, <1>1, <2>1
<1>2. ASSUME NEW s \in Slots, Requests(s)  PROVE PlanInv'
  <2>1. PICK why \in Purposes, r \in Request :
          /\ req[s].step = "idle" /\ req' = [req EXCEPT ![s] = r]
          /\ r.step = IF row.id = None THEN "create" ELSE "verify"
          /\ r.id = row.id /\ r.why = why
          /\ kind = "tenant" <=> why \in BankPurposes
          /\ why = "checkout" => kind = "customer" /\ ~(row.sub # None /\ row.status = "active")
          /\ row.id # None => kind \in {"customer", "tenant"}
          /\ kind \in Services
          /\ Doubted(IF why = "checkout" THEN Twice ELSE {})
          /\ UNCHANGED <<kind, row, remote, ready, open, sub, events>>
    BY <1>2, RequestBecomes
  <2>2. req'[s] = r /\ \A t \in Slots \ {s} : req'[t] = req[t]
    BY <2>1 DEF TypeOK
  <2>3. ASSUME Orderly, events = <<>>, why = "checkout", Orderly'  PROVE Billed = {}
    <3>1. Twice = {}
      BY <2>1, <2>3 DEF Doubted, Orderly, Twice
    <3>2. Billed = Paying
      BY <3>1 DEF Twice
    <3>3. row.status # "active"
      BY <2>1, <2>3 DEF PlanInv, Standing
    <3>4. Right(row.status)
      BY <2>3 DEF PlanInv, Known, NoChange
    <3> QED  BY <3>2, <3>3, <3>4 DEF Right
  <2>4. Orderly /\ Orderly' /\ open = {} /\ events = <<>> =>
          \A t \in Slots : Asking(t)' => Asking(t) \/ Billed = {}
    BY <2>1, <2>2, <2>3 DEF Asking
  <2>5. \A t \in Slots : req'[t].step = "settle" => req'[t] = req[t]
    BY <2>1, <2>2
  <2> QED  BY <1>0, <2>1, <2>4, <2>5, PlanStays DEF Exists
<1>3. ASSUME NEW s \in Slots, Verify(s)  PROVE PlanInv'
  <2>1. PICK r \in Request :
          /\ req[s].step = "verify" /\ req[s].id \in Objs /\ req' = [req EXCEPT ![s] = r]
          /\ \/ Exists(req[s].id) /\ req[s].why = "none" /\ r.step = "idle" /\ UNCHANGED doubt
             \/ Exists(req[s].id) /\ r.step = "ready" /\ req[s].why # "none" /\ UNCHANGED doubt
             \/ r.step = "create" /\ Doubted(IF Exists(req[s].id) THEN {"blind"} ELSE {})
          /\ r.step # "idle" => r.id = req[s].id /\ r.why = req[s].why
          /\ UNCHANGED <<kind, row, remote, ready, open, sub, events>>
    BY <1>3, RequestBecomes
  <2>2. req'[s] = r /\ \A t \in Slots \ {s} : req'[t] = req[t]
    BY <2>1 DEF TypeOK
  <2>3. /\ \A t \in Slots : Asking(t)' => Asking(t)
        /\ \A t \in Slots : req'[t].step = "settle" => req'[t] = req[t]
    BY <2>1, <2>2 DEF Asking, Stages
  <2> QED  BY <1>0, <2>1, <2>3, PlanStays DEF Exists
<1>4. ASSUME NEW s \in Slots, CreateRemote(s), kind = "customer"  PROVE PlanInv'
  <2>1. PICK o \in Objs, r \in Request :
          /\ req[s].step = "create" /\ req' = [req EXCEPT ![s] = r]
          /\ remote[o] = "unused" /\ remote' = [remote EXCEPT ![o] = "made"]
          /\ r.step = IF kind = "number" THEN "attach" ELSE "persist"
          /\ r.id = o /\ r.why = req[s].why
          /\ UNCHANGED <<kind, row, ready, open, sub, events, doubt>>
    BY <1>4, RequestBecomes
  <2>2. req'[s] = r /\ \A t \in Slots \ {s} : req'[t] = req[t]
    BY <2>1 DEF TypeOK
  <2>3. /\ \A t \in Slots : Asking(t)' => Asking(t)
        /\ \A t \in Slots : req'[t].step = "settle" => req'[t] = req[t]
    BY <1>4, <2>1, <2>2 DEF Asking, Stages
  <2>4. \A q \in Objs : Exists(q) => Exists(q)'
    BY <2>1 DEF Exists, TypeOK
  <2> QED  BY <1>0, <2>1, <2>3, <2>4, PlanStays
<1>5. ASSUME NEW s \in Slots,
             Attach(s) \/ LookUp(s) \/ Poll(s) \/ Sync(s) \/ Remove(s) \/ Clear(s) \/ Leaves(s)
      PROVE  kind # "customer"
  <2>1. Fits(req[s])
    BY DEF TopicInv
  <2> QED  BY <1>5, <2>1 DEF Fits, Attach, LookUp, Poll, Sync, Remove, Clear, Leaves
<1>6. ASSUME NEW s \in Slots, AccountEvent(s)  PROVE kind # "customer"
  <2>1. PICK i \in 1 .. Len(events) : events[i].type \in {"account", "deauthorized"}
    BY <1>6 DEF AccountEvent
  <2>2. Sound(events[i])
    BY <2>1, PlanFacts
  <2> QED  BY <2>1, <2>2 DEF Sound
<1>7. AccountChanges => kind # "customer"
  BY DEF AccountChanges
<1>8. CASE UNCHANGED vars
  BY <1>0, <1>8, PlanStays DEF vars, service, Exists, Asking
<1> QED  BY <1>1, <1>2, <1>3, <1>4, <1>5, <1>6, <1>7, <1>8, PlanPersist, PlanOpens, PlanSettles,
            PlanFetches, PlanSettle, PlanStops, PlanCompletes, PlanChanges, PlanGoes DEF CoreNext

-----------------------------------------------------------------------------
(* The account.                                                            *)

LEMMA AccountElsewhere ==
  ASSUME TypeOK, EventsInv, TopicInv, kind # "account"
  PROVE  AccountInv
<1>1. \A i \in DOMAIN events : events[i].type # "account"
  BY DEF EventsInv, Sound
<1>2. ready = {} /\ row.onboarded = FALSE /\ \A s \in Slots : req[s].step # "sync"
  BY DEF TopicInv, Fits, TypeOK, Row
<1>3. \A o \in Objs : TellsOf(events, o)
  BY <1>1 DEF TellsOf, About
<1>4. ReadyKnown
  BY <1>2 DEF ReadyKnown
<1> QED  BY <1>3, <1>4 DEF AccountInv

LEMMA AccountFacts ==
  ASSUME TypeOK, EventsInv, IdsInv
  PROVE  /\ row.id \in Objs \cup {None} /\ row.onboarded \in BOOLEAN
         /\ row.id # None /\ Exists(row.id) => row.id \in Objs /\ remote[row.id] = "live"
         /\ \A i \in DOMAIN events : events[i] \in Event /\ Sound(events[i])
         /\ DOMAIN events = 1 .. Len(events) /\ Len(events) \in Nat
         /\ \A i \in DOMAIN events : \A o \in Objs :
              About(events[i], o) => remote[o] \in {"live", "gone"}
<1>1. row.id \in Objs \cup {None} /\ row.onboarded \in BOOLEAN
  BY DEF TypeOK, Row
<1>2. row.id # None /\ Exists(row.id) => row.id \in Objs /\ remote[row.id] = "live"
  BY <1>1 DEF IdsInv, Exists
<1> QED  BY <1>1, <1>2, PlanFacts DEF About, Sound

(* Only what a slot is doing changes.                                      *)
LEMMA AccountStays ==
  ASSUME TypeOK, EventsInv, IdsInv, AccountInv, doubt \subseteq doubt',
         UNCHANGED <<row, ready, events>>,
         \A o \in Objs : remote'[o] = "live" => remote[o] = "live",
         Exists(row.id)' /\ row.id # None => Exists(row.id),
         Orderly => \A s \in Slots : req'[s].step = "sync" =>
            req'[s] = req[s] \/ (req'[s].onboarded <=> row.id \in ready),
         \A s \in Slots : req[s].step = "sync" /\ req[s].event # None => req'[s] = req[s]
  PROVE  AccountInv'
<1> SUFFICES ASSUME Orderly'
             PROVE  (\A o \in Objs : remote'[o] = "live" => TellsOf(events, o)') /\ ReadyKnown'
  BY DEF AccountInv
<1>1. Orderly /\ (\A o \in Objs : remote[o] = "live" => TellsOf(events, o)) /\ ReadyKnown
  BY OrderlyBefore DEF AccountInv
<1>2. \A o \in Objs : remote'[o] = "live" => TellsOf(events, o)'
  BY <1>1 DEF TellsOf, LastAbout
<1>3. ReadyKnown'
  <2> SUFFICES ASSUME row.id # None, Exists(row.id)', Silent(events, row.id)
               PROVE  /\ \A s \in Slots : req'[s].step = "sync" => (req'[s].onboarded <=> row.id \in ready)
                      /\ \/ row.onboarded <=> row.id \in ready
                         \/ \E s \in Slots : req'[s].step = "sync" /\ req'[s].event # None
    BY DEF ReadyKnown, Silent
  <2>1. /\ \A s \in Slots : req[s].step = "sync" => (req[s].onboarded <=> row.id \in ready)
        /\ \/ row.onboarded <=> row.id \in ready
           \/ \E s \in Slots : req[s].step = "sync" /\ req[s].event # None
    BY <1>1 DEF ReadyKnown
  <2>2. \A s \in Slots : req'[s].step = "sync" => (req'[s].onboarded <=> row.id \in ready)
    BY <1>1, <2>1
  <2>3. \/ row.onboarded <=> row.id \in ready
        \/ \E s \in Slots : req'[s].step = "sync" /\ req'[s].event # None
    BY <2>1
  <2> QED  BY <2>2, <2>3
<1> QED  BY <1>2, <1>3

LEMMA AccountPersist ==
  ASSUME TypeOK, EventsInv, IdsInv, AccountInv, NEW s \in Slots, Persist(s), kind = "account"
  PROVE  AccountInv'
<1>1. PICK r \in Request :
        /\ req[s].step = "persist" /\ req[s].id \in Objs /\ req' = [req EXCEPT ![s] = r]
        /\ IF req[s].why = "none" THEN r.step = "idle"
           ELSE r.step = "ready" /\ r.id = req[s].id /\ r.why = req[s].why
        /\ row' = [row EXCEPT !.id = req[s].id, !.onboarded = FALSE]
        /\ remote' = [remote EXCEPT ![req[s].id] = IF @ = "made" THEN "live" ELSE @]
        /\ Doubted(Overlap(s) \cup (IF row.id # None /\ events # <<>> THEN {"replaced"} ELSE {}))
        /\ UNCHANGED <<kind, ready, open, sub, events>>
  BY RequestBecomes
<1>2. /\ doubt \subseteq doubt' /\ row'.id = req[s].id /\ row'.onboarded = FALSE
      /\ req'[s] = r /\ \A t \in Slots \ {s} : req'[t] = req[t]
      /\ \A o \in Objs \ {req[s].id} : remote'[o] = remote[o]
  BY <1>1 DEF Doubted, TypeOK, Row
<1>3. remote[req[s].id] = "made" /\ req[s].id \notin ready
  <2>1. remote[req[s].id] = "made"
    BY <1>1 DEF IdsInv, IdInv
  <2> QED  BY <2>1 DEF IdsInv
<1>4. Silent(events, req[s].id)
  BY <1>1, <1>3, AccountFacts DEF Silent
<1> SUFFICES ASSUME Orderly'
             PROVE  (\A o \in Objs : remote'[o] = "live" => TellsOf(events, o)') /\ ReadyKnown'
  BY DEF AccountInv
<1>5. Orderly /\ \A o \in Objs : remote[o] = "live" => TellsOf(events, o)
  BY <1>2, OrderlyBefore DEF AccountInv
<1>6. ASSUME NEW o \in Objs, remote'[o] = "live"  PROVE TellsOf(events, o)'
  <2>1. CASE o = req[s].id
    BY <1>1, <1>4, <2>1 DEF TellsOf, Silent
  <2>2. CASE o # req[s].id
    BY <1>1, <1>2, <1>5, <1>6, <2>2 DEF TellsOf, LastAbout
  <2> QED  BY <2>1, <2>2
<1>7. \A t \in Slots : req'[t].step # "sync"
  <2>1. "overlap" \notin Overlap(s)
    BY <1>1 DEF Doubted, Orderly
  <2>2. \A t \in Slots \ {s} : req[t].step = "idle"
    BY <2>1, OverlapFacts
  <2> QED  BY <1>1, <1>2, <2>2
<1>8. ReadyKnown'
  BY <1>1, <1>2, <1>3, <1>7 DEF ReadyKnown
<1> QED  BY <1>6, <1>8

(* The oldest event arrives, and what is said of the rest stays true.      *)
LEMMA AccountArrives ==
  ASSUME TypeOK, EventsInv, NEW i \in 1 .. Len(events), NEW s \in Slots, NEW again \in BOOLEAN,
         Arrives(i, s, again), "reorder" \notin doubt', UNCHANGED ready, NEW o \in Objs
  PROVE  /\ i = 1 /\ 1 \in DOMAIN events
         /\ TellsOf(events, o) => TellsOf(events, o)'
         /\ Silent(events', o) => LastAbout(events, 1, o)
         /\ Silent(events', o) /\ ~About(events[1], o) => Silent(events, o)
<1>1. i = 1 /\ 1 \in DOMAIN events /\ DOMAIN events = 1 .. Len(events) /\ Len(events) \in Nat
  BY ArrivesFacts, PlanFacts
<1>3. CASE again
  <2>1. events' = events
    BY <1>3, ArrivesFacts
  <2> QED  BY <1>1, <2>1 DEF TellsOf, Silent, LastAbout
<1>4. CASE ~again
  <2>1. /\ events' \in Seq(Event) /\ Len(events') = Len(events) - 1
        /\ \A j \in DOMAIN events' :
             j \in DOMAIN events /\ j + 1 \in DOMAIN events
             /\ events'[j] = IF j < i THEN events[j] ELSE events[j + 1]
    BY <1>4, ArrivesFacts
  <2>2. DOMAIN events' = 1 .. Len(events')
    BY <2>1, LenProperties
  <2>3. \A j \in DOMAIN events' : j \in Nat /\ j + 1 \in DOMAIN events /\ events'[j] = events[j + 1]
    BY <1>1, <2>1, <2>2
  <2>4. \A k \in DOMAIN events : k > 1 => k - 1 \in DOMAIN events' /\ events'[k - 1] = events[k]
    BY <1>1, <2>1, <2>2
  <2>5. ASSUME NEW j \in DOMAIN events', LastAbout(events', j, o)  PROVE LastAbout(events, j + 1, o)
    <3> SUFFICES ASSUME NEW k \in DOMAIN events, k > j + 1  PROVE ~About(events[k], o)
      BY DEF LastAbout
    <3>1. k > 1 /\ k - 1 > j
      BY <1>1, <2>3
    <3>2. k - 1 \in DOMAIN events' /\ events'[k - 1] = events[k]
      BY <2>4, <3>1
    <3>3. ~About(events'[k - 1], o)
      BY <2>5, <3>1, <3>2 DEF LastAbout
    <3> QED  BY <3>2, <3>3
  <2>6. ASSUME TellsOf(events, o)  PROVE TellsOf(events, o)'
    <3> SUFFICES ASSUME NEW j \in DOMAIN events', About(events'[j], o), LastAbout(events', j, o)
                 PROVE  events'[j].ready <=> o \in ready
      BY DEF TellsOf, LastAbout, About
    <3>1. LastAbout(events, j + 1, o) /\ j + 1 \in DOMAIN events /\ events'[j] = events[j + 1]
      BY <2>3, <2>5
    <3>2. About(events[j + 1], o)
      BY <3>1
    <3>3. events[j + 1].ready <=> o \in ready
      BY <2>6, <3>1, <3>2 DEF TellsOf
    <3> QED  BY <3>1, <3>3
  <2>7. Silent(events', o) => LastAbout(events, 1, o)
    BY <1>1, <2>4 DEF Silent, LastAbout
  <2>8. Silent(events', o) /\ ~About(events[1], o) => Silent(events, o)
    BY <1>1, <2>4 DEF Silent
  <2> QED  BY <1>1, <2>6, <2>7, <2>8
<1> QED  BY <1>3, <1>4

LEMMA AccountHears ==
  ASSUME TypeOK, EventsInv, IdsInv, AccountInv, NEW s \in Slots, AccountEvent(s)
  PROVE  AccountInv'
<1>1. PICK i \in 1 .. Len(events), again \in BOOLEAN :
        /\ Arrives(i, s, again) /\ events[i].type \in {"account", "deauthorized"}
        /\ \A t \in Slots \ {s} : req'[t] = req[t]
        /\ \/ /\ req' = req
              /\ \/ events[i].id # row.id
                 \/ events[i].type = "account" /\ events[i].ready = row.onboarded
           \/ /\ events[i].type = "account" /\ events[i].id = row.id
              /\ req'[s].step = "sync" /\ req'[s].id = row.id /\ req'[s].event = events[i]
              /\ req'[s].onboarded = events[i].ready
           \/ /\ events[i].type = "deauthorized" /\ events[i].id = row.id
              /\ req'[s].step = "clear" /\ req'[s].id = row.id /\ req'[s].event = events[i]
        /\ UNCHANGED <<kind, row, remote, ready, open, sub>>
  BY EventBecomes
<1>2. i \in DOMAIN events /\ events[i] \in Event /\ Sound(events[i]) /\ events[i] # None
      /\ doubt \subseteq doubt'
  BY <1>1, AccountFacts, EventFacts, ArrivesFacts
<1> SUFFICES ASSUME Orderly'
             PROVE  (\A o \in Objs : remote[o] = "live" => TellsOf(events, o)') /\ ReadyKnown'
  BY <1>1 DEF AccountInv
<1>3. /\ Orderly /\ (\A o \in Objs : remote[o] = "live" => TellsOf(events, o)) /\ ReadyKnown
      /\ "reorder" \notin doubt' /\ "overlap" \notin doubt'
  BY <1>2, OrderlyBefore DEF AccountInv, Orderly
<1>4. \A t \in Slots : req[t].step = "idle"
  BY <1>1, <1>3, ArrivesFacts
<1>5. \A o \in Objs : /\ i = 1
                      /\ TellsOf(events, o) => TellsOf(events, o)'
                      /\ Silent(events', o) => LastAbout(events, 1, o)
                      /\ Silent(events', o) /\ ~About(events[1], o) => Silent(events, o)
  BY <1>1, <1>3, AccountArrives
<1>6. ReadyKnown'
  <2> SUFFICES ASSUME row.id # None, Exists(row.id), Silent(events', row.id)
               PROVE  /\ \A t \in Slots : req'[t].step = "sync" => (req'[t].onboarded <=> row.id \in ready)
                      /\ \/ row.onboarded <=> row.id \in ready
                         \/ \E t \in Slots : req'[t].step = "sync" /\ req'[t].event # None
    BY <1>1 DEF ReadyKnown, Silent, Exists
  <2>1. row.id \in Objs /\ remote[row.id] = "live" /\ i = 1
    BY <1>5, AccountFacts
  <2>2. ~(events[i].type = "deauthorized" /\ events[i].id = row.id)
    BY <1>2, <2>1 DEF Sound
  <2>3. CASE ~About(events[i], row.id)
    <3>1. Silent(events, row.id) /\ req' = req
      BY <1>1, <1>5, <2>1, <2>2, <2>3 DEF About
    <3>2. row.onboarded <=> row.id \in ready
      BY <1>3, <1>4, <3>1 DEF ReadyKnown
    <3> QED  BY <1>4, <3>1, <3>2
  <2>4. CASE About(events[i], row.id)
    <3>1. events[i].ready <=> row.id \in ready
      BY <1>2, <1>3, <1>5, <2>1, <2>4 DEF TellsOf
    <3>2. CASE req' = req /\ events[i].ready = row.onboarded
      BY <1>4, <3>1, <3>2
    <3>3. CASE req'[s].step = "sync" /\ req'[s].event = events[i] /\ req'[s].onboarded = events[i].ready
      BY <1>1, <1>2, <1>4, <3>1, <3>3
    <3> QED  BY <1>1, <2>4, <3>2, <3>3 DEF About
  <2> QED  BY <2>3, <2>4
<1> QED  BY <1>3, <1>5, <1>6

LEMMA AccountSyncs ==
  ASSUME TypeOK, EventsInv, IdsInv, KeptInv, AccountInv, NEW s \in Slots, Sync(s)
  PROVE  AccountInv'
<1>1. /\ req[s].step = "sync" /\ req[s].id \in Objs /\ req'[s].step = "idle"
      /\ \A t \in Slots \ {s} : req'[t] = req[t]
      /\ row'.id = req[s].id /\ row'.onboarded = req[s].onboarded
      /\ Doubted(Overlap(s))
      /\ UNCHANGED <<kind, remote, ready, open, sub, events>>
  BY LookBecomes
<1> SUFFICES ASSUME Orderly'
             PROVE  (\A o \in Objs : remote[o] = "live" => TellsOf(events, o)') /\ ReadyKnown'
  BY <1>1 DEF AccountInv
<1>2. /\ Orderly /\ Trusted /\ (\A o \in Objs : remote[o] = "live" => TellsOf(events, o)) /\ ReadyKnown
      /\ "overlap" \notin Overlap(s)
  BY <1>1, OrderlyBefore, OrderlyTrusted DEF AccountInv, Orderly, Doubted
<1>3. \A o \in Objs : remote[o] = "live" => TellsOf(events, o)'
  BY <1>1, <1>2 DEF TellsOf, LastAbout
<1>4. \A t \in Slots : req'[t].step = "idle"
  BY <1>1, <1>2, OverlapFacts
<1>5. row'.id = row.id
  BY <1>1, <1>2 DEF KeptInv
<1>6. ReadyKnown'
  BY <1>1, <1>2, <1>4, <1>5 DEF ReadyKnown, Silent, Exists
<1> QED  BY <1>3, <1>6

LEMMA AccountClears ==
  ASSUME TypeOK, AccountInv, NEW s \in Slots, Clear(s)
  PROVE  AccountInv'
<1>1. row'.id = None /\ doubt \subseteq doubt' /\ UNCHANGED <<remote, ready, events>>
  BY LookBecomes DEF Doubted
<1> SUFFICES ASSUME Orderly'
             PROVE  (\A o \in Objs : remote[o] = "live" => TellsOf(events, o)') /\ ReadyKnown'
  BY <1>1 DEF AccountInv
<1>2. \A o \in Objs : remote[o] = "live" => TellsOf(events, o)
  BY <1>1, OrderlyBefore DEF AccountInv
<1>3. \A o \in Objs : remote[o] = "live" => TellsOf(events, o)'
  BY <1>1, <1>2 DEF TellsOf, LastAbout
<1>4. ReadyKnown'
  BY <1>1 DEF ReadyKnown
<1> QED  BY <1>3, <1>4

LEMMA AccountStops ==
  ASSUME TypeOK, EventsInv, TopicInv, IdsInv, KeptInv, AccountInv, NEW s \in Slots, Stops(s),
         kind = "account"
  PROVE  AccountInv'
<1>1. /\ ~Held(s) => events' = events
      /\ Held(s) =>
           /\ DOMAIN events' = 1 .. Len(events) + 1
           /\ DOMAIN events = 1 .. Len(events) /\ Len(events) \in Nat
           /\ events'[Len(events) + 1] = req[s].event
           /\ "reorder" \notin doubt' => events = <<>>
      /\ doubt \subseteq doubt' /\ req'[s].step = "idle"
      /\ \A t \in Slots \ {s} : req'[t] = req[t]
  BY StopsFacts
<1>2. UNCHANGED <<row, remote, ready, open, sub>>
  BY DEF Stops, service
<1>3. CASE ~Held(s)
  <2>1. \A t \in Slots : req'[t].step = "sync" => req'[t] = req[t]
    BY <1>1
  <2>2. \A t \in Slots : req[t].step = "sync" /\ req[t].event # None => req'[t] = req[t]
    BY <1>1, <1>3 DEF Held
  <2> QED  BY <1>1, <1>2, <1>3, <2>1, <2>2, AccountStays DEF Exists
<1>4. CASE Held(s)
  <2> SUFFICES ASSUME Orderly'
               PROVE  (\A o \in Objs : remote[o] = "live" => TellsOf(events, o)') /\ ReadyKnown'
    BY <1>2 DEF AccountInv
  <2>1. /\ Orderly /\ Trusted /\ ReadyKnown /\ "reorder" \notin doubt'
    BY <1>1, OrderlyBefore, OrderlyTrusted DEF AccountInv, Orderly
  <2>2. events = <<>> /\ Len(events) = 0
    BY <1>1, <1>4, <2>1
  <2>3. DOMAIN events' = {1} /\ events'[1] = req[s].event
    BY <1>1, <1>4, <2>2
  <2>4. /\ req[s].step \in {"sync", "clear"} /\ req[s].id = row.id
        /\ req[s].step = "sync" =>
             /\ req[s].event.type = "account" /\ req[s].event.id = row.id
             /\ req[s].event.ready <=> req[s].onboarded
        /\ req[s].step = "clear" => req[s].event.type = "deauthorized"
    <3>1. req[s].step \in {"sync", "clear"} /\ req[s].event # None
      BY <1>4 DEF Held, TopicInv, Fits
    <3>2. req[s].id = row.id
      BY <2>1, <3>1 DEF KeptInv
    <3> QED  BY <3>1, <3>2 DEF EventsInv
  <2>5. Silent(events, row.id)
    BY <2>2 DEF Silent
  <2>6. ASSUME NEW o \in Objs, remote[o] = "live", About(req[s].event, o)
        PROVE  req[s].event.ready <=> o \in ready
    <3>1. req[s].step = "sync" /\ o = row.id /\ o # None
      BY <2>4, <2>6, NoneAssumption DEF About
    <3>2. req[s].onboarded <=> row.id \in ready
      BY <2>1, <2>5, <2>6, <3>1 DEF ReadyKnown, Exists
    <3> QED  BY <2>4, <3>1, <3>2
  <2>7. \A o \in Objs : remote[o] = "live" => TellsOf(events, o)'
    BY <1>2, <2>3, <2>6 DEF TellsOf
  <2>8. ReadyKnown'
    <3> SUFFICES ASSUME row.id # None, Exists(row.id), ~About(events'[1], row.id)
                 PROVE  /\ \A t \in Slots : req'[t].step = "sync" => (req'[t].onboarded <=> row.id \in ready)
                        /\ \/ row.onboarded <=> row.id \in ready
                           \/ \E t \in Slots : req'[t].step = "sync" /\ req'[t].event # None
      BY <1>2, <2>3 DEF ReadyKnown, Silent, Exists
    <3>1. req[s].step # "sync"
      BY <2>3, <2>4 DEF About
    <3>2. /\ \A t \in Slots : req[t].step = "sync" => (req[t].onboarded <=> row.id \in ready)
          /\ \/ row.onboarded <=> row.id \in ready
             \/ \E t \in Slots : req[t].step = "sync" /\ req[t].event # None
      BY <2>1, <2>5 DEF ReadyKnown
    <3> QED  BY <1>1, <3>1, <3>2
  <2> QED  BY <2>7, <2>8
<1> QED  BY <1>3, <1>4

(* What happens to an account at Stripe, with an event behind the others.  *)
LEMMA AccountMoves ==
  ASSUME TypeOK, EventsInv, IdsInv, AccountInv, NEW o \in Objs, NEW new \in Seq(Event),
         Emit(new), Len(new) = 1, new[1].id = o,
         \A q \in Objs \ {o} : remote'[q] = remote[q] /\ (q \in ready' <=> q \in ready),
         \/ new[1].type = "account" /\ (new[1].ready <=> o \in ready')
         \/ new[1].type = "deauthorized" /\ remote'[o] = "gone",
         UNCHANGED <<row, req, doubt>>
  PROVE  AccountInv'
<1>1. /\ DOMAIN events' = 1 .. Len(events) + 1
      /\ DOMAIN events = 1 .. Len(events) /\ Len(events) \in Nat
      /\ \A i \in DOMAIN events : events'[i] = events[i]
      /\ events'[Len(events) + 1] = new[1]
  <2>1. /\ DOMAIN events' = 1 .. Len(events) + Len(new)
        /\ DOMAIN events = 1 .. Len(events) /\ Len(events) \in Nat
        /\ \A i \in DOMAIN events : events'[i] = events[i]
        /\ \A i \in 1 .. Len(new) : events'[Len(events) + i] = new[i]
    BY EmitFacts
  <2>2. 1 \in 1 .. Len(new)
    OBVIOUS
  <2> QED  BY <2>1, <2>2
<1> SUFFICES ASSUME Orderly'
             PROVE  (\A q \in Objs : remote'[q] = "live" => TellsOf(events, q)') /\ ReadyKnown'
  BY DEF AccountInv
<1>2. (\A q \in Objs : remote[q] = "live" => TellsOf(events, q)) /\ ReadyKnown
  BY DEF AccountInv, Orderly
<1>3. ASSUME NEW q \in Objs, remote'[q] = "live"  PROVE TellsOf(events, q)'
  <2> SUFFICES ASSUME NEW i \in DOMAIN events', About(events'[i], q), LastAbout(events', i, q)
               PROVE  events'[i].ready <=> q \in ready'
    BY DEF TellsOf, LastAbout, About
  <2>1. CASE i = Len(events) + 1
    <3>1. q = o /\ new[1].type = "account"
      BY <1>1, <2>1 DEF About
    <3> QED  BY <1>1, <2>1, <3>1
  <2>2. CASE i \in DOMAIN events
    <3>1. Len(events) + 1 \in DOMAIN events' /\ Len(events) + 1 > i
      BY <1>1, <2>2
    <3>2. ~About(new[1], q)
      BY <1>1, <3>1 DEF LastAbout
    <3>3. q # o
      BY <1>3, <3>2 DEF About
    <3>4. LastAbout(events, i, q)
      BY <1>1 DEF LastAbout
    <3> QED  BY <1>1, <1>2, <1>3, <2>2, <3>3, <3>4 DEF TellsOf
  <2> QED  BY <1>1, <2>1, <2>2
<1>4. ReadyKnown'
  <2> SUFFICES ASSUME row.id # None, Exists(row.id)', Silent(events', row.id)
               PROVE  /\ \A t \in Slots : req[t].step = "sync" => (req[t].onboarded <=> row.id \in ready')
                      /\ \/ row.onboarded <=> row.id \in ready'
                         \/ \E t \in Slots : req[t].step = "sync" /\ req[t].event # None
    BY DEF ReadyKnown, Silent
  <2>1. Silent(events, row.id) /\ ~About(new[1], row.id)
    BY <1>1 DEF Silent
  <2>2. row.id # o /\ row.id \in Objs
    BY <2>1, AccountFacts DEF About, Exists
  <2>3. Exists(row.id) /\ (row.id \in ready' <=> row.id \in ready)
    BY <2>2 DEF Exists
  <2> QED  BY <1>2, <2>1, <2>3 DEF ReadyKnown
<1> QED  BY <1>3, <1>4

LEMMA CoreAccount ==
  ASSUME TypeOK, EventsInv, TopicInv, IdsInv, KeptInv, AccountInv, CoreNext
  PROVE  AccountInv'
<1>0. /\ TypeOK' /\ EventsInv' /\ TopicInv' /\ kind' = kind /\ doubt \subseteq doubt'
      /\ \A t \in Slots : req[t] \in Request /\ Fits(req[t])
  BY CoreType, CoreEvents, CoreTopics, Onwards DEF TypeOK, TopicInv
<1>1. CASE kind # "account"
  <2>1. (TypeOK /\ EventsInv /\ TopicInv /\ kind # "account" => AccountInv)'
    BY AccountElsewhere, PTL
  <2> QED  BY <1>0, <1>1, <2>1
<1>2. ASSUME NEW s \in Slots, Requests(s)  PROVE AccountInv'
  <2>1. /\ req[s].step = "idle" /\ \E r : req' = [req EXCEPT ![s] = r] /\ r.step \in {"create", "verify"}
        /\ UNCHANGED <<kind, row, remote, ready, open, sub, events>>
    BY <1>2, RequestBecomes
  <2>2. req'[s].step \in {"create", "verify"} /\ \A t \in Slots \ {s} : req'[t] = req[t]
    BY <2>1 DEF TypeOK
  <2>3. /\ \A t \in Slots : req'[t].step = "sync" => req'[t] = req[t]
        /\ \A t \in Slots : req[t].step = "sync" /\ req[t].event # None => req'[t] = req[t]
    BY <2>1, <2>2
  <2> QED  BY <1>0, <2>1, <2>3, AccountStays DEF Exists
<1>3. ASSUME NEW s \in Slots, CreateRemote(s)  PROVE AccountInv'
  <2>1. PICK o \in Objs, r \in Request :
          /\ req[s].step = "create" /\ req' = [req EXCEPT ![s] = r]
          /\ remote[o] = "unused" /\ remote' = [remote EXCEPT ![o] = "made"]
          /\ r.step = IF kind = "number" THEN "attach" ELSE "persist"
          /\ r.id = o /\ r.why = req[s].why
          /\ UNCHANGED <<kind, row, ready, open, sub, events, doubt>>
    BY <1>3, RequestBecomes
  <2>2. req'[s] = r /\ \A t \in Slots \ {s} : req'[t] = req[t]
    BY <2>1 DEF TypeOK
  <2>3. /\ \A t \in Slots : req'[t].step = "sync" => req'[t] = req[t]
        /\ \A t \in Slots : req[t].step = "sync" /\ req[t].event # None => req'[t] = req[t]
    BY <2>1, <2>2
  <2>4. \A q \in Objs : remote'[q] = "live" => remote[q] = "live"
    BY <2>1 DEF TypeOK
  <2>5. Exists(row.id)' /\ row.id # None => Exists(row.id)
    <3>1. row.id # None => row.id \in Objs /\ row.id # o
      BY <2>1, AccountFacts DEF IdsInv
    <3> QED  BY <2>1, <3>1 DEF Exists, TypeOK
  <2> QED  BY <1>0, <2>1, <2>3, <2>4, <2>5, AccountStays
<1>4. ASSUME NEW s \in Slots, LookUp(s) \/ Poll(s)  PROVE AccountInv'
  <2>1. /\ req[s].step \in {"idle", "poll"}
        /\ \A t \in Slots \ {s} : req'[t] = req[t]
        /\ req'[s].step = "sync" =>
             req[s].step = "poll" /\ (req'[s].onboarded <=> req[s].id \in ready)
        /\ UNCHANGED <<kind, row, remote, ready, open, sub, events>>
    BY <1>4, LookBecomes
  <2>2. Orderly => (req[s].step = "poll" => req[s].id = row.id)
    BY OrderlyTrusted DEF KeptInv
  <2>3. /\ Orderly => \A t \in Slots : req'[t].step = "sync" =>
              req'[t] = req[t] \/ (req'[t].onboarded <=> row.id \in ready)
        /\ \A t \in Slots : req[t].step = "sync" /\ req[t].event # None => req'[t] = req[t]
    BY <2>1, <2>2
  <2> QED  BY <1>0, <2>1, <2>3, AccountStays DEF Exists
<1>5. CASE AccountChanges
  <2>1. PICK o \in Objs, new \in Seq(Event) :
          /\ kind = "account" /\ remote[o] = "live"
          /\ ready' = IF o \in ready THEN ready \ {o} ELSE ready \cup {o}
          /\ Emit(new) /\ Len(new) = 1
          /\ new[1].type = "account" /\ new[1].id = o /\ (new[1].ready <=> o \in ready')
          /\ UNCHANGED <<kind, row, remote, open, sub, req, doubt>>
    BY <1>5, AccountChangesFacts
  <2>2. \A q \in Objs \ {o} : remote'[q] = remote[q] /\ (q \in ready' <=> q \in ready)
    BY <2>1
  <2> QED  BY <2>1, <2>2, AccountMoves
<1>6. CASE RemoteGoes /\ kind = "account"
  <2>1. PICK o \in Objs, new \in Seq(Event) :
          /\ remote[o] = "live"
          /\ \A x \in Billed : sub[x].customer # o
          /\ remote' = [remote EXCEPT ![o] = "gone"]
          /\ open' = {session \in open : session[2] # o}
          /\ ready' = ready \ {o}
          /\ \/ kind = "account" /\ Emit(new) /\ Len(new) = 1
                /\ new[1].type = "deauthorized" /\ new[1].id = o
             \/ kind # "account" /\ events' = events
          /\ UNCHANGED <<kind, row, sub, req, doubt>>
    BY <1>6, RemoteGoesFacts
  <2>2. /\ \A q \in Objs \ {o} : remote'[q] = remote[q] /\ (q \in ready' <=> q \in ready)
        /\ remote'[o] = "gone"
    BY <2>1 DEF TypeOK
  <2> QED  BY <1>6, <2>1, <2>2, AccountMoves
<1>7. ASSUME NEW s \in Slots,
             Verify(s) \/ Attach(s) \/ OpenSession(s) \/ Settle(s) \/ Remove(s) \/ Leaves(s)
      PROVE  kind # "account"
  BY <1>0, <1>7 DEF Fits, Verify, Attach, OpenSession, Settle, Remove, Leaves
<1>8. ASSUME NEW s \in Slots, SubscriptionEvent(s) \/ SessionEvent(s)  PROVE kind # "account"
  <2>1. PICK i \in 1 .. Len(events) : events[i].type \in SubTypes
    BY <1>8 DEF SubscriptionEvent, SessionEvent, SubTypes
  <2>2. Sound(events[i])
    BY <2>1, PlanFacts
  <2> QED  BY <2>1, <2>2 DEF Sound
<1>9. CompleteSession => kind # "account"
  BY DEF CompleteSession, TopicInv
<1>10. SubChanges => kind # "account"
  BY SubChangesFacts DEF TopicInv
<1>11. CASE UNCHANGED vars
  BY <1>0, <1>11, AccountStays DEF vars, service, Exists
<1> QED  BY <1>1, <1>2, <1>3, <1>4, <1>5, <1>6, <1>7, <1>8, <1>9, <1>10, <1>11, AccountPersist,
            AccountHears, AccountSyncs, AccountClears, AccountStops DEF CoreNext

-----------------------------------------------------------------------------
(* What a slot has to do fits the topic.                                   *)

TenantSteps == {"list", "amounts", "remove", "verify", "detach"}

JobInv ==
  /\ \A s \in Slots :
       /\ job[s].step \in CardSteps => kind = "card"
       /\ job[s].step \in UnitSteps => kind = "units"
       /\ job[s].step \in TenantSteps => kind = "tenant"
  /\ card.panel # "shut" => kind = "card"

LEMMA JobFacts ==
  ASSUME NEW j \in Job
  PROVE  /\ j = NoJob <=> j.step = "none"
         /\ j.step = "list" =>
              j \in [step : {"list"}, held : (SUBSET Banks) \cup {None}, pending : (SUBSET Banks) \cup {None}]
         /\ j.step \in {"amounts", "remove", "verify", "detach"} =>
              j \in [step : {"amounts", "remove", "verify", "detach"}, bank : Banks]
         /\ j.step \in {"row", "customer", "answer"} =>
              j \in [step : {"row", "customer", "answer"}, card : Cards, subscribed : BOOLEAN]
         /\ j.step = "subscription" => j \in [step : {"subscription"}, card : Cards, subscribed : {TRUE}]
         /\ j.step = "find" => j \in [step : {"find"}, quantity : 0 .. MaxUnits]
         /\ j.step = "write" => j \in [step : {"write"}, quantity : 0 .. MaxUnits, item : BOOLEAN]
         /\ j.step \in {"none", "count"} \cup TenantSteps \cup CardSteps \cup UnitSteps
<1>1. NoJob.step = "none"
  BY DEF NoJob
<1>2. CASE j = NoJob
  BY <1>1, <1>2
<1>3. CASE j \in [step : {"list"}, held : (SUBSET Banks) \cup {None}, pending : (SUBSET Banks) \cup {None}]
  BY <1>1, <1>3 DEF TenantSteps
<1>4. CASE j \in [step : {"amounts", "remove", "verify", "detach"}, bank : Banks]
  BY <1>1, <1>4 DEF TenantSteps
<1>5. CASE j \in [step : {"row", "customer", "answer"}, card : Cards, subscribed : BOOLEAN]
  BY <1>1, <1>5 DEF CardSteps
<1>6. CASE j \in [step : {"subscription"}, card : Cards, subscribed : {TRUE}]
  BY <1>1, <1>6 DEF CardSteps
<1>7. CASE j \in [step : {"count"}]
  BY <1>1, <1>7
<1>8. CASE j \in [step : {"find"}, quantity : 0 .. MaxUnits]
  BY <1>1, <1>8 DEF UnitSteps
<1>9. CASE j \in [step : {"write"}, quantity : 0 .. MaxUnits, item : BOOLEAN]
  BY <1>1, <1>9 DEF UnitSteps
<1> QED  BY <1>2, <1>3, <1>4, <1>5, <1>6, <1>7, <1>8, <1>9 DEF Job

(* A step of a topic of Wallets is one of its requests, or none.           *)
LEMMA WalletIsCore ==
  ASSUME TypeOK, WalletTypeOK, BankInv, WalletNext \/ UNCHANGED allVars
  PROVE  CoreNext
<1>0. \A s \in Slots : job[s] \in Job
  BY DEF WalletTypeOK
<1>1. ASSUME Next  PROVE CoreNext
  <2>1. ASSUME NEW s \in Slots, Ask(s)  PROVE Requests(s)
    BY <2>1 DEF Ask, Requests, Purposes, BankPurposes, Services
  <2> QED  BY <1>1, <2>1 DEF Next, CoreNext
<1>2. CASE CustomerNext
  BY <1>1, <1>2 DEF CustomerNext, CoreNext
<1>3. ASSUME NEW s \in Slots, AskBank(s)  PROVE CoreNext
  <2>1. \E why \in BankPurposes : kind = "tenant" /\ Asks(s, why)
    BY <1>3 DEF AskBank, BankPurposes
  <2>2. Requests(s)
    BY <2>1 DEF Requests, Services, Purposes, BankPurposes
  <2> QED  BY <2>2 DEF CoreNext
<1>4. ASSUME NEW s \in Slots, CreateSetup(s)  PROVE CoreNext
  BY <1>4 DEF CreateSetup, Holds, Leaves, CoreNext
<1>5. ASSUME NEW s \in Slots, ReadBanks(s) \/ ReadSetups(s)  PROVE CoreNext
  BY <1>5 DEF ReadBanks, ReadSetups, CoreNext
<1>6. ASSUME NEW s \in Slots, List(s)  PROVE CoreNext
  <2>1. req[s].step = "ready"
    BY <1>6 DEF List, BankInv, SlotFits
  <2> QED  BY <1>6, <2>1 DEF List, Leaves, CoreNext
<1>7. ASSUME NEW s \in Slots, FindSetup(s) \/ FindBank(s)  PROVE CoreNext
  <2>1. kind = "tenant" /\ req[s].step = "ready"
    BY <1>7 DEF FindSetup, FindBank, Holds
  <2>2. UNCHANGED <<kind, row, service, events, doubt>> /\ (req' = req \/ End(s))
    BY <1>7 DEF FindSetup, FindBank
  <2> QED  BY <2>1, <2>2 DEF Leaves, CoreNext, vars
<1>8. ASSUME NEW s \in Slots, VerifyAmounts(s) \/ Detach(s)  PROVE CoreNext
  <2>1. req[s].step = "ready"
    BY <1>8 DEF VerifyAmounts, Detach, BankInv, SlotFits
  <2> QED  BY <1>8, <2>1 DEF VerifyAmounts, Detach, Leaves, CoreNext
<1>9. CASE OpenDialog \/ CloseDialog \/ Confirm \/ HearConfirm \/ VerifyElsewhere
  BY <1>9 DEF OpenDialog, CloseDialog, Confirm, HearConfirm, VerifyElsewhere, CoreNext
<1>10. CASE CardNext
  BY <1>10 DEF CardNext, Subscribe, Unsubscribe, Learn, OpenPanel, ClosePanel, Save, ReadRow,
               SetCustomer, SetSubscription, Saved, SaveFails, bankAndUnits, CoreNext
<1>11. CASE UnitsNext
  BY <1>11 DEF UnitsNext, ChangeUnits, Count, FindItem, SetQuantity, SyncFails, Archive,
               bankAndCard, CoreNext
<1>12. CASE UNCHANGED allVars
  BY <1>12 DEF allVars, CoreNext
<1> QED  BY <1>2, <1>3, <1>4, <1>5, <1>6, <1>7, <1>8, <1>9, <1>10, <1>11, <1>12
         DEF WalletNext, TenantNext

(* A topic's own variables move under its own steps only.                  *)
LEMMA TopicsApart ==
  ASSUME TypeOK, WalletTypeOK, JobInv, WalletNext \/ UNCHANGED allVars
  PROVE  /\ kind' = kind \/ Next
         /\ kind # "card"  => UNCHANGED card
         /\ kind # "units" => UNCHANGED units
         /\ kind = "card"  => CardNext \/ UNCHANGED <<job, card>>
         /\ kind = "units" => UnitsNext \/ UNCHANGED <<job, units>>
         /\ slip \subseteq slip'
<1>1. CASE CustomerNext
  BY <1>1 DEF CustomerNext, walletVars, bankVars, Stops, RemoteGoes, Verify, CreateRemote, Persist
<1>2. ASSUME NEW s \in Slots,
             \/ AskBank(s) \/ CreateSetup(s) \/ ReadBanks(s) \/ ReadSetups(s) \/ List(s)
             \/ FindSetup(s) \/ VerifyAmounts(s) \/ FindBank(s) \/ Detach(s)
      PROVE  kind = "tenant" /\ UNCHANGED <<card, units, kind>> /\ slip \subseteq slip'
  BY <1>2 DEF AskBank, CreateSetup, ReadBanks, ReadSetups, List, FindSetup, VerifyAmounts, FindBank,
              Detach, Holds, Asks, Slipped, vars
<1>3. CASE OpenDialog \/ CloseDialog \/ Confirm \/ HearConfirm \/ VerifyElsewhere
  BY <1>3 DEF OpenDialog, CloseDialog, Confirm, HearConfirm, VerifyElsewhere, Slipped, vars
<1>4. CASE CardNext
  <2>1. UNCHANGED <<kind, units>> /\ slip \subseteq slip'
    BY <1>4 DEF CardNext, Subscribe, Unsubscribe, Learn, OpenPanel, ClosePanel, Save, ReadRow,
                SetCustomer, SetSubscription, Saved, SaveFails, bankAndUnits, Slipped, vars
  <2>2. kind = "card"
    BY <1>4 DEF CardNext, Subscribe, Unsubscribe, Learn, OpenPanel, ClosePanel, Save, ReadRow,
                SetCustomer, SetSubscription, Saved, SaveFails, JobInv, CardSteps
  <2> QED  BY <1>4, <2>1, <2>2
<1>5. CASE UnitsNext
  <2>1. UNCHANGED <<kind, card>> /\ slip \subseteq slip'
    BY <1>5 DEF UnitsNext, ChangeUnits, Count, FindItem, SetQuantity, SyncFails, Archive,
                bankAndCard, Slipped, vars
  <2>2. kind = "units"
    BY <1>5 DEF UnitsNext, ChangeUnits, Count, FindItem, SetQuantity, SyncFails, Archive,
                JobInv, UnitSteps
  <2> QED  BY <1>5, <2>1, <2>2
<1>6. CASE UNCHANGED allVars
  BY <1>6 DEF allVars, walletVars, vars
<1> QED  BY <1>1, <1>2, <1>3, <1>4, <1>5, <1>6 DEF WalletNext, TenantNext

-----------------------------------------------------------------------------
(* Types of the topics.                                                    *)

(* A slot takes up another job, or none.                                   *)
LEMMA DoFacts ==
  ASSUME WalletTypeOK, NEW s \in Slots, NEW j \in Job, Do(s, j)
  PROVE  /\ job' \in [Slots -> Job]
         /\ job'[s] = j
         /\ \A t \in Slots \ {s} : job'[t] = job[t]
  BY DEF WalletTypeOK, Do

LEMMA NoJobType == NoJob \in Job /\ NoJob.step = "none"
  BY DEF Job, NoJob

LEMMA SlippedFacts ==
  ASSUME WalletTypeOK, NEW why \in SUBSET Slips, Slipped(why)
  PROVE  slip' \in SUBSET Slips /\ slip' = slip \cup why
  BY DEF WalletTypeOK, Slipped

LEMMA SetupFacts ==
  ASSUME WalletTypeOK
  PROVE  /\ setups \in Seq([customer : Objs, bank : Banks \cup {None}])
         /\ Len(setups) \in Nat /\ DOMAIN setups = 1 .. Len(setups)
         /\ \A n \in DOMAIN setups : setups[n] \in [customer : Objs, bank : Banks \cup {None}]
<1> DEFINE Setup == [customer : Objs, bank : Banks \cup {None}]
<1>1. setups \in Seq(Setup)
  BY DEF WalletTypeOK
<1> HIDE DEF Setup
<1>2. /\ Len(setups) \in Nat /\ DOMAIN setups = 1 .. Len(setups)
      /\ \A n \in DOMAIN setups : setups[n] \in Setup
  BY <1>1, LenProperties, ElementOfSeq
<1> QED  BY <1>1, <1>2 DEF Setup

(* What the steps make of a slot's job.                                    *)
JobStep ==
  \/ job' = job
  \/ \E s \in Slots, j \in Job :
       /\ Do(s, j)
       /\ \/ j.step = "none"
          \/ j.step \in CardSteps /\ kind = "card"
          \/ j.step \in UnitSteps /\ kind = "units"
          \/ j.step \in TenantSteps /\ kind = "tenant"

LEMMA JobBecomes ==
  ASSUME TypeOK, WalletTypeOK, BankInv, JobInv, WalletNext \/ UNCHANGED allVars
  PROVE  JobStep
<1>0. \A s \in Slots : job[s] \in Job
  BY DEF WalletTypeOK
<1>1. ASSUME NEW s \in Slots, Do(s, NoJob)  PROVE JobStep
  BY <1>1, NoJobType DEF JobStep
<1>2. ASSUME NEW s \in Slots, NEW j \in Job, Do(s, j), j.step \in TenantSteps, kind = "tenant"
      PROVE  JobStep
  BY <1>2 DEF JobStep
<1>3. ASSUME NEW s \in Slots, NEW j \in Job, Do(s, j), j.step \in CardSteps, kind = "card"
      PROVE  JobStep
  BY <1>3 DEF JobStep
<1>4. ASSUME NEW s \in Slots, NEW j \in Job, Do(s, j), j.step \in UnitSteps, kind = "units"
      PROVE  JobStep
  BY <1>4 DEF JobStep
<1>5. job' = job => JobStep
  BY DEF JobStep
<1>6. CASE CustomerNext
  <2>1. job' = job \/ \E s \in Slots : Do(s, NoJob)
    BY <1>6 DEF CustomerNext, walletVars, bankVars
  <2> QED  BY <1>1, <1>5, <2>1
<1>7. ASSUME NEW s \in Slots, AskBank(s)  PROVE JobStep
  <2> DEFINE l == [step |-> "list", held |-> None, pending |-> None]
  <2>1. l \in Job /\ l.step = "list"
    <3>1. l \in [step : {"list"}, held : (SUBSET Banks) \cup {None}, pending : (SUBSET Banks) \cup {None}]
      OBVIOUS
    <3> QED  BY <3>1 DEF Job
  <2>2. ASSUME NEW b \in Banks, NEW why \in {"amounts", "remove"}
        PROVE  [step |-> why, bank |-> b] \in Job /\ [step |-> why, bank |-> b].step = why
    BY DEF Job
  <2>3. kind = "tenant" /\ \/ job' = job
                           \/ Do(s, l)
                           \/ \E b \in Banks, why \in {"amounts", "remove"} :
                                Do(s, [step |-> why, bank |-> b])
    BY <1>7 DEF AskBank
  <2> HIDE DEF l
  <2> QED  BY <1>2, <1>5, <2>1, <2>2, <2>3 DEF TenantSteps
<1>8. ASSUME NEW s \in Slots, ReadBanks(s)  PROVE JobStep
  <2>1. job[s].step = "list" /\ kind = "tenant"
    BY <1>8 DEF ReadBanks, Holds, BankInv, SlotFits, Stages
  <2>2. job[s] \in [step : {"list"}, held : (SUBSET Banks) \cup {None}, pending : (SUBSET Banks) \cup {None}]
    BY <1>0, <2>1, JobFacts
  <2> DEFINE found == {b \in Banks : /\ bank[b] # None
                                     /\ bank[b].customer = req[s].id
                                     /\ bank[b].state # "removed"}
             j == [job[s] EXCEPT !.held = found]
  <2>3. found \in SUBSET Banks
    OBVIOUS
  <2>4. Do(s, j)
    BY <1>8 DEF ReadBanks
  <2> HIDE DEF found
  <2>5. j \in Job /\ j.step = "list"
    BY <2>2, <2>3 DEF Job
  <2> HIDE DEF j
  <2> QED  BY <1>2, <2>1, <2>4, <2>5 DEF TenantSteps
<1>9. ASSUME NEW s \in Slots, ReadSetups(s)  PROVE JobStep
  <2>1. job[s].step = "list" /\ kind = "tenant"
    BY <1>9 DEF ReadSetups, Holds, BankInv, SlotFits, Stages
  <2>2. job[s] \in [step : {"list"}, held : (SUBSET Banks) \cup {None}, pending : (SUBSET Banks) \cup {None}]
    BY <1>0, <2>1, JobFacts
  <2> DEFINE found == {setups[n].bank : n \in {k \in Recent(req[s].id) : Waiting(k)}}
             j == [job[s] EXCEPT !.pending = found]
  <2>3. found \in SUBSET Banks
    <3>1. \A n \in DOMAIN setups : setups[n] \in [customer : Objs, bank : Banks \cup {None}]
      BY SetupFacts
    <3>2. \A k \in Recent(req[s].id) : Waiting(k) => setups[k].bank \in Banks
      BY <3>1 DEF Recent, SetupsOf, Waiting
    <3> QED  BY <3>2
  <2>4. Do(s, j)
    BY <1>9 DEF ReadSetups
  <2> HIDE DEF found
  <2>5. j \in Job /\ j.step = "list"
    BY <2>2, <2>3 DEF Job
  <2> HIDE DEF j
  <2> QED  BY <1>2, <2>1, <2>4, <2>5 DEF TenantSteps
<1>10. ASSUME NEW s \in Slots, FindSetup(s) \/ FindBank(s)  PROVE JobStep
  <2>1. job[s].step \in {"amounts", "remove"} /\ kind = "tenant"
    BY <1>10 DEF FindSetup, FindBank, Holds
  <2>2. job[s] \in [step : {"amounts", "remove", "verify", "detach"}, bank : Banks]
    BY <1>0, <2>1, JobFacts
  <2>3. \/ Do(s, NoJob)
        \/ Do(s, [job[s] EXCEPT !.step = "verify"])
        \/ Do(s, [job[s] EXCEPT !.step = "detach"])
    BY <1>10 DEF FindSetup, FindBank
  <2>4. ASSUME NEW step \in {"verify", "detach"}
        PROVE  [job[s] EXCEPT !.step = step] \in Job /\ [job[s] EXCEPT !.step = step].step = step
    BY <2>2 DEF Job
  <2> QED  BY <1>1, <1>2, <2>1, <2>3, <2>4 DEF TenantSteps
<1>11. ASSUME NEW s \in Slots, List(s) \/ VerifyAmounts(s) \/ Detach(s)  PROVE JobStep
  BY <1>1, <1>11 DEF List, VerifyAmounts, Detach
<1>12. ASSUME NEW s \in Slots, CreateSetup(s)  PROVE JobStep
  BY <1>5, <1>12 DEF CreateSetup
<1>13. CASE OpenDialog \/ CloseDialog \/ Confirm \/ HearConfirm \/ VerifyElsewhere
  BY <1>5, <1>13 DEF OpenDialog, CloseDialog, Confirm, HearConfirm, VerifyElsewhere
<1>14. CASE Subscribe \/ Unsubscribe \/ Learn \/ OpenPanel \/ ClosePanel
  BY <1>5, <1>14 DEF Subscribe, Unsubscribe, Learn, OpenPanel, ClosePanel
<1>15. ASSUME NEW s \in Slots, Save(s)  PROVE JobStep
  <2>1. PICK c \in Cards : Do(s, [step |-> "row", card |-> c, subscribed |-> FALSE])
    BY <1>15 DEF Save
  <2> DEFINE j == [step |-> "row", card |-> c, subscribed |-> FALSE]
  <2>2. j \in Job /\ j.step = "row" /\ Do(s, j)
    BY <2>1 DEF Job
  <2>3. kind = "card"
    BY <1>15 DEF Save, JobInv
  <2> HIDE DEF j
  <2> QED  BY <1>3, <2>2, <2>3 DEF CardSteps
<1>16. ASSUME NEW s \in Slots, ReadRow(s)  PROVE JobStep
  <2>1. job[s].step = "row" /\ kind = "card"
    BY <1>16 DEF ReadRow, JobInv, CardSteps
  <2>2. job[s] \in [step : {"row", "customer", "answer"}, card : Cards, subscribed : BOOLEAN]
    BY <1>0, <2>1, JobFacts
  <2> DEFINE j == [job[s] EXCEPT !.step = "customer", !.subscribed = card.known]
  <2>3. j \in Job /\ j.step = "customer" /\ Do(s, j)
    BY <1>16, <2>2 DEF Job, ReadRow, WalletTypeOK
  <2> HIDE DEF j
  <2> QED  BY <1>3, <2>1, <2>3 DEF CardSteps
<1>17. ASSUME NEW s \in Slots, SetCustomer(s)  PROVE JobStep
  <2>1. job[s].step = "customer" /\ kind = "card"
    BY <1>17 DEF SetCustomer, JobInv, CardSteps
  <2>2. job[s] \in [step : {"row", "customer", "answer"}, card : Cards, subscribed : BOOLEAN]
    BY <1>0, <2>1, JobFacts
  <2> DEFINE j == [job[s] EXCEPT !.step = IF job[s].subscribed THEN "subscription" ELSE "answer"]
  <2>3. Do(s, j)
    BY <1>17 DEF SetCustomer
  <2>4. j \in Job /\ j.step \in {"subscription", "answer"}
    <3>1. CASE job[s].subscribed
      BY <2>2, <3>1 DEF Job
    <3>2. CASE ~job[s].subscribed
      BY <2>2, <3>2 DEF Job
    <3> QED  BY <3>1, <3>2
  <2> HIDE DEF j
  <2> QED  BY <1>3, <2>1, <2>3, <2>4 DEF CardSteps
<1>18. ASSUME NEW s \in Slots, SetSubscription(s)  PROVE JobStep
  <2>1. job[s].step = "subscription" /\ kind = "card"
    BY <1>18 DEF SetSubscription, JobInv, CardSteps
  <2>2. job[s] \in [step : {"subscription"}, card : Cards, subscribed : {TRUE}]
    BY <1>0, <2>1, JobFacts
  <2> DEFINE j == [job[s] EXCEPT !.step = "answer"]
  <2>3. j \in Job /\ j.step = "answer" /\ Do(s, j)
    BY <1>18, <2>2 DEF Job, SetSubscription
  <2> HIDE DEF j
  <2> QED  BY <1>3, <2>1, <2>3 DEF CardSteps
<1>19. ASSUME NEW s \in Slots, Saved(s) \/ SaveFails(s) \/ SetQuantity(s) \/ SyncFails(s)  PROVE JobStep
  BY <1>1, <1>19 DEF Saved, SaveFails, SetQuantity, SyncFails
<1>20. ASSUME NEW s \in Slots, ChangeUnits(s)  PROVE JobStep
  <2> DEFINE j == [step |-> "count"]
  <2>1. j \in Job /\ j.step = "count"
    BY DEF Job
  <2>2. kind = "units" /\ (job' = job \/ Do(s, j))
    BY <1>20 DEF ChangeUnits
  <2> HIDE DEF j
  <2> QED  BY <1>4, <1>5, <2>1, <2>2 DEF UnitSteps
<1>21. ASSUME NEW s \in Slots, Count(s)  PROVE JobStep
  <2> DEFINE j == [step |-> "find", quantity |-> units.has]
  <2>1. j \in Job /\ j.step = "find"
    BY DEF Job, WalletTypeOK
  <2>2. kind = "units" /\ Do(s, j)
    BY <1>21 DEF Count, JobInv, UnitSteps
  <2> HIDE DEF j
  <2> QED  BY <1>4, <2>1, <2>2 DEF UnitSteps
<1>22. ASSUME NEW s \in Slots, FindItem(s)  PROVE JobStep
  <2> DEFINE j == [step |-> "write", quantity |-> job[s].quantity, item |-> units.item]
  <2>1. job[s] \in [step : {"find"}, quantity : 0 .. MaxUnits]
    BY <1>0, <1>22, JobFacts DEF FindItem
  <2>2. j \in Job /\ j.step = "write"
    BY <2>1 DEF Job, WalletTypeOK
  <2>3. kind = "units" /\ Do(s, j)
    BY <1>22 DEF FindItem, JobInv, UnitSteps
  <2> HIDE DEF j
  <2> QED  BY <1>4, <2>2, <2>3 DEF UnitSteps
<1>23. CASE Archive
  BY <1>5, <1>23 DEF Archive
<1>24. CASE UNCHANGED allVars
  BY <1>5, <1>24 DEF allVars, walletVars
<1>25. JobStep
  <2>1. TenantNext => JobStep
    BY <1>7, <1>8, <1>9, <1>10, <1>11, <1>12, <1>13 DEF TenantNext
  <2>2. CardNext => JobStep
    BY <1>14, <1>15, <1>16, <1>17, <1>18, <1>19 DEF CardNext
  <2>3. UnitsNext => JobStep
    BY <1>19, <1>20, <1>21, <1>22, <1>23 DEF UnitsNext
  <2> QED  BY <1>6, <1>24, <2>1, <2>2, <2>3 DEF WalletNext
<1> QED  BY <1>25

LEMMA JobsFit ==
  ASSUME TypeOK, WalletTypeOK, EventsInv, IdsInv, BankInv, JobInv, WalletNext \/ UNCHANGED allVars
  PROVE  JobInv'
<1>0. kind' = kind
  BY WalletIsCore, Onwards
<1>1. \A s \in Slots :
        /\ job'[s].step \in CardSteps => kind = "card"
        /\ job'[s].step \in UnitSteps => kind = "units"
        /\ job'[s].step \in TenantSteps => kind = "tenant"
  <2>1. CASE job' = job
    BY <2>1 DEF JobInv
  <2>2. ASSUME NEW s \in Slots, NEW j \in Job, Do(s, j),
               \/ j.step = "none"
               \/ j.step \in CardSteps /\ kind = "card"
               \/ j.step \in UnitSteps /\ kind = "units"
               \/ j.step \in TenantSteps /\ kind = "tenant"
        PROVE  \A t \in Slots :
                 /\ job'[t].step \in CardSteps => kind = "card"
                 /\ job'[t].step \in UnitSteps => kind = "units"
                 /\ job'[t].step \in TenantSteps => kind = "tenant"
    <3>1. job'[s] = j /\ \A t \in Slots \ {s} : job'[t] = job[t]
      BY <2>2, DoFacts
    <3>2. \A t \in Slots \ {s} :
                 /\ job'[t].step \in CardSteps => kind = "card"
                 /\ job'[t].step \in UnitSteps => kind = "units"
                 /\ job'[t].step \in TenantSteps => kind = "tenant"
      BY <3>1 DEF JobInv
    <3>3. /\ j.step \in CardSteps => kind = "card"
          /\ j.step \in UnitSteps => kind = "units"
          /\ j.step \in TenantSteps => kind = "tenant"
      BY <2>2 DEF CardSteps, UnitSteps, TenantSteps
    <3> QED  BY <3>1, <3>2, <3>3
  <2> QED  BY <2>1, <2>2, JobBecomes DEF JobStep
<1>2. card'.panel # "shut" => kind = "card"
  <2>1. kind # "card" => card' = card
    BY TopicsApart
  <2> QED  BY <2>1 DEF JobInv
<1> QED  BY <1>0, <1>1, <1>2 DEF JobInv

LEMMA WalletTypes ==
  ASSUME TypeOK, WalletTypeOK, BankInv, JobInv, WalletNext \/ UNCHANGED allVars
  PROVE  WalletTypeOK'
<1> DEFINE PageT == /\ listed \in [Banks -> {"absent", "pending", "verified"}]
                      /\ dialog \in [open : BOOLEAN, step : {"idle", "loading", "form", "saving",
                                                             "done", "deposits"}]
                      /\ heard \in SUBSET {"pending", "verified"}
                      /\ slip \in SUBSET Slips
           BankT  == bank \in [Banks -> Account \cup {None}]
           SetupT == setups \in Seq([customer : Objs, bank : Banks \cup {None}]) /\ Len(setups) <= MaxSetups
           CardT  == card \in [customer : Cards \cup {None}, own : Cards \cup {None}, runs : BOOLEAN,
                               known : BOOLEAN, panel : {"shut", "form", "saving"},
                               said : Cards \cup {None}]
           UnitT  == units \in [has : 0 .. MaxUnits, billed : 0 .. MaxUnits, item : BOOLEAN]
<1>0. /\ \A s \in Slots : job[s] \in Job /\ req[s] \in Request
      /\ PageT /\ BankT /\ SetupT /\ CardT /\ UnitT
  BY DEF WalletTypeOK, TypeOK
<1>1. job' \in [Slots -> Job]
  <2>1. CASE job' = job
    BY <2>1 DEF WalletTypeOK
  <2>2. CASE \E s \in Slots, j \in Job : Do(s, j)
    BY <2>2, DoFacts
  <2> QED  BY <2>1, <2>2, JobBecomes DEF JobStep
<1>2. /\ listed' = listed /\ dialog' = dialog /\ heard' = heard /\ slip' = slip => PageT'
      /\ bank' = bank => BankT'
      /\ setups' = setups => SetupT'
      /\ card' = card => CardT'
      /\ units' = units => UnitT'
  <2>1. ASSUME listed' = listed, dialog' = dialog, heard' = heard, slip' = slip  PROVE PageT'
    BY <1>0, <2>1
  <2>2. ASSUME bank' = bank  PROVE BankT'
    BY <1>0, <2>2
  <2>3. ASSUME setups' = setups  PROVE SetupT'
    BY <1>0, <2>3
  <2>4. ASSUME card' = card  PROVE CardT'
    BY <1>0, <2>4
  <2>5. ASSUME units' = units  PROVE UnitT'
    BY <1>0, <2>5
  <2> HIDE DEF PageT, BankT, SetupT, CardT, UnitT
  <2> QED  BY <2>1, <2>2, <2>3, <2>4, <2>5
<1>3. PageT' /\ BankT' /\ SetupT' /\ CardT' /\ UnitT' => WalletTypeOK'
  BY <1>1 DEF WalletTypeOK
<1>4. ASSUME NEW b \in Banks, bank[b] # None
      PROVE  bank[b] \in Account /\ \A state \in {"pending", "verified", "removed"} :
                                       [bank[b] EXCEPT !.state = state] \in Account
  BY <1>0, <1>4 DEF Account
<1> HIDE DEF BankT, SetupT, CardT, UnitT
<1>5. CASE CustomerNext
  <2>1. UNCHANGED <<bank, setups, listed, heard, card, units, slip>>
    BY <1>5 DEF CustomerNext, walletVars, bankVars
  <2>2. dialog' = dialog \/ dialog' = [dialog EXCEPT !.step = "idle"]
    BY <1>5 DEF CustomerNext, walletVars, bankVars, SetupFails
  <2>3. PageT'
    BY <1>0, <2>1, <2>2
  <2> QED  BY <1>2, <1>3, <2>1, <2>3
<1>6. ASSUME NEW s \in Slots, AskBank(s)  PROVE WalletTypeOK'
  <2>1. /\ UNCHANGED <<bank, setups, listed, heard, card, units, slip>>
        /\ dialog' = dialog \/ dialog' = [dialog EXCEPT !.step = "loading"]
    BY <1>6 DEF AskBank
  <2>2. PageT'
    BY <1>0, <2>1
  <2> QED  BY <1>2, <1>3, <2>1, <2>2
<1>7. ASSUME NEW s \in Slots, CreateSetup(s)  PROVE WalletTypeOK'
  <2>1. req[s].id \in Objs
    BY <1>0, <1>7, RequestFacts DEF CreateSetup, Holds
  <2>2. SetupT'
    <3> DEFINE Setup == [customer : Objs, bank : Banks \cup {None}]
               new   == [customer |-> req[s].id, bank |-> None]
    <3>1. new \in Setup
      BY <2>1
    <3>2. setups \in Seq(Setup) /\ Len(setups) \in Nat /\ Len(setups) < MaxSetups
          /\ setups' = Append(setups, new)
      BY <1>7, SetupFacts DEF CreateSetup
    <3> HIDE DEF new, Setup
    <3>3. setups' \in Seq(Setup) /\ Len(setups') = Len(setups) + 1
      BY <3>1, <3>2, AppendProperties
    <3> QED  BY <3>2, <3>3, WalletAssumption DEF SetupT, Setup
  <2>3. slip' \in SUBSET Slips
    BY <1>7, SlippedFacts DEF CreateSetup, Slips
  <2>4. /\ UNCHANGED <<bank, listed, heard, card, units>>
        /\ dialog' = [dialog EXCEPT !.step = "form"]
    BY <1>7 DEF CreateSetup
  <2>5. PageT'
    BY <1>0, <2>3, <2>4
  <2> QED  BY <1>2, <1>3, <2>2, <2>4, <2>5
<1>8. ASSUME NEW s \in Slots,
             ReadBanks(s) \/ ReadSetups(s) \/ FindSetup(s) \/ FindBank(s)
      PROVE  WalletTypeOK'
  <2>1. UNCHANGED <<bank, setups, listed, dialog, heard, card, units, slip>>
    BY <1>8 DEF ReadBanks, ReadSetups, FindSetup, FindBank, bankVars
  <2> QED  BY <1>2, <1>3, <2>1
<1>9. ASSUME NEW s \in Slots, List(s)  PROVE WalletTypeOK'
  <2>1. UNCHANGED <<bank, setups, dialog, heard, card, units, slip>>
    BY <1>9 DEF List
  <2>2. listed' \in [Banks -> {"absent", "pending", "verified"}]
    BY <1>9 DEF List
  <2>3. PageT'
    BY <1>0, <2>1, <2>2
  <2> QED  BY <1>2, <1>3, <2>1, <2>3
<1>10. ASSUME NEW s \in Slots, VerifyAmounts(s) \/ Detach(s)  PROVE WalletTypeOK'
  <2>1. UNCHANGED <<setups, listed, dialog, heard, card, units, slip>>
    BY <1>10 DEF VerifyAmounts, Detach
  <2>2. job[s].step \in {"verify", "detach"} /\ job[s].bank \in Banks /\ bank[job[s].bank] # None
    BY <1>0, <1>10, JobFacts DEF VerifyAmounts, Detach, BankInv, SlotFits
  <2>3. \/ bank' = [bank EXCEPT ![job[s].bank].state = IF @ = "pending" THEN "verified" ELSE @]
        \/ bank' = bank
        \/ bank' = [bank EXCEPT ![job[s].bank].state = "removed"]
    BY <1>10 DEF VerifyAmounts, Detach
  <2>4. bank[job[s].bank].state \in {"pending", "verified", "removed"}
    BY <1>4, <2>2 DEF Account
  <2>5. \/ bank' = bank
        \/ \E state \in {"pending", "verified", "removed"} :
             bank' = [bank EXCEPT ![job[s].bank] = [bank[job[s].bank] EXCEPT !.state = state]]
    BY <2>2, <2>3, <2>4
  <2>6. BankT'
    BY <1>0, <1>4, <2>2, <2>5 DEF BankT
  <2> QED  BY <1>2, <1>3, <2>1, <2>6
<1>11. CASE OpenDialog \/ CloseDialog
  <2>1. /\ UNCHANGED <<bank, setups, listed, heard, card, units, slip>>
        /\ \/ dialog' = [dialog EXCEPT !.open = TRUE]
           \/ dialog' = [dialog EXCEPT !.open = FALSE, !.step = "idle"]
    BY <1>11 DEF OpenDialog, CloseDialog
  <2>2. PageT'
    BY <1>0, <2>1
  <2> QED  BY <1>2, <1>3, <2>1, <2>2
<1>12. CASE Confirm
  <2>1. PICK b \in Banks, state \in {"pending", "verified"} :
          /\ bank[b] = None
          /\ bank'   = [bank EXCEPT ![b] = [customer |-> Newest.customer, state |-> state]]
          /\ setups' = [setups EXCEPT ![Len(setups)].bank = b]
          /\ heard'  = heard \cup {state}
    BY <1>12 DEF Confirm
  <2>2. setups # <<>>
    BY <1>12 DEF Confirm, BankInv, PageFits
  <2>3. Len(setups) \in DOMAIN setups /\ Newest \in [customer : Objs, bank : Banks \cup {None}]
    <3>1. Len(setups) # 0
      BY <2>2, SetupFacts, EmptySeq
    <3> QED  BY <3>1, SetupFacts DEF Newest
  <2>4. BankT'
    <3>1. [customer |-> Newest.customer, state |-> state] \in Account
      BY <2>3 DEF Account
    <3> QED  BY <1>0, <2>1, <3>1 DEF BankT
  <2>5. SetupT'
    <3> DEFINE Setup == [customer : Objs, bank : Banks \cup {None}]
               new   == [setups[Len(setups)] EXCEPT !.bank = b]
    <3>1. new \in Setup
      BY <2>3 DEF Newest
    <3>2. setups \in Seq(Setup) /\ setups' = [setups EXCEPT ![Len(setups)] = new]
      BY <2>1, SetupFacts
    <3> HIDE DEF new, Setup
    <3>3. setups' \in Seq(Setup) /\ Len(setups') = Len(setups)
      BY <2>3, <3>1, <3>2, SetupFacts, ExceptSeq
    <3> QED  BY <1>0, <3>3 DEF SetupT, Setup
  <2>6. PageT'
    <3>1. slip' \in SUBSET Slips
      BY <1>12, SlippedFacts DEF Confirm, Slips
    <3>2. listed' = listed /\ dialog' = [dialog EXCEPT !.step = "saving"]
      BY <1>12 DEF Confirm
    <3> QED  BY <1>0, <2>1, <3>1, <3>2
  <2>7. UNCHANGED <<card, units>>
    BY <1>12 DEF Confirm
  <2> QED  BY <1>2, <1>3, <2>4, <2>5, <2>6, <2>7
<1>13. CASE HearConfirm
  <2>1. /\ UNCHANGED <<bank, setups, listed, card, units, slip>>
        /\ heard' \subseteq heard
        /\ dialog' = [dialog EXCEPT !.step = "deposits"] \/ dialog' = [dialog EXCEPT !.step = "done"]
    BY <1>13 DEF HearConfirm
  <2>2. PageT'
    BY <1>0, <2>1
  <2> QED  BY <1>2, <1>3, <2>1, <2>2
<1>14. CASE VerifyElsewhere
  <2>1. PICK b \in Banks :
          /\ bank[b] # None
          /\ bank' = [bank EXCEPT ![b].state = "verified"]
          /\ UNCHANGED <<setups, listed, dialog, heard, card, units, slip>>
    BY <1>14 DEF VerifyElsewhere
  <2>2. BankT'
    <3>1. [bank[b] EXCEPT !.state = "verified"] \in Account
      BY <1>4, <2>1
    <3>2. bank' = [bank EXCEPT ![b] = [bank[b] EXCEPT !.state = "verified"]]
      BY <2>1
    <3> QED  BY <1>0, <3>1, <3>2 DEF BankT
  <2> QED  BY <1>2, <1>3, <2>1, <2>2
<1>15. CASE CardNext
  <2>1. /\ UNCHANGED <<bank, setups, listed, dialog, heard, units>>
    BY <1>15 DEF CardNext, Subscribe, Unsubscribe, Learn, OpenPanel, ClosePanel, Save, ReadRow,
                SetCustomer, SetSubscription, Saved, SaveFails, bankAndUnits, bankVars
  <2>2. slip' \in SUBSET Slips
    <3>1. slip' = slip \/ \E why \in SUBSET Slips : Slipped(why)
      BY <1>15 DEF CardNext, Subscribe, Unsubscribe, Learn, OpenPanel, ClosePanel, Save, ReadRow,
                  SetCustomer, SetSubscription, Saved, SaveFails, Changed, Slips
    <3> QED  BY <1>0, <3>1, SlippedFacts
  <2>3. CardT'
    <3>1. CASE Subscribe \/ Unsubscribe \/ Learn \/ OpenPanel \/ ClosePanel
      <4>1. CASE Subscribe
        <5>1. PICK c \in Cards : card' = [card EXCEPT !.runs = TRUE, !.own = c, !.said = None]
          BY <4>1 DEF Subscribe
        <5> QED  BY <1>0, <5>1 DEF CardT
      <4>2. CASE Unsubscribe
        <5>1. card' = [card EXCEPT !.runs = FALSE, !.own = None, !.said = None]
          BY <4>2 DEF Unsubscribe
        <5> QED  BY <1>0, <5>1 DEF CardT
      <4>3. CASE Learn
        <5>1. card' = [card EXCEPT !.known = card.runs]
          BY <4>3 DEF Learn
        <5> QED  BY <1>0, <5>1 DEF CardT
      <4>4. CASE OpenPanel
        <5>1. card' = [card EXCEPT !.panel = "form"]
          BY <4>4 DEF OpenPanel
        <5> QED  BY <1>0, <5>1 DEF CardT
      <4>5. CASE ClosePanel
        <5>1. card' = [card EXCEPT !.panel = "shut"]
          BY <4>5 DEF ClosePanel
        <5> QED  BY <1>0, <5>1 DEF CardT
      <4> QED  BY <3>1, <4>1, <4>2, <4>3, <4>4, <4>5
    <3>2. ASSUME NEW s \in Slots, Save(s) \/ ReadRow(s) \/ SaveFails(s)  PROVE CardT'
      <4>1. CASE Save(s)
        <5>1. card' = [card EXCEPT !.panel = "saving"]
          BY <4>1 DEF Save
        <5> QED  BY <1>0, <5>1 DEF CardT
      <4>2. CASE ReadRow(s)
        BY <1>0, <4>2 DEF ReadRow, CardT
      <4>3. CASE SaveFails(s)
        <5>1. PICK panel \in {"shut", "form", "saving"} : card' = [card EXCEPT !.panel = panel, !.said = None]
          <6>1. card.panel \in {"shut", "form", "saving"}
            BY <1>0 DEF CardT
          <6> QED  BY <4>3, <6>1 DEF SaveFails
        <5> QED  BY <1>0, <5>1 DEF CardT
      <4> QED  BY <3>2, <4>1, <4>2, <4>3
    <3>3. ASSUME NEW s \in Slots, SetCustomer(s) \/ SetSubscription(s) \/ Saved(s)  PROVE CardT'
      <4>1. job[s].card \in Cards
        BY <1>0, <3>3, JobFacts DEF SetCustomer, SetSubscription, Saved
      <4> QED  BY <1>0, <3>3, <4>1 DEF CardT, SetCustomer, SetSubscription, Saved
    <3> QED  BY <1>15, <3>1, <3>2, <3>3 DEF CardNext
  <2>4. PageT'
    BY <1>0, <2>1, <2>2
  <2> QED  BY <1>2, <1>3, <2>1, <2>3, <2>4
<1>16. CASE UnitsNext
  <2>1. /\ UNCHANGED <<bank, setups, listed, dialog, heard, card>>
    BY <1>16 DEF UnitsNext, ChangeUnits, Count, FindItem, SetQuantity, SyncFails, Archive,
                bankAndCard, bankVars
  <2>2. slip' \in SUBSET Slips
    <3>1. slip' = slip \/ \E why \in SUBSET Slips : Slipped(why)
      BY <1>16 DEF UnitsNext, ChangeUnits, Count, FindItem, SetQuantity, SyncFails, Archive, Slips
    <3> QED  BY <1>0, <3>1, SlippedFacts
  <2>3. UnitT'
    <3>1. ASSUME NEW s \in Slots, ChangeUnits(s) \/ Count(s) \/ FindItem(s) \/ SyncFails(s)  PROVE UnitT'
      BY <1>0, <3>1 DEF UnitT, ChangeUnits, Count, FindItem, SyncFails
    <3>2. ASSUME NEW s \in Slots, SetQuantity(s)  PROVE UnitT'
      <4>1. job[s].quantity \in 0 .. MaxUnits
        BY <1>0, <3>2, JobFacts DEF SetQuantity
      <4> QED  BY <1>0, <3>2, <4>1 DEF UnitT, SetQuantity
    <3>3. CASE Archive
      BY <1>0, <3>3 DEF UnitT, Archive
    <3> QED  BY <1>16, <3>1, <3>2, <3>3 DEF UnitsNext
  <2>4. PageT'
    BY <1>0, <2>1, <2>2
  <2> QED  BY <1>2, <1>3, <2>1, <2>3, <2>4
<1>17. CASE UNCHANGED allVars
  BY <1>2, <1>3, <1>17 DEF allVars, walletVars, bankVars
<1>18. TenantNext => WalletTypeOK'
  BY <1>6, <1>7, <1>8, <1>9, <1>10, <1>11, <1>12, <1>13, <1>14 DEF TenantNext
<1> QED  BY <1>5, <1>15, <1>16, <1>17, <1>18 DEF WalletNext

-----------------------------------------------------------------------------
(* The card and the units.                                                 *)

(* A job that is taken up beside no other, and one that goes on.           *)
LEMMA JobAt ==
  ASSUME WalletTypeOK, NEW s \in Slots, NEW j, Do(s, j)
  PROVE  job'[s] = j /\ \A t \in Slots \ {s} : job'[t] = job[t]
  BY DEF WalletTypeOK, Do

LEMMA CardKept ==
  ASSUME TypeOK, WalletTypeOK, EventsInv, IdsInv, BankInv, JobInv, CardInv,
         WalletNext \/ UNCHANGED allVars
  PROVE  CardInv'
<1>0. /\ JobInv' /\ WalletTypeOK' /\ slip \subseteq slip' /\ kind' = kind
      /\ \A s \in Slots : job[s] \in Job /\ job'[s] \in Job
      /\ card.runs \in BOOLEAN /\ NoJob.step = "none"
  BY JobsFit, WalletTypes, TopicsApart, WalletIsCore, Onwards DEF WalletTypeOK, NoJob
<1>1. SUFFICES ASSUME slip' = {}  PROVE CardInv'
  BY DEF CardInv
<1>2. /\ \A s, r \in Slots : job[s].step \in CardSteps /\ job[r] # NoJob => s = r
      /\ \A s \in Slots : job[s].step \in CardSteps \ {"row"} => (job[s].subscribed <=> card.runs)
      /\ \A s \in Slots : job[s].step = "answer" /\ card.runs => card.own = job[s].card
      /\ card.said # None /\ card.runs /\ (\A s \in Slots : job[s].step \notin CardSteps)
         => card.own = card.said
  BY <1>0, <1>1 DEF CardInv
<1>3. CASE kind # "card"
  <2>1. \A s \in Slots : job[s].step \notin CardSteps /\ job'[s].step \notin CardSteps
    BY <1>0, <1>3 DEF JobInv
  <2>2. card' = card
    BY <1>3, TopicsApart
  <2> QED  BY <1>2, <2>1, <2>2 DEF CardInv, CardSteps
<1>4. CASE UNCHANGED <<job, card>>
  BY <1>2, <1>4 DEF CardInv
<1>5. CASE Subscribe \/ Unsubscribe
  <2>1. /\ job' = job /\ card'.said = None
        /\ Slipped(Changed)
    BY <1>5 DEF Subscribe, Unsubscribe, WalletTypeOK
  <2>2. \A s \in Slots : job[s] = NoJob
    BY <1>1, <2>1 DEF Slipped, Changed
  <2> QED  BY <1>0, <2>1, <2>2 DEF CardInv, CardSteps
<1>6. CASE Learn \/ OpenPanel \/ ClosePanel
  <2>1. job' = job /\ card'.said = card.said /\ card'.runs = card.runs /\ card'.own = card.own
    BY <1>6 DEF Learn, OpenPanel, ClosePanel, WalletTypeOK
  <2> QED  BY <1>2, <2>1 DEF CardInv
<1>7. ASSUME NEW s \in Slots, Save(s)  PROVE CardInv'
  <2>1. PICK c \in Cards : Do(s, [step |-> "row", card |-> c, subscribed |-> FALSE])
    BY <1>7 DEF Save
  <2>2. job'[s].step = "row" /\ \A t \in Slots \ {s} : job'[t] = job[t]
    BY <2>1, JobAt
  <2>3. \A t \in Slots \ {s} : job[t] = NoJob
    BY <1>1, <1>7 DEF Save, Slipped, Others
  <2> QED  BY <1>0, <2>2, <2>3 DEF CardInv, CardSteps
<1>8. ASSUME NEW s \in Slots,
             \/ ReadRow(s) \/ SetCustomer(s) \/ SetSubscription(s) \/ Saved(s) \/ SaveFails(s)
      PROVE  CardInv'
  <2>1. job[s].step \in CardSteps /\ \A t \in Slots \ {s} : job[t] = NoJob
    <3>1. job[s].step \in CardSteps
      BY <1>8 DEF ReadRow, SetCustomer, SetSubscription, Saved, SaveFails, CardSteps
    <3> QED  BY <1>2, <3>1
  <2>2. CASE ReadRow(s)
    <3>1. Do(s, [job[s] EXCEPT !.step = "customer", !.subscribed = card.known])
          /\ job[s].step = "row" /\ card' = card
      BY <2>2 DEF ReadRow
    <3>2. card.known = card.runs
      BY <1>1, <2>2 DEF ReadRow, Slipped
    <3>3. job[s] \in [step : {"row", "customer", "answer"}, card : Cards, subscribed : BOOLEAN]
      BY <1>0, <3>1, JobFacts
    <3> DEFINE j == [job[s] EXCEPT !.step = "customer", !.subscribed = card.known]
    <3>4. j.step = "customer" /\ j.subscribed = card.runs /\ Do(s, j)
      BY <3>1, <3>2, <3>3
    <3> HIDE DEF j
    <3>5. job'[s] = j /\ \A t \in Slots \ {s} : job'[t] = NoJob
      BY <2>1, <3>4, JobAt
    <3> QED  BY <1>0, <3>1, <3>4, <3>5 DEF CardInv, CardSteps
  <2>3. CASE SetCustomer(s)
    <3>1. Do(s, [job[s] EXCEPT !.step = IF job[s].subscribed THEN "subscription" ELSE "answer"])
          /\ job[s].step = "customer" /\ card'.runs = card.runs
      BY <2>3 DEF SetCustomer, WalletTypeOK
    <3>2. job[s] \in [step : {"row", "customer", "answer"}, card : Cards, subscribed : BOOLEAN]
      BY <1>0, <3>1, JobFacts
    <3>3. job[s].subscribed <=> card.runs
      BY <1>2, <3>1 DEF CardSteps
    <3>4. /\ job'[s].step = IF job[s].subscribed THEN "subscription" ELSE "answer"
          /\ job'[s].subscribed = job[s].subscribed
          /\ \A t \in Slots \ {s} : job'[t] = NoJob
      BY <2>1, <3>1, <3>2, JobAt
    <3> QED  BY <1>0, <3>1, <3>3, <3>4 DEF CardInv, CardSteps
  <2>4. CASE SetSubscription(s)
    <3> DEFINE j == [job[s] EXCEPT !.step = "answer"]
    <3>1. Do(s, j) /\ job[s].step = "subscription" /\ card'.runs = card.runs /\ card'.own = job[s].card
      BY <2>4 DEF SetSubscription, WalletTypeOK
    <3>2. job[s] \in [step : {"subscription"}, card : Cards, subscribed : {TRUE}]
      BY <1>0, <3>1, JobFacts
    <3>3. job[s].subscribed <=> card.runs
      BY <1>2, <3>1 DEF CardSteps
    <3>4. j.step = "answer" /\ j.card = job[s].card /\ j.subscribed = job[s].subscribed
      BY <3>2
    <3> HIDE DEF j
    <3>5. job'[s] = j /\ \A t \in Slots \ {s} : job'[t] = NoJob
      BY <2>1, <3>1, JobAt
    <3> QED  BY <1>0, <3>1, <3>3, <3>4, <3>5 DEF CardInv, CardSteps
  <2>5. CASE Saved(s)
    <3>1. /\ Do(s, NoJob) /\ job[s].step = "answer"
          /\ card'.runs = card.runs /\ card'.own = card.own /\ card'.said = job[s].card
      BY <2>5 DEF Saved, WalletTypeOK
    <3>2. job'[s] = NoJob /\ \A t \in Slots \ {s} : job'[t] = NoJob
      BY <2>1, <3>1, JobAt
    <3> QED  BY <1>0, <1>2, <3>1, <3>2 DEF CardInv, CardSteps
  <2>6. CASE SaveFails(s)
    <3>1. /\ Do(s, NoJob) /\ card'.said = None
      BY <2>6 DEF SaveFails, WalletTypeOK
    <3>2. job'[s] = NoJob /\ \A t \in Slots \ {s} : job'[t] = NoJob
      BY <2>1, <3>1, JobAt
    <3> QED  BY <1>0, <3>1, <3>2 DEF CardInv, CardSteps
  <2> QED  BY <1>8, <2>2, <2>3, <2>4, <2>5, <2>6
<1>9. CASE CardNext
  BY <1>5, <1>6, <1>7, <1>8, <1>9 DEF CardNext
<1> QED  BY <1>3, <1>4, <1>9, TopicsApart

LEMMA UnitKept ==
  ASSUME TypeOK, WalletTypeOK, EventsInv, IdsInv, BankInv, JobInv, UnitInv,
         WalletNext \/ UNCHANGED allVars
  PROVE  UnitInv'
<1>0. /\ JobInv' /\ WalletTypeOK' /\ slip \subseteq slip' /\ kind' = kind
      /\ \A s \in Slots : job[s] \in Job /\ job'[s] \in Job
      /\ NoJob.step = "none" /\ units.item \in BOOLEAN /\ units'.item \in BOOLEAN
      /\ units.has \in Nat
  BY JobsFit, WalletTypes, TopicsApart, WalletIsCore, Onwards DEF WalletTypeOK, NoJob
<1>1. SUFFICES ASSUME slip' = {}  PROVE UnitInv'
  BY DEF UnitInv
<1>2. /\ ~units.item => units.billed = 0
      /\ \A s, r \in Slots : job[s].step \in UnitSteps /\ job[r] # NoJob => s = r
      /\ \A s \in Slots : job[s].step \in {"find", "write"} => job[s].quantity = units.has
      /\ \A s \in Slots : job[s].step = "write" => (job[s].item <=> units.item)
      /\ (\A s \in Slots : job[s].step \notin UnitSteps) => units.billed = units.has
  BY <1>0, <1>1 DEF UnitInv
<1>3. CASE kind # "units"
  <2>1. \A s \in Slots : job[s].step \notin UnitSteps /\ job'[s].step \notin UnitSteps
    BY <1>0, <1>3 DEF JobInv
  <2>2. units' = units
    BY <1>3, TopicsApart
  <2> QED  BY <1>2, <2>1, <2>2 DEF UnitInv, UnitSteps
<1>4. CASE UNCHANGED <<job, units>>
  BY <1>2, <1>4 DEF UnitInv
<1>5. ASSUME NEW s \in Slots, ChangeUnits(s)  PROVE UnitInv'
  <2>1. /\ Do(s, [step |-> "count"]) /\ Slipped(IF Others(s) THEN {"beside"} ELSE {})
        /\ units'.item = units.item /\ units'.billed = units.billed
    BY <1>1, <1>5 DEF ChangeUnits, Slipped, WalletTypeOK
  <2>2. \A t \in Slots \ {s} : job[t] = NoJob
    BY <1>1, <2>1 DEF Slipped, Others
  <2>3. job'[s].step = "count" /\ \A t \in Slots \ {s} : job'[t] = NoJob
    BY <2>1, <2>2, JobAt
  <2> QED  BY <1>0, <1>2, <2>1, <2>3 DEF UnitInv, UnitSteps
<1>6. ASSUME NEW s \in Slots, Count(s) \/ FindItem(s) \/ SetQuantity(s)  PROVE UnitInv'
  <2>1. job[s].step \in UnitSteps /\ \A t \in Slots \ {s} : job[t] = NoJob
    <3>1. job[s].step \in UnitSteps
      BY <1>6 DEF Count, FindItem, SetQuantity, UnitSteps
    <3> QED  BY <1>2, <3>1
  <2>2. CASE Count(s)
    <3>1. Do(s, [step |-> "find", quantity |-> units.has]) /\ units' = units
      BY <2>2 DEF Count
    <3>2. job'[s].step = "find" /\ job'[s].quantity = units.has /\ \A t \in Slots \ {s} : job'[t] = NoJob
      BY <2>1, <3>1, JobAt
    <3> QED  BY <1>0, <1>2, <3>1, <3>2 DEF UnitInv, UnitSteps
  <2>3. CASE FindItem(s)
    <3>1. Do(s, [step |-> "write", quantity |-> job[s].quantity, item |-> units.item])
          /\ units' = units /\ job[s].quantity = units.has
      BY <1>2, <2>3 DEF FindItem
    <3>2. /\ job'[s].step = "write" /\ job'[s].quantity = units.has /\ job'[s].item = units.item
          /\ \A t \in Slots \ {s} : job'[t] = NoJob
      BY <2>1, <3>1, JobAt
    <3> QED  BY <1>0, <1>2, <3>1, <3>2 DEF UnitInv, UnitSteps
  <2>4. CASE SetQuantity(s)
    <3>1. job'[s] = NoJob /\ \A t \in Slots \ {s} : job'[t] = NoJob
      BY <2>1, <2>4, JobAt DEF SetQuantity
    <3>2. /\ job[s].quantity = units.has /\ (job[s].item <=> units.item)
          /\ units' = IF job[s].item \/ job[s].quantity > 0
                      THEN [units EXCEPT !.billed = job[s].quantity, !.item = TRUE] ELSE units
      BY <1>2, <2>4 DEF SetQuantity, Writes
    <3>3. units'.billed = units'.has /\ (~units'.item => units'.billed = 0)
      <4>1. CASE job[s].item \/ job[s].quantity > 0
        BY <3>2, <4>1 DEF WalletTypeOK
      <4>2. CASE ~(job[s].item \/ job[s].quantity > 0)
        BY <1>0, <1>2, <3>2, <4>2
      <4> QED  BY <4>1, <4>2
    <3> QED  BY <1>0, <3>1, <3>3 DEF UnitInv, UnitSteps
  <2> QED  BY <1>6, <2>2, <2>3, <2>4
<1>7. ASSUME NEW s \in Slots, SyncFails(s)  PROVE FALSE
  BY <1>1, <1>7 DEF SyncFails, Slipped
<1>8. Archive => FALSE
  BY <1>1 DEF Archive, Slipped
<1>9. CASE UnitsNext
  BY <1>5, <1>6, <1>7, <1>8, <1>9 DEF UnitsNext
<1> QED  BY <1>3, <1>4, <1>9, TopicsApart

-----------------------------------------------------------------------------
(* The bank accounts and the list.                                         *)

(* An account that exists stays with its customer.                         *)
Stays == \A b \in Banks : bank[b] # None => bank'[b] # None /\ bank'[b].customer = bank[b].customer

(* Only the dialog adds one, and nothing else makes one pending.           *)
NoneNew ==
  \/ Confirm
  \/ \A b \in Banks :
       /\ bank'[b] # None <=> bank[b] # None
       /\ bank'[b] # None /\ bank'[b].state = "pending" => bank[b].state = "pending"

LEMMA BanksStay ==
  ASSUME TypeOK, WalletTypeOK, BankInv, WalletNext \/ UNCHANGED allVars
  PROVE  Stays /\ NoneNew
<1>0. \A b \in Banks : bank[b] # None => bank[b] \in Account
  BY DEF WalletTypeOK
<1>1. bank' = bank => Stays /\ NoneNew
  BY DEF Stays, NoneNew
<1>2. ASSUME NEW b \in Banks, bank[b] # None, NEW state \in {"pending", "verified", "removed"},
             bank' = [bank EXCEPT ![b].state = state], state = "pending" => bank[b].state = "pending"
      PROVE  Stays /\ NoneNew
  <2>1. [bank[b] EXCEPT !.state = state] \in Account
        /\ [bank[b] EXCEPT !.state = state].customer = bank[b].customer
        /\ [bank[b] EXCEPT !.state = state].state = state
    BY <1>0, <1>2 DEF Account
  <2>2. bank'[b] = [bank[b] EXCEPT !.state = state] /\ \A c \in Banks \ {b} : bank'[c] = bank[c]
    BY <1>2 DEF WalletTypeOK
  <2> QED  BY <1>2, <2>1, <2>2, NoneIsNoAccount DEF Stays, NoneNew
<1>3. ASSUME NEW s \in Slots, VerifyAmounts(s) \/ Detach(s)  PROVE Stays /\ NoneNew
  <2>1. job[s].bank \in Banks /\ bank[job[s].bank] # None
    <3>1. job[s] \in Job /\ job[s].step \in {"verify", "detach"}
      BY <1>3 DEF VerifyAmounts, Detach, WalletTypeOK
    <3> QED  BY <3>1, JobFacts DEF BankInv, SlotFits
  <2>2. \E state \in {"pending", "verified", "removed"} :
          /\ bank' = bank \/ bank' = [bank EXCEPT ![job[s].bank].state = state]
          /\ state = "pending" => bank[job[s].bank].state = "pending"
    <3>1. bank[job[s].bank].state \in {"pending", "verified", "removed"}
      BY <1>0, <2>1 DEF Account
    <3>2. \/ bank' = [bank EXCEPT ![job[s].bank].state = IF @ = "pending" THEN "verified" ELSE @]
          \/ bank' = bank
          \/ bank' = [bank EXCEPT ![job[s].bank].state = "removed"]
      BY <1>3 DEF VerifyAmounts, Detach
    <3>3. CASE bank[job[s].bank].state = "pending"
      BY <3>2, <3>3
    <3>4. CASE bank[job[s].bank].state # "pending"
      BY <3>1, <3>2, <3>4
    <3> QED  BY <3>3, <3>4
  <2> QED  BY <1>1, <1>2, <2>1, <2>2
<1>4. CASE VerifyElsewhere
  <2>1. PICK b \in Banks : bank[b] # None /\ bank' = [bank EXCEPT ![b].state = "verified"]
    BY <1>4 DEF VerifyElsewhere
  <2> QED  BY <1>2, <2>1
<1>5. CASE Confirm
  <2>1. PICK b \in Banks, state \in {"pending", "verified"} :
          bank[b] = None /\ bank' = [bank EXCEPT ![b] = [customer |-> Newest.customer, state |-> state]]
    BY <1>5 DEF Confirm
  <2>2. \A c \in Banks \ {b} : bank'[c] = bank[c]
    BY <2>1 DEF WalletTypeOK
  <2> QED  BY <1>5, <2>1, <2>2 DEF Stays, NoneNew
<1>6. CASE CustomerNext
  BY <1>1, <1>6 DEF CustomerNext, walletVars, bankVars
<1>7. ASSUME NEW s \in Slots,
             \/ AskBank(s) \/ CreateSetup(s) \/ ReadBanks(s) \/ ReadSetups(s) \/ List(s)
             \/ FindSetup(s) \/ FindBank(s)
      PROVE  Stays /\ NoneNew
  BY <1>1, <1>7 DEF AskBank, CreateSetup, ReadBanks, ReadSetups, List, FindSetup, FindBank, bankVars
<1>8. CASE OpenDialog \/ CloseDialog \/ HearConfirm
  BY <1>1, <1>8 DEF OpenDialog, CloseDialog, HearConfirm
<1>9. CASE CardNext
  BY <1>1, <1>9 DEF CardNext, Subscribe, Unsubscribe, Learn, OpenPanel, ClosePanel, Save, ReadRow,
                    SetCustomer, SetSubscription, Saved, SaveFails, bankAndUnits, bankVars
<1>10. CASE UnitsNext
  BY <1>1, <1>10 DEF UnitsNext, ChangeUnits, Count, FindItem, SetQuantity, SyncFails, Archive,
                    bankAndCard, bankVars
<1>11. CASE UNCHANGED allVars
  BY <1>1, <1>11 DEF allVars, walletVars, bankVars
<1>12. TenantNext => Stays /\ NoneNew
  BY <1>3, <1>4, <1>5, <1>7, <1>8 DEF TenantNext
<1>13. Stays /\ NoneNew
  BY <1>6, <1>9, <1>10, <1>11, <1>12 DEF WalletNext
<1> QED  BY <1>13

(* In the slot that a step is of, or in none.                              *)
LEMMA SlotsKept ==
  ASSUME BankInv, WalletTypeOK, Stays, NEW s \in Slots,
         \A t \in Slots \ {s} : req'[t] = req[t] /\ job'[t] = job[t],
         SlotFits(s)'
  PROVE  \A t \in Slots : SlotFits(t)'
<1>1. ASSUME NEW t \in Slots \ {s}  PROVE SlotFits(t)'
  <2>1. SlotFits(t) /\ req'[t] = req[t] /\ job'[t] = job[t] /\ job[t] \in Job
    BY DEF BankInv, WalletTypeOK
  <2>2. job[t].step \in {"amounts", "remove", "verify", "detach"} =>
          job[t].bank \in Banks /\ bank'[job[t].bank] # None
    BY <2>1, JobFacts DEF SlotFits, Stays
  <2>3. job[t].step = "list" /\ job[t].held # None =>
          \A b \in job[t].held : b \in Banks /\ bank'[b] # None /\ bank'[b].customer = req[t].id
    <3>1. job[t].step = "list" /\ job[t].held # None => job[t].held \in SUBSET Banks
      BY <2>1, JobFacts
    <3> QED  BY <2>1, <3>1 DEF SlotFits, Stays
  <2> QED  BY <2>1, <2>2, <2>3 DEF SlotFits
<1> QED  BY <1>1

(* The other topics have no list.                                          *)
LEMMA SlotsElsewhere ==
  ASSUME TopicInv, JobInv, kind # "tenant"
  PROVE  \A s \in Slots : SlotFits(s)
  BY DEF TopicInv, Fits, BankPurposes, JobInv, TenantSteps, SlotFits, Stages

LEMMA SlotsAllFit ==
  ASSUME TypeOK, WalletTypeOK, EventsInv, TopicInv, IdsInv, BankInv, JobInv,
         WalletNext \/ UNCHANGED allVars
  PROVE  \A s \in Slots : SlotFits(s)'
<1>0. /\ TypeOK' /\ WalletTypeOK' /\ TopicInv' /\ JobInv' /\ kind' = kind /\ Stays
      /\ \A s \in Slots : job[s] \in Job /\ req[s] \in Request /\ SlotFits(s)
      /\ NoJob.step = "none"
  BY WalletTypes, JobsFit, WalletIsCore, CoreType, CoreTopics, Onwards, BanksStay
     DEF WalletTypeOK, TypeOK, BankInv, NoJob
<1>1. CASE kind # "tenant"
  <2>1. (TopicInv /\ JobInv /\ kind # "tenant" => \A s \in Slots : SlotFits(s))'
    BY SlotsElsewhere, PTL
  <2> QED  BY <1>0, <1>1, <2>1
<1>2. ASSUME UNCHANGED <<req, job>>  PROVE \A s \in Slots : SlotFits(s)'
  <2> SUFFICES ASSUME NEW s \in Slots  PROVE SlotFits(s)'
    OBVIOUS
  <2>1. job[s].step \in {"amounts", "remove", "verify", "detach"} =>
          job[s].bank \in Banks /\ bank'[job[s].bank] # None
    BY <1>0, JobFacts DEF SlotFits, Stays
  <2>2. job[s].step = "list" /\ job[s].held # None =>
          \A b \in job[s].held : b \in Banks /\ bank'[b] # None /\ bank'[b].customer = req[s].id
    <3>1. job[s].step = "list" /\ job[s].held # None => job[s].held \in SUBSET Banks
      BY <1>0, JobFacts
    <3> QED  BY <1>0, <3>1 DEF SlotFits, Stays
  <2> QED  BY <1>0, <1>2, <2>1, <2>2 DEF SlotFits
<1>3. ASSUME NEW s \in Slots, \A t \in Slots \ {s} : req'[t] = req[t] /\ job'[t] = job[t],
             job'[s].step = "none",
             req'[s].step \notin Stages \/ req'[s].why # "list"
      PROVE  \A t \in Slots : SlotFits(t)'
  <2>1. SlotFits(s)'
    BY <1>3 DEF SlotFits
  <2> QED  BY <1>0, <1>3, <2>1, SlotsKept
<1>4. ASSUME NEW s \in Slots, Verify(s) \/ CreateRemote(s) \/ Persist(s), job' = job, kind = "tenant"
      PROVE  \A t \in Slots : SlotFits(t)'
  <2>1. PICK r \in Request :
          /\ req' = [req EXCEPT ![s] = r]
          /\ req[s].step \in {"verify", "create", "persist"}
          /\ r.step \in Stages /\ r.why = req[s].why
    <3>1. CASE Verify(s)
      <4>1. PICK r \in Request :
              /\ req[s].step = "verify" /\ req' = [req EXCEPT ![s] = r]
              /\ \/ Exists(req[s].id) /\ req[s].why = "none" /\ r.step = "idle"
                 \/ r.step = "ready"
                 \/ r.step = "create"
              /\ r.step # "idle" => r.why = req[s].why
        BY <3>1, RequestBecomes
      <4>2. req[s].why # "none"
        BY <1>4, <4>1 DEF TopicInv, Fits, BankPurposes
      <4> QED  BY <4>1, <4>2 DEF Stages
    <3>2. CASE CreateRemote(s)
      <4>1. PICK o \in Objs, r \in Request :
              /\ req[s].step = "create" /\ req' = [req EXCEPT ![s] = r]
              /\ r.step = IF kind = "number" THEN "attach" ELSE "persist"
              /\ r.why = req[s].why
        BY <3>2, RequestBecomes
      <4> QED  BY <1>4, <4>1 DEF Stages
    <3>3. CASE Persist(s)
      <4>1. PICK r \in Request :
              /\ req[s].step = "persist" /\ req' = [req EXCEPT ![s] = r]
              /\ IF req[s].why = "none" THEN r.step = "idle"
                 ELSE r.step = "ready" /\ r.why = req[s].why
        BY <3>3, RequestBecomes
      <4>2. req[s].why # "none"
        BY <1>4, <4>1 DEF TopicInv, Fits, BankPurposes
      <4> QED  BY <4>1, <4>2 DEF Stages
    <3> QED  BY <1>4, <3>1, <3>2, <3>3
  <2>2. req'[s] = r /\ \A t \in Slots \ {s} : req'[t] = req[t]
    BY <2>1 DEF TypeOK
  <2>3. /\ job[s].step \notin {"verify", "detach"}
        /\ job[s].step = "list" => job[s].held = None /\ job[s].pending = None
    BY <1>0, <2>1 DEF SlotFits
  <2>4. job[s].step \in {"amounts", "remove"} => job[s].bank \in Banks /\ bank'[job[s].bank] # None
    BY <1>0, JobFacts DEF SlotFits, Stays
  <2>5. SlotFits(s)'
    BY <1>0, <1>4, <2>1, <2>2, <2>3, <2>4 DEF SlotFits, Stages
  <2> QED  BY <1>0, <1>4, <2>2, <2>5, SlotsKept
<1>5. CASE CustomerNext /\ kind = "tenant"
  <2>1. \/ \E s \in Slots : (Verify(s) \/ CreateRemote(s) \/ Persist(s)) /\ job' = job
        \/ RemoteGoes /\ job' = job
        \/ \E s \in Slots : Stops(s) /\ Do(s, NoJob)
    BY <1>5 DEF CustomerNext
  <2>2. CASE RemoteGoes /\ job' = job
    BY <1>2, <2>2 DEF RemoteGoes
  <2>3. ASSUME NEW s \in Slots, Stops(s), Do(s, NoJob)  PROVE \A t \in Slots : SlotFits(t)'
    <3>1. req'[s].step = "idle" /\ \A t \in Slots \ {s} : req'[t] = req[t]
      BY <2>3, StopsFacts
    <3>2. job'[s] = NoJob /\ \A t \in Slots \ {s} : job'[t] = job[t]
      BY <2>3, JobAt
    <3> QED  BY <1>0, <1>3, <3>1, <3>2 DEF Stages
  <2> QED  BY <1>4, <1>5, <2>1, <2>2, <2>3
<1>6. ASSUME NEW s \in Slots, AskBank(s)  PROVE \A t \in Slots : SlotFits(t)'
  <2>1. PICK why \in BankPurposes :
          /\ Asks(s, why)
          /\ \/ why = "connect" /\ job' = job
             \/ why = "list" /\ Do(s, [step |-> "list", held |-> None, pending |-> None])
             \/ /\ why \in {"amounts", "remove"}
                /\ \E b \in Banks : listed[b] # "absent" /\ Do(s, [step |-> why, bank |-> b])
    BY <1>6 DEF AskBank, BankPurposes
  <2> DEFINE r == [step |-> IF row.id = None THEN "create" ELSE "verify", id |-> row.id, why |-> why]
  <2>2. /\ req[s] = Idle /\ req' = [req EXCEPT ![s] = r]
        /\ r.step \in Stages /\ r.why = why
    BY <2>1 DEF Asks, Begin, Stages
  <2> HIDE DEF r
  <2>3. req'[s] = r /\ (\A t \in Slots \ {s} : req'[t] = req[t]) /\ req[s].step = "idle"
    BY <2>2 DEF TypeOK, Idle
  <2>4. CASE why = "connect" /\ job' = job
    <3>1. job[s].step \notin {"list", "verify", "detach"}
      BY <1>0, <2>3 DEF SlotFits, Stages
    <3>2. job[s].step \in {"amounts", "remove"} => job[s].bank \in Banks /\ bank'[job[s].bank] # None
      BY <1>0, JobFacts DEF SlotFits, Stays
    <3>3. SlotFits(s)'
      BY <2>2, <2>3, <2>4, <3>1, <3>2 DEF SlotFits
    <3> QED  BY <1>0, <2>3, <2>4, <3>3, SlotsKept
  <2>5. CASE why = "list" /\ Do(s, [step |-> "list", held |-> None, pending |-> None])
    <3>1. /\ job'[s].step = "list" /\ job'[s].held = None /\ job'[s].pending = None
          /\ \A t \in Slots \ {s} : job'[t] = job[t]
      BY <2>5, JobAt
    <3>2. SlotFits(s)'
      BY <2>2, <2>3, <2>5, <3>1 DEF SlotFits
    <3> QED  BY <1>0, <2>3, <3>1, <3>2, SlotsKept
  <2>6. ASSUME NEW b \in Banks, why \in {"amounts", "remove"}, listed[b] # "absent",
               Do(s, [step |-> why, bank |-> b])
        PROVE  \A t \in Slots : SlotFits(t)'
    <3>1. /\ job'[s].step = why /\ job'[s].bank = b
          /\ \A t \in Slots \ {s} : job'[t] = job[t]
      BY <2>6, JobAt
    <3>2. bank'[b] # None
      BY <1>0, <2>6 DEF BankInv, PageFits, Stays
    <3>3. SlotFits(s)'
      BY <2>2, <2>3, <2>6, <3>1, <3>2 DEF SlotFits
    <3> QED  BY <1>0, <2>3, <3>1, <3>3, SlotsKept
  <2> QED  BY <2>1, <2>4, <2>5, <2>6
<1>7. ASSUME NEW s \in Slots, CreateSetup(s)  PROVE \A t \in Slots : SlotFits(t)'
  <2>1. /\ req[s].step = "ready" /\ req[s].why = "connect" /\ job' = job
        /\ req' = [req EXCEPT ![s] = Idle]
    BY <1>7 DEF CreateSetup, Holds, End
  <2>2. req'[s].step = "idle" /\ \A t \in Slots \ {s} : req'[t] = req[t]
    BY <2>1 DEF TypeOK, Idle
  <2>3. job[s].step \notin {"list", "verify", "detach"}
    BY <1>0, <2>1 DEF SlotFits, Stages
  <2>4. job[s].step \in {"amounts", "remove"} => job[s].bank \in Banks /\ bank'[job[s].bank] # None
    BY <1>0, JobFacts DEF SlotFits, Stays
  <2>5. SlotFits(s)'
    BY <2>1, <2>2, <2>3, <2>4 DEF SlotFits, Stages
  <2> QED  BY <1>0, <2>1, <2>2, <2>5, SlotsKept
<1>8. ASSUME NEW s \in Slots, ReadBanks(s) \/ ReadSetups(s)  PROVE \A t \in Slots : SlotFits(t)'
  <2>1. /\ job[s].step = "list" /\ req[s].step = "ready" /\ req[s].why = "list" /\ req' = req
        /\ bank' = bank
    BY <1>0, <1>8 DEF ReadBanks, ReadSetups, Holds, SlotFits, Stages, vars, bankVars
  <2>2. job[s] \in [step : {"list"}, held : (SUBSET Banks) \cup {None}, pending : (SUBSET Banks) \cup {None}]
    BY <1>0, <2>1, JobFacts
  <2> DEFINE found == {b \in Banks : /\ bank[b] # None
                                     /\ bank[b].customer = req[s].id
                                     /\ bank[b].state # "removed"}
             held == [job[s] EXCEPT !.held = found]
             read == [job[s] EXCEPT !.pending =
                        {setups[n].bank : n \in {k \in Recent(req[s].id) : Waiting(k)}}]
  <2>3. Do(s, held) \/ Do(s, read)
    BY <1>8 DEF ReadBanks, ReadSetups
  <2>4. held.step = "list" /\ held.held = found /\ read.step = "list" /\ read.held = job[s].held
    BY <2>2
  <2>5. \A b \in found : bank[b] # None /\ bank[b].customer = req[s].id
    OBVIOUS
  <2> HIDE DEF found, held, read
  <2>6. \E j \in {held, read} : job'[s] = j /\ \A t \in Slots \ {s} : job'[t] = job[t]
    BY <2>3, JobAt
  <2>7. /\ job'[s].step = "list" /\ job'[s].held \in {found, job[s].held}
        /\ \A t \in Slots \ {s} : job'[t] = job[t]
    BY <2>4, <2>6
  <2>8. job'[s].held # None => \A b \in job'[s].held : bank[b] # None /\ bank[b].customer = req[s].id
    BY <1>0, <2>1, <2>5, <2>7 DEF SlotFits
  <2>9. SlotFits(s)'
    BY <2>1, <2>7, <2>8 DEF SlotFits, Stages
  <2> QED  BY <1>0, <2>1, <2>7, <2>9, SlotsKept
<1>9. ASSUME NEW s \in Slots, List(s) \/ VerifyAmounts(s) \/ Detach(s)
      PROVE  \A t \in Slots : SlotFits(t)'
  <2>1. Do(s, NoJob) /\ req' = [req EXCEPT ![s] = Idle]
    BY <1>9 DEF List, VerifyAmounts, Detach, End
  <2>2. /\ job'[s] = NoJob /\ \A t \in Slots \ {s} : job'[t] = job[t]
        /\ req'[s].step = "idle" /\ \A t \in Slots \ {s} : req'[t] = req[t]
    BY <2>1, JobAt DEF TypeOK, Idle
  <2> QED  BY <1>0, <1>3, <2>2 DEF Stages
<1>10. ASSUME NEW s \in Slots, FindSetup(s) \/ FindBank(s)  PROVE \A t \in Slots : SlotFits(t)'
  <2>1. /\ req[s].step = "ready" /\ job[s].step \in {"amounts", "remove"}
        /\ req[s].why = job[s].step
        /\ bank' = bank
    BY <1>10 DEF FindSetup, FindBank, Holds, bankVars
  <2>2. CASE Do(s, NoJob) /\ End(s)
    <3>1. /\ job'[s] = NoJob /\ \A t \in Slots \ {s} : job'[t] = job[t]
          /\ req'[s].step = "idle" /\ \A t \in Slots \ {s} : req'[t] = req[t]
      BY <2>2, JobAt DEF TypeOK, Idle, End
    <3> QED  BY <1>0, <1>3, <3>1 DEF Stages
  <2>3. CASE /\ req' = req
             /\ Do(s, [job[s] EXCEPT !.step = IF job[s].step = "amounts" THEN "verify" ELSE "detach"])
    <3> DEFINE j == [job[s] EXCEPT !.step = IF job[s].step = "amounts" THEN "verify" ELSE "detach"]
    <3>1. job[s] \in [step : {"amounts", "remove", "verify", "detach"}, bank : Banks]
      BY <1>0, <2>1, JobFacts
    <3>2. j.step = (IF job[s].step = "amounts" THEN "verify" ELSE "detach") /\ j.bank = job[s].bank
      BY <3>1
    <3>3. Do(s, j)
      BY <2>3
    <3> HIDE DEF j
    <3>4. job'[s] = j /\ \A t \in Slots \ {s} : job'[t] = job[t]
      BY <3>3, JobAt
    <3>5. bank[job[s].bank] # None
      BY <1>0, <2>1 DEF SlotFits
    <3>6. SlotFits(s)'
      BY <2>1, <2>3, <3>2, <3>4, <3>5 DEF SlotFits
    <3> QED  BY <1>0, <2>3, <3>4, <3>6, SlotsKept
  <2>4. \/ Do(s, NoJob) /\ End(s)
        \/ /\ req' = req
           /\ Do(s, [job[s] EXCEPT !.step = IF job[s].step = "amounts" THEN "verify" ELSE "detach"])
    BY <1>10 DEF FindSetup, FindBank
  <2> QED  BY <2>2, <2>3, <2>4
<1>11. CASE OpenDialog \/ CloseDialog \/ Confirm \/ HearConfirm \/ VerifyElsewhere
  BY <1>2, <1>11 DEF OpenDialog, CloseDialog, Confirm, HearConfirm, VerifyElsewhere, vars
<1>12. CASE UNCHANGED allVars
  BY <1>2, <1>12 DEF allVars, vars, walletVars
<1>13. CASE TenantNext
  BY <1>6, <1>7, <1>8, <1>9, <1>10, <1>11, <1>13 DEF TenantNext
<1>14. kind = "tenant" => ~CardNext /\ ~UnitsNext
  <2>1. CardNext => kind = "card"
    BY DEF CardNext, Subscribe, Unsubscribe, Learn, OpenPanel, ClosePanel, Save, ReadRow,
           SetCustomer, SetSubscription, Saved, SaveFails, JobInv, CardSteps
  <2>2. UnitsNext => kind = "units"
    BY DEF UnitsNext, ChangeUnits, Count, FindItem, SetQuantity, SyncFails, Archive, JobInv, UnitSteps
  <2> QED  BY <2>1, <2>2
<1> QED  BY <1>1, <1>5, <1>12, <1>13, <1>14 DEF WalletNext

LEMMA PageKept ==
  ASSUME TypeOK, WalletTypeOK, EventsInv, TopicInv, IdsInv, BankInv, JobInv,
         WalletNext \/ UNCHANGED allVars
  PROVE  PageFits'
<1>0. /\ WalletTypeOK' /\ Stays /\ NoneNew
      /\ \A s \in Slots : job[s] \in Job /\ SlotFits(s)
      /\ \A b \in Banks : listed[b] # "absent" => bank[b] # None
      /\ \A n \in DOMAIN setups : setups[n].bank # None =>
           /\ bank[setups[n].bank] # None
           /\ bank[setups[n].bank].customer = setups[n].customer
      /\ \A b \in Banks : bank[b] # None =>
           \E n \in DOMAIN setups : setups[n].bank = b /\ setups[n].customer = bank[b].customer
      /\ dialog.step = "form" => setups # <<>> /\ setups[Len(setups)].bank = None
      /\ \A n \in DOMAIN setups : setups[n].bank \in Banks \cup {None}
      /\ Len(setups) \in Nat /\ DOMAIN setups = 1 .. Len(setups)
  BY WalletTypes, BanksStay, SetupFacts DEF WalletTypeOK, BankInv, PageFits
<1>1. ASSUME ~Confirm, setups' = setups,
             \A b \in Banks : listed'[b] # "absent" => bank[b] # None,
             dialog'.step = "form" => dialog.step = "form"
      PROVE  PageFits'
  <2>1. \A b \in Banks : bank'[b] # None => bank[b] # None /\ bank'[b].customer = bank[b].customer
    BY <1>0, <1>1 DEF NoneNew, Stays
  <2>2. \A b \in Banks : listed'[b] # "absent" => bank'[b] # None
    BY <1>0, <1>1 DEF Stays
  <2>3. \A n \in DOMAIN setups : setups[n].bank # None =>
           /\ bank'[setups[n].bank] # None
           /\ bank'[setups[n].bank].customer = setups[n].customer
    BY <1>0 DEF Stays
  <2>4. \A b \in Banks : bank'[b] # None =>
           \E n \in DOMAIN setups : setups[n].bank = b /\ setups[n].customer = bank'[b].customer
    BY <1>0, <2>1
  <2> QED  BY <1>0, <1>1, <2>2, <2>3, <2>4 DEF PageFits
<1>2. listed' = listed => \A b \in Banks : listed'[b] # "absent" => bank[b] # None
  BY <1>0
<1>3. /\ dialog' = [dialog EXCEPT !.step = "idle"] => dialog'.step = "idle"
      /\ dialog' = [dialog EXCEPT !.step = "loading"] => dialog'.step = "loading"
      /\ dialog' = [dialog EXCEPT !.step = "done"] => dialog'.step = "done"
      /\ dialog' = [dialog EXCEPT !.step = "deposits"] => dialog'.step = "deposits"
      /\ dialog' = [dialog EXCEPT !.open = TRUE] => dialog'.step = dialog.step
      /\ dialog' = [dialog EXCEPT !.open = FALSE, !.step = "idle"] => dialog'.step = "idle"
  BY DEF WalletTypeOK
<1>4. CASE Confirm
  <2>1. PICK b \in Banks, state \in {"pending", "verified"} :
          /\ bank[b] = None
          /\ bank'   = [bank EXCEPT ![b] = [customer |-> Newest.customer, state |-> state]]
          /\ setups' = [setups EXCEPT ![Len(setups)].bank = b]
          /\ listed' = listed /\ dialog' = [dialog EXCEPT !.step = "saving"]
    BY <1>4 DEF Confirm
  <2>2. setups # <<>> /\ setups[Len(setups)].bank = None
    BY <1>0, <1>4 DEF Confirm
  <2>3. Len(setups) \in DOMAIN setups /\ Newest = setups[Len(setups)]
        /\ Newest \in [customer : Objs, bank : Banks \cup {None}]
    <3>1. Len(setups) # 0
      BY <2>2, SetupFacts, EmptySeq
    <3> QED  BY <3>1, SetupFacts DEF Newest
  <2> DEFINE m == Len(setups)
  <2>4. /\ DOMAIN setups' = DOMAIN setups
        /\ setups'[m].bank = b /\ setups'[m].customer = setups[m].customer
        /\ \A n \in DOMAIN setups \ {m} : setups'[n] = setups[n]
    BY <2>1, <2>3, SetupFacts
  <2>5. /\ bank'[b] = [customer |-> setups[m].customer, state |-> state] /\ bank'[b] # None
        /\ bank'[b].customer = setups[m].customer
        /\ \A c \in Banks \ {b} : bank'[c] = bank[c]
    <3>1. [customer |-> setups[m].customer, state |-> state] \in Account
      BY <2>3 DEF Account
    <3>2. bank'[b] = [customer |-> setups[m].customer, state |-> state]
          /\ \A c \in Banks \ {b} : bank'[c] = bank[c]
      BY <2>1, <2>3 DEF WalletTypeOK
    <3> QED  BY <3>1, <3>2, NoneIsNoAccount
  <2>6. \A c \in Banks : listed'[c] # "absent" => bank'[c] # None
    BY <1>0, <2>1, <2>5
  <2>7. \A n \in DOMAIN setups' : setups'[n].bank # None =>
           /\ bank'[setups'[n].bank] # None
           /\ bank'[setups'[n].bank].customer = setups'[n].customer
    <3> SUFFICES ASSUME NEW n \in DOMAIN setups, setups'[n].bank # None
                 PROVE  /\ bank'[setups'[n].bank] # None
                        /\ bank'[setups'[n].bank].customer = setups'[n].customer
      BY <2>4
    <3>1. CASE n = m
      BY <2>4, <2>5, <3>1
    <3>2. CASE n # m
      BY <1>0, <2>1, <2>4, <2>5, <3>2
    <3> QED  BY <3>1, <3>2
  <2>8. \A c \in Banks : bank'[c] # None =>
           \E n \in DOMAIN setups' : setups'[n].bank = c /\ setups'[n].customer = bank'[c].customer
    <3> SUFFICES ASSUME NEW c \in Banks, bank'[c] # None
                 PROVE  \E n \in DOMAIN setups :
                          setups'[n].bank = c /\ setups'[n].customer = bank'[c].customer
      BY <2>4
    <3>1. CASE c = b
      BY <2>3, <2>4, <2>5, <3>1
    <3>2. CASE c # b
      <4>1. PICK n \in DOMAIN setups : setups[n].bank = c /\ setups[n].customer = bank[c].customer
        BY <1>0, <2>5, <3>2
      <4>2. n # m
        BY <2>2, <4>1, WalletAssumption
      <4> QED  BY <2>4, <2>5, <3>2, <4>1, <4>2
    <3> QED  BY <3>1, <3>2
  <2>9. dialog'.step # "form"
    BY <2>1 DEF WalletTypeOK
  <2> QED  BY <2>6, <2>7, <2>8, <2>9 DEF PageFits
<1>5. ASSUME NEW s \in Slots, CreateSetup(s)  PROVE PageFits'
  <2>1. /\ setups' = Append(setups, [customer |-> req[s].id, bank |-> None])
        /\ bank' = bank /\ listed' = listed /\ req[s].id \in Objs
    <3>1. req[s].id \in Objs
      BY <1>5, RequestFacts DEF CreateSetup, Holds, TypeOK
    <3> QED  BY <1>5, <3>1 DEF CreateSetup
  <2>2. /\ Len(setups') = Len(setups) + 1 /\ DOMAIN setups' = 1 .. Len(setups) + 1
        /\ setups'[Len(setups) + 1].bank = None
        /\ \A n \in DOMAIN setups : setups'[n] = setups[n]
    <3> DEFINE Setup == [customer : Objs, bank : Banks \cup {None}]
               new   == [customer |-> req[s].id, bank |-> None]
    <3>1. new \in Setup /\ new.bank = None
      BY <2>1
    <3>2. setups \in Seq(Setup) /\ setups' = Append(setups, new)
      BY <2>1, SetupFacts
    <3> HIDE DEF new, Setup
    <3>3. /\ setups' \in Seq(Setup) /\ Len(setups') = Len(setups) + 1
          /\ \A n \in 1 .. Len(setups) : setups'[n] = setups[n]
          /\ setups'[Len(setups) + 1] = new
      BY <3>1, <3>2, AppendProperties
    <3>4. DOMAIN setups' = 1 .. Len(setups) + 1
      BY <3>3, LenProperties
    <3> QED  BY <1>0, <3>1, <3>3, <3>4
  <2>3. \A n \in DOMAIN setups' : setups'[n].bank # None => n \in DOMAIN setups
    BY <1>0, <2>2
  <2>4. setups' # <<>>
    BY <1>0, <2>2
  <2>5. \A b \in Banks : bank[b] # None =>
          \E n \in DOMAIN setups' : setups'[n].bank = b /\ setups'[n].customer = bank[b].customer
    <3> SUFFICES ASSUME NEW b \in Banks, bank[b] # None
                 PROVE  \E n \in DOMAIN setups' :
                          setups'[n].bank = b /\ setups'[n].customer = bank[b].customer
      OBVIOUS
    <3>1. PICK n \in DOMAIN setups : setups[n].bank = b /\ setups[n].customer = bank[b].customer
      BY <1>0
    <3>2. n \in DOMAIN setups'
      BY <1>0, <2>2
    <3> QED  BY <2>2, <3>1, <3>2
  <2> QED  BY <1>0, <2>1, <2>2, <2>3, <2>4, <2>5 DEF PageFits
<1>6. ASSUME NEW s \in Slots, List(s)  PROVE PageFits'
  <2>1. /\ job[s].step = "list" /\ job[s].held # None /\ setups' = setups /\ dialog' = dialog
        /\ listed' = [b \in Banks |-> IF b \notin job[s].held THEN "absent"
                                      ELSE IF b \in job[s].pending THEN "pending" ELSE "verified"]
        /\ bank' = bank
    BY <1>6 DEF List
  <2>2. \A b \in Banks : listed'[b] # "absent" => bank[b] # None
    BY <1>0, <2>1 DEF SlotFits
  <2>3. CASE ~Confirm
    BY <1>1, <2>1, <2>2, <2>3
  <2> QED  BY <1>4, <2>3
<1>7. CASE CustomerNext
  <2>1. /\ setups' = setups /\ listed' = listed
        /\ dialog' = dialog \/ dialog' = [dialog EXCEPT !.step = "idle"]
    BY <1>7 DEF CustomerNext, walletVars, bankVars, SetupFails
  <2> QED  BY <1>1, <1>2, <1>3, <1>4, <2>1
<1>8. ASSUME NEW s \in Slots,
             \/ AskBank(s) \/ ReadBanks(s) \/ ReadSetups(s)
             \/ FindSetup(s) \/ VerifyAmounts(s) \/ FindBank(s) \/ Detach(s)
      PROVE  PageFits'
  <2>1. /\ setups' = setups /\ listed' = listed
        /\ dialog' = dialog \/ dialog' = [dialog EXCEPT !.step = "loading"]
    BY <1>8 DEF AskBank, ReadBanks, ReadSetups, FindSetup, VerifyAmounts, FindBank, Detach, bankVars
  <2> QED  BY <1>1, <1>2, <1>3, <1>4, <2>1
<1>9. CASE OpenDialog \/ CloseDialog \/ HearConfirm \/ VerifyElsewhere
  <2>1. /\ setups' = setups /\ listed' = listed
        /\ \/ dialog' = dialog
           \/ dialog' = [dialog EXCEPT !.open = TRUE]
           \/ dialog' = [dialog EXCEPT !.open = FALSE, !.step = "idle"]
           \/ dialog' = [dialog EXCEPT !.step = "done"]
           \/ dialog' = [dialog EXCEPT !.step = "deposits"]
    BY <1>9 DEF OpenDialog, CloseDialog, HearConfirm, VerifyElsewhere
  <2> QED  BY <1>1, <1>2, <1>3, <1>4, <2>1
<1>10. CASE CardNext \/ UnitsNext \/ UNCHANGED allVars
  <2>1. UNCHANGED <<setups, listed, dialog>>
    BY <1>10 DEF CardNext, Subscribe, Unsubscribe, Learn, OpenPanel, ClosePanel, Save, ReadRow,
                SetCustomer, SetSubscription, Saved, SaveFails, bankAndUnits, bankVars,
                UnitsNext, ChangeUnits, Count, FindItem, SetQuantity, SyncFails, Archive,
                bankAndCard, allVars, walletVars
  <2> QED  BY <1>1, <1>2, <1>4, <2>1
<1>11. CASE TenantNext
  BY <1>4, <1>5, <1>6, <1>8, <1>9, <1>11 DEF TenantNext
<1> QED  BY <1>7, <1>10, <1>11 DEF WalletNext

LEMMA BankKept ==
  ASSUME TypeOK, WalletTypeOK, EventsInv, TopicInv, IdsInv, BankInv, JobInv,
         WalletNext \/ UNCHANGED allVars
  PROVE  BankInv'
  BY PageKept, SlotsAllFit DEF BankInv


(* A new set-up is the newest.                                             *)
LEMMA SetupAdds ==
  ASSUME TypeOK, WalletTypeOK, NEW s \in Slots, CreateSetup(s)
  PROVE  /\ Len(setups) \in Nat /\ DOMAIN setups = 1 .. Len(setups)
         /\ req[s].id \in Objs
         /\ DOMAIN setups' = 1 .. Len(setups) + 1
         /\ setups'[Len(setups) + 1].bank = None
         /\ setups'[Len(setups) + 1].customer = req[s].id
         /\ \A n \in DOMAIN setups : setups'[n] = setups[n]
<1>0. req[s].id \in Objs /\ setups' = Append(setups, [customer |-> req[s].id, bank |-> None])
  BY RequestFacts DEF CreateSetup, Holds, TypeOK
<1> DEFINE Setup == [customer : Objs, bank : Banks \cup {None}]
           new   == [customer |-> req[s].id, bank |-> None]
<1>1. new \in Setup /\ new.bank = None /\ new.customer = req[s].id
  BY <1>0
<1>2. setups \in Seq(Setup) /\ setups' = Append(setups, new)
  BY <1>0, SetupFacts
<1> HIDE DEF new, Setup
<1>3. /\ setups' \in Seq(Setup) /\ Len(setups') = Len(setups) + 1
      /\ \A n \in 1 .. Len(setups) : setups'[n] = setups[n]
      /\ setups'[Len(setups) + 1] = new
  BY <1>1, <1>2, AppendProperties
<1>4. DOMAIN setups' = 1 .. Len(setups) + 1 /\ DOMAIN setups = 1 .. Len(setups) /\ Len(setups) \in Nat
  BY <1>2, <1>3, LenProperties
<1> QED  BY <1>0, <1>1, <1>3, <1>4

(* The form's account is a new one, of the newest set-up's customer.       *)
LEMMA ConfirmAdds ==
  ASSUME TypeOK, WalletTypeOK, PageFits, Confirm
  PROVE  \E b \in Banks, state \in {"pending", "verified"} :
           /\ bank[b] = None /\ bank'[b] # None
           /\ bank'[b].state = state
           /\ \A c \in Banks \ {b} : bank'[c] = bank[c]
           /\ DOMAIN setups' = DOMAIN setups
           /\ \A n \in DOMAIN setups : setups'[n].customer = setups[n].customer
<1>1. PICK b \in Banks, state \in {"pending", "verified"} :
        /\ bank[b] = None
        /\ bank'   = [bank EXCEPT ![b] = [customer |-> Newest.customer, state |-> state]]
        /\ setups' = [setups EXCEPT ![Len(setups)].bank = b]
  BY DEF Confirm
<1>2. Len(setups) \in DOMAIN setups /\ Newest = setups[Len(setups)]
      /\ Newest \in [customer : Objs, bank : Banks \cup {None}]
  <2>1. Len(setups) # 0
    BY SetupFacts, EmptySeq DEF Confirm, PageFits
  <2> QED  BY <2>1, SetupFacts DEF Newest
<1>3. /\ DOMAIN setups' = DOMAIN setups
      /\ \A n \in DOMAIN setups : setups'[n].customer = setups[n].customer
  <2>1. \A n \in DOMAIN setups \ {Len(setups)} : setups'[n] = setups[n]
    BY <1>1, <1>2
  <2>2. DOMAIN setups' = DOMAIN setups /\ setups'[Len(setups)].customer = setups[Len(setups)].customer
    BY <1>1, <1>2
  <2> QED  BY <2>1, <2>2
<1> DEFINE account == [customer |-> Newest.customer, state |-> state]
<1>4. account \in Account /\ account.state = state
  BY <1>2 DEF Account
<1>5. bank'[b] = account /\ \A c \in Banks \ {b} : bank'[c] = bank[c]
  BY <1>1 DEF WalletTypeOK
<1> HIDE DEF account
<1> QED  BY <1>1, <1>3, <1>4, <1>5, NoneIsNoAccount

-----------------------------------------------------------------------------
(* The window holds all set-ups of a customer unless there were too many.  *)

LEMMA SetupsAreFinite ==
  ASSUME WalletTypeOK, NEW c
  PROVE  IsFiniteSet(SetupsOf(c)) /\ Cardinality(SetupsOf(c)) \in Nat
<1>1. SetupsOf(c) \subseteq 1 .. Len(setups) /\ Len(setups) \in Nat
  BY SetupFacts DEF SetupsOf
<1>2. IsFiniteSet(1 .. Len(setups))
  BY <1>1, FS_Interval
<1>3. IsFiniteSet(SetupsOf(c))
  BY <1>1, <1>2, FS_Subset
<1> QED  BY <1>3, FS_CardinalityType

LEMMA AllAreRecent ==
  ASSUME WalletTypeOK, NEW c, Cardinality(SetupsOf(c)) <= Window
  PROVE  Recent(c) = SetupsOf(c)
<1>1. ASSUME NEW n \in SetupsOf(c)
      PROVE  Cardinality({k \in SetupsOf(c) : k > n}) < Window
  <2> DEFINE newer == {k \in SetupsOf(c) : k > n}
  <2>1. /\ IsFiniteSet(SetupsOf(c)) /\ Cardinality(SetupsOf(c)) \in Nat
        /\ IsFiniteSet(SetupsOf(c) \ {n})
        /\ Cardinality(SetupsOf(c) \ {n}) = Cardinality(SetupsOf(c)) - 1
    BY SetupsAreFinite, FS_RemoveElement
  <2>2. SetupsOf(c) \subseteq Nat
    BY SetupFacts DEF SetupsOf
  <2>3. newer \subseteq SetupsOf(c) \ {n}
    BY <2>2
  <2> HIDE DEF newer
  <2>4. IsFiniteSet(newer) /\ Cardinality(newer) <= Cardinality(SetupsOf(c) \ {n})
        /\ Cardinality(newer) \in Nat
    BY <2>1, <2>3, FS_Subset, FS_CardinalityType
  <2>5. Cardinality(newer) < Window
    BY <2>1, <2>4, WalletAssumption
  <2> QED  BY <2>5 DEF newer
<1> QED  BY <1>1 DEF Recent

LEMMA WindowKept ==
  ASSUME TypeOK, WalletTypeOK, PageFits, WalletNext \/ UNCHANGED allVars,
         NEW c \in Objs, slip \subseteq slip',
         "window" \notin slip => Cardinality(SetupsOf(c)) <= Window
  PROVE  "window" \notin slip' => Cardinality(SetupsOf(c)') <= Window
<1>1. ASSUME DOMAIN setups' = DOMAIN setups,
             \A n \in DOMAIN setups : setups'[n].customer = setups[n].customer
      PROVE  SetupsOf(c)' = SetupsOf(c)
  BY <1>1 DEF SetupsOf
<1>2. CASE Confirm
  <2>1. SetupsOf(c)' = SetupsOf(c)
    BY <1>1, <1>2, ConfirmAdds
  <2> QED  BY <2>1
<1>3. ASSUME NEW s \in Slots, CreateSetup(s), "window" \notin slip'
      PROVE  Cardinality(SetupsOf(c)') <= Window
  <2>1. CASE req[s].id = c
    <3>1. SetupsOf(c)' = SetupsOf(c) \cup {Len(setups) + 1} /\ Len(setups) + 1 \notin SetupsOf(c)
      <4>1. \A n \in 1 .. Len(setups) + 1 : n \in DOMAIN setups \/ n = Len(setups) + 1
        BY SetupFacts
      <4>2. SetupsOf(c)' = {n \in 1 .. Len(setups) + 1 : setups'[n].customer = c}
        BY <1>3, SetupAdds DEF SetupsOf
      <4>3. SetupsOf(c) = {n \in 1 .. Len(setups) : setups[n].customer = c}
        BY SetupFacts DEF SetupsOf
      <4>4. /\ setups'[Len(setups) + 1].customer = c
            /\ \A n \in 1 .. Len(setups) : setups'[n] = setups[n]
            /\ Len(setups) \in Nat
        BY <1>3, <2>1, SetupAdds
      <4> QED  BY <4>2, <4>3, <4>4
    <3>2. ~(Cardinality(SetupsOf(c)) >= Window)
      BY <1>3, <2>1 DEF CreateSetup, Slipped
    <3>3. Cardinality(SetupsOf(c)') = Cardinality(SetupsOf(c)) + 1 /\ Cardinality(SetupsOf(c)) \in Nat
      BY <3>1, SetupsAreFinite, FS_AddElement
    <3> QED  BY <3>2, <3>3, WalletAssumption
  <2>2. CASE req[s].id # c
    <3>1. SetupsOf(c)' = SetupsOf(c)
      <4>1. /\ setups'[Len(setups) + 1].customer # c
            /\ \A n \in 1 .. Len(setups) : setups'[n] = setups[n]
            /\ Len(setups) \in Nat
        BY <1>3, <2>2, SetupAdds
      <4>2. SetupsOf(c)' = {n \in 1 .. Len(setups) + 1 : setups'[n].customer = c}
        BY <1>3, SetupAdds DEF SetupsOf
      <4>3. SetupsOf(c) = {n \in 1 .. Len(setups) : setups[n].customer = c}
        BY SetupFacts DEF SetupsOf
      <4> QED  BY <4>1, <4>2, <4>3
    <3> QED  BY <1>3, <3>1
  <2> QED  BY <2>1, <2>2
<1>4. CASE setups' = setups
  <2>1. SetupsOf(c)' = SetupsOf(c)
    BY <1>1, <1>4
  <2> QED  BY <2>1
<1>5. \/ Confirm \/ setups' = setups
      \/ \E s \in Slots : CreateSetup(s)
  <2>1. CASE TenantNext
    BY <2>1 DEF TenantNext, AskBank, ReadBanks, ReadSetups, List, FindSetup, VerifyAmounts,
                FindBank, Detach, OpenDialog, CloseDialog, HearConfirm, VerifyElsewhere, bankVars
  <2>2. CASE CustomerNext \/ UNCHANGED allVars
    BY <2>2 DEF CustomerNext, allVars, walletVars, bankVars
  <2>3. CASE CardNext \/ UnitsNext
    BY <2>3 DEF CardNext, Subscribe, Unsubscribe, Learn, OpenPanel, ClosePanel, Save, ReadRow,
                SetCustomer, SetSubscription, Saved, SaveFails, bankAndUnits, bankVars,
                UnitsNext, ChangeUnits, Count, FindItem, SetQuantity, SyncFails, Archive, bankAndCard
  <2> QED  BY <2>1, <2>2, <2>3 DEF WalletNext
<1> QED  BY <1>2, <1>3, <1>4, <1>5

(* In the slot that a step is of, or in none.                              *)
LEMMA ListsKept ==
  ASSUME WalletTypeOK, BankInv, Stays, NoneNew, ~Confirm, NEW t \in Slots,
         job'[t] = job[t], req'[t].id = req[t].id, ListFits(t)
  PROVE  ListFits(t)'
<1>1. \A b \in Banks : bank'[b] # None /\ bank'[b].state = "pending" =>
        bank[b] # None /\ bank[b].state = "pending" /\ bank'[b].customer = bank[b].customer
  BY DEF Stays, NoneNew
<1> QED  BY <1>1 DEF ListFits

LEMMA ListKept ==
  ASSUME TypeOK, WalletTypeOK, EventsInv, TopicInv, IdsInv, BankInv, JobInv, ListInv,
         WalletNext \/ UNCHANGED allVars
  PROVE  ListInv'
<1>0. /\ WalletTypeOK' /\ BankInv' /\ JobInv' /\ kind' = kind /\ Stays /\ NoneNew
      /\ slip \subseteq slip'
      /\ \A s \in Slots : job[s] \in Job /\ SlotFits(s)
      /\ NoJob.step = "none" /\ PageFits
  BY WalletTypes, BankKept, JobsFit, WalletIsCore, Onwards, BanksStay, TopicsApart
     DEF WalletTypeOK, TypeOK, BankInv, NoJob
<1>1. "window" \notin slip' => \A c \in Objs : Cardinality(SetupsOf(c)') <= Window
  <2>1. ASSUME NEW c \in Objs, "window" \notin slip'  PROVE Cardinality(SetupsOf(c)') <= Window
    <3>1. "window" \notin slip => Cardinality(SetupsOf(c)) <= Window
      BY DEF ListInv
    <3> QED  BY <1>0, <2>1, <3>1, WindowKept
  <2> QED  BY <2>1
<1> DEFINE Even == slip' \cap {"straddle", "window"} = {}
<1>2. Even => /\ \A s \in Slots : ListFits(s)
              /\ \A b \in Banks : listed[b] = "verified" => bank[b].state # "pending"
              /\ \A c \in Objs : Cardinality(SetupsOf(c)) <= Window
  BY <1>0 DEF ListInv
<1>3. ASSUME ~Confirm, Even,
             listed' = listed \/ \A b \in Banks : listed'[b] = "verified" => bank[b].state # "pending",
             \A s \in Slots : (job'[s] = job[s] /\ req'[s].id = req[s].id) \/ ListFits(s)'
      PROVE  ListInv'
  <2>1. \A s \in Slots : ListFits(s)'
    BY <1>0, <1>2, <1>3, ListsKept
  <2>2. ASSUME NEW b \in Banks, listed'[b] = "verified"  PROVE bank'[b].state # "pending"
    <3>1. bank[b].state # "pending"
      BY <1>2, <1>3, <2>2
    <3>2. bank'[b] # None
      BY <1>0, <2>2 DEF BankInv, PageFits
    <3> QED  BY <1>0, <1>3, <3>1, <3>2 DEF NoneNew
  <2> QED  BY <1>1, <2>1, <2>2 DEF ListInv
<1>4. ASSUME ~Even  PROVE ListInv'
  BY <1>1, <1>4 DEF ListInv
<1>5. CASE Confirm /\ Even
  <2>1. PICK b \in Banks, state \in {"pending", "verified"} :
          /\ bank[b] = None /\ bank'[b] # None
          /\ bank'[b].state = state
          /\ \A c \in Banks \ {b} : bank'[c] = bank[c]
          /\ DOMAIN setups' = DOMAIN setups
          /\ \A n \in DOMAIN setups : setups'[n].customer = setups[n].customer
    BY <1>0, <1>5, ConfirmAdds
  <2>2. UNCHANGED <<listed, job, req>>
    BY <1>5 DEF Confirm, vars
  <2>3. ~\E s \in Slots : job[s].step = "list" /\ job[s].held = None /\ job[s].pending # None
    BY <1>5 DEF Confirm, Slipped
  <2>4. ASSUME NEW s \in Slots  PROVE ListFits(s)'
    <3> SUFFICES ASSUME job[s].step = "list", job[s].pending # None, NEW c \in Banks,
                        bank'[c] # None, bank'[c].state = "pending", bank'[c].customer = req[s].id,
                        IF job[s].held = None THEN TRUE ELSE c \in job[s].held
                 PROVE  c \in job[s].pending
      BY <2>2 DEF ListFits
    <3>1. job[s].held # None /\ c \in job[s].held
      BY <2>3
    <3>2. bank[c] # None
      BY <1>0, <3>1 DEF SlotFits
    <3>3. c # b
      BY <2>1, <3>2
    <3> QED  BY <1>2, <1>5, <2>1, <3>1, <3>2, <3>3 DEF ListFits
  <2>5. \A c \in Banks : listed'[c] = "verified" => bank'[c].state # "pending"
    <3>1. listed[b] = "absent"
      BY <1>0, <2>1 DEF PageFits
    <3> QED  BY <1>2, <1>5, <2>1, <2>2, <3>1
  <2> QED  BY <1>1, <2>4, <2>5 DEF ListInv
<1>6. ASSUME Even, CustomerNext  PROVE ListInv'
  <2>0. listed' = listed /\ bank' = bank /\ setups' = setups /\ slip' = slip
    BY <1>6 DEF CustomerNext, walletVars, bankVars
  <2>1. CASE kind # "tenant"
    <3>1. \A s \in Slots : job'[s].step # "list"
      BY <1>0, <2>1 DEF JobInv, TenantSteps
    <3> QED  BY <1>0, <1>1, <1>2, <1>6, <2>0, <3>1 DEF ListInv, ListFits
  <2>2. CASE kind = "tenant"
    <3>1. \/ \E s \in Slots : (Verify(s) \/ CreateRemote(s) \/ Persist(s)) /\ job' = job
          \/ RemoteGoes /\ job' = job
          \/ \E s \in Slots : Stops(s) /\ Do(s, NoJob)
      BY <1>6, <2>2 DEF CustomerNext
    <3>2. CASE RemoteGoes /\ job' = job
      BY <1>3, <1>5, <1>6, <2>0, <3>2 DEF RemoteGoes
    <3>3. ASSUME NEW s \in Slots, Stops(s), Do(s, NoJob)  PROVE ListInv'
      <4>1. \A t \in Slots \ {s} : req'[t] = req[t]
        BY <3>3, StopsFacts
      <4>2. job'[s] = NoJob /\ \A t \in Slots \ {s} : job'[t] = job[t]
        BY <3>3, JobAt
      <4>3. ListFits(s)'
        BY <1>0, <4>2 DEF ListFits
      <4> QED  BY <1>3, <1>5, <1>6, <2>0, <4>1, <4>2, <4>3
    <3>4. ASSUME NEW s \in Slots, Verify(s) \/ CreateRemote(s) \/ Persist(s), job' = job
          PROVE  ListInv'
      <4>1. \E r : req' = [req EXCEPT ![s] = r]
        BY <3>4 DEF Verify, CreateRemote, Persist, Proceed, End
      <4>2. \A t \in Slots \ {s} : req'[t] = req[t]
        BY <4>1 DEF TypeOK
      <4>3. req[s].step # "ready"
        BY <3>4 DEF Verify, CreateRemote, Persist
      <4>4. ListFits(s)'
        BY <1>0, <3>4, <4>3 DEF SlotFits, ListFits
      <4> QED  BY <1>3, <1>5, <1>6, <2>0, <3>4, <4>2, <4>4
    <3> QED  BY <3>1, <3>2, <3>3, <3>4
  <2> QED  BY <2>1, <2>2
<1>7. ASSUME Even, NEW s \in Slots, AskBank(s)  PROVE ListInv'
  <2>1. \E why : Asks(s, why)
    BY <1>7 DEF AskBank
  <2>2. \E r : req[s] = Idle /\ req' = [req EXCEPT ![s] = r]
    BY <2>1 DEF Asks, Begin
  <2>3. req[s].step = "idle" /\ \A t \in Slots \ {s} : req'[t] = req[t]
    BY <2>2 DEF Idle, TypeOK
  <2>4. job[s].step # "list"
    BY <1>0, <2>3 DEF SlotFits, Stages
  <2>5. /\ job'[s].step = "list" => job'[s].pending = None
        /\ \A t \in Slots \ {s} : job'[t] = job[t]
    <3>1. CASE job' = job
      BY <2>4, <3>1
    <3> DEFINE list == [step |-> "list", held |-> None, pending |-> None]
    <3>2. CASE Do(s, list)
      <4>1. list.pending = None
        OBVIOUS
      <4> HIDE DEF list
      <4> QED  BY <3>2, <4>1, JobAt
    <3>3. ASSUME NEW b \in Banks, NEW why \in {"amounts", "remove"}, Do(s, [step |-> why, bank |-> b])
          PROVE  job'[s].step # "list" /\ \A t \in Slots \ {s} : job'[t] = job[t]
      BY <3>3, JobAt
    <3>4. \/ job' = job \/ Do(s, list)
          \/ \E b \in Banks, why \in {"amounts", "remove"} : Do(s, [step |-> why, bank |-> b])
      BY <1>7 DEF AskBank
    <3> QED  BY <3>1, <3>2, <3>3, <3>4
  <2>6. ListFits(s)'
    BY <2>5 DEF ListFits
  <2>7. listed' = listed
    BY <1>7 DEF AskBank
  <2> QED  BY <1>3, <1>5, <1>7, <2>3, <2>5, <2>6, <2>7
<1>8. ASSUME Even, NEW s \in Slots, CreateSetup(s)  PROVE ListInv'
  <2>1. job' = job /\ req[s].why = "connect" /\ req' = [req EXCEPT ![s] = Idle] /\ listed' = listed
    BY <1>8 DEF CreateSetup, Holds, End
  <2>2. \A t \in Slots \ {s} : req'[t] = req[t]
    BY <2>1 DEF TypeOK
  <2>3. ListFits(s)'
    BY <1>0, <2>1 DEF SlotFits, ListFits
  <2> QED  BY <1>3, <1>5, <1>8, <2>1, <2>2, <2>3
<1>9. ASSUME Even, NEW s \in Slots, ReadBanks(s)  PROVE ListInv'
  <2>1. /\ job[s].step = "list" /\ job[s].held = None
        /\ UNCHANGED <<req, listed, bank>>
    BY <1>0, <1>9 DEF ReadBanks, Holds, SlotFits, Stages, vars, bankVars
  <2>2. job[s] \in [step : {"list"}, held : (SUBSET Banks) \cup {None}, pending : (SUBSET Banks) \cup {None}]
    BY <1>0, <2>1, JobFacts
  <2> DEFINE found == {b \in Banks : /\ bank[b] # None
                                     /\ bank[b].customer = req[s].id
                                     /\ bank[b].state # "removed"}
             j == [job[s] EXCEPT !.held = found]
  <2>3. j.pending = job[s].pending
    BY <2>2
  <2>4. Do(s, j)
    BY <1>9 DEF ReadBanks
  <2> HIDE DEF j, found
  <2>5. job'[s].pending = job[s].pending /\ \A t \in Slots \ {s} : job'[t] = job[t]
    BY <2>3, <2>4, JobAt
  <2>6. job[s].pending # None =>
          \A b \in Banks : bank[b] # None /\ bank[b].state = "pending" /\ bank[b].customer = req[s].id
                           => b \in job[s].pending
    BY <1>2, <1>9, <2>1 DEF ListFits
  <2>7. ListFits(s)'
    BY <2>1, <2>5, <2>6 DEF ListFits
  <2> QED  BY <1>3, <1>5, <1>9, <2>1, <2>5, <2>7
<1>10. ASSUME Even, NEW s \in Slots, ReadSetups(s)  PROVE ListInv'
  <2>1. /\ job[s].step = "list" /\ req[s].step = "ready"
        /\ UNCHANGED <<req, listed, bank>>
    BY <1>0, <1>10 DEF ReadSetups, Holds, SlotFits, Stages, vars, bankVars
  <2>2. job[s] \in [step : {"list"}, held : (SUBSET Banks) \cup {None}, pending : (SUBSET Banks) \cup {None}]
    BY <1>0, <2>1, JobFacts
  <2>3. req[s].id \in Objs
    BY <2>1, RequestFacts DEF TypeOK
  <2> DEFINE read == {setups[n].bank : n \in {k \in Recent(req[s].id) : Waiting(k)}}
             j == [job[s] EXCEPT !.pending = read]
  <2>4. j.pending = read
    BY <2>2
  <2>5. Do(s, j)
    BY <1>10 DEF ReadSetups
  <2>6. \A b \in Banks : bank[b] # None /\ bank[b].state = "pending" /\ bank[b].customer = req[s].id
                         => b \in read
    <3> SUFFICES ASSUME NEW b \in Banks, bank[b] # None, bank[b].state = "pending",
                        bank[b].customer = req[s].id
                 PROVE  b \in read
      OBVIOUS
    <3>1. PICK n \in DOMAIN setups : setups[n].bank = b /\ setups[n].customer = bank[b].customer
      BY <1>0 DEF PageFits
    <3>2. n \in SetupsOf(req[s].id)
      BY <3>1 DEF SetupsOf
    <3>3. n \in Recent(req[s].id)
      BY <1>2, <1>10, <2>3, <3>2, AllAreRecent
    <3>4. Waiting(n)
      BY <3>1, WalletAssumption DEF Waiting
    <3> QED  BY <3>1, <3>3, <3>4
  <2> HIDE DEF j, read
  <2>7. job'[s].pending = read /\ \A t \in Slots \ {s} : job'[t] = job[t]
    BY <2>4, <2>5, JobAt
  <2>8. ListFits(s)'
    BY <2>1, <2>6, <2>7 DEF ListFits
  <2> QED  BY <1>3, <1>5, <1>10, <2>1, <2>7, <2>8
<1>11. ASSUME Even, NEW s \in Slots, List(s)  PROVE ListInv'
  <2>1. /\ job[s].step = "list" /\ job[s].held # None /\ job[s].pending # None
        /\ listed' = [b \in Banks |-> IF b \notin job[s].held THEN "absent"
                                      ELSE IF b \in job[s].pending THEN "pending" ELSE "verified"]
        /\ Do(s, NoJob) /\ req' = [req EXCEPT ![s] = Idle]
    BY <1>11 DEF List, End
  <2>2. \A b \in Banks : listed'[b] = "verified" => bank[b].state # "pending"
    <3> SUFFICES ASSUME NEW b \in Banks, b \in job[s].held, b \notin job[s].pending
                 PROVE  bank[b].state # "pending"
      BY <2>1
    <3>1. bank[b] # None /\ bank[b].customer = req[s].id
      BY <1>0, <2>1 DEF SlotFits
    <3> QED  BY <1>2, <1>11, <2>1, <3>1 DEF ListFits
  <2>3. /\ job'[s] = NoJob /\ \A t \in Slots \ {s} : job'[t] = job[t]
        /\ \A t \in Slots \ {s} : req'[t] = req[t]
    BY <2>1, JobAt DEF TypeOK
  <2>4. ListFits(s)'
    BY <1>0, <2>3 DEF ListFits
  <2> QED  BY <1>3, <1>5, <1>11, <2>2, <2>3, <2>4
<1>12. ASSUME Even, NEW s \in Slots, FindSetup(s) \/ VerifyAmounts(s) \/ FindBank(s) \/ Detach(s)
       PROVE  ListInv'
  <2>1. /\ job[s].step \in {"amounts", "remove", "verify", "detach"}
        /\ \E r : req' = [req EXCEPT ![s] = r] \/ req' = req
        /\ listed' = listed
    BY <1>12 DEF FindSetup, VerifyAmounts, FindBank, Detach, End, bankVars
  <2>2. \A t \in Slots \ {s} : req'[t] = req[t]
    BY <2>1 DEF TypeOK
  <2>3. job[s] \in [step : {"amounts", "remove", "verify", "detach"}, bank : Banks]
    BY <1>0, <2>1, JobFacts
  <2> DEFINE verify == [job[s] EXCEPT !.step = "verify"]
             detach == [job[s] EXCEPT !.step = "detach"]
  <2>4. verify.step = "verify" /\ detach.step = "detach"
    BY <2>3
  <2>5. \E j \in {NoJob, verify, detach} : Do(s, j)
    BY <1>12 DEF FindSetup, VerifyAmounts, FindBank, Detach
  <2> HIDE DEF verify, detach
  <2>6. job'[s].step # "list" /\ \A t \in Slots \ {s} : job'[t] = job[t]
    BY <1>0, <2>4, <2>5, JobAt
  <2>7. ListFits(s)'
    BY <2>6 DEF ListFits
  <2> QED  BY <1>3, <1>5, <1>12, <2>1, <2>2, <2>6, <2>7
<1>13. ASSUME Even, OpenDialog \/ CloseDialog \/ HearConfirm \/ VerifyElsewhere \/ UNCHANGED allVars
       PROVE  ListInv'
  <2>1. UNCHANGED <<req, job, listed>>
    BY <1>13 DEF OpenDialog, CloseDialog, HearConfirm, VerifyElsewhere, allVars, walletVars,
                 bankVars, vars
  <2> QED  BY <1>3, <1>5, <1>13, <2>1
<1>14. ASSUME Even, CardNext \/ UnitsNext  PROVE ListInv'
  <2>1. UNCHANGED <<req, listed, bank>>
    BY <1>14 DEF CardNext, Subscribe, Unsubscribe, Learn, OpenPanel, ClosePanel, Save, ReadRow,
                 SetCustomer, SetSubscription, Saved, SaveFails, bankAndUnits, bankVars, vars,
                 UnitsNext, ChangeUnits, Count, FindItem, SetQuantity, SyncFails, Archive, bankAndCard
  <2>2. kind # "tenant"
    <3>1. CardNext => kind = "card"
      BY DEF CardNext, Subscribe, Unsubscribe, Learn, OpenPanel, ClosePanel, Save, ReadRow,
             SetCustomer, SetSubscription, Saved, SaveFails, JobInv, CardSteps
    <3>2. UnitsNext => kind = "units"
      BY DEF UnitsNext, ChangeUnits, Count, FindItem, SetQuantity, SyncFails, Archive, JobInv, UnitSteps
    <3> QED  BY <1>14, <3>1, <3>2
  <2>3. \A s \in Slots : job'[s].step # "list"
    BY <1>0, <2>2 DEF JobInv, TenantSteps
  <2>4. \A s \in Slots : ListFits(s)'
    BY <2>3 DEF ListFits
  <2> QED  BY <1>3, <1>5, <1>14, <2>1, <2>4
<1>15. CASE Even /\ TenantNext
  BY <1>5, <1>7, <1>8, <1>9, <1>10, <1>11, <1>12, <1>13, <1>15 DEF TenantNext
<1> QED  BY <1>4, <1>6, <1>13, <1>14, <1>15 DEF WalletNext

-----------------------------------------------------------------------------
(* Together.                                                               *)

CoreInv == TypeOK /\ EventsInv /\ TopicInv /\ IdsInv /\ KeptInv /\ PlanInv /\ AccountInv

WalletInv == WalletTypeOK /\ JobInv /\ BankInv /\ ListInv /\ CardInv /\ UnitInv

IInv == CoreInv /\ WalletInv

LEMMA CoreBegins ==
  ASSUME Init
  PROVE  CoreInv
<1>1. TypeOK
  <2>1. <<>> \in Seq(Event) /\ Len(<<>>) = 0
    BY EmptySeq
  <2> QED  BY <2>1, BoundAssumption DEF Init, TypeOK, Row, Request, RemoteStatus
<1>2. /\ \A s \in Slots : req[s].step = "idle"
      /\ DOMAIN events = {} /\ Billed = {} /\ Paying = {} /\ open = {} /\ ready = {}
      /\ row.id = None /\ row.status = None /\ row.sub = None /\ row.onboarded = FALSE
      /\ \A o \in Objs : remote[o] = "unused"
      /\ \A x \in Subs : sub[x] = None
  BY DEF Init, Idle, Billed, Paying
<1>3. EventsInv /\ TopicInv /\ IdsInv
  BY <1>2 DEF EventsInv, Held, TopicInv, Fits, IdsInv, IdInv, Fresh, Named
<1>4. KeptInv
  BY <1>2 DEF KeptInv, RemoteIsKept, Exists
<1>5. PlanInv
  <2>1. row.status # "active"
    BY <1>2, NoneAssumption DEF SubStatus
  <2> QED  BY <1>2, <2>1 DEF PlanInv, Standing, OnePlan, Asked, Asking, Stages, Tells, Known, Right, Settling
<1>6. AccountInv
  BY <1>2 DEF AccountInv, TellsOf, ReadyKnown
<1> QED  BY <1>1, <1>3, <1>4, <1>5, <1>6 DEF CoreInv

LEMMA WalletBegins ==
  ASSUME WalletInit
  PROVE  WalletInv
<1>1. WalletTypeOK
  <2> DEFINE Setup == [customer : Objs, bank : Banks \cup {None}]
  <2>1. <<>> \in Seq(Setup) /\ Len(<<>>) = 0
    BY EmptySeq
  <2> HIDE DEF Setup
  <2>2. setups \in Seq(Setup) /\ Len(setups) <= MaxSetups
    BY <2>1, WalletAssumption DEF WalletInit
  <2>3. setups \in Seq([customer : Objs, bank : Banks \cup {None}])
    BY <2>2 DEF Setup
  <2>4. NoJob \in Job
    BY DEF Job
  <2>5. job \in [Slots -> Job]
    BY <2>4 DEF WalletInit
  <2>6. units \in [has : 0 .. MaxUnits, billed : 0 .. MaxUnits, item : BOOLEAN]
    BY WalletAssumption DEF WalletInit
  <2>7. /\ bank \in [Banks -> Account \cup {None}]
        /\ listed \in [Banks -> {"absent", "pending", "verified"}]
        /\ dialog \in [open : BOOLEAN, step : {"idle", "loading", "form", "saving", "done", "deposits"}]
        /\ heard \in SUBSET {"pending", "verified"} /\ slip \in SUBSET Slips
        /\ card \in [customer : Cards \cup {None}, own : Cards \cup {None}, runs : BOOLEAN,
                     known : BOOLEAN, panel : {"shut", "form", "saving"}, said : Cards \cup {None}]
    BY DEF WalletInit
  <2> QED  BY <2>2, <2>3, <2>5, <2>6, <2>7 DEF WalletTypeOK
<1>2. /\ \A s \in Slots : job[s] = NoJob /\ job[s].step = "none" /\ req[s].step = "idle"
      /\ setups = <<>> /\ DOMAIN setups = {} /\ dialog.step = "idle" /\ card.panel = "shut"
      /\ card.said = None /\ card.runs = FALSE
      /\ units.has = 0 /\ units.billed = 0 /\ units.item = FALSE
      /\ \A b \in Banks : bank[b] = None /\ listed[b] = "absent"
  BY DEF WalletInit, Init, Idle, NoJob
<1>3. JobInv
  BY <1>2 DEF JobInv, CardSteps, UnitSteps, TenantSteps
<1>4. BankInv
  BY <1>2 DEF BankInv, PageFits, SlotFits, Stages
<1>5. ListInv
  <2>1. \A c \in Objs : SetupsOf(c) = {}
    BY <1>2 DEF SetupsOf
  <2>2. \A c \in Objs : Cardinality(SetupsOf(c)) <= Window
    BY <2>1, FS_EmptySet, WalletAssumption
  <2> QED  BY <1>2, <2>2 DEF ListInv, ListFits
<1>6. CardInv /\ UnitInv
  BY <1>2 DEF CardInv, UnitInv, CardSteps, UnitSteps
<1> QED  BY <1>1, <1>3, <1>4, <1>5, <1>6 DEF WalletInv

LEMMA Together ==
  ASSUME IInv, WalletNext \/ UNCHANGED allVars
  PROVE  IInv'
<1>1. TypeOK /\ EventsInv /\ TopicInv /\ IdsInv /\ KeptInv /\ PlanInv /\ AccountInv
  BY DEF IInv, CoreInv
<1>2. WalletTypeOK /\ JobInv /\ BankInv /\ ListInv /\ CardInv /\ UnitInv
  BY DEF IInv, WalletInv
<1>3. CoreNext
  BY <1>1, <1>2, WalletIsCore
<1>4. CoreInv'
  BY <1>1, <1>3, CoreType, CoreEvents, CoreTopics, CoreIds, CoreKept, CorePlan, CoreAccount
     DEF CoreInv
<1>5. WalletInv'
  BY <1>1, <1>2, WalletTypes, JobsFit, BankKept, ListKept, CardKept, UnitKept DEF WalletInv
<1> QED  BY <1>4, <1>5 DEF IInv

LEMMA Inductive == WalletSpec => []IInv
<1>1. WalletInit => IInv
  BY CoreBegins, WalletBegins DEF IInv, WalletInit
<1>2. IInv /\ [WalletNext]_allVars => IInv'
  BY Together
<1> QED  BY <1>1, <1>2, PTL DEF WalletSpec

(* The types of Integrations and Wallets, whatever is interleaved: every   *)
(* handler finds the object, the event and the answer it works on.         *)
THEOREM TypesHold == WalletSpec => [](TypeOK /\ WalletTypeOK)
<1>1. IInv => TypeOK /\ WalletTypeOK
  BY DEF IInv, CoreInv, WalletInv
<1> QED  BY <1>1, Inductive, PTL

(* What exists at a service is in the row or in the hands of a request     *)
(* that will write it, whatever order getOrCreate, deprovision and the     *)
(* webhooks come in.                                                       *)
THEOREM NothingForgotten == WalletSpec => []RemoteIsKept
<1>1. IInv => RemoteIsKept
  BY DEF IInv, CoreInv, KeptInv
<1> QED  BY <1>1, Inductive, PTL

(* Once the billing webhooks are in, the plan in the row is the one Stripe *)
(* bills, and an account's readiness in the row is Stripe's.               *)
THEOREM RowAgrees == WalletSpec => []RowIsSettled
<1>1. IInv => RowIsSettled
  <2> SUFFICES ASSUME IInv, Quiet, doubt \subseteq {"cut"}
               PROVE  /\ row.status = "active" <=> Paying # {}
                      /\ row.id # None /\ Exists(row.id) => (row.onboarded <=> row.id \in ready)
    BY DEF RowIsSettled
  <2>1. Orderly /\ PlanInv /\ AccountInv /\ events = <<>> /\ \A s \in Slots : req[s].step = "idle"
    BY DEF IInv, CoreInv, Orderly, Quiet, Idle
  <2>2. NoChange(events) /\ \A o \in Objs : Silent(events, o)
    BY <2>1 DEF NoChange, Silent
  <2>3. row.status = "active" <=> Paying # {}
    BY <2>1, <2>2 DEF PlanInv, Known, Right
  <2>4. row.id # None /\ Exists(row.id) => (row.onboarded <=> row.id \in ready)
    <3>1. Silent(events, row.id)
      BY <2>1 DEF Silent
    <3> QED  BY <2>1, <3>1 DEF AccountInv, ReadyKnown
  <2> QED  BY <2>3, <2>4
<1> QED  BY <1>1, Inductive, PTL

(* Checkout never leaves a landlord with two subscriptions.                *)
THEOREM BilledOnce == WalletSpec => []OneSubscription
<1>1. IInv => OneSubscription
  BY DEF IInv, CoreInv, PlanInv, Orderly, OnePlan, OneSubscription
<1> QED  BY <1>1, Inductive, PTL

(* The page never calls an account verified whose micro-deposits are still *)
(* awaited, but for the two slips.                                         *)
THEOREM PageTellsTheTruth == WalletSpec => []VerifiedIsTrue
<1>1. IInv => VerifiedIsTrue
  BY DEF IInv, WalletInv, ListInv, VerifiedIsTrue
<1> QED  BY <1>1, Inductive, PTL

(* The card the page last said was saved is the one that is charged.       *)
THEOREM SavedIsCharged == WalletSpec => []CardToldIsCharged
<1>1. IInv => CardToldIsCharged
  <2>1. \A s \in Slots : job[s] = NoJob => job[s].step \notin CardSteps
    BY DEF NoJob, CardSteps
  <2> QED  BY <2>1 DEF IInv, WalletInv, CardInv, CardToldIsCharged
<1> QED  BY <1>1, Inductive, PTL

(* Stripe bills the units there are once every sync is over.               *)
THEOREM QuantityIsRight == WalletSpec => []UnitsAreBilled
<1>1. IInv => UnitsAreBilled
  <2>1. \A s \in Slots : job[s] = NoJob => job[s].step \notin UnitSteps
    BY DEF NoJob, UnitSteps
  <2> QED  BY <2>1 DEF IInv, WalletInv, UnitInv, UnitsAreBilled
<1> QED  BY <1>1, Inductive, PTL
===============================================================================
