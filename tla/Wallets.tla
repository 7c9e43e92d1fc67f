------------------------------- MODULE Wallets -------------------------------
(***************************************************************************)
(* What Stripe customers are for.  Topic "tenant": the bank accounts under *)
(* a tenant's customer, which his requests look up or create as a          *)
(* landlord's do, their set-ups, the list on his profile page and the      *)
(* dialog that connects one.  Topic "card": the card a landlord's          *)
(* subscription is charged to and the panel that saves another.  Topic     *)
(* "units": the quantity of the commercial item of his subscription, set   *)
(* beside the units he adds and removes.  Each call to Stripe is a step.   *)
(*                                                                         *)
(* Left out: the list an administrator sees, amounts other than right or   *)
(* wrong, the return from a bank that redirects, and cancelling, keeping   *)
(* and the portal, which are one call each.                                *)
(***************************************************************************)
EXTENDS Integrations

CONSTANTS
  Banks,      \* bank accounts
  Cards,      \* a landlord's cards
  MaxSetups,  \* bound: set-ups of bank accounts
  Window,     \* the newest set-ups that are looked at: 20 in the code
  MaxUnits,   \* bound: commercial units
  MaxSlips    \* bound: kinds of slip in one behaviour, with the kinds of doubt

ASSUME WalletAssumption ==
  /\ None \notin Banks \cup Cards \cup Slots
  /\ \A held \in SUBSET Banks : held # None
  /\ MaxSetups \in Nat /\ Window \in Nat /\ MaxUnits \in Nat /\ MaxSlips \in Nat

VARIABLES
  bank,    \* the accounts at Stripe, by bank account
  setups,  \* set-ups at Stripe, oldest first
  listed,  \* what the profile page says of an account
  dialog,  \* ConnectBankDialog
  heard,   \* answers of Stripe to the dialog's form, on their way
  card,    \* the cards at Stripe, and the panel
  units,   \* commercial units, and the quantity Stripe bills
  job,     \* what each slot has found out or is to do
  slip     \* history: what may have set page and Stripe apart

bankVars   == <<bank, setups, listed, dialog, heard>>
walletVars == <<bankVars, card, units, job, slip>>
allVars    == <<vars, walletVars>>

(* The account of a bank at Stripe.                                        *)
Account == [customer : Objs, state : {"pending", "verified", "removed"}]

ASSUME NoneIsNoAccount == None \notin Account

(* "straddle": an account was connected between the two reads of a list;   *)
(* "window": more set-ups since than are looked at; "beside": a card was   *)
(* saved or a quantity set beside another; "cut": a save or a sync failed  *)
(* after it had begun; "changed": the subscription began or ended under a  *)
(* save, or before the row knew; "employee", "archive": units changed by   *)
(* somebody else or with their property.                                   *)
Slips == {"straddle", "window", "beside", "changed", "cut", "employee", "archive"}

NoJob == [step |-> "none"]
Job ==
  {NoJob} \cup [step : {"list"}, held : (SUBSET Banks) \cup {None}, pending : (SUBSET Banks) \cup {None}]
          \cup [step : {"amounts", "remove", "verify", "detach"}, bank : Banks]
          \cup [step : {"row", "customer", "answer"}, card : Cards, subscribed : BOOLEAN]
          \cup [step : {"subscription"}, card : Cards, subscribed : {TRUE}]
          \cup [step : {"count"}] \cup [step : {"find"}, quantity : 0 .. MaxUnits]
          \cup [step : {"write"}, quantity : 0 .. MaxUnits, item : BOOLEAN]

WalletTypeOK ==
  /\ bank   \in [Banks -> Account \cup {None}]
  /\ setups \in Seq([customer : Objs, bank : Banks \cup {None}]) /\ Len(setups) <= MaxSetups
  /\ listed \in [Banks -> {"absent", "pending", "verified"}]
  /\ dialog \in [open : BOOLEAN, step : {"idle", "loading", "form", "saving", "done", "deposits"}]
  /\ heard  \in SUBSET {"pending", "verified"}
  /\ card   \in [customer : Cards \cup {None}, own : Cards \cup {None}, runs : BOOLEAN,
                 known : BOOLEAN, panel : {"shut", "form", "saving"}, said : Cards \cup {None}]
  /\ units  \in [has : 0 .. MaxUnits, billed : 0 .. MaxUnits, item : BOOLEAN]
  /\ job    \in [Slots -> Job]
  /\ slip   \in SUBSET Slips

WalletInit ==
  /\ Init
  /\ bank   = [b \in Banks |-> None]
  /\ setups = <<>>
  /\ listed = [b \in Banks |-> "absent"]
  /\ dialog = [open |-> FALSE, step |-> "idle"]
  /\ heard  = {}
  /\ card   = [customer |-> None, own |-> None, runs |-> FALSE, known |-> FALSE,
               panel |-> "shut", said |-> None]
  /\ units  = [has |-> 0, billed |-> 0, item |-> FALSE]
  /\ job    = [s \in Slots |-> NoJob]
  /\ slip   = {}

Slipped(why) == slip' = slip \cup why /\ Cardinality(slip') + Cardinality(doubt) <= MaxSlips
Do(s, j)     == job' = [job EXCEPT ![s] = j]
Others(s)    == \E r \in Slots \ {s} : job[r] # NoJob

-----------------------------------------------------------------------------
(* Topic "tenant".                                                         *)

Connecting == \E s \in Slots : req[s] # Idle /\ req[s].why = "connect"

(* A request of the tenant: first his customer, as for a landlord's.  The  *)
(* page has one list on its way: a newer one takes the place of the older, *)
(* which then stops.                                                       *)
AskBank(s) ==
  /\ kind = "tenant"
  /\ \/ /\ dialog.open /\ dialog.step = "idle" /\ ~Connecting
        /\ dialog' = [dialog EXCEPT !.step = "loading"]
        /\ Asks(s, "connect")
        /\ UNCHANGED job
     \/ /\ \A r \in Slots : job[r].step # "list"
        /\ Asks(s, "list")
        /\ Do(s, [step |-> "list", held |-> None, pending |-> None])
        /\ UNCHANGED dialog
     \/ \E b \in Banks, why \in {"amounts", "remove"} :
          /\ listed[b] \in (IF why = "amounts" THEN {"pending"} ELSE {"pending", "verified"})
          /\ Asks(s, why)
          /\ Do(s, [step |-> why, bank |-> b])
          /\ UNCHANGED dialog
  /\ UNCHANGED <<bank, setups, listed, heard, card, units, slip>>

(* The customer is there; the next call names it.                          *)
Holds(s, why) == kind = "tenant" /\ req[s].step = "ready" /\ req[s].why = why /\ Exists(req[s].id)

Newest == setups[Len(setups)]

SetupsOf(c) == {n \in DOMAIN setups : setups[n].customer = c}

Waiting(n) == setups[n].bank # None /\ bank[setups[n].bank].state = "pending"

(* Mutation: only the newest set-up is looked at.                          *)
RecentOne(c) == {n \in SetupsOf(c) : \A k \in SetupsOf(c) : k <= n}

(* setupIntents.list, limited to the newest.                               *)
Recent(c) == {n \in SetupsOf(c) : Cardinality({k \in SetupsOf(c) : k > n}) < Window}

(* The set-up and the answer that opens the form.  The older pending ones  *)
(* may be the last in the window.                                          *)
CreateSetup(s) ==
  /\ Holds(s, "connect")
  /\ Len(setups) < MaxSetups
  /\ setups' = Append(setups, [customer |-> req[s].id, bank |-> None])
  /\ dialog' = [dialog EXCEPT !.step = "form"]
  /\ Slipped(IF Cardinality(SetupsOf(req[s].id)) >= Window THEN {"window"} ELSE {})
  /\ End(s)
  /\ UNCHANGED <<kind, row, service, events, doubt>>
  /\ UNCHANGED <<bank, listed, heard, card, units, job>>

(* The two reads of a list, side by side.                                  *)
ReadBanks(s) ==
  /\ Holds(s, "list") /\ job[s].held = None
  /\ Do(s, [job[s] EXCEPT !.held = {b \in Banks : /\ bank[b] # None
                                                  /\ bank[b].customer = req[s].id
                                                  /\ bank[b].state # "removed"}])
  /\ UNCHANGED <<vars, bankVars, card, units, slip>>

ReadSetups(s) ==
  /\ Holds(s, "list") /\ job[s].pending = None
  /\ Do(s, [job[s] EXCEPT !.pending = {setups[n].bank : n \in {k \in Recent(req[s].id) : Waiting(k)}}])
  /\ UNCHANGED <<vars, bankVars, card, units, slip>>

List(s) ==
  /\ kind = "tenant" /\ job[s].step = "list" /\ job[s].held # None /\ job[s].pending # None
  /\ listed' = [b \in Banks |-> IF b \notin job[s].held THEN "absent"
                                ELSE IF b \in job[s].pending THEN "pending" ELSE "verified"]
  /\ End(s)
  /\ Do(s, NoJob)
  /\ UNCHANGED <<kind, row, service, events, doubt>>
  /\ UNCHANGED <<bank, setups, dialog, heard, card, units, slip>>

(* verifyPaymentMethodMicrodeposits: the set-up is looked for in the window*)
(* and the amounts are sent to Stripe, which takes them or not.            *)
FindSetup(s) ==
  /\ Holds(s, "amounts") /\ job[s].step = "amounts"
  /\ IF \E n \in Recent(req[s].id) : setups[n].bank = job[s].bank /\ Waiting(n)
     THEN Do(s, [job[s] EXCEPT !.step = "verify"]) /\ UNCHANGED req
     ELSE Do(s, NoJob) /\ End(s)
  /\ UNCHANGED <<kind, row, service, events, doubt, bankVars, card, units, slip>>

VerifyAmounts(s) ==
  /\ kind = "tenant" /\ job[s].step = "verify"
  /\ \/ bank' = [bank EXCEPT ![job[s].bank].state = IF @ = "pending" THEN "verified" ELSE @]
     \/ UNCHANGED bank
  /\ End(s)
  /\ Do(s, NoJob)
  /\ UNCHANGED <<kind, row, service, events, doubt>>
  /\ UNCHANGED <<setups, listed, dialog, heard, card, units, slip>>

(* removePaymentMethod: only an account of this customer.                  *)
FindBank(s) ==
  /\ Holds(s, "remove") /\ job[s].step = "remove"
  /\ IF bank[job[s].bank].customer = req[s].id /\ bank[job[s].bank].state # "removed"
     THEN Do(s, [job[s] EXCEPT !.step = "detach"]) /\ UNCHANGED req
     ELSE Do(s, NoJob) /\ End(s)
  /\ UNCHANGED <<kind, row, service, events, doubt, bankVars, card, units, slip>>

Detach(s) ==
  /\ kind = "tenant" /\ job[s].step = "detach"
  /\ bank' = [bank EXCEPT ![job[s].bank].state = "removed"]
  /\ End(s)
  /\ Do(s, NoJob)
  /\ UNCHANGED <<kind, row, service, events, doubt>>
  /\ UNCHANGED <<setups, listed, dialog, heard, card, units, slip>>

(* The dialog is not closed while it waits for its set-up; closed, it      *)
(* begins anew, unless an answer still comes.                              *)
OpenDialog ==
  /\ kind = "tenant" /\ ~dialog.open
  /\ dialog' = [dialog EXCEPT !.open = TRUE]
  /\ UNCHANGED <<vars, bank, setups, listed, heard, card, units, job, slip>>

CloseDialog ==
  /\ dialog.open /\ dialog.step # "loading"
  /\ dialog' = [dialog EXCEPT !.open = FALSE, !.step = "idle"]
  /\ UNCHANGED <<vars, bank, setups, listed, heard, card, units, job, slip>>

(* The tenant enters an account in the form, which is the newest set-up's: *)
(* verified at once, or by micro-deposits.                                 *)
Confirm ==
  /\ dialog.step = "form" /\ dialog.open
  /\ Exists(Newest.customer)
  /\ \E b \in Banks, state \in {"pending", "verified"} :
       /\ bank[b] = None
       /\ bank'   = [bank EXCEPT ![b] = [customer |-> Newest.customer, state |-> state]]
       /\ setups' = [setups EXCEPT ![Len(setups)].bank = b]
       /\ heard'  = heard \cup {state}
  /\ dialog' = [dialog EXCEPT !.step = "saving"]
  /\ Slipped(IF \E s \in Slots : job[s].step = "list" /\ job[s].held = None /\ job[s].pending # None
             THEN {"straddle"} ELSE {})
  /\ UNCHANGED <<vars, listed, card, units, job>>

(* The answer is heard by the dialog whatever it has come to show.         *)
HearConfirm ==
  \E answer \in heard :
    /\ heard'  = heard \ {answer}
    /\ dialog' = [dialog EXCEPT !.step = IF answer = "pending" THEN "deposits" ELSE "done"]
    /\ UNCHANGED <<vars, bank, setups, listed, card, units, job, slip>>

(* On Stripe's own page.                                                   *)
VerifyElsewhere ==
  \E b \in Banks :
    /\ bank[b] # None /\ bank[b].state = "pending"
    /\ bank' = [bank EXCEPT ![b].state = "verified"]
    /\ UNCHANGED <<vars, setups, listed, dialog, heard, card, units, job, slip>>

TenantNext ==
  \/ \E s \in Slots : AskBank(s) \/ CreateSetup(s) \/ ReadBanks(s) \/ ReadSetups(s) \/ List(s)
  \/ \E s \in Slots : FindSetup(s) \/ VerifyAmounts(s) \/ FindBank(s) \/ Detach(s)
  \/ OpenDialog \/ CloseDialog \/ Confirm \/ HearConfirm \/ VerifyElsewhere

-----------------------------------------------------------------------------
(* Topic "card".                                                           *)

bankAndUnits == <<vars, bankVars, units>>

Changed == IF \E s \in Slots : job[s] # NoJob THEN {"changed"} ELSE {}

(* Checkout gives the subscription the card it was paid with; the row      *)
(* learns of it, and of its end, by an event.                              *)
Subscribe ==
  /\ kind = "card" /\ ~card.runs
  /\ \E c \in Cards : card' = [card EXCEPT !.runs = TRUE, !.own = c, !.said = None]
  /\ Slipped(Changed)
  /\ UNCHANGED <<bankAndUnits, job>>

Unsubscribe ==
  /\ kind = "card" /\ card.runs
  /\ card' = [card EXCEPT !.runs = FALSE, !.own = None, !.said = None]
  /\ Slipped(Changed)
  /\ UNCHANGED <<bankAndUnits, job>>

Learn ==
  /\ kind = "card" /\ card.known # card.runs
  /\ card' = [card EXCEPT !.known = card.runs]
  /\ UNCHANGED <<bankAndUnits, job, slip>>

OpenPanel ==
  /\ kind = "card" /\ card.known /\ card.panel = "shut"
  /\ card' = [card EXCEPT !.panel = "form"]
  /\ UNCHANGED <<bankAndUnits, job, slip>>

(* Also while it saves.                                                    *)
ClosePanel ==
  /\ card.panel # "shut"
  /\ card' = [card EXCEPT !.panel = "shut"]
  /\ UNCHANGED <<bankAndUnits, job, slip>>

(* setBillingPaymentMethod, once Stripe has taken the card.                *)
Save(s) ==
  /\ card.panel = "form" /\ job[s] = NoJob
  /\ card' = [card EXCEPT !.panel = "saving"]
  /\ \E c \in Cards : Do(s, [step |-> "row", card |-> c, subscribed |-> FALSE])
  /\ Slipped(IF Others(s) THEN {"beside"} ELSE {})
  /\ UNCHANGED bankAndUnits

ReadRow(s) ==
  /\ job[s].step = "row"
  /\ Do(s, [job[s] EXCEPT !.step = "customer", !.subscribed = card.known])
  /\ Slipped(IF card.known # card.runs THEN {"changed"} ELSE {})
  /\ UNCHANGED <<bankAndUnits, card>>

(* Mutation: the card of the subscription is left as it is.                *)
SetCustomerOnly(s) ==
  /\ job[s].step = "customer"
  /\ card' = [card EXCEPT !.customer = job[s].card]
  /\ Do(s, [job[s] EXCEPT !.step = "answer"])
  /\ UNCHANGED <<bankAndUnits, slip>>

SetCustomer(s) ==
  /\ job[s].step = "customer"
  /\ card' = [card EXCEPT !.customer = job[s].card]
  /\ Do(s, [job[s] EXCEPT !.step = IF job[s].subscribed THEN "subscription" ELSE "answer"])
  /\ UNCHANGED <<bankAndUnits, slip>>

SetSubscription(s) ==
  /\ job[s].step = "subscription"
  /\ card.runs
  /\ card' = [card EXCEPT !.own = job[s].card]
  /\ Do(s, [job[s] EXCEPT !.step = "answer"])
  /\ UNCHANGED <<bankAndUnits, slip>>

(* A success closes the panel whichever form it shows.                     *)
Saved(s) ==
  /\ job[s].step = "answer"
  /\ card' = [card EXCEPT !.panel = "shut", !.said = job[s].card]
  /\ Do(s, NoJob)
  /\ UNCHANGED <<bankAndUnits, slip>>

(* A call fails, for one to a subscription that has ended, or the answer is*)
(* lost: the form says so, and nothing is undone.                          *)
SaveFails(s) ==
  /\ job[s].step \in {"row", "customer", "subscription", "answer"}
  /\ card' = [card EXCEPT !.panel = IF @ = "saving" THEN "form" ELSE @, !.said = None]
  /\ Do(s, NoJob)
  /\ UNCHANGED <<bankAndUnits, slip>>

CardNext ==
  \/ Subscribe \/ Unsubscribe \/ Learn \/ OpenPanel \/ ClosePanel
  \/ \E s \in Slots : Save(s) \/ ReadRow(s) \/ SetCustomer(s)
  \/ \E s \in Slots : SetSubscription(s) \/ Saved(s) \/ SaveFails(s)

-----------------------------------------------------------------------------
(* Topic "units".                                                          *)

bankAndCard == <<vars, bankVars, card>>

(* A unit is added or removed and the quantity set later, by nobody waited *)
(* for; for an employee his own plan is looked up, and he has none.        *)
ChangeUnits(s) ==
  /\ kind = "units"
  /\ job[s] = NoJob
  /\ \E n \in {units.has - 1, units.has + 1} \cap 0 .. MaxUnits :
       units' = [units EXCEPT !.has = n]
  /\ \/ Do(s, [step |-> "count"]) /\ Slipped(IF Others(s) THEN {"beside"} ELSE {})
     \/ UNCHANGED job /\ Slipped({"employee"})
  /\ UNCHANGED bankAndCard

(* The property is archived with its units, or becomes another type.       *)
Archive ==
  /\ kind = "units"
  /\ \E n \in 0 .. MaxUnits : n # units.has /\ units' = [units EXCEPT !.has = n]
  /\ Slipped({"archive"})
  /\ UNCHANGED <<bankAndCard, job>>

(* syncCommercialUnitQuantity.                                             *)
Count(s) ==
  /\ job[s].step = "count"
  /\ Do(s, [step |-> "find", quantity |-> units.has])
  /\ UNCHANGED <<bankAndCard, units, slip>>

FindItem(s) ==
  /\ job[s].step = "find"
  /\ Do(s, [step |-> "write", quantity |-> job[s].quantity, item |-> units.item])
  /\ UNCHANGED <<bankAndCard, units, slip>>

(* Mutation: no units, no call.                                            *)
WritesSome(j) == j.quantity > 0

(* An item is created for some units only, and updated for none as well.   *)
Writes(j) == j.item \/ j.quantity > 0

SetQuantity(s) ==
  /\ job[s].step = "write"
  /\ units' = IF Writes(job[s]) THEN [units EXCEPT !.billed = job[s].quantity, !.item = TRUE]
                                ELSE units
  /\ Do(s, NoJob)
  /\ UNCHANGED <<bankAndCard, slip>>

(* A call fails, which is logged.                                          *)
SyncFails(s) ==
  /\ job[s].step \in {"count", "find", "write"}
  /\ Slipped({"cut"})
  /\ Do(s, NoJob)
  /\ UNCHANGED <<bankAndCard, units>>

UnitsNext ==
  \/ \E s \in Slots : ChangeUnits(s) \/ Count(s) \/ FindItem(s) \/ SetQuantity(s) \/ SyncFails(s)
  \/ Archive

-----------------------------------------------------------------------------
(* The dialog hears that its request failed.                               *)
SetupFails(s) ==
  dialog' = IF req[s].why = "connect" THEN [dialog EXCEPT !.step = "idle"] ELSE dialog

(* A request about a customer goes on, or stops.                           *)
CustomerNext ==
  \/ Next /\ kind # "tenant" /\ UNCHANGED walletVars
  \/ /\ kind = "tenant"
     /\ \/ /\ \E s \in Slots : Verify(s) \/ CreateRemote(s) \/ Persist(s)
           /\ UNCHANGED job
           /\ UNCHANGED dialog
        \/ RemoteGoes /\ UNCHANGED <<job, dialog>>
        \/ \E s \in Slots : Stops(s) /\ Do(s, NoJob) /\ SetupFails(s)
     /\ slip # {} => doubt' = doubt
     /\ UNCHANGED <<bank, setups, listed, heard, card, units, slip>>

WalletNext == CustomerNext \/ TenantNext \/ CardNext \/ UnitsNext

WalletSpec == WalletInit /\ [][WalletNext]_allVars

-----------------------------------------------------------------------------
(* An account the page calls verified, and so offers for a payment, is not *)
(* one whose micro-deposits are still awaited: the list is put together    *)
(* from two reads, and says "verified" of whatever it finds no pending     *)
(* set-up for.                                                             *)
VerifiedIsTrue ==
  \A b \in Banks :
    /\ listed[b] = "verified"
    /\ slip \cap {"straddle", "window"} = {}
    => bank[b].state # "pending"

(* When the page's last word is that a card was saved, the subscription is *)
(* charged to it, however earlier saves ended and whichever were closed on *)
(* the way, unless two ran side by side or the subscription changed under  *)
(* it.                                                                     *)
CardToldIsCharged ==
  LET saving == \E s \in Slots : job[s] # NoJob IN
  card.said # None /\ card.runs /\ ~saving /\ slip = {} => card.own = card.said

(* With nothing under way Stripe bills the units there are, unless a sync  *)
(* failed or ran beside another, or there was none.                        *)
UnitsAreBilled ==
  /\ kind = "units"
  /\ \A s \in Slots : job[s] = NoJob
  /\ slip = {}
  => units.billed = units.has
===============================================================================
