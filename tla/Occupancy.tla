------------------------------ MODULE Occupancy -------------------------------
(***************************************************************************)
(* A landlord's properties, their units and the leases on them: requests   *)
(* that read, check and then write, each statement by itself, beside       *)
(* requests that change the same rows in one statement or transaction.     *)
(*                                                                         *)
(* The handlers of createLease, createUnit, createProperty and deleteUnit  *)
(* await between a check and the write that relies on it; each await is a  *)
(* step.  createLease opens a transaction, but its two writes  *)
(* do not run on that connection and commit one by one.  An archive is one *)
(* transaction and takes nothing another request could miss: it is one     *)
(* step, as are the updates.  Of a lease's status only whether it is live  *)
(* (active or pending) is kept; tenants, rents, dates, addresses and the   *)
(* welcome mail are left out, and employees act as their landlord.         *)
(***************************************************************************)
EXTENDS Integers, FiniteSets

CONSTANTS
  Props, Units, Leases,  \* names for rows, each used once
  Slots,       \* bound: requests in progress at a time
  None,        \* no row
  FreeUnits,   \* units of a property without a plan (4 in the code)
  FreeProps    \* properties without a plan (2 in the code)

ASSUME NoneAssumption  == None \notin Props \cup Units \cup Leases \cup Slots
ASSUME SlotsAssumption == IsFiniteSet(Slots)
ASSUME RowsAssumption  == IsFiniteSet(Props) /\ IsFiniteSet(Units)
ASSUME LimitAssumption == {FreeUnits, FreeProps} \subseteq Nat \ {0}

VARIABLES
  property,  \* properties
  unit,      \* units
  lease,     \* leases
  paid,      \* the landlord has an active or trialing subscription
  req,       \* the request of each slot
  doubt,     \* history: why a unit's rows may disagree
  exempt     \* history: there was a plan, or an administrator passed a check

rows == <<property, unit, lease>>
vars == <<property, unit, lease, paid, req, doubt, exempt>>

Types        == {"single", "multi", "commercial"}
UnitStatus   == {"vacant", "occupied", "maintenance"}
Actors       == {"landlord", "admin"}

PropertyRow  == [type : Types, deleted : BOOLEAN]
UnitRow      == [property : Props, status : UnitStatus, deleted : BOOLEAN]
LeaseRow     == [unit : Units, live : BOOLEAN]

ASSUME NoneIsNoRow == None \notin PropertyRow \cup UnitRow \cup LeaseRow

Idle == [op |-> "idle"]
Request ==
  {Idle} \cup [op : {"property"}, type : Types, by : Actors]
         \cup [op : {"unit"}, property : Props, by : Actors]
         \cup [op : {"capped unit"}, property : Props]
         \cup [op : {"delete", "let", "occupy"}, unit : Units]

(* "lease": a lease came to life, or a row was archived, behind another    *)
(* request's back; "status": the unit's status was set by hand or by half  *)
(* of a request.                                                           *)
Doubts == {"lease", "status"}

TypeOK ==
  /\ property \in [Props -> PropertyRow \cup {None}]
  /\ unit     \in [Units -> UnitRow \cup {None}]
  /\ lease    \in [Leases -> LeaseRow \cup {None}]
  /\ paid     \in BOOLEAN
  /\ req      \in [Slots -> Request]
  /\ doubt    \in [Units -> SUBSET Doubts]
  /\ exempt   \in BOOLEAN

Init ==
  /\ property = [p \in Props |-> None]
  /\ unit     = [u \in Units |-> None]
  /\ lease    = [l \in Leases |-> None]
  /\ paid     = FALSE
  /\ req      = [s \in Slots |-> Idle]
  /\ doubt    = [u \in Units |-> {}]
  /\ exempt   = FALSE

-----------------------------------------------------------------------------
(* What the handlers read.                                                 *)

PropertyFound(p) == property[p] # None /\ ~property[p].deleted
UnitFound(u)     == unit[u] # None /\ ~unit[u].deleted
UnitsOf(p)       == {u \in Units : UnitFound(u) /\ unit[u].property = p}
Live(l)          == lease[l] # None /\ lease[l].live
LiveOn(u)        == {l \in Leases : Live(l) /\ lease[l].unit = u}

(* checkPlanLimit: an administrator or a subscriber is not counted.        *)
Unlimited(by) == by = "admin" \/ paid

(* Mutation: the limit itself is still let through.                        *)
WithinLimitOrAt(by, used, limit) == Unlimited(by) \/ Cardinality(used) <= limit

WithinLimit(by, used, limit) == Unlimited(by) \/ Cardinality(used) < limit

(* Another request than that of slot s is between its check of unit u and  *)
(* its last write.                                                         *)
Busy(u, s) ==
  \E r \in Slots \ {s} : req[r].op \in {"let", "occupy", "delete"} /\ req[r].unit = u

Overlap(u, s) == IF Busy(u, s) THEN Doubts ELSE {}

Doubted(u, why) == doubt' = [doubt EXCEPT ![u] = @ \cup why]

Begin(s, r) == req[s] = Idle /\ req' = [req EXCEPT ![s] = r]
Proceed(s, r) == req' = [req EXCEPT ![s] = r]
Finish(s) == req' = [req EXCEPT ![s] = Idle]

-----------------------------------------------------------------------------
(* Properties.                                                             *)

CreateProperty(s) ==
  \E type \in Types, by \in Actors :
    /\ WithinLimit(by, {p \in Props : PropertyFound(p)}, FreeProps)
    /\ Begin(s, [op |-> "property", type |-> type, by |-> by])
    /\ exempt' = (exempt \/ by = "admin")
    /\ UNCHANGED <<rows, paid, doubt>>

(* assertCommercialPlan and the insert; without a plan the request ends.   *)
InsertProperty(s) ==
  /\ req[s].op = "property"
  /\ IF req[s].type = "commercial" /\ ~Unlimited(req[s].by)
     THEN UNCHANGED property
     ELSE \E p \in Props :
            /\ property[p] = None
            /\ property' = [property EXCEPT ![p] = [type |-> req[s].type, deleted |-> FALSE]]
  /\ Finish(s)
  /\ UNCHANGED <<unit, lease, paid, doubt, exempt>>

UpdateProperty(p) ==
  \E type \in Types, by \in Actors :
    /\ PropertyFound(p)
    /\ type = "commercial" /\ property[p].type # "commercial" => Unlimited(by)
    /\ property' = [property EXCEPT ![p].type = type]
    /\ exempt' = (exempt \/ by = "admin")
    /\ UNCHANGED <<unit, lease, paid, req, doubt>>

(* Mutation: the leases are left alone.                                    *)
CascadeArchiveUnits(p) ==
  /\ PropertyFound(p)
  /\ unit' = [u \in Units |->
               IF u \in UnitsOf(p) THEN [unit[u] EXCEPT !.deleted = TRUE] ELSE unit[u]]
  /\ property' = [property EXCEPT ![p].deleted = TRUE]
  /\ doubt' = [u \in Units |->
                IF unit[u] # None /\ unit[u].property = p
                THEN doubt[u] \cup Overlap(u, None) ELSE doubt[u]]
  /\ UNCHANGED <<lease, paid, req, exempt>>

CascadeArchive(p) ==
  /\ PropertyFound(p)
  /\ lease' = [l \in Leases |->
                IF Live(l) /\ unit[lease[l].unit].property = p
                THEN [lease[l] EXCEPT !.live = FALSE] ELSE lease[l]]
  /\ unit' = [u \in Units |->
               IF u \in UnitsOf(p) THEN [unit[u] EXCEPT !.deleted = TRUE] ELSE unit[u]]
  /\ property' = [property EXCEPT ![p].deleted = TRUE]
  /\ doubt' = [u \in Units |->
                IF unit[u] # None /\ unit[u].property = p
                THEN doubt[u] \cup Overlap(u, None) ELSE doubt[u]]
  /\ UNCHANGED <<paid, req, exempt>>

-----------------------------------------------------------------------------
(* Units.                                                                  *)

CreateUnit(s) ==
  \E p \in Props, by \in Actors :
    /\ PropertyFound(p)
    /\ WithinLimit(by, UnitsOf(p), FreeUnits)
    /\ Begin(s, [op |-> "unit", property |-> p, by |-> by])
    /\ exempt' = (exempt \/ by = "admin")
    /\ UNCHANGED <<rows, paid, doubt>>

(* assertMultiFamilyCap counts again: not for a single home, not for a     *)
(* subscriber, but for an administrator.                                   *)
AssertMultiFamilyCap(s) ==
  /\ req[s].op = "unit"
  /\ LET p == req[s].property IN
       /\ IF /\ PropertyFound(p)
             /\ \/ property[p].type = "single"
                \/ req[s].by = "landlord" /\ paid
                \/ Cardinality(UnitsOf(p)) < FreeUnits
          THEN Proceed(s, [op |-> "capped unit", property |-> p])
          ELSE Finish(s)
  /\ UNCHANGED <<rows, paid, doubt, exempt>>

(* The unit may be entered as occupied, and its property may have been     *)
(* archived since it was read.                                             *)
InsertUnit(s) ==
  /\ req[s].op = "capped unit"
  /\ \E u \in Units, status \in UnitStatus :
       /\ unit[u] = None
       /\ unit' = [unit EXCEPT ![u] = [property |-> req[s].property, status |-> status,
                                       deleted |-> FALSE]]
       /\ Doubted(u, (IF status = "occupied" THEN {"status"} ELSE {})
                     \cup (IF PropertyFound(req[s].property) THEN {} ELSE {"lease"}))
  /\ Finish(s)
  /\ UNCHANGED <<property, lease, paid, exempt>>

(* Any status may be entered by hand.                                      *)
UpdateUnit(u) ==
  \E status \in UnitStatus :
    /\ UnitFound(u)
    /\ unit' = [unit EXCEPT ![u].status = status]
    /\ Doubted(u, Overlap(u, None)
                  \cup (IF "occupied" \in {status, unit[u].status} THEN {"status"} ELSE {}))
    /\ UNCHANGED <<property, lease, paid, req, exempt>>

DeleteUnit(s) ==
  \E u \in Units :
    /\ UnitFound(u)
    /\ LiveOn(u) = {}
    /\ Begin(s, [op |-> "delete", unit |-> u])
    /\ UNCHANGED <<rows, paid, doubt, exempt>>

RemoveUnit(s) ==
  /\ req[s].op = "delete"
  /\ unit' = [unit EXCEPT ![req[s].unit].deleted = TRUE]
  /\ Doubted(req[s].unit, Overlap(req[s].unit, s))
  /\ Finish(s)
  /\ UNCHANGED <<property, lease, paid, exempt>>

-----------------------------------------------------------------------------
(* Leases.                                                                 *)

(* Mutation: a unit in maintenance may be let.                             *)
CreateLeaseAnyStatus(s) ==
  \E u \in Units :
    /\ UnitFound(u)
    /\ Begin(s, [op |-> "let", unit |-> u])
    /\ UNCHANGED <<rows, paid, doubt, exempt>>

CreateLease(s) ==
  \E u \in Units :
    /\ UnitFound(u)
    /\ unit[u].status = "vacant"
    /\ Begin(s, [op |-> "let", unit |-> u])
    /\ UNCHANGED <<rows, paid, doubt, exempt>>

InsertLease(s) ==
  /\ req[s].op = "let"
  /\ \E l \in Leases :
       /\ lease[l] = None
       /\ lease' = [lease EXCEPT ![l] = [unit |-> req[s].unit, live |-> TRUE]]
  /\ Doubted(req[s].unit, Overlap(req[s].unit, s))
  /\ Proceed(s, [op |-> "occupy", unit |-> req[s].unit])
  /\ UNCHANGED <<property, unit, paid, exempt>>

OccupyUnit(s) ==
  /\ req[s].op = "occupy"
  /\ unit' = [unit EXCEPT ![req[s].unit].status = "occupied"]
  /\ Doubted(req[s].unit, Overlap(req[s].unit, s))
  /\ Finish(s)
  /\ UNCHANGED <<property, lease, paid, exempt>>

(* Mutation: the unit stays occupied.                                      *)
EndLeaseOnly(l) ==
  /\ lease[l] # None
  /\ lease' = [lease EXCEPT ![l].live = FALSE]
  /\ Doubted(lease[l].unit, Overlap(lease[l].unit, None)
                            \cup (IF Live(l) THEN {} ELSE {"status"}))
  /\ UNCHANGED <<property, unit, paid, req, exempt>>

(* The lease and its unit in one transaction, whatever either was before.  *)
EndLease(l) ==
  /\ lease[l] # None
  /\ lease' = [lease EXCEPT ![l].live = FALSE]
  /\ unit' = [unit EXCEPT ![lease[l].unit].status = "vacant"]
  /\ Doubted(lease[l].unit, Overlap(lease[l].unit, None)
                            \cup (IF Live(l) THEN {} ELSE {"status"}))
  /\ UNCHANGED <<property, paid, req, exempt>>

(* Any other status, and nothing of the unit: an ended lease may come back.*)
UpdateLease(l) ==
  /\ lease[l] # None
  /\ lease' = [lease EXCEPT ![l].live = TRUE]
  /\ Doubted(lease[l].unit, IF Live(l) THEN {} ELSE Doubts)
  /\ UNCHANGED <<property, unit, paid, req, exempt>>

-----------------------------------------------------------------------------
(* The plan, and failures.                                                 *)

SubscriptionChanges ==
  /\ paid' = ~paid
  /\ exempt' = TRUE
  /\ UNCHANGED <<rows, req, doubt>>

(* A statement fails, or the process dies: what is written stays.  Of a    *)
(* lease that was to be created the row may exist and the unit be vacant.  *)
RequestFails(s) ==
  /\ req[s] # Idle
  /\ doubt' = IF req[s].op = "occupy"
              THEN [doubt EXCEPT ![req[s].unit] = @ \cup {"status"}] ELSE doubt
  /\ Finish(s)
  /\ UNCHANGED <<rows, paid, exempt>>

Next ==
  \/ \E s \in Slots : CreateProperty(s) \/ InsertProperty(s)
  \/ \E s \in Slots : CreateUnit(s) \/ AssertMultiFamilyCap(s) \/ InsertUnit(s)
  \/ \E s \in Slots : DeleteUnit(s) \/ RemoveUnit(s)
  \/ \E s \in Slots : CreateLease(s) \/ InsertLease(s) \/ OccupyUnit(s)
  \/ \E s \in Slots : RequestFails(s)
  \/ \E p \in Props : UpdateProperty(p) \/ CascadeArchive(p)
  \/ \E u \in Units : UpdateUnit(u)
  \/ \E l \in Leases : EndLease(l) \/ UpdateLease(l)
  \/ SubscriptionChanges

Spec == Init /\ [][Next]_vars

-----------------------------------------------------------------------------
(* A unit is let twice only after requests overlapped on it, an ended      *)
(* lease was ended again or brought back, its status was entered by hand,  *)
(* or a lease was half created: one request after another, as the portal   *)
(* sends them, never does it.                                              *)
OneLiveLease ==
  \A u \in Units : doubt[u] = {} => \A l, m \in LiveOn(u) : l = m

(* Nor do status and leases of a unit disagree for long: it is occupied    *)
(* exactly while a lease on it is live, once createLease has returned.     *)
StatusIsTrue ==
  \A u \in Units :
    /\ UnitFound(u)
    /\ doubt[u] = {}
    /\ \A s \in Slots : req[s].op = "occupy" => req[s].unit # u
    => (unit[u].status = "occupied" <=> LiveOn(u) # {})

(* An archived unit has no live lease and an archived property no unit,    *)
(* whatever statuses were entered, unless a request overlapped the archive *)
(* or an ended lease was brought back: reminders, fees and rent stop.      *)
ArchivedIsFree ==
  \A u \in Units :
    /\ unit[u] # None
    /\ \/ unit[u].deleted /\ LiveOn(u) # {}
       \/ property[unit[u].property].deleted /\ ~unit[u].deleted
    => "lease" \in doubt[u]

(* The limits are counted before the insert, so overlapping requests may   *)
(* pass them together: by one less than the requests in progress, and no   *)
(* sequence of requests adds to that.  Without a plan, units and           *)
(* properties stay within it and nothing is commercial.                    *)
LimitsHoldUpToOverlap ==
  LET Over(used, limit, asking) ==
        Cardinality(used) + Cardinality(asking) >= limit + Cardinality(Slots)
  IN
  ~exempt =>
    /\ ~Over({p \in Props : PropertyFound(p)}, FreeProps, {s \in Slots : req[s].op = "property"})
    /\ \A p \in Props :
         /\ ~Over(UnitsOf(p), FreeUnits,
                  {s \in Slots : req[s].op \in {"unit", "capped unit"} /\ req[s].property = p})
         /\ property[p] # None => property[p].type # "commercial"
===============================================================================
