---------------------------- MODULE OccupancyProofs ----------------------------
(***************************************************************************)
(* Proofs about Occupancy, for any number of properties, units, leases and *)
(* requests in progress.                                                   *)
(*                                                                         *)
(* What a request has checked of its unit stays true while nobody else is  *)
(* at work on it: a unit about to be let has no live lease (LetInv) and is *)
(* not archived, one about to be archived has none either (ArchiveInv).    *)
(* Who else writes meanwhile finds the request busy, and that is recorded  *)
(* as doubt.  With this the three properties are inductive together.       *)
(***************************************************************************)
EXTENDS Occupancy, FiniteSetTheorems, TLAPS

(* Slot s is at step op of a request about unit u.                         *)
At(s, op, u) == req[s].op = op /\ req[s].unit = u

Occupying(u) == \E s \in Slots : At(s, "occupy", u)

(* Nobody but s is between a check of u and a write.                       *)
Apart(u, s) ==
  \A r \in Slots \ {s} : ~At(r, "let", u) /\ ~At(r, "occupy", u) /\ ~At(r, "delete", u)

HasLive(u) == \E l \in Leases : lease[l] # None /\ lease[l].live /\ lease[l].unit = u

(* Rows are about rows that exist, and so are requests.                    *)
Refs ==
  /\ \A u \in Units : unit[u] # None => property[unit[u].property] # None
  /\ \A l \in Leases : lease[l] # None => unit[lease[l].unit] # None
  /\ \A s \in Slots : req[s].op \in {"let", "occupy", "delete"} => unit[req[s].unit] # None
  /\ \A s \in Slots : req[s].op \in {"unit", "capped unit"} => property[req[s].property] # None

OneLive(u) ==
  \A l, m \in Leases :
    /\ lease[l] # None /\ lease[l].live /\ lease[l].unit = u
    /\ lease[m] # None /\ lease[m].live /\ lease[m].unit = u
    => l = m

LetInv(u) ==
  doubt[u] = {} =>
    /\ OneLive(u)
    /\ Occupying(u) => HasLive(u)
    /\ \A s \in Slots : At(s, "let", u) /\ ~Occupying(u) => ~HasLive(u)
    /\ unit[u] # None /\ ~unit[u].deleted /\ ~Occupying(u)
       => (unit[u].status = "occupied" <=> HasLive(u))

ArchiveInv(u) ==
  unit[u] # None /\ "lease" \notin doubt[u] =>
    /\ unit[u].deleted => ~HasLive(u)
    /\ property[unit[u].property].deleted => unit[u].deleted
    /\ \A s \in Slots : At(s, "delete", u) => ~HasLive(u)
    /\ \A s \in Slots : At(s, "let", u) => ~unit[u].deleted

UnitInv(u) == LetInv(u) /\ ArchiveInv(u)

-----------------------------------------------------------------------------
(* What the operators give.                                                *)

LEMMA LiveOnMeans ==
  ASSUME NEW u \in Units
  PROVE  (LiveOn(u) = {}) <=> ~HasLive(u)
  BY DEF LiveOn, Live, HasLive

LEMMA OverlapMeans ==
  ASSUME NEW u \in Units, NEW s
  PROVE  /\ Overlap(u, s) \in SUBSET Doubts
         /\ Overlap(u, s) = {} => Apart(u, s)
         /\ "lease" \notin Overlap(u, s) => Apart(u, s)
<1>1. Doubts # {} /\ "lease" \in Doubts
  BY DEF Doubts
<1>2. ~Busy(u, s) => Apart(u, s)
  BY DEF Busy, Apart, At
<1> QED  BY <1>1, <1>2 DEF Overlap

LEMMA RequestFacts ==
  ASSUME TypeOK, NEW s \in Slots
  PROVE  /\ req[s] \in Request
         /\ req[s].op \in {"let", "occupy", "delete"} => req[s].unit \in Units
         /\ req[s].op \in {"unit", "capped unit"} => req[s].property \in Props
         /\ req[s].op = "property" => req[s].type \in Types
         /\ Idle.op = "idle" /\ Idle \in Request
<1>1. req[s] \in Request
  BY DEF TypeOK
<1>2. Idle.op = "idle" /\ Idle \in Request
  BY DEF Idle, Request
<1>3. CASE req[s] = Idle
  BY <1>2, <1>3
<1>4. CASE req[s] \in [op : {"property"}, type : Types, by : Actors]
  BY <1>1, <1>2, <1>4
<1>5. CASE req[s] \in [op : {"unit"}, property : Props, by : Actors]
  BY <1>1, <1>2, <1>5
<1>6. CASE req[s] \in [op : {"capped unit"}, property : Props]
  BY <1>1, <1>2, <1>6
<1>7. CASE req[s] \in [op : {"delete", "let", "occupy"}, unit : Units]
  BY <1>1, <1>2, <1>7
<1> QED  BY <1>1, <1>3, <1>4, <1>5, <1>6, <1>7 DEF Request

LEMMA RowFacts ==
  ASSUME TypeOK
  PROVE  /\ \A p \in Props : property[p] # None => property[p] \in PropertyRow
         /\ \A u \in Units : unit[u] # None => unit[u] \in UnitRow /\ unit[u].property \in Props
         /\ \A l \in Leases : lease[l] # None => lease[l] \in LeaseRow /\ lease[l].unit \in Units
  BY DEF TypeOK, UnitRow, LeaseRow

(* A slot takes up another request, or none.                               *)
LEMMA SlotBecomes ==
  ASSUME TypeOK, NEW s \in Slots, NEW r \in Request, req' = [req EXCEPT ![s] = r]
  PROVE  /\ req' \in [Slots -> Request]
         /\ req'[s] = r
         /\ \A t \in Slots \ {s} : req'[t] = req[t]
  BY DEF TypeOK

-----------------------------------------------------------------------------
(* Types.                                                                  *)

LEMMA DoubtedType ==
  ASSUME TypeOK, NEW u \in Units, NEW why \in SUBSET Doubts, Doubted(u, why)
  PROVE  /\ doubt' \in [Units -> SUBSET Doubts]
         /\ doubt'[u] = doubt[u] \cup why
         /\ \A v \in Units \ {u} : doubt'[v] = doubt[v]
  BY DEF TypeOK, Doubted

LEMMA PropertiesType ==
  ASSUME TypeOK, NEW s \in Slots, CreateProperty(s) \/ InsertProperty(s)
  PROVE  TypeOK'
<1>1. CASE CreateProperty(s)
  <2>1. PICK type \in Types, by \in Actors :
          req' = [req EXCEPT ![s] = [op |-> "property", type |-> type, by |-> by]]
    BY <1>1 DEF CreateProperty, Begin
  <2>2. req' \in [Slots -> Request]
    BY <2>1, SlotBecomes DEF Request
  <2> QED  BY <1>1, <2>2 DEF CreateProperty, rows, TypeOK
<1>2. CASE InsertProperty(s)
  <2>1. req' \in [Slots -> Request]
    BY <1>2, SlotBecomes, RequestFacts DEF InsertProperty, Finish
  <2>2. req[s].type \in Types
    BY <1>2, RequestFacts DEF InsertProperty
  <2>3. [type |-> req[s].type, deleted |-> FALSE] \in PropertyRow
    BY <2>2 DEF PropertyRow
  <2>4. property' \in [Props -> PropertyRow \cup {None}]
    BY <1>2, <2>3 DEF InsertProperty, TypeOK
  <2> QED  BY <1>2, <2>1, <2>4 DEF InsertProperty, TypeOK
<1> QED  BY <1>1, <1>2

LEMMA UnitsType ==
  ASSUME TypeOK, Refs, NEW s \in Slots,
         CreateUnit(s) \/ AssertMultiFamilyCap(s) \/ InsertUnit(s) \/ DeleteUnit(s) \/ RemoveUnit(s)
  PROVE  TypeOK'
<1>1. CASE CreateUnit(s)
  <2>1. PICK p \in Props, by \in Actors :
          req' = [req EXCEPT ![s] = [op |-> "unit", property |-> p, by |-> by]]
    BY <1>1 DEF CreateUnit, Begin
  <2>2. req' \in [Slots -> Request]
    BY <2>1, SlotBecomes DEF Request
  <2> QED  BY <1>1, <2>2 DEF CreateUnit, rows, TypeOK
<1>2. CASE AssertMultiFamilyCap(s)
  <2>1. req[s].property \in Props
    BY <1>2, RequestFacts DEF AssertMultiFamilyCap
  <2>2. [op |-> "capped unit", property |-> req[s].property] \in Request
    BY <2>1 DEF Request
  <2>3. req' \in [Slots -> Request]
    BY <1>2, <2>2, SlotBecomes, RequestFacts DEF AssertMultiFamilyCap, Proceed, Finish
  <2> QED  BY <1>2, <2>3 DEF AssertMultiFamilyCap, rows, TypeOK
<1>3. CASE InsertUnit(s)
  <2>1. req[s].property \in Props
    BY <1>3, RequestFacts DEF InsertUnit
  <2>2. PICK u \in Units, status \in UnitStatus, why \in SUBSET Doubts :
          /\ unit' = [unit EXCEPT ![u] = [property |-> req[s].property, status |-> status,
                                          deleted |-> FALSE]]
          /\ Doubted(u, why)
    BY <1>3 DEF InsertUnit, Doubts
  <2>3. unit' \in [Units -> UnitRow \cup {None}]
    BY <2>1, <2>2 DEF TypeOK, UnitRow
  <2>4. req' \in [Slots -> Request] /\ doubt' \in [Units -> SUBSET Doubts]
    BY <1>3, <2>2, SlotBecomes, RequestFacts, DoubtedType DEF InsertUnit, Finish
  <2> QED  BY <1>3, <2>3, <2>4 DEF InsertUnit, TypeOK
<1>4. CASE DeleteUnit(s)
  <2>1. PICK u \in Units : req' = [req EXCEPT ![s] = [op |-> "delete", unit |-> u]]
    BY <1>4 DEF DeleteUnit, Begin
  <2>2. req' \in [Slots -> Request]
    BY <2>1, SlotBecomes DEF Request
  <2> QED  BY <1>4, <2>2 DEF DeleteUnit, rows, TypeOK
<1>5. CASE RemoveUnit(s)
  <2>1. req[s].unit \in Units
    BY <1>5, RequestFacts DEF RemoveUnit
  <2>2. req' \in [Slots -> Request] /\ doubt' \in [Units -> SUBSET Doubts]
    BY <1>5, <2>1, SlotBecomes, RequestFacts, OverlapMeans, DoubtedType DEF RemoveUnit, Finish
  <2>3. unit' \in [Units -> UnitRow \cup {None}]
    BY <1>5, <2>1 DEF RemoveUnit, TypeOK, UnitRow, Refs
  <2> QED  BY <1>5, <2>2, <2>3 DEF RemoveUnit, TypeOK
<1> QED  BY <1>1, <1>2, <1>3, <1>4, <1>5

LEMMA LeasesType ==
  ASSUME TypeOK, Refs, NEW s \in Slots,
         CreateLease(s) \/ InsertLease(s) \/ OccupyUnit(s) \/ RequestFails(s)
  PROVE  TypeOK'
<1>1. CASE CreateLease(s)
  <2>1. PICK u \in Units : req' = [req EXCEPT ![s] = [op |-> "let", unit |-> u]]
    BY <1>1 DEF CreateLease, Begin
  <2>2. req' \in [Slots -> Request]
    BY <2>1, SlotBecomes DEF Request
  <2> QED  BY <1>1, <2>2 DEF CreateLease, rows, TypeOK
<1>2. CASE InsertLease(s)
  <2>1. req[s].unit \in Units
    BY <1>2, RequestFacts DEF InsertLease
  <2>2. [op |-> "occupy", unit |-> req[s].unit] \in Request
    BY <2>1 DEF Request
  <2>3. req' \in [Slots -> Request]
    BY <1>2, <2>2, SlotBecomes DEF InsertLease, Proceed
  <2>4. doubt' \in [Units -> SUBSET Doubts]
    BY <1>2, <2>1, OverlapMeans, DoubtedType DEF InsertLease
  <2>5. lease' \in [Leases -> LeaseRow \cup {None}]
    BY <1>2, <2>1 DEF InsertLease, TypeOK, LeaseRow
  <2> QED  BY <1>2, <2>3, <2>4, <2>5 DEF InsertLease, TypeOK
<1>3. CASE OccupyUnit(s)
  <2>1. req[s].unit \in Units
    BY <1>3, RequestFacts DEF OccupyUnit
  <2>2. req' \in [Slots -> Request] /\ doubt' \in [Units -> SUBSET Doubts]
    BY <1>3, <2>1, SlotBecomes, RequestFacts, OverlapMeans, DoubtedType DEF OccupyUnit, Finish
  <2>3. unit' \in [Units -> UnitRow \cup {None}]
    BY <1>3, <2>1 DEF OccupyUnit, TypeOK, UnitRow, UnitStatus, Refs
  <2> QED  BY <1>3, <2>2, <2>3 DEF OccupyUnit, TypeOK
<1>4. CASE RequestFails(s)
  <2>1. req' \in [Slots -> Request]
    BY <1>4, SlotBecomes, RequestFacts DEF RequestFails, Finish
  <2>2. doubt' \in [Units -> SUBSET Doubts]
    BY <1>4 DEF RequestFails, TypeOK, Doubts
  <2> QED  BY <1>4, <2>1, <2>2 DEF RequestFails, rows, TypeOK
<1> QED  BY <1>1, <1>2, <1>3, <1>4

LEMMA UpdatesType ==
  ASSUME TypeOK, Refs,
         \/ \E p \in Props : UpdateProperty(p) \/ CascadeArchive(p)
         \/ \E u \in Units : UpdateUnit(u)
         \/ \E l \in Leases : EndLease(l) \/ UpdateLease(l)
         \/ SubscriptionChanges
  PROVE  TypeOK'
<1>1. ASSUME NEW p \in Props, UpdateProperty(p)  PROVE TypeOK'
  BY <1>1 DEF UpdateProperty, PropertyFound, TypeOK, PropertyRow
<1>2. ASSUME NEW p \in Props, CascadeArchive(p)  PROVE TypeOK'
  <2>1. property' \in [Props -> PropertyRow \cup {None}]
    BY <1>2 DEF CascadeArchive, PropertyFound, TypeOK, PropertyRow
  <2>2. unit' \in [Units -> UnitRow \cup {None}]
    BY <1>2 DEF CascadeArchive, UnitsOf, UnitFound, TypeOK, UnitRow
  <2>3. lease' \in [Leases -> LeaseRow \cup {None}]
    BY <1>2 DEF CascadeArchive, Live, TypeOK, LeaseRow
  <2>4. doubt' \in [Units -> SUBSET Doubts]
    BY <1>2, OverlapMeans DEF CascadeArchive, TypeOK
  <2> QED  BY <1>2, <2>1, <2>2, <2>3, <2>4 DEF CascadeArchive, TypeOK
<1>3. ASSUME NEW u \in Units, UpdateUnit(u)  PROVE TypeOK'
  <2>1. unit' \in [Units -> UnitRow \cup {None}]
    BY <1>3 DEF UpdateUnit, UnitFound, TypeOK, UnitRow
  <2>2. PICK why \in SUBSET Doubts : Doubted(u, why)
    BY <1>3, OverlapMeans DEF UpdateUnit, Doubts
  <2> QED  BY <1>3, <2>1, <2>2, DoubtedType DEF UpdateUnit, TypeOK
<1>4. ASSUME NEW l \in Leases, EndLease(l) \/ UpdateLease(l)  PROVE TypeOK'
  <2>1. lease[l] # None /\ lease[l] \in LeaseRow /\ lease[l].unit \in Units /\ unit[lease[l].unit] \in UnitRow
    BY <1>4, RowFacts DEF EndLease, UpdateLease, Refs
  <2>2. lease' \in [Leases -> LeaseRow \cup {None}]
    <3>1. PICK b \in BOOLEAN : lease' = [lease EXCEPT ![l].live = b]
      BY <1>4 DEF EndLease, UpdateLease
    <3> QED  BY <2>1, <3>1 DEF TypeOK, LeaseRow
  <2>3. unit' \in [Units -> UnitRow \cup {None}]
    BY <1>4, <2>1 DEF EndLease, UpdateLease, TypeOK, UnitRow, UnitStatus
  <2>4. PICK why \in SUBSET Doubts : Doubted(lease[l].unit, why)
    BY <1>4, <2>1, OverlapMeans DEF EndLease, UpdateLease, Doubts
  <2>5. doubt' \in [Units -> SUBSET Doubts]
    BY <2>1, <2>4, DoubtedType
  <2> QED  BY <1>4, <2>2, <2>3, <2>5 DEF EndLease, UpdateLease, TypeOK
<1>5. CASE SubscriptionChanges
  BY <1>5 DEF SubscriptionChanges, rows, TypeOK
<1> QED  BY <1>1, <1>2, <1>3, <1>4, <1>5

LEMMA StepType ==
  ASSUME TypeOK, Refs, [Next]_vars
  PROVE  TypeOK'
<1>1. CASE UNCHANGED vars
  BY <1>1 DEF vars, rows, TypeOK
<1> QED  BY <1>1, PropertiesType, UnitsType, LeasesType, UpdatesType DEF Next

-----------------------------------------------------------------------------
(* References.                                                             *)

(* Rows are never lost; what a row or a request refers to is there.        *)
LEMMA RefsKept ==
  ASSUME TypeOK, Refs,
         \A p \in Props : property[p] # None => property'[p] # None,
         \A u \in Units : unit[u] # None => unit'[u] # None,
         \A u \in Units : unit'[u] # None =>
            \/ unit[u] # None /\ unit'[u].property = unit[u].property
            \/ property'[unit'[u].property] # None,
         \A l \in Leases : lease'[l] # None =>
            \/ lease[l] # None /\ lease'[l].unit = lease[l].unit
            \/ unit'[lease'[l].unit] # None,
         \A t \in Slots :
            \/ req'[t] = req[t]
            \/ /\ req'[t].op \in {"let", "occupy", "delete"} => unit'[req'[t].unit] # None
               /\ req'[t].op \in {"unit", "capped unit"} => property'[req'[t].property] # None
  PROVE  Refs'
<1>1. ASSUME NEW u \in Units, unit'[u] # None  PROVE property'[unit'[u].property] # None
  BY <1>1, RowFacts DEF Refs
<1>2. ASSUME NEW l \in Leases, lease'[l] # None  PROVE unit'[lease'[l].unit] # None
  BY <1>2, RowFacts DEF Refs
<1>3. ASSUME NEW t \in Slots, req'[t].op \in {"let", "occupy", "delete"}
      PROVE  unit'[req'[t].unit] # None
  BY <1>3, RequestFacts DEF Refs
<1>4. ASSUME NEW t \in Slots, req'[t].op \in {"unit", "capped unit"}
      PROVE  property'[req'[t].property] # None
  BY <1>4, RequestFacts DEF Refs
<1> QED  BY <1>1, <1>2, <1>3, <1>4 DEF Refs

-----------------------------------------------------------------------------
(* Steps that touch nothing of a unit.                                     *)

(* Neither the unit nor the leases on it change, and no request begins     *)
(* work on it; one that has created a lease goes on, or leaves doubt.      *)
LEMMA NothingNew ==
  ASSUME NEW u \in Units, UnitInv(u),
         unit'[u] = unit[u],
         unit[u] # None => property'[unit[u].property].deleted = property[unit[u].property].deleted,
         \A l \in Leases : (lease'[l] # None /\ lease'[l].live /\ lease'[l].unit = u)
                           <=> (lease[l] # None /\ lease[l].live /\ lease[l].unit = u),
         doubt[u] \subseteq doubt'[u],
         \A s \in Slots, op \in {"let", "occupy", "delete"} :
            req'[s].op = op /\ req'[s].unit = u => req[s].op = op /\ req[s].unit = u,
         \A s \in Slots : req[s].op = "occupy" /\ req[s].unit = u =>
            (req'[s].op = "occupy" /\ req'[s].unit = u) \/ doubt'[u] # {}
  PROVE  UnitInv(u)'
<1>1. HasLive(u)' <=> HasLive(u)
  BY DEF HasLive
<1>2. OneLive(u)' <=> OneLive(u)
  BY DEF OneLive
<1>3. \A s \in Slots : /\ At(s, "let", u)' => At(s, "let", u)
                       /\ At(s, "delete", u)' => At(s, "delete", u)
  BY DEF At
<1>4. Occupying(u)' => Occupying(u)
  BY DEF Occupying, At
<1>5. Occupying(u) => Occupying(u)' \/ doubt'[u] # {}
  BY DEF Occupying, At
<1>6. LetInv(u)'
  BY <1>1, <1>2, <1>3, <1>4, <1>5 DEF UnitInv, LetInv
<1>7. ArchiveInv(u)'
  BY <1>1, <1>3 DEF UnitInv, ArchiveInv
<1> QED  BY <1>6, <1>7 DEF UnitInv

LEMMA CalmSlots ==
  ASSUME TypeOK, Refs, \A u \in Units : UnitInv(u), NEW s \in Slots,
         CreateProperty(s) \/ InsertProperty(s) \/ CreateUnit(s) \/ AssertMultiFamilyCap(s)
           \/ RequestFails(s)
  PROVE  Refs' /\ \A u \in Units : UnitInv(u)'
<1>1. PICK r \in Request : /\ req' = [req EXCEPT ![s] = r]
                           /\ r.op \notin {"let", "occupy", "delete"}
                           /\ r.op \in {"unit", "capped unit"} =>
                                r.property \in Props /\ property[r.property] # None
  <2>1. Idle \in Request /\ Idle.op \notin {"let", "occupy", "delete", "unit", "capped unit"}
    BY RequestFacts
  <2>2. CASE CreateProperty(s)
    <3>1. PICK type \in Types, by \in Actors :
            req' = [req EXCEPT ![s] = [op |-> "property", type |-> type, by |-> by]]
      BY <2>2 DEF CreateProperty, Begin
    <3>2. [op |-> "property", type |-> type, by |-> by] \in Request
      BY DEF Request
    <3> QED  BY <3>1, <3>2
  <2>3. CASE InsertProperty(s) \/ RequestFails(s)
    BY <2>1, <2>3 DEF InsertProperty, RequestFails, Finish
  <2>4. CASE CreateUnit(s)
    <3>1. PICK p \in Props, by \in Actors :
            /\ req' = [req EXCEPT ![s] = [op |-> "unit", property |-> p, by |-> by]]
            /\ property[p] # None
      BY <2>4 DEF CreateUnit, Begin, PropertyFound
    <3>2. [op |-> "unit", property |-> p, by |-> by] \in Request
      BY DEF Request
    <3> QED  BY <3>1, <3>2
  <2>5. CASE AssertMultiFamilyCap(s)
    <3>1. req[s].property \in Props /\ property[req[s].property] # None
      BY <2>5, RequestFacts DEF AssertMultiFamilyCap, Refs
    <3>2. [op |-> "capped unit", property |-> req[s].property] \in Request
      BY <3>1 DEF Request
    <3> QED  BY <2>1, <2>5, <3>1, <3>2 DEF AssertMultiFamilyCap, Proceed, Finish
  <2> QED  BY <2>2, <2>3, <2>4, <2>5
<1>2. req'[s] = r /\ \A t \in Slots \ {s} : req'[t] = req[t]
  BY <1>1, SlotBecomes
<1>3. unit' = unit /\ lease' = lease
  BY DEF CreateProperty, InsertProperty, CreateUnit, AssertMultiFamilyCap, RequestFails, rows
<1>4. \A p \in Props : property[p] # None => property'[p] = property[p]
  BY DEF CreateProperty, InsertProperty, CreateUnit, AssertMultiFamilyCap, RequestFails, rows, TypeOK
<1>5. \A p \in Props : property[p] # None => property'[p] # None
  BY <1>4
<1>6. /\ \A u \in Units : doubt[u] \subseteq doubt'[u]
      /\ req[s].op = "occupy" => doubt'[req[s].unit] # {}
  <2>1. CASE CreateProperty(s) \/ InsertProperty(s) \/ CreateUnit(s) \/ AssertMultiFamilyCap(s)
    <3>1. doubt' = doubt
      BY <2>1 DEF CreateProperty, InsertProperty, CreateUnit, AssertMultiFamilyCap
    <3>2. req[s].op # "occupy"
      BY <2>1, RequestFacts DEF CreateProperty, InsertProperty, CreateUnit, AssertMultiFamilyCap, Begin
    <3> QED  BY <3>1, <3>2
  <2>2. CASE RequestFails(s)
    BY <2>2, RequestFacts DEF RequestFails, TypeOK
  <2> QED  BY <2>1, <2>2
<1>7. Refs'
  <2>1. \A t \in Slots :
          \/ req'[t] = req[t]
          \/ /\ req'[t].op \in {"let", "occupy", "delete"} => unit'[req'[t].unit] # None
             /\ req'[t].op \in {"unit", "capped unit"} => property'[req'[t].property] # None
    BY <1>1, <1>2, <1>4
  <2> QED  BY <1>3, <1>5, <2>1, RefsKept
<1>8. ASSUME NEW u \in Units  PROVE UnitInv(u)'
  <2>1. unit[u] # None => property'[unit[u].property].deleted = property[unit[u].property].deleted
    BY <1>4, RowFacts DEF Refs
  <2> QED  BY <1>1, <1>2, <1>3, <1>6, <2>1, NothingNew
<1> QED  BY <1>7, <1>8

LEMMA CalmUpdates ==
  ASSUME TypeOK, Refs, \A u \in Units : UnitInv(u),
         (\E p \in Props : UpdateProperty(p)) \/ SubscriptionChanges \/ UNCHANGED vars
  PROVE  Refs' /\ \A u \in Units : UnitInv(u)'
<1>1. unit' = unit /\ lease' = lease /\ req' = req /\ doubt' = doubt
  BY DEF UpdateProperty, SubscriptionChanges, vars, rows
<1>2. \A p \in Props : property[p] # None =>
        property'[p] # None /\ property'[p].deleted = property[p].deleted
  <2>1. CASE UNCHANGED property
    BY <2>1
  <2>2. ASSUME NEW p \in Props, UpdateProperty(p)
        PROVE  \A q \in Props : property[q] # None =>
                 property'[q] # None /\ property'[q].deleted = property[q].deleted
    <3>1. property[p] \in PropertyRow
      BY <2>2, RowFacts DEF UpdateProperty, PropertyFound
    <3>2. PICK type \in Types : property' = [property EXCEPT ![p].type = type]
      BY <2>2 DEF UpdateProperty
    <3>3. property'[p] \in PropertyRow /\ property'[p].deleted = property[p].deleted
      BY <3>1, <3>2 DEF TypeOK, PropertyRow
    <3>4. \A q \in Props \ {p} : property'[q] = property[q]
      BY <3>2 DEF TypeOK
    <3> QED  BY <3>3, <3>4, NoneIsNoRow
  <2> QED  BY <2>1, <2>2 DEF SubscriptionChanges, vars, rows
<1>3. Refs'
  BY <1>1, <1>2, RefsKept
<1>4. ASSUME NEW u \in Units  PROVE UnitInv(u)'
  <2>1. unit[u] # None => property'[unit[u].property].deleted = property[unit[u].property].deleted
    BY <1>2, RowFacts DEF Refs
  <2> QED  BY <1>1, <2>1, NothingNew
<1> QED  BY <1>3, <1>4

-----------------------------------------------------------------------------
(* Steps about one unit.                                                   *)

(* A request begins work on unit v.                                        *)
LEMMA BeginsStep ==
  ASSUME TypeOK, Refs, \A u \in Units : UnitInv(u), NEW s \in Slots,
         DeleteUnit(s) \/ CreateLease(s)
  PROVE  Refs' /\ \A u \in Units : UnitInv(u)'
<1>1. property' = property /\ unit' = unit /\ lease' = lease /\ doubt' = doubt /\ req[s] = Idle
  BY DEF DeleteUnit, CreateLease, rows, Begin
<1>2. PICK v \in Units, op \in {"delete", "let"} :
        /\ unit[v] # None /\ ~unit[v].deleted
        /\ req' = [req EXCEPT ![s] = [op |-> op, unit |-> v]]
        /\ op = "delete" => LiveOn(v) = {}
        /\ op = "let" => unit[v].status = "vacant"
  BY DEF DeleteUnit, CreateLease, UnitFound, Begin
<1>3. [op |-> op, unit |-> v] \in Request
  BY DEF Request
<1>4. req'[s] = [op |-> op, unit |-> v] /\ \A t \in Slots \ {s} : req'[t] = req[t]
  BY <1>2, <1>3, SlotBecomes
<1>5. req[s].op = "idle"
  BY <1>1, RequestFacts
<1>6. Refs'
  <2>1. \A t \in Slots : req'[t] = req[t] \/ (req'[t].op \in {"delete", "let"} /\ unit'[req'[t].unit] # None)
    BY <1>1, <1>2, <1>4
  <2> QED  BY <1>1, <2>1, RefsKept
<1>7. ASSUME NEW u \in Units, u # v  PROVE UnitInv(u)'
  BY <1>1, <1>4, <1>5, <1>7, NothingNew
<1>8. UnitInv(v)'
  <2>1. HasLive(v)' <=> HasLive(v)
    BY <1>1 DEF HasLive
  <2>2. OneLive(v)' <=> OneLive(v)
    BY <1>1 DEF OneLive
  <2>3. Occupying(v)' <=> Occupying(v)
    BY <1>4, <1>5 DEF Occupying, At
  <2>4. \A t \in Slots : /\ At(t, "let", v)' => At(t, "let", v) \/ op = "let"
                         /\ At(t, "delete", v)' => At(t, "delete", v) \/ op = "delete"
    BY <1>4 DEF At
  <2>5. LetInv(v) /\ ArchiveInv(v)
    BY DEF UnitInv
  <2>6. LetInv(v)'
    BY <1>1, <1>2, <2>1, <2>2, <2>3, <2>4, <2>5 DEF LetInv
  <2>7. ArchiveInv(v)'
    BY <1>1, <1>2, <2>1, <2>4, <2>5, LiveOnMeans DEF ArchiveInv
  <2> QED  BY <2>6, <2>7 DEF UnitInv
<1> QED  BY <1>6, <1>7, <1>8

(* A request writes to unit v, or to a lease on it, and ends or goes on.   *)
LEMMA InsertLeaseStep ==
  ASSUME TypeOK, Refs, \A u \in Units : UnitInv(u), NEW s \in Slots, InsertLease(s)
  PROVE  Refs' /\ \A u \in Units : UnitInv(u)'
<1>1. PICK v \in Units : v = req[s].unit /\ unit[v] # None /\ req[s].op = "let"
  BY RequestFacts DEF InsertLease, Refs
<1>2. property' = property /\ unit' = unit
  BY DEF InsertLease
<1>3. PICK l \in Leases : /\ lease[l] = None
                          /\ lease' = [lease EXCEPT ![l] = [unit |-> v, live |-> TRUE]]
  BY <1>1 DEF InsertLease
<1>4. [unit |-> v, live |-> TRUE] \in LeaseRow /\ [op |-> "occupy", unit |-> v] \in Request
  BY <1>1 DEF LeaseRow, Request
<1>5. /\ lease'[l] # None /\ lease'[l].live /\ lease'[l].unit = v
      /\ \A m \in Leases \ {l} : lease'[m] = lease[m]
  BY <1>3, <1>4, NoneIsNoRow DEF TypeOK
<1>6. req'[s] = [op |-> "occupy", unit |-> v] /\ \A t \in Slots \ {s} : req'[t] = req[t]
  BY <1>1, <1>4, SlotBecomes DEF InsertLease, Proceed
<1>7. doubt'[v] = doubt[v] \cup Overlap(v, s) /\ \A u \in Units \ {v} : doubt'[u] = doubt[u]
  BY <1>1, DoubtedType, OverlapMeans DEF InsertLease
<1>8. Refs'
  <2>1. \A t \in Slots : req'[t] = req[t] \/ (req'[t].op = "occupy" /\ unit'[req'[t].unit] # None)
    BY <1>1, <1>2, <1>6
  <2>2. \A m \in Leases : lease'[m] # None =>
          (lease[m] # None /\ lease'[m].unit = lease[m].unit) \/ unit'[lease'[m].unit] # None
    BY <1>1, <1>2, <1>5
  <2> QED  BY <1>2, <2>1, <2>2, RefsKept
<1>9. ASSUME NEW u \in Units, u # v  PROVE UnitInv(u)'
  BY <1>2, <1>3, <1>5, <1>6, <1>1, <1>7, <1>9, NothingNew
<1>10. LetInv(v)'
  <2> SUFFICES ASSUME doubt'[v] = {}
               PROVE  OneLive(v)' /\ HasLive(v)' /\ Occupying(v)'
    BY DEF LetInv
  <2>1. doubt[v] = {} /\ Apart(v, s)
    BY <1>1, <1>7, OverlapMeans
  <2>2. ~Occupying(v) /\ At(s, "let", v)
    BY <1>1, <2>1 DEF Occupying, Apart, At
  <2>3. ~HasLive(v)
    BY <1>1, <2>1, <2>2 DEF UnitInv, LetInv
  <2> QED  BY <1>5, <1>6, <2>3 DEF HasLive, OneLive, Occupying, At
<1>11. ArchiveInv(v)'
  <2> SUFFICES ASSUME "lease" \notin doubt'[v]
               PROVE  /\ ~unit[v].deleted
                      /\ property[unit[v].property].deleted => unit[v].deleted
                      /\ \A t \in Slots : ~At(t, "delete", v)'
    BY <1>2 DEF ArchiveInv
  <2>1. "lease" \notin doubt[v] /\ Apart(v, s)
    BY <1>1, <1>7, OverlapMeans
  <2>2. At(s, "let", v)
    BY <1>1 DEF At
  <2>3. ArchiveInv(v)
    BY <1>1 DEF UnitInv
  <2>4. \A t \in Slots : ~At(t, "delete", v)'
    BY <1>6, <2>1 DEF Apart, At
  <2> QED  BY <1>1, <2>1, <2>2, <2>3, <2>4 DEF ArchiveInv
<1> QED  BY <1>8, <1>9, <1>10, <1>11 DEF UnitInv

LEMMA OccupyUnitStep ==
  ASSUME TypeOK, Refs, \A u \in Units : UnitInv(u), NEW s \in Slots, OccupyUnit(s)
  PROVE  Refs' /\ \A u \in Units : UnitInv(u)'
<1>1. PICK v \in Units : v = req[s].unit /\ unit[v] # None /\ req[s].op = "occupy"
  BY RequestFacts DEF OccupyUnit, Refs
<1>2. property' = property /\ lease' = lease
  BY DEF OccupyUnit
<1>3. /\ unit'[v] # None /\ unit'[v].status = "occupied"
      /\ unit'[v].deleted = unit[v].deleted /\ unit'[v].property = unit[v].property
      /\ \A u \in Units \ {v} : unit'[u] = unit[u]
  <2>1. unit' = [unit EXCEPT ![v] = [unit[v] EXCEPT !.status = "occupied"]]
    BY <1>1 DEF OccupyUnit
  <2>2. unit[v] \in UnitRow
    BY <1>1, RowFacts
  <2>3. [unit[v] EXCEPT !.status = "occupied"] \in UnitRow
    BY <2>2 DEF UnitRow, UnitStatus
  <2> QED  BY <2>1, <2>2, <2>3, NoneIsNoRow DEF TypeOK, UnitRow
<1>4. req'[s] = Idle /\ \A t \in Slots \ {s} : req'[t] = req[t]
  BY SlotBecomes, RequestFacts DEF OccupyUnit, Finish
<1>5. Idle.op = "idle"
  BY RequestFacts
<1>6. doubt'[v] = doubt[v] \cup Overlap(v, s) /\ \A u \in Units \ {v} : doubt'[u] = doubt[u]
  BY <1>1, DoubtedType, OverlapMeans DEF OccupyUnit
<1>7. Refs'
  <2>1. \A t \in Slots : req'[t] = req[t] \/ req'[t].op = "idle"
    BY <1>4, <1>5
  <2> QED  BY <1>1, <1>2, <1>3, <2>1, RefsKept
<1>8. ASSUME NEW u \in Units, u # v  PROVE UnitInv(u)'
  BY <1>1, <1>2, <1>3, <1>4, <1>5, <1>6, <1>8, NothingNew
<1>9. HasLive(v)' <=> HasLive(v)
  BY <1>2 DEF HasLive
<1>10. LetInv(v)'
  <2> SUFFICES ASSUME doubt'[v] = {}
               PROVE  /\ OneLive(v)' /\ HasLive(v)' /\ ~Occupying(v)'
                      /\ \A t \in Slots : ~At(t, "let", v)'
    BY <1>3 DEF LetInv
  <2>1. doubt[v] = {} /\ Apart(v, s)
    BY <1>1, <1>6, OverlapMeans
  <2>2. Occupying(v)
    BY <1>1 DEF Occupying, At
  <2>3. HasLive(v) /\ OneLive(v)
    BY <2>1, <2>2 DEF UnitInv, LetInv
  <2>4. ~Occupying(v)' /\ \A t \in Slots : ~At(t, "let", v)'
    BY <1>4, <1>5, <2>1 DEF Occupying, Apart, At
  <2> QED  BY <1>2, <1>9, <2>3, <2>4 DEF OneLive
<1>11. ArchiveInv(v)'
  <2>1. \A t \in Slots : (At(t, "delete", v)' => At(t, "delete", v)) /\ (At(t, "let", v)' => At(t, "let", v))
    BY <1>4, <1>5 DEF At
  <2> QED  BY <1>1, <1>2, <1>3, <1>6, <1>9, <2>1 DEF UnitInv, ArchiveInv
<1> QED  BY <1>7, <1>8, <1>10, <1>11 DEF UnitInv

LEMMA RemoveUnitStep ==
  ASSUME TypeOK, Refs, \A u \in Units : UnitInv(u), NEW s \in Slots, RemoveUnit(s)
  PROVE  Refs' /\ \A u \in Units : UnitInv(u)'
<1>1. PICK v \in Units : v = req[s].unit /\ unit[v] # None /\ req[s].op = "delete"
  BY RequestFacts DEF RemoveUnit, Refs
<1>2. property' = property /\ lease' = lease
  BY DEF RemoveUnit
<1>3. /\ unit'[v] # None /\ unit'[v].deleted /\ unit'[v].property = unit[v].property
      /\ \A u \in Units \ {v} : unit'[u] = unit[u]
  <2>1. unit' = [unit EXCEPT ![v] = [unit[v] EXCEPT !.deleted = TRUE]]
    BY <1>1 DEF RemoveUnit
  <2>2. unit[v] \in UnitRow
    BY <1>1, RowFacts
  <2>3. [unit[v] EXCEPT !.deleted = TRUE] \in UnitRow
    BY <2>2 DEF UnitRow
  <2> QED  BY <2>1, <2>2, <2>3, NoneIsNoRow DEF TypeOK, UnitRow
<1>4. req'[s] = Idle /\ \A t \in Slots \ {s} : req'[t] = req[t]
  BY SlotBecomes, RequestFacts DEF RemoveUnit, Finish
<1>5. Idle.op = "idle"
  BY RequestFacts
<1>6. doubt'[v] = doubt[v] \cup Overlap(v, s) /\ \A u \in Units \ {v} : doubt'[u] = doubt[u]
  BY <1>1, DoubtedType, OverlapMeans DEF RemoveUnit
<1>7. Refs'
  <2>1. \A t \in Slots : req'[t] = req[t] \/ req'[t].op = "idle"
    BY <1>4, <1>5
  <2> QED  BY <1>1, <1>2, <1>3, <2>1, RefsKept
<1>8. ASSUME NEW u \in Units, u # v  PROVE UnitInv(u)'
  BY <1>1, <1>2, <1>3, <1>4, <1>5, <1>6, <1>8, NothingNew
<1>9. (HasLive(v)' <=> HasLive(v)) /\ (OneLive(v)' <=> OneLive(v))
  BY <1>2 DEF HasLive, OneLive
<1>10. LetInv(v)'
  <2>1. \A t \in Slots : At(t, "let", v)' => At(t, "let", v)
    BY <1>4, <1>5 DEF At
  <2>2. Occupying(v)' <=> Occupying(v)
    BY <1>1, <1>4, <1>5 DEF Occupying, At
  <2> QED  BY <1>3, <1>6, <1>9, <2>1, <2>2 DEF UnitInv, LetInv
<1>11. ArchiveInv(v)'
  <2> SUFFICES ASSUME "lease" \notin doubt'[v]
               PROVE  ~HasLive(v) /\ \A t \in Slots : ~At(t, "let", v)'
    BY <1>3, <1>9 DEF ArchiveInv
  <2>1. "lease" \notin doubt[v] /\ Apart(v, s)
    BY <1>1, <1>6, OverlapMeans
  <2>2. At(s, "delete", v)
    BY <1>1 DEF At
  <2>3. ~HasLive(v)
    BY <1>1, <2>1, <2>2 DEF UnitInv, ArchiveInv
  <2>4. \A t \in Slots : ~At(t, "let", v)'
    BY <1>4, <1>5, <2>1 DEF Apart, At
  <2> QED  BY <2>3, <2>4
<1> QED  BY <1>7, <1>8, <1>10, <1>11 DEF UnitInv

LEMMA InsertUnitStep ==
  ASSUME TypeOK, Refs, \A u \in Units : UnitInv(u), NEW s \in Slots, InsertUnit(s)
  PROVE  Refs' /\ \A u \in Units : UnitInv(u)'
<1>1. PICK p \in Props : p = req[s].property /\ property[p] # None /\ req[s].op = "capped unit"
  BY RequestFacts DEF InsertUnit, Refs
<1>2. PICK v \in Units, status \in UnitStatus :
        /\ unit[v] = None
        /\ unit' = [unit EXCEPT ![v] = [property |-> p, status |-> status, deleted |-> FALSE]]
        /\ Doubted(v, (IF status = "occupied" THEN {"status"} ELSE {})
                      \cup (IF PropertyFound(p) THEN {} ELSE {"lease"}))
  BY <1>1 DEF InsertUnit
<1>3. property' = property /\ lease' = lease
  BY DEF InsertUnit
<1>4. [property |-> p, status |-> status, deleted |-> FALSE] \in UnitRow
  BY DEF UnitRow
<1>5. /\ unit'[v] # None /\ unit'[v].status = status
      /\ ~unit'[v].deleted /\ unit'[v].property = p
      /\ \A u \in Units \ {v} : unit'[u] = unit[u]
  BY <1>2, <1>4, NoneIsNoRow DEF TypeOK
<1>6. req'[s] = Idle /\ Idle.op = "idle" /\ \A t \in Slots \ {s} : req'[t] = req[t]
  BY SlotBecomes, RequestFacts DEF InsertUnit, Finish
<1>7. /\ doubt'[v] = doubt[v] \cup (IF status = "occupied" THEN {"status"} ELSE {})
                              \cup (IF PropertyFound(p) THEN {} ELSE {"lease"})
      /\ \A u \in Units \ {v} : doubt'[u] = doubt[u]
  BY <1>2 DEF Doubted, TypeOK
<1>8. Refs'
  <2>1. \A t \in Slots : req'[t] = req[t] \/ req'[t].op = "idle"
    BY <1>6
  <2> QED  BY <1>1, <1>2, <1>3, <1>5, <2>1, RefsKept
<1>9. ASSUME NEW u \in Units, u # v  PROVE UnitInv(u)'
  BY <1>1, <1>3, <1>5, <1>6, <1>7, <1>9, NothingNew
<1>10. ~HasLive(v)' /\ OneLive(v)'
  BY <1>2, <1>3 DEF Refs, HasLive, OneLive
<1>11. \A t \in Slots, op \in {"let", "occupy", "delete"} : ~(req'[t].op = op /\ req'[t].unit = v)
  BY <1>2, <1>6 DEF Refs
<1>12. LetInv(v)'
  BY <1>5, <1>7, <1>10, <1>11 DEF LetInv, Occupying, At
<1>13. ArchiveInv(v)'
  BY <1>3, <1>5, <1>7, <1>10, <1>11 DEF ArchiveInv, At, PropertyFound
<1> QED  BY <1>8, <1>9, <1>12, <1>13 DEF UnitInv

LEMMA UpdateUnitStep ==
  ASSUME TypeOK, Refs, \A u \in Units : UnitInv(u), NEW v \in Units, UpdateUnit(v)
  PROVE  Refs' /\ \A u \in Units : UnitInv(u)'
<1>1. PICK status \in UnitStatus :
        /\ unit[v] # None
        /\ unit' = [unit EXCEPT ![v] = [unit[v] EXCEPT !.status = status]]
        /\ Doubted(v, Overlap(v, None)
                      \cup (IF "occupied" \in {status, unit[v].status} THEN {"status"} ELSE {}))
  BY DEF UpdateUnit, UnitFound
<1>2. property' = property /\ lease' = lease /\ req' = req
  BY DEF UpdateUnit
<1>3. /\ unit'[v] # None /\ unit'[v].status = status
      /\ unit'[v].deleted = unit[v].deleted /\ unit'[v].property = unit[v].property
      /\ \A u \in Units \ {v} : unit'[u] = unit[u]
  <2>1. unit[v] \in UnitRow
    BY <1>1, RowFacts
  <2>2. [unit[v] EXCEPT !.status = status] \in UnitRow
    BY <2>1 DEF UnitRow
  <2> QED  BY <1>1, <2>1, <2>2, NoneIsNoRow DEF TypeOK, UnitRow
<1>4. /\ doubt[v] \subseteq doubt'[v] /\ \A u \in Units \ {v} : doubt'[u] = doubt[u]
      /\ doubt'[v] = {} => "occupied" \notin {status, unit[v].status}
  BY <1>1 DEF Doubted, TypeOK
<1>5. Refs'
  BY <1>1, <1>2, <1>3, RefsKept
<1>6. ASSUME NEW u \in Units, u # v  PROVE UnitInv(u)'
  BY <1>2, <1>3, <1>4, <1>6, NothingNew
<1>7. (HasLive(v)' <=> HasLive(v)) /\ (OneLive(v)' <=> OneLive(v))
  BY <1>2 DEF HasLive, OneLive
<1>8. (Occupying(v)' <=> Occupying(v)) /\ \A t \in Slots, op \in {"let", "delete"} : At(t, op, v)' <=> At(t, op, v)
  BY <1>2 DEF Occupying, At
<1>9. LetInv(v)'
  BY <1>1, <1>3, <1>4, <1>7, <1>8 DEF UnitInv, LetInv
<1>10. ArchiveInv(v)'
  BY <1>1, <1>2, <1>3, <1>4, <1>7, <1>8 DEF UnitInv, ArchiveInv
<1> QED  BY <1>5, <1>6, <1>9, <1>10 DEF UnitInv

(* A lease ends, or comes back.                                            *)
LEMMA EndLeaseStep ==
  ASSUME TypeOK, Refs, \A u \in Units : UnitInv(u), NEW l \in Leases, EndLease(l)
  PROVE  Refs' /\ \A u \in Units : UnitInv(u)'
<1>1. PICK v \in Units : v = lease[l].unit /\ lease[l] # None /\ unit[v] # None
  BY RowFacts DEF EndLease, Refs
<1>2. property' = property /\ req' = req
  BY DEF EndLease
<1>3. /\ lease'[l] # None /\ ~lease'[l].live /\ lease'[l].unit = v
      /\ \A m \in Leases \ {l} : lease'[m] = lease[m]
  <2>1. lease' = [lease EXCEPT ![l] = [lease[l] EXCEPT !.live = FALSE]]
    BY DEF EndLease
  <2>2. lease[l] \in LeaseRow
    BY <1>1, RowFacts
  <2>3. [lease[l] EXCEPT !.live = FALSE] \in LeaseRow
    BY <2>2 DEF LeaseRow
  <2> QED  BY <1>1, <2>1, <2>2, <2>3, NoneIsNoRow DEF TypeOK, LeaseRow
<1>4. /\ unit'[v] # None /\ unit'[v].status = "vacant"
      /\ unit'[v].deleted = unit[v].deleted /\ unit'[v].property = unit[v].property
      /\ \A u \in Units \ {v} : unit'[u] = unit[u]
  <2>1. unit' = [unit EXCEPT ![v] = [unit[v] EXCEPT !.status = "vacant"]]
    BY <1>1 DEF EndLease
  <2>2. unit[v] \in UnitRow
    BY <1>1, RowFacts
  <2>3. [unit[v] EXCEPT !.status = "vacant"] \in UnitRow
    BY <2>2 DEF UnitRow, UnitStatus
  <2> QED  BY <2>1, <2>2, <2>3, NoneIsNoRow DEF TypeOK, UnitRow
<1>5. /\ doubt'[v] = doubt[v] \cup Overlap(v, None) \cup (IF Live(l) THEN {} ELSE {"status"})
      /\ \A u \in Units \ {v} : doubt'[u] = doubt[u]
  BY <1>1 DEF EndLease, Doubted, TypeOK
<1>6. Refs'
  BY <1>1, <1>2, <1>3, <1>4, RefsKept
<1>7. ASSUME NEW u \in Units, u # v  PROVE UnitInv(u)'
  BY <1>1, <1>2, <1>3, <1>4, <1>5, <1>7, NothingNew
<1>8. LetInv(v)'
  <2> SUFFICES ASSUME doubt'[v] = {}
               PROVE  OneLive(v)' /\ ~HasLive(v)' /\ ~Occupying(v)'
    BY <1>4 DEF LetInv
  <2>1. doubt[v] = {} /\ Apart(v, None) /\ lease[l].live
    BY <1>5, OverlapMeans DEF Live
  <2>2. OneLive(v)
    BY <2>1 DEF UnitInv, LetInv
  <2>3. ~HasLive(v)'
    BY <1>1, <1>3, <2>1, <2>2 DEF HasLive, OneLive
  <2>4. ~Occupying(v)'
    BY <1>2, <2>1, NoneAssumption DEF Occupying, Apart, At
  <2> QED  BY <2>3, <2>4 DEF OneLive, HasLive
<1>9. ArchiveInv(v)'
  <2>1. HasLive(v)' => HasLive(v)
    BY <1>1, <1>3 DEF HasLive
  <2>2. \A t \in Slots, op \in {"let", "delete"} : At(t, op, v)' <=> At(t, op, v)
    BY <1>2 DEF At
  <2> QED  BY <1>1, <1>2, <1>4, <1>5, <2>1, <2>2 DEF UnitInv, ArchiveInv
<1> QED  BY <1>6, <1>7, <1>8, <1>9 DEF UnitInv

LEMMA UpdateLeaseStep ==
  ASSUME TypeOK, Refs, \A u \in Units : UnitInv(u), NEW l \in Leases, UpdateLease(l)
  PROVE  Refs' /\ \A u \in Units : UnitInv(u)'
<1>1. PICK v \in Units : v = lease[l].unit /\ lease[l] # None
  BY RowFacts DEF UpdateLease
<1>2. property' = property /\ req' = req /\ unit' = unit
  BY DEF UpdateLease
<1>3. /\ lease'[l] # None /\ lease'[l].live /\ lease'[l].unit = v
      /\ \A m \in Leases \ {l} : lease'[m] = lease[m]
  <2>1. lease' = [lease EXCEPT ![l] = [lease[l] EXCEPT !.live = TRUE]]
    BY DEF UpdateLease
  <2>2. lease[l] \in LeaseRow
    BY <1>1, RowFacts
  <2>3. [lease[l] EXCEPT !.live = TRUE] \in LeaseRow
    BY <2>2 DEF LeaseRow
  <2> QED  BY <1>1, <2>1, <2>2, <2>3, NoneIsNoRow DEF TypeOK, LeaseRow
<1>4. /\ doubt'[v] = doubt[v] \cup (IF Live(l) THEN {} ELSE Doubts)
      /\ \A u \in Units \ {v} : doubt'[u] = doubt[u]
  BY <1>1 DEF UpdateLease, Doubted, TypeOK
<1>5. Refs'
  BY <1>1, <1>2, <1>3, RefsKept
<1>6. ASSUME NEW u \in Units, u # v  PROVE UnitInv(u)'
  BY <1>1, <1>2, <1>3, <1>4, <1>6, NothingNew
<1>7. UnitInv(v)'
  <2>1. ASSUME Live(l)  PROVE UnitInv(v)'
    <3>1. lease[l].live
      BY <2>1 DEF Live
    <3> QED  BY <1>1, <1>2, <1>3, <1>4, <2>1, <3>1, NothingNew
  <2>2. ASSUME ~Live(l)  PROVE UnitInv(v)'
    <3>1. doubt'[v] # {} /\ "lease" \in doubt'[v]
      BY <1>4, <2>2 DEF Doubts
    <3> QED  BY <3>1 DEF UnitInv, LetInv, ArchiveInv
  <2> QED  BY <2>1, <2>2
<1> QED  BY <1>5, <1>6, <1>7

(* A property is archived.                                                 *)
LEMMA CascadeArchiveStep ==
  ASSUME TypeOK, Refs, \A u \in Units : UnitInv(u), NEW p \in Props, CascadeArchive(p)
  PROVE  Refs' /\ \A u \in Units : UnitInv(u)'
<1>1. req' = req
  BY DEF CascadeArchive
<1>2. /\ property[p] # None /\ property'[p] # None
      /\ \A q \in Props \ {p} : property'[q] = property[q]
  <2>1. property[p] \in PropertyRow /\ property' = [property EXCEPT ![p] = [property[p] EXCEPT !.deleted = TRUE]]
    BY RowFacts DEF CascadeArchive, PropertyFound
  <2>2. [property[p] EXCEPT !.deleted = TRUE] \in PropertyRow
    BY <2>1 DEF PropertyRow
  <2> QED  BY <2>1, <2>2, NoneIsNoRow DEF TypeOK
<1>3. ASSUME NEW u \in Units
      PROVE  /\ u \notin UnitsOf(p) => unit'[u] = unit[u]
             /\ u \in UnitsOf(p) => unit'[u] # None /\ unit'[u].deleted /\ unit'[u].property = unit[u].property
  <2>1. unit'[u] = IF u \in UnitsOf(p) THEN [unit[u] EXCEPT !.deleted = TRUE] ELSE unit[u]
    BY DEF CascadeArchive
  <2>2. u \in UnitsOf(p) => unit[u] \in UnitRow
    BY RowFacts DEF UnitsOf, UnitFound
  <2>3. u \in UnitsOf(p) => [unit[u] EXCEPT !.deleted = TRUE] \in UnitRow
    BY <2>2 DEF UnitRow
  <2> QED  BY <2>1, <2>2, <2>3, NoneIsNoRow DEF UnitRow
<1>4. ASSUME NEW l \in Leases
      PROVE  /\ (Live(l) /\ unit[lease[l].unit].property = p) =>
                  lease'[l] # None /\ ~lease'[l].live /\ lease'[l].unit = lease[l].unit
             /\ ~(Live(l) /\ unit[lease[l].unit].property = p) => lease'[l] = lease[l]
  <2>1. lease'[l] = IF Live(l) /\ unit[lease[l].unit].property = p
                    THEN [lease[l] EXCEPT !.live = FALSE] ELSE lease[l]
    BY DEF CascadeArchive
  <2>2. Live(l) => lease[l] \in LeaseRow
    BY RowFacts DEF Live
  <2>3. Live(l) => [lease[l] EXCEPT !.live = FALSE] \in LeaseRow
    BY <2>2 DEF LeaseRow
  <2> QED  BY <2>1, <2>2, <2>3, NoneIsNoRow DEF LeaseRow
<1>5. \A u \in Units : doubt'[u] = IF unit[u] # None /\ unit[u].property = p
                                   THEN doubt[u] \cup Overlap(u, None) ELSE doubt[u]
  BY DEF CascadeArchive
<1>6. Refs'
  <2>1. \A u \in Units : (unit[u] # None => unit'[u] # None)
                          /\ (unit'[u] # None => unit[u] # None /\ unit'[u].property = unit[u].property)
    BY <1>3 DEF UnitsOf, UnitFound
  <2>2. \A l \in Leases : lease'[l] # None => lease[l] # None /\ lease'[l].unit = lease[l].unit
    BY <1>4 DEF Live
  <2>3. \A q \in Props : property[q] # None => property'[q] # None
    BY <1>2
  <2> QED  BY <1>1, <2>1, <2>2, <2>3, RefsKept
<1>7. ASSUME NEW u \in Units, unit[u] = None \/ unit[u].property # p  PROVE UnitInv(u)'
  <2>1. unit'[u] = unit[u] /\ doubt'[u] = doubt[u]
    BY <1>3, <1>5, <1>7 DEF UnitsOf, UnitFound
  <2>2. unit[u] # None => property'[unit[u].property].deleted = property[unit[u].property].deleted
    BY <1>2, <1>7, RowFacts
  <2>3. ASSUME NEW l \in Leases
        PROVE  (lease'[l] # None /\ lease'[l].live /\ lease'[l].unit = u)
               <=> (lease[l] # None /\ lease[l].live /\ lease[l].unit = u)
    <3>1. CASE Live(l) /\ unit[lease[l].unit].property = p
      <4>1. lease[l].unit # u
        BY <1>7, <3>1 DEF Refs, Live
      <4> QED  BY <1>4, <3>1, <4>1
    <3>2. CASE ~(Live(l) /\ unit[lease[l].unit].property = p)
      BY <1>4, <3>2
    <3> QED  BY <3>1, <3>2
  <2> QED  BY <1>1, <2>1, <2>2, <2>3, NothingNew
<1>8. ASSUME NEW u \in Units, unit[u] # None, unit[u].property = p  PROVE UnitInv(u)'
  <2>1. unit'[u] # None /\ unit'[u].deleted
    BY <1>3, <1>8, RowFacts DEF UnitsOf, UnitFound, UnitRow
  <2>2. ASSUME NEW l \in Leases, lease'[l] # None, lease'[l].live, lease'[l].unit = u  PROVE FALSE
    <3>1. ~(Live(l) /\ unit[lease[l].unit].property = p)
      BY <1>4, <2>2
    <3>2. lease'[l] = lease[l]
      BY <1>4, <3>1
    <3> QED  BY <1>8, <2>2, <3>1, <3>2 DEF Live
  <2>3. ~HasLive(u)' /\ OneLive(u)'
    BY <2>2 DEF HasLive, OneLive
  <2>4. doubt'[u] = {} \/ "lease" \notin doubt'[u] =>
          \A t \in Slots, op \in {"let", "occupy", "delete"} : ~At(t, op, u)'
    <3>1. doubt'[u] = {} \/ "lease" \notin doubt'[u] => Apart(u, None)
      BY <1>5, <1>8, OverlapMeans
    <3> QED  BY <1>1, <3>1, NoneAssumption DEF Apart, At
  <2>5. LetInv(u)'
    BY <2>1, <2>3, <2>4 DEF LetInv, Occupying
  <2>6. ArchiveInv(u)'
    BY <2>1, <2>3, <2>4 DEF ArchiveInv
  <2> QED  BY <2>5, <2>6 DEF UnitInv
<1> QED  BY <1>6, <1>7, <1>8

-----------------------------------------------------------------------------
(* The theorems.                                                           *)

THEOREM OccupancyInvariant == Spec => [](TypeOK /\ Refs /\ \A u \in Units : UnitInv(u))
<1> DEFINE Inv == TypeOK /\ Refs /\ \A u \in Units : UnitInv(u)
<1>1. Init => Inv
  <2> SUFFICES ASSUME Init  PROVE Inv
    OBVIOUS
  <2>1. TypeOK
    BY DEF Init, TypeOK, Request
  <2>2. Refs
    BY DEF Init, Refs, Idle
  <2>3. ASSUME NEW u \in Units  PROVE UnitInv(u)
    BY DEF Init, UnitInv, LetInv, ArchiveInv, OneLive, HasLive, Occupying, At, Idle
  <2> QED  BY <2>1, <2>2, <2>3
<1>2. Inv /\ [Next]_vars => Inv'
  BY StepType, CalmSlots, CalmUpdates, BeginsStep, InsertLeaseStep, OccupyUnitStep, RemoveUnitStep,
     InsertUnitStep, UpdateUnitStep, EndLeaseStep, UpdateLeaseStep, CascadeArchiveStep DEF Next
<1> QED  BY <1>1, <1>2, PTL DEF Spec

(* The rows and the requests have their types.                             *)
THEOREM TypesHold == Spec => []TypeOK
  BY OccupancyInvariant, PTL

(* A unit has one live lease at most, unless requests on it overlapped, or *)
(* its status or an ended lease was changed by hand (createLease, endLease,*)
(* updateUnit).                                                            *)
THEOREM NeverLetTwice == Spec => []OneLiveLease
<1>1. (\A u \in Units : UnitInv(u)) => OneLiveLease
  BY DEF UnitInv, LetInv, OneLive, OneLiveLease, LiveOn, Live
<1> QED  BY <1>1, OccupancyInvariant, PTL

(* Under the same conditions a unit is occupied exactly while it is let.   *)
THEOREM StatusFollowsLeases == Spec => []StatusIsTrue
<1>1. (\A u \in Units : UnitInv(u)) => StatusIsTrue
  <2> SUFFICES ASSUME NEW u \in Units, UnitInv(u), UnitFound(u), doubt[u] = {},
                      \A s \in Slots : req[s].op = "occupy" => req[s].unit # u
               PROVE  unit[u].status = "occupied" <=> LiveOn(u) # {}
    BY DEF StatusIsTrue
  <2>1. ~Occupying(u)
    BY DEF Occupying, At
  <2> QED  BY <2>1, LiveOnMeans DEF UnitInv, LetInv, UnitFound
<1> QED  BY <1>1, OccupancyInvariant, PTL

(* Nothing is let in what was archived, unless a request overlapped the    *)
(* archive or an ended lease was brought back (cascadeArchive, deleteUnit).*)
THEOREM ArchivedStaysFree == Spec => []ArchivedIsFree
<1>1. (\A u \in Units : UnitInv(u)) => ArchivedIsFree
  <2> SUFFICES ASSUME NEW u \in Units, UnitInv(u), unit[u] # None, "lease" \notin doubt[u]
               PROVE  /\ unit[u].deleted => LiveOn(u) = {}
                      /\ property[unit[u].property].deleted => unit[u].deleted
    BY DEF ArchivedIsFree
  <2> QED  BY LiveOnMeans DEF UnitInv, ArchiveInv
<1> QED  BY <1>1, OccupancyInvariant, PTL
-----------------------------------------------------------------------------
(* The limits of a landlord without a plan.                                *)

(* Requests in progress make up for at most one less than there can be.    *)
Within(used, limit, asking) ==
  Cardinality(used) + Cardinality(asking) < limit + Cardinality(Slots)

Standing    == {p \in Props : PropertyFound(p)}
NewProperty == {s \in Slots : req[s].op = "property"}
NewUnit(p)  == {s \in Slots : req[s].op \in {"unit", "capped unit"} /\ req[s].property = p}

(* Without a plan every request that was counted is the landlord's own.    *)
Counted ==
  ~exempt => /\ ~paid
             /\ \A s \in Slots : req[s].op \in {"property", "unit"} => req[s].by = "landlord"

LimitInv ==
  /\ Counted
  /\ ~exempt =>
       /\ Within(Standing, FreeProps, NewProperty)
       /\ \A p \in Props : /\ Within(UnitsOf(p), FreeUnits, NewUnit(p))
                           /\ property[p] # None => property[p].type # "commercial"

LEMMA WithinFewer ==
  ASSUME NEW A, NEW B, NEW X, NEW Y, NEW limit \in Nat, IsFiniteSet(A), IsFiniteSet(X),
         B \subseteq A, Y \subseteq X, Within(A, limit, X)
  PROVE  Within(B, limit, Y)
<1>1. Cardinality(B) <= Cardinality(A) /\ Cardinality(Y) <= Cardinality(X)
  BY FS_Subset
<1>2. /\ Cardinality(A) \in Nat /\ Cardinality(B) \in Nat
      /\ Cardinality(X) \in Nat /\ Cardinality(Y) \in Nat /\ Cardinality(Slots) \in Nat
  BY FS_Subset, FS_CardinalityType, SlotsAssumption
<1> QED  BY <1>1, <1>2 DEF Within

LEMMA WithinAsking ==
  ASSUME NEW A, NEW Y, NEW limit \in Nat, IsFiniteSet(A), Y \subseteq Slots,
         Cardinality(A) < limit
  PROVE  Within(A, limit, Y)
<1>1. Cardinality(Y) <= Cardinality(Slots)
  BY FS_Subset, SlotsAssumption
<1>2. Cardinality(A) \in Nat /\ Cardinality(Y) \in Nat /\ Cardinality(Slots) \in Nat
  BY FS_Subset, FS_CardinalityType, SlotsAssumption
<1> QED  BY <1>1, <1>2 DEF Within

(* What a request asked for enters as the request ends.                    *)
LEMMA WithinGranted ==
  ASSUME NEW A, NEW B, NEW X, NEW Y, NEW limit \in Nat, IsFiniteSet(A), IsFiniteSet(X),
         NEW a, B \subseteq A \cup {a}, NEW s \in X, Y \subseteq X \ {s}, Within(A, limit, X)
  PROVE  Within(B, limit, Y)
<1>1. IsFiniteSet(A \cup {a}) /\ IsFiniteSet(X \ {s})
  BY FS_AddElement, FS_RemoveElement
<1>2. Cardinality(A \cup {a}) = Cardinality(A) \/ Cardinality(A \cup {a}) = Cardinality(A) + 1
  BY FS_AddElement, Zenon
<1>3. Cardinality(X \ {s}) = Cardinality(X) - 1
  BY FS_RemoveElement, Zenon
<1>4. Cardinality(B) <= Cardinality(A \cup {a}) /\ Cardinality(Y) <= Cardinality(X \ {s})
  BY <1>1, FS_Subset
<1>5. /\ Cardinality(A) \in Nat /\ Cardinality(B) \in Nat
      /\ Cardinality(X) \in Nat /\ Cardinality(Y) \in Nat /\ Cardinality(Slots) \in Nat
  BY <1>1, FS_Subset, FS_CardinalityType, SlotsAssumption
<1> QED  BY <1>2, <1>3, <1>4, <1>5 DEF Within

LEMMA LimitSets ==
  /\ FreeUnits \in Nat \ {0} /\ FreeProps \in Nat \ {0}
  /\ IsFiniteSet(Standing) /\ IsFiniteSet(NewProperty) /\ NewProperty \subseteq Slots
  /\ \A p \in Props : IsFiniteSet(UnitsOf(p)) /\ IsFiniteSet(NewUnit(p)) /\ NewUnit(p) \subseteq Slots
<1>1. Standing \subseteq Props /\ NewProperty \subseteq Slots
  BY DEF Standing, NewProperty
<1>2. \A p \in Props : UnitsOf(p) \subseteq Units /\ NewUnit(p) \subseteq Slots
  BY DEF UnitsOf, NewUnit
<1> QED  BY <1>1, <1>2, FS_Subset, RowsAssumption, SlotsAssumption, LimitAssumption

(* Nothing counted is added, and no request that counts.                   *)
LEMMA NothingCounted ==
  ASSUME LimitInv, exempt => exempt',
         ~exempt' => ~paid',
         \A p \in Props : property'[p] # None =>
            /\ property[p] # None
            /\ ~exempt' /\ property'[p].type = "commercial" => property[p].type = "commercial",
         \A p \in Props : PropertyFound(p)' => PropertyFound(p),
         \A u \in Units : UnitFound(u)' => UnitFound(u) /\ unit'[u].property = unit[u].property,
         \A s \in Slots : req'[s].op \in {"property", "unit", "capped unit"} =>
            /\ req[s].op = "property" <=> req'[s].op = "property"
            /\ req[s].op \in {"property", "unit", "capped unit"}
            /\ req'[s].op # "property" => req'[s].property = req[s].property
            /\ req'[s].op \in {"property", "unit"} => req'[s].op = req[s].op /\ req'[s].by = req[s].by
  PROVE  LimitInv'
<1>1. Counted'
  BY DEF LimitInv, Counted
<1>2. ASSUME ~exempt'
      PROVE  Within(Standing', FreeProps, NewProperty')
  <2>1. Standing' \subseteq Standing /\ NewProperty' \subseteq NewProperty
    BY DEF Standing, NewProperty
  <2> QED  BY <1>2, <2>1, WithinFewer, LimitSets DEF LimitInv
<1>3. ASSUME ~exempt', NEW p \in Props
      PROVE  /\ Within(UnitsOf(p)', FreeUnits, NewUnit(p)')
             /\ property'[p] # None => property'[p].type # "commercial"
  <2>1. UnitsOf(p)' \subseteq UnitsOf(p) /\ NewUnit(p)' \subseteq NewUnit(p)
    BY DEF UnitsOf, NewUnit
  <2>2. Within(UnitsOf(p), FreeUnits, NewUnit(p))
    BY <1>3 DEF LimitInv
  <2>3. Within(UnitsOf(p)', FreeUnits, NewUnit(p)')
    BY <2>1, <2>2, WithinFewer, LimitSets
  <2> QED  BY <1>3, <2>3 DEF LimitInv
<1>4. ~exempt' => Within(Standing, FreeProps, NewProperty)'
  BY <1>2 DEF Within
<1>5. ~exempt' => \A p \in Props : Within(UnitsOf(p), FreeUnits, NewUnit(p))'
  BY <1>3 DEF Within
<1> QED  BY <1>1, <1>3, <1>4, <1>5 DEF LimitInv

(* The slot begins what was counted as still within the limit.             *)
LEMMA CreationsStep ==
  ASSUME TypeOK, Refs, LimitInv, NEW s \in Slots, CreateProperty(s) \/ CreateUnit(s)
  PROVE  LimitInv'
<1>1. PICK by \in Actors :
        /\ req[s] = Idle /\ \A t \in Slots \ {s} : req'[t] = req[t]
        /\ req'[s].op \in {"property", "unit"} /\ req'[s].by = by
        /\ exempt' = (exempt \/ by = "admin")
        /\ UNCHANGED <<property, unit, paid>>
        /\ \/ /\ req'[s].op = "property" /\ WithinLimit(by, Standing, FreeProps)
           \/ /\ req'[s].op = "unit" /\ req'[s].property \in Props
              /\ WithinLimit(by, UnitsOf(req'[s].property), FreeUnits)
  <2>1. CASE CreateProperty(s)
    <3>1. PICK type \in Types, by \in Actors :
            /\ WithinLimit(by, Standing, FreeProps)
            /\ req[s] = Idle /\ req' = [req EXCEPT ![s] = [op |-> "property", type |-> type, by |-> by]]
            /\ exempt' = (exempt \/ by = "admin")
            /\ UNCHANGED <<property, unit, paid>>
      BY <2>1 DEF CreateProperty, Begin, rows, Standing
    <3> QED  BY <3>1 DEF TypeOK
  <2>2. CASE CreateUnit(s)
    <3>1. PICK p \in Props, by \in Actors :
            /\ WithinLimit(by, UnitsOf(p), FreeUnits)
            /\ req[s] = Idle /\ req' = [req EXCEPT ![s] = [op |-> "unit", property |-> p, by |-> by]]
            /\ exempt' = (exempt \/ by = "admin")
            /\ UNCHANGED <<property, unit, paid>>
      BY <2>2 DEF CreateUnit, Begin, rows
    <3> QED  BY <3>1 DEF TypeOK
  <2> QED  BY <2>1, <2>2
<1>2. /\ Standing' = Standing
      /\ \A p \in Props : UnitsOf(p)' = UnitsOf(p)
  BY <1>1 DEF Standing, PropertyFound, UnitsOf, UnitFound
<1>3. Idle.op = "idle"
  BY DEF Idle
<1>4. Counted'
  BY <1>1 DEF LimitInv, Counted, Actors
<1>5. ASSUME ~exempt'  PROVE ~exempt /\ ~Unlimited(by)
  BY <1>1, <1>5 DEF LimitInv, Counted, Actors, Unlimited
<1>6. ASSUME ~exempt'  PROVE Within(Standing', FreeProps, NewProperty')
  <2>1. CASE req'[s].op = "property"
    <3>1. Cardinality(Standing) < FreeProps
      BY <1>1, <1>5, <1>6, <2>1 DEF WithinLimit
    <3>2. NewProperty' \subseteq Slots
      BY DEF NewProperty
    <3> QED  BY <1>2, <3>1, <3>2, WithinAsking, LimitSets
  <2>2. CASE req'[s].op = "unit"
    <3>1. NewProperty' \subseteq NewProperty
      BY <1>1, <2>2 DEF NewProperty
    <3>2. Within(Standing, FreeProps, NewProperty)
      BY <1>5, <1>6 DEF LimitInv
    <3> QED  BY <1>2, <3>1, <3>2, WithinFewer, LimitSets
  <2> QED  BY <1>1, <2>1, <2>2
<1>7. ASSUME ~exempt', NEW p \in Props  PROVE Within(UnitsOf(p)', FreeUnits, NewUnit(p)')
  <2>1. CASE req'[s].op = "unit" /\ req'[s].property = p
    <3>1. Cardinality(UnitsOf(p)) < FreeUnits
      BY <1>1, <1>5, <1>7, <2>1 DEF WithinLimit
    <3>2. NewUnit(p)' \subseteq Slots
      BY DEF NewUnit
    <3> QED  BY <1>2, <3>1, <3>2, WithinAsking, LimitSets
  <2>2. CASE ~(req'[s].op = "unit" /\ req'[s].property = p)
    <3>1. NewUnit(p)' \subseteq NewUnit(p)
      BY <1>1, <2>2 DEF NewUnit
    <3>2. Within(UnitsOf(p), FreeUnits, NewUnit(p))
      BY <1>5, <1>7 DEF LimitInv
    <3> QED  BY <1>2, <3>1, <3>2, WithinFewer, LimitSets
  <2> QED  BY <2>1, <2>2
<1>8. ~exempt' => Within(Standing, FreeProps, NewProperty)'
  BY <1>6 DEF Within
<1>9. ~exempt' => \A p \in Props : Within(UnitsOf(p), FreeUnits, NewUnit(p))'
  BY <1>7 DEF Within
<1>10. ~exempt' => \A p \in Props : property'[p] # None => property'[p].type # "commercial"
  BY <1>1, <1>5 DEF LimitInv
<1> QED  BY <1>4, <1>8, <1>9, <1>10 DEF LimitInv

(* The property that was counted for is inserted.                          *)
LEMMA InsertPropertyCounted ==
  ASSUME TypeOK, Refs, LimitInv, NEW s \in Slots, InsertProperty(s)
  PROVE  LimitInv'
<1>1. /\ req[s].op = "property" /\ req'[s].op = "idle"
      /\ \A t \in Slots \ {s} : req'[t] = req[t]
      /\ UNCHANGED <<unit, paid, exempt>>
  BY DEF InsertProperty, Finish, TypeOK, Idle
<1>2. PICK q \in Props \cup {None} :
        /\ \A p \in Props : p # q => property'[p] = property[p]
        /\ q # None => /\ property'[q] = [type |-> req[s].type, deleted |-> FALSE]
                       /\ req[s].type = "commercial" => Unlimited(req[s].by)
  BY DEF InsertProperty, TypeOK
<1>3. Counted'
  BY <1>1 DEF LimitInv, Counted
<1>4. ASSUME ~exempt'  PROVE Within(Standing', FreeProps, NewProperty')
  <2>1. Standing' \subseteq Standing \cup {q}
    BY <1>2 DEF Standing, PropertyFound
  <2>2. s \in NewProperty /\ NewProperty' \subseteq NewProperty \ {s}
    BY <1>1 DEF NewProperty
  <2>3. Within(Standing, FreeProps, NewProperty)
    BY <1>1, <1>4 DEF LimitInv
  <2> QED  BY <2>1, <2>2, <2>3, WithinGranted, LimitSets
<1>5. ASSUME ~exempt', NEW p \in Props
      PROVE  /\ Within(UnitsOf(p)', FreeUnits, NewUnit(p)')
             /\ property'[p] # None => property'[p].type # "commercial"
  <2>1. UnitsOf(p)' \subseteq UnitsOf(p) /\ NewUnit(p)' \subseteq NewUnit(p)
    BY <1>1 DEF UnitsOf, UnitFound, NewUnit
  <2>2. Within(UnitsOf(p), FreeUnits, NewUnit(p))
    BY <1>1, <1>5 DEF LimitInv
  <2>3. Within(UnitsOf(p)', FreeUnits, NewUnit(p)')
    BY <2>1, <2>2, WithinFewer, LimitSets
  <2>4. ~Unlimited(req[s].by)
    BY <1>1, <1>5 DEF LimitInv, Counted, Unlimited
  <2>5. property'[p] # None => property'[p].type # "commercial"
    BY <1>1, <1>2, <1>5, <2>4, NoneAssumption DEF LimitInv
  <2> QED  BY <2>3, <2>5
<1>6. ~exempt' => Within(Standing, FreeProps, NewProperty)'
  BY <1>4 DEF Within
<1>7. ~exempt' => \A p \in Props : Within(UnitsOf(p), FreeUnits, NewUnit(p))'
  BY <1>5 DEF Within
<1> QED  BY <1>3, <1>5, <1>6, <1>7 DEF LimitInv

(* The unit that was counted for is inserted.                              *)
LEMMA InsertUnitCounted ==
  ASSUME TypeOK, Refs, LimitInv, NEW s \in Slots, InsertUnit(s)
  PROVE  LimitInv'
<1>1. /\ req[s].op = "capped unit" /\ req'[s].op = "idle"
      /\ \A t \in Slots \ {s} : req'[t] = req[t]
      /\ UNCHANGED <<property, paid, exempt>>
  BY DEF InsertUnit, Finish, TypeOK, Idle
<1>2. PICK v \in Units :
        /\ \A u \in Units : u # v => unit'[u] = unit[u]
        /\ unit'[v].property = req[s].property
  <2>1. PICK v \in Units, status \in UnitStatus :
          unit' = [unit EXCEPT ![v] = [property |-> req[s].property, status |-> status,
                                       deleted |-> FALSE]]
    BY DEF InsertUnit
  <2> QED  BY <2>1 DEF TypeOK
<1>3. Counted'
  BY <1>1 DEF LimitInv, Counted
<1>4. ASSUME ~exempt'  PROVE Within(Standing', FreeProps, NewProperty')
  <2>1. Standing' \subseteq Standing /\ NewProperty' \subseteq NewProperty
    BY <1>1 DEF Standing, PropertyFound, NewProperty
  <2>2. Within(Standing, FreeProps, NewProperty)
    BY <1>1, <1>4 DEF LimitInv
  <2> QED  BY <2>1, <2>2, WithinFewer, LimitSets
<1>5. ASSUME ~exempt', NEW p \in Props  PROVE Within(UnitsOf(p)', FreeUnits, NewUnit(p)')
  <2>1. Within(UnitsOf(p), FreeUnits, NewUnit(p))
    BY <1>1, <1>5 DEF LimitInv
  <2>2. CASE req[s].property = p
    <3>1. UnitsOf(p)' \subseteq UnitsOf(p) \cup {v}
      BY <1>2 DEF UnitsOf, UnitFound
    <3>2. s \in NewUnit(p) /\ NewUnit(p)' \subseteq NewUnit(p) \ {s}
      BY <1>1, <2>2 DEF NewUnit
    <3> QED  BY <2>1, <3>1, <3>2, WithinGranted, LimitSets
  <2>3. CASE req[s].property # p
    <3>1. UnitsOf(p)' \subseteq UnitsOf(p) /\ NewUnit(p)' \subseteq NewUnit(p)
      BY <1>1, <1>2, <2>3 DEF UnitsOf, UnitFound, NewUnit
    <3> QED  BY <2>1, <3>1, WithinFewer, LimitSets
  <2> QED  BY <2>2, <2>3
<1>6. ~exempt' => Within(Standing, FreeProps, NewProperty)'
  BY <1>4 DEF Within
<1>7. ~exempt' => \A p \in Props : Within(UnitsOf(p), FreeUnits, NewUnit(p))'
  BY <1>5 DEF Within
<1>8. ~exempt' => \A p \in Props : property'[p] # None => property'[p].type # "commercial"
  BY <1>1 DEF LimitInv
<1> QED  BY <1>3, <1>6, <1>7, <1>8 DEF LimitInv

(* Requests that are not counted, or are let go on to the cap.             *)
LEMMA OtherSlotsCounted ==
  ASSUME TypeOK, Refs, LimitInv, NEW s \in Slots,
         \/ AssertMultiFamilyCap(s) \/ DeleteUnit(s) \/ RemoveUnit(s)
         \/ CreateLease(s) \/ InsertLease(s) \/ OccupyUnit(s) \/ RequestFails(s)
  PROVE  LimitInv'
<1>1. Idle.op = "idle" /\ req \in [Slots -> Request]
  BY DEF Idle, TypeOK
<1>2. UNCHANGED <<property, paid, exempt>> /\ \A t \in Slots \ {s} : req'[t] = req[t]
  BY DEF AssertMultiFamilyCap, DeleteUnit, RemoveUnit, CreateLease, InsertLease, OccupyUnit,
         RequestFails, Begin, Proceed, Finish, rows, TypeOK
<1>3. \/ req'[s].op \notin {"property", "unit", "capped unit"}
      \/ /\ req[s].op = "unit" /\ req'[s].op = "capped unit"
         /\ req'[s].property = req[s].property
  <2>1. CASE AssertMultiFamilyCap(s)
    <3>1. /\ req[s].op = "unit"
          /\ \/ req' = [req EXCEPT ![s] = [op |-> "capped unit", property |-> req[s].property]]
             \/ req' = [req EXCEPT ![s] = Idle]
      <4>1. \/ Proceed(s, [op |-> "capped unit", property |-> req[s].property])
            \/ Finish(s)
        BY <2>1, Zenon DEF AssertMultiFamilyCap
      <4>2. req[s].op = "unit"
        BY <2>1 DEF AssertMultiFamilyCap
      <4> QED  BY <4>1, <4>2 DEF Proceed, Finish
    <3>2. PICK p : p = req[s].property
      OBVIOUS
    <3>3. \/ req' = [req EXCEPT ![s] = [op |-> "capped unit", property |-> p]]
          \/ req' = [req EXCEPT ![s] = Idle]
      BY <3>1, <3>2, Zenon
    <3>4. CASE req' = [req EXCEPT ![s] = [op |-> "capped unit", property |-> p]]
      <4>1. req'[s] = [op |-> "capped unit", property |-> p]
        BY <1>1, <3>4
      <4>2. /\ [op |-> "capped unit", property |-> p].op = "capped unit"
            /\ [op |-> "capped unit", property |-> p].property = p
        OBVIOUS
      <4> QED  BY <3>1, <3>2, <4>1, <4>2, Zenon
    <3>5. CASE req' = [req EXCEPT ![s] = Idle]
      <4>1. req'[s].op = "idle"
        BY <1>1, <3>5
      <4> QED  BY <4>1
    <3> QED  BY <3>3, <3>4, <3>5
  <2>2. CASE DeleteUnit(s) \/ CreateLease(s)
    <3>1. PICK op \in {"delete", "let"}, u \in Units : req' = [req EXCEPT ![s] = [op |-> op, unit |-> u]]
      BY <2>2 DEF DeleteUnit, CreateLease, Begin
    <3> QED  BY <1>1, <3>1
  <2>3. CASE InsertLease(s)
    <3>1. req' = [req EXCEPT ![s] = [op |-> "occupy", unit |-> req[s].unit]]
      BY <2>3 DEF InsertLease, Proceed
    <3> QED  BY <1>1, <3>1
  <2>4. CASE RemoveUnit(s) \/ OccupyUnit(s) \/ RequestFails(s)
    <3>1. req' = [req EXCEPT ![s] = Idle]
      BY <2>4 DEF RemoveUnit, OccupyUnit, RequestFails, Finish
    <3> QED  BY <1>1, <3>1
  <2> QED  BY <2>1, <2>2, <2>3, <2>4
<1>4. \A u \in Units : UnitFound(u)' => UnitFound(u) /\ unit'[u].property = unit[u].property
  <2>1. CASE RemoveUnit(s) \/ OccupyUnit(s)
    <3>1. PICK v \in Units : v = req[s].unit /\ unit[v] # None /\ unit[v] \in UnitRow
      BY <2>1, RequestFacts, RowFacts DEF RemoveUnit, OccupyUnit, Refs
    <3>2. \/ unit' = [unit EXCEPT ![v].deleted = TRUE]
          \/ unit' = [unit EXCEPT ![v].status = "occupied"]
      BY <2>1, <3>1 DEF RemoveUnit, OccupyUnit
    <3> QED  BY <3>1, <3>2 DEF TypeOK, UnitFound, UnitRow
  <2>2. CASE UNCHANGED unit
    BY <2>2 DEF UnitFound
  <2> QED
    BY <2>1, <2>2 DEF AssertMultiFamilyCap, DeleteUnit, CreateLease, InsertLease, RequestFails, rows
<1>5. \A p \in Props : PropertyFound(p)' => PropertyFound(p)
  BY <1>2 DEF PropertyFound
<1>6. ~exempt' => ~paid'
  BY <1>2 DEF LimitInv, Counted
<1>7. \A t \in Slots : req'[t].op \in {"property", "unit", "capped unit"} =>
            /\ req[t].op = "property" <=> req'[t].op = "property"
            /\ req[t].op \in {"property", "unit", "capped unit"}
            /\ req'[t].op # "property" => req'[t].property = req[t].property
            /\ req'[t].op \in {"property", "unit"} => req'[t].op = req[t].op /\ req'[t].by = req[t].by
  BY <1>2, <1>3
<1> QED  BY <1>2, <1>4, <1>5, <1>6, <1>7, NothingCounted

(* Updates, archives and changes of the plan.                              *)
LEMMA UpdatesCounted ==
  ASSUME TypeOK, Refs, LimitInv,
         \/ \E p \in Props : UpdateProperty(p) \/ CascadeArchive(p)
         \/ \E u \in Units : UpdateUnit(u)
         \/ \E l \in Leases : EndLease(l) \/ UpdateLease(l)
         \/ SubscriptionChanges
  PROVE  LimitInv'
<1>1. req' = req
  BY DEF UpdateProperty, CascadeArchive, UpdateUnit, EndLease, UpdateLease, SubscriptionChanges
<1>2. (exempt => exempt') /\ (~exempt' => ~paid /\ ~paid')
  <2>1. CASE SubscriptionChanges
    BY <2>1 DEF SubscriptionChanges
  <2>2. CASE ~SubscriptionChanges
    <3>1. CASE \E p \in Props : UpdateProperty(p)
      <4>1. PICK by \in Actors : exempt' = (exempt \/ by = "admin")
        BY <3>1 DEF UpdateProperty
      <4>2. UNCHANGED paid
        BY <3>1 DEF UpdateProperty
      <4> QED  BY <4>1, <4>2 DEF LimitInv, Counted
    <3>2. CASE UNCHANGED <<paid, exempt>>
      BY <3>2 DEF LimitInv, Counted
    <3> QED
      BY <2>2, <3>1, <3>2 DEF CascadeArchive, UpdateUnit, EndLease, UpdateLease
  <2> QED  BY <2>1, <2>2
<1>3. \A p \in Props :
        /\ property'[p] # None =>
             /\ property[p] # None
             /\ ~exempt' /\ property'[p].type = "commercial" => property[p].type = "commercial"
        /\ PropertyFound(p)' => PropertyFound(p)
  <2>1. ASSUME NEW q \in Props, UpdateProperty(q)
        PROVE  \A p \in Props :
                 /\ property'[p] # None =>
                      /\ property[p] # None
                      /\ ~exempt' /\ property'[p].type = "commercial" => property[p].type = "commercial"
                 /\ PropertyFound(p)' => PropertyFound(p)
    <3>1. PICK type \in Types, by \in Actors :
            /\ property[q] # None /\ property[q] \in PropertyRow /\ ~property[q].deleted
            /\ type = "commercial" /\ property[q].type # "commercial" => by = "admin" \/ paid
            /\ property' = [property EXCEPT ![q].type = type]
            /\ exempt' = (exempt \/ by = "admin")
      BY <2>1, RowFacts DEF UpdateProperty, PropertyFound, Unlimited
    <3>2. \A p \in Props : p # q => property'[p] = property[p]
      BY <3>1 DEF TypeOK
    <3>3. property'[q].type = type /\ property'[q].deleted = property[q].deleted
      BY <3>1 DEF TypeOK, PropertyRow
    <3> QED  BY <1>2, <3>1, <3>2, <3>3 DEF PropertyFound
  <2>2. ASSUME NEW q \in Props, CascadeArchive(q)
        PROVE  \A p \in Props :
                 /\ property'[p] # None =>
                      /\ property[p] # None
                      /\ ~exempt' /\ property'[p].type = "commercial" => property[p].type = "commercial"
                 /\ PropertyFound(p)' => PropertyFound(p)
    <3>1. /\ property[q] # None /\ property[q] \in PropertyRow
          /\ property' = [property EXCEPT ![q].deleted = TRUE]
      BY <2>2, RowFacts DEF CascadeArchive, PropertyFound
    <3>2. \A p \in Props : p # q => property'[p] = property[p]
      BY <3>1 DEF TypeOK
    <3>3. property'[q].type = property[q].type /\ property'[q].deleted
      BY <3>1 DEF TypeOK, PropertyRow
    <3> QED  BY <3>1, <3>2, <3>3 DEF PropertyFound
  <2>3. CASE UNCHANGED property
    BY <2>3 DEF PropertyFound
  <2> QED
    BY <2>1, <2>2, <2>3 DEF UpdateUnit, EndLease, UpdateLease, SubscriptionChanges, rows
<1>4. \A u \in Units : UnitFound(u)' => UnitFound(u) /\ unit'[u].property = unit[u].property
  <2>1. ASSUME NEW q \in Props, CascadeArchive(q), NEW u \in Units, UnitFound(u)'
        PROVE  UnitFound(u) /\ unit'[u].property = unit[u].property
    <3>1. unit'[u] = IF u \in UnitsOf(q) THEN [unit[u] EXCEPT !.deleted = TRUE] ELSE unit[u]
      BY <2>1 DEF CascadeArchive
    <3>2. u \in UnitsOf(q) => unit[u] \in UnitRow
      BY RowFacts DEF UnitsOf, UnitFound
    <3> QED  BY <2>1, <3>1, <3>2 DEF UnitFound, UnitRow
  <2>2. ASSUME NEW v \in Units, unit[v] # None, NEW status \in UnitStatus,
               unit' = [unit EXCEPT ![v].status = status], NEW u \in Units, UnitFound(u)'
        PROVE  UnitFound(u) /\ unit'[u].property = unit[u].property
    BY <2>2, RowFacts DEF UnitFound, UnitRow, TypeOK
  <2>3. ASSUME NEW v \in Units, UpdateUnit(v)
        PROVE  \A u \in Units : UnitFound(u)' => UnitFound(u) /\ unit'[u].property = unit[u].property
    BY <2>2, <2>3 DEF UpdateUnit, UnitFound
  <2>4. ASSUME NEW l \in Leases, EndLease(l)
        PROVE  \A u \in Units : UnitFound(u)' => UnitFound(u) /\ unit'[u].property = unit[u].property
    <3>1. PICK v \in Units : v = lease[l].unit /\ unit[v] # None
      BY <2>4, RowFacts DEF EndLease, Refs
    <3>2. unit' = [unit EXCEPT ![v].status = "vacant"] /\ "vacant" \in UnitStatus
      BY <2>4, <3>1 DEF EndLease, UnitStatus
    <3> QED  BY <2>2, <3>1, <3>2
  <2>5. CASE UNCHANGED unit
    BY <2>5 DEF UnitFound
  <2> QED
    BY <2>1, <2>3, <2>4, <2>5 DEF UpdateProperty, UpdateLease, SubscriptionChanges, rows
<1> QED  BY <1>1, <1>2, <1>3, <1>4, NothingCounted

LEMMA LimitStep ==
  ASSUME TypeOK, Refs, LimitInv, [Next]_vars
  PROVE  LimitInv'
<1>1. CASE UNCHANGED vars
  <2>1. UNCHANGED <<property, unit, req, paid, exempt>>
    BY <1>1 DEF vars, rows
  <2> QED
    BY <2>1 DEF LimitInv, Counted, Within, Standing, NewProperty, NewUnit, PropertyFound, UnitsOf,
                UnitFound
<1> QED
  BY <1>1, CreationsStep, InsertPropertyCounted, InsertUnitCounted, OtherSlotsCounted,
     UpdatesCounted DEF Next

LEMMA LimitInit == Init => LimitInv
<1> SUFFICES ASSUME Init  PROVE LimitInv
  OBVIOUS
<1>1. Standing = {} /\ \A p \in Props : UnitsOf(p) = {}
  BY DEF Init, Standing, PropertyFound, UnitsOf, UnitFound
<1>2. Cardinality({}) = 0
  BY FS_EmptySet
<1>3. Within(Standing, FreeProps, NewProperty)
  BY <1>1, <1>2, WithinAsking, LimitSets
<1>4. \A p \in Props : Within(UnitsOf(p), FreeUnits, NewUnit(p))
  BY <1>1, <1>2, WithinAsking, LimitSets
<1>5. Counted /\ \A p \in Props : property[p] = None
  BY DEF Init, Counted, Idle
<1> QED  BY <1>3, <1>4, <1>5 DEF LimitInv

(* A landlord without a plan stays within the limits of units and          *)
(* properties, but for requests that overlap, and has nothing commercial   *)
(* (checkPlanLimit, assertCommercialPlan).                                 *)
THEOREM LimitsHold == Spec => []LimitsHoldUpToOverlap
<1>1. LimitInv => LimitsHoldUpToOverlap
  <2> SUFFICES ASSUME LimitInv, ~exempt  PROVE LimitsHoldUpToOverlap
    BY DEF LimitsHoldUpToOverlap
  <2>1. /\ Cardinality(Standing) + Cardinality(NewProperty) < FreeProps + Cardinality(Slots)
        /\ \A p \in Props :
             /\ Cardinality(UnitsOf(p)) + Cardinality(NewUnit(p)) < FreeUnits + Cardinality(Slots)
             /\ property[p] # None => property[p].type # "commercial"
    BY DEF LimitInv, Within
  <2>2. /\ Cardinality(Standing) \in Nat /\ Cardinality(NewProperty) \in Nat
        /\ Cardinality(Slots) \in Nat /\ FreeProps \in Nat /\ FreeUnits \in Nat
        /\ \A p \in Props : Cardinality(UnitsOf(p)) \in Nat /\ Cardinality(NewUnit(p)) \in Nat
    BY LimitSets, FS_CardinalityType, SlotsAssumption
  <2>3. ~(Cardinality(Standing) + Cardinality(NewProperty) >= FreeProps + Cardinality(Slots))
    BY <2>1, <2>2
  <2>4. \A p \in Props :
          ~(Cardinality(UnitsOf(p)) + Cardinality(NewUnit(p)) >= FreeUnits + Cardinality(Slots))
    BY <2>1, <2>2
  <2> QED  BY <2>1, <2>3, <2>4 DEF LimitsHoldUpToOverlap, Standing, NewProperty, NewUnit
<1>2. TypeOK /\ Refs /\ LimitInv /\ [Next]_vars => LimitInv'
  BY LimitStep
<1> QED  BY <1>1, <1>2, LimitInit, OccupancyInvariant, PTL DEF Spec
=============================================================================
