------------------------------- MODULE Slots -------------------------------
(***************************************************************************)
(* Places in the calendar.  A booking occupies one staff member, perhaps   *)
(* one resource, and an effective window (service time plus buffers).      *)
(* Windows are half open, [from, to), as the overlap predicate of the      *)
(* repository is: effective_starts_at < end AND start < effective_ends_at. *)
(***************************************************************************)
EXTENDS Integers, FiniteSets

CONSTANTS Bookings,     \* booking ids
          Staff,        \* rows of staff_profiles
          Resources,    \* rows of resources
          NoResource,   \* bookings.resource_id IS NULL
          Windows,      \* effective windows a request may ask for
          NoPlace       \* the place of a booking that holds no capacity

ASSUME WindowsAssumption ==
  /\ Windows \subseteq [from : Nat, to : Nat]
  /\ \A w \in Windows : w.from < w.to

ASSUME UnitsAssumption ==
  /\ Staff \cap Resources = {}
  /\ NoResource \notin Staff \cup Resources

ASSUME BookingsAssumption == IsFiniteSet(Bookings)

Units == Staff \cup Resources

Place == [staff : Staff, resource : Resources \cup {NoResource}, window : Windows]

ASSUME NoPlaceAssumption == NoPlace \notin Place

\* The units whose capacity a place uses.
Occupies(pl) ==
  {pl.staff} \cup (IF pl.resource = NoResource THEN {} ELSE {pl.resource})

Overlap(v, w) == v.from < w.to /\ w.from < v.to

Covers(w, t) == w.from <= t /\ t < w.to

Instants == UNION {w.from .. (w.to - 1) : w \in Windows}

\* at \in [Bookings -> Place \cup {NoPlace}] throughout.

\* The bookings that hold unit u at instant t.
Holding(at, u, t) ==
  {b \in Bookings : /\ at[b] # NoPlace
                    /\ u \in Occupies(at[b])
                    /\ Covers(at[b].window, t)}

Load(at, u, t) == Cardinality(Holding(at, u, t))

\* The bookings that hold unit u at some time during the window w.
Crowd(at, u, w) ==
  {b \in Bookings : /\ at[b] # NoPlace
                    /\ u \in Occupies(at[b])
                    /\ Overlap(at[b].window, w)}
=============================================================================
