------------------------------- MODULE MCBooking -------------------------------
\* Instances of Booking.
EXTENDS Booking, TLC

\* Two overlapping slots of one staff member, a later one of hers, one of another.
SomeSlots ==
  {[staff |-> "ada", from |-> 2, to |-> 4], [staff |-> "ada", from |-> 3, to |-> 5],
   [staff |-> "bayo", from |-> 2, to |-> 4]}
Symmetry == Permutations(Reservations) \cup Permutations(Appointments) \cup Permutations(Scanners)
================================================================================
