--------------------------- MODULE MCNotifications ---------------------------
(* Instances of Notifications for TLC. *)
EXTENDS Notifications, TLC

CONSTANTS u1, d1, e1, o1, o2

OneOwner == [d \in Devices |-> u1]
TwoCategories == o1 :> "expense_created" @@ o2 :> "reminder"
Interchangeable == Permutations(Dispatchers) \cup Permutations(Registrations)
=============================================================================
