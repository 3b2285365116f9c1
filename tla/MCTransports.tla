----------------------------- MODULE MCTransports -----------------------------
(***************************************************************************)
(* Small instances of the transports: two vehicles and one product, of one *)
(* company or of one each.                                                 *)
(***************************************************************************)
EXTENDS Transports, TLC

CONSTANTS v1, v2, p1, a, b

OneCompany == [x \in Vehicles \cup Products |-> a]
OneEach == (v1 :> a) @@ (v2 :> b) @@ (p1 :> a)
OneUnit == (p1 :> 1)
UpToOne == {(p1 :> 0), (p1 :> 1)}
Empty == {(p1 :> 0)}

\* Requests are alike, and so are the vehicles of one company.
Alike == Permutations(Callers) \cup Permutations(Vehicles)

\* What operators ask of an update: a status or another vehicle.
StatusOnly == (Statuses \X {None})
StatusOrVehicle == StatusOnly \cup ({"keep"} \X Vehicles)

=============================================================================
