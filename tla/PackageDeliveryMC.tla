---- MODULE PackageDeliveryMC ----
(* Model checking instances of PackageDelivery: the constants are given in  *)
(* the .cfg files; pages and addresses are interchangeable.               *)
EXTENDS PackageDelivery, TLC, FiniteSets

Interchangeable == Permutations(Pages) \cup Permutations(Addrs)
====
