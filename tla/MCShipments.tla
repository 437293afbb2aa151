----------------------------- MODULE MCShipments ----------------------------
(* Instances of Shipments for TLC: two companies, an administrator of each,  *)
(* two drivers of the first and one of the second, and one customer.         *)
EXTENDS Shipments, TLC

CONSTANTS admin1, admin2, user1, user2, user3, customer1,
          driver1, driver2, driver3, company1, company2

MCUsers == {admin1, admin2, user1, user2, user3, customer1}
MCCustomers == {customer1}
MCDrivers == {driver1, driver2, driver3}
MCCompanies == {company1, company2}

MCRoleOf ==
  [u \in MCUsers |->
     CASE u \in {admin1, admin2} -> "ADMIN"
       [] u \in {user1, user2, user3} -> "DRIVER"
       [] u = customer1 -> "CUSTOMER"]

MCCompanyOf ==
  [u \in MCUsers |->
     CASE u \in {admin1, user1, user2} -> company1
       [] u \in {admin2, user3} -> company2
       [] u = customer1 -> NoCompany]

MCDriverUser ==
  driver1 :> user1 @@ driver2 :> user2 @@ driver3 :> user3

MCDriverCompany ==
  driver1 :> company1 @@ driver2 :> company1 @@ driver3 :> company2

RequestSymmetry == Permutations(Requests)

=============================================================================
