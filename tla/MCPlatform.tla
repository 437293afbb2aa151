------------------------------ MODULE MCPlatform ----------------------------
(* An instance of Platform for TLC: an administrator, a driver and a         *)
(* customer of one company.                                                  *)
EXTENDS Platform, TLC

CONSTANTS admin1, user1, customer1, driver1, company1

MCRoleOf == admin1 :> "ADMIN" @@ user1 :> "DRIVER" @@ customer1 :> "CUSTOMER"
MCCompanyOf ==
  admin1 :> company1 @@ user1 :> company1 @@ customer1 :> NoCompany
MCDriverUser == driver1 :> user1
MCDriverCompany == driver1 :> company1

=============================================================================
