---------------------------- MODULE MCAttachments ---------------------------
(* Instances of Attachments for TLC: one shipment of the first company, its  *)
(* administrator, an administrator of the other company, its driver and its  *)
(* customer; two file names, equal once sanitized when SameNames says so.    *)
EXTENDS Attachments, TLC

CONSTANTS shipment, admin1, admin2, driverUser, customer, company1, company2,
          SameNames

MCRoleOf ==
  admin1 :> "ADMIN" @@ admin2 :> "ADMIN" @@ driverUser :> "DRIVER"
    @@ customer :> "CUSTOMER"

MCCompanyOf ==
  admin1 :> company1 @@ admin2 :> company2 @@ driverUser :> company1
    @@ customer :> NoCompany

MCShipmentCompany == [s \in Shipments |-> company1]
MCShipmentCustomer == [s \in Shipments |-> customer]
MCShipmentDriver == [s \in Shipments |-> driverUser]

MCFileNames == {"proof 1.jpg", "proof_1.jpg"}

MCSanitized ==
  [name \in MCFileNames |-> IF SameNames THEN "proof_1.jpg" ELSE name]

=============================================================================
