SPECIFICATION FairSpec
CONSTANTS
  NoCompany = NoCompany
  NoFile = NoFile
  shipment = shipment
  admin1 = admin1
  admin2 = admin2
  driverUser = driverUser
  customer = customer
  company1 = company1
  company2 = company2
  Shipments = {shipment}
  Actors = {admin1, admin2, driverUser, customer}
  RoleOf <- MCRoleOf
  CompanyOf <- MCCompanyOf
  ShipmentCompany <- MCShipmentCompany
  ShipmentCustomer <- MCShipmentCustomer
  ShipmentDriver <- MCShipmentDriver
  FileNames <- MCFileNames
  Sanitized <- MCSanitized
  SameNames = TRUE
  Requests = {r1, r2, r3}
  MaxUploads = 2
  MaxClock = 1
CHECK_DEADLOCK FALSE
INVARIANT TypeOK
INVARIANT RowsShowTheirFiles
INVARIANT NoOrphans
PROPERTY NoOverwrite
PROPERTY RowOnlyWithObject
PROPERTY RemovalCompletes
