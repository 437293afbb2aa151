SPECIFICATION Spec
CONSTANTS
  NoDriver = NoDriver
  EmptyId = EmptyId
  NoCompany = NoCompany
  NoShipment = NoShipment
  NoStatus = NoStatus
  admin1 = admin1
  admin2 = admin2
  user1 = user1
  user2 = user2
  user3 = user3
  customer1 = customer1
  driver1 = driver1
  driver2 = driver2
  driver3 = driver3
  company1 = company1
  company2 = company2
  Users <- MCUsers
  Customers <- MCCustomers
  Drivers <- MCDrivers
  Companies <- MCCompanies
  RoleOf <- MCRoleOf
  CompanyOf <- MCCompanyOf
  DriverUser <- MCDriverUser
  DriverCompany <- MCDriverCompany
  ShipmentIds = {s1}
  Requests = {r1, r2}
  MaxHistory = 4
  CallsMayFail = FALSE
PROPERTY TerminalStatusesAreFinal
CHECK_DEADLOCK FALSE
