SPECIFICATION PlatformSpec
CONSTANTS
  NoDriver = NoDriver
  EmptyId = EmptyId
  NoCompany = NoCompany
  NoShipment = NoShipment
  NoStatus = NoStatus
  NoJob = NoJob
  admin1 = admin1
  user1 = user1
  customer1 = customer1
  driver1 = driver1
  company1 = company1
  Users = {admin1, user1, customer1}
  Customers = {customer1}
  Drivers = {driver1}
  Companies = {company1}
  RoleOf <- MCRoleOf
  CompanyOf <- MCCompanyOf
  DriverUser <- MCDriverUser
  DriverCompany <- MCDriverCompany
  ShipmentIds = {s1}
  Requests = {r1, r2}
  Workers = {w1}
  MaxHistory = 3
  CallsMayFail = FALSE
  MailConfigured = FALSE
  MaxStalledCount = 1
  LookupsMayFail = FALSE
  UsersMayVanish = FALSE
  EmitsMayFail = FALSE
  MaxLosses = 1
CHECK_DEADLOCK FALSE
INVARIANT ToldInOrder
PROPERTY DeliveryIsUsedAsSpecified
PROPERTY EveryChangeIsPushed
