SPECIFICATION FairSpec
CONSTANTS
  c1 = c1
  c2 = c2
  t1 = t1
  t2 = t2
  t3 = t3
  Tenants = {t1, t2, t3}
  Conns = {c1, c2}
  Channels = {ch}
  Patterns = {pat}
  Match <- MCMatch
  Clients <- MCClients
  Owner <- MCOwner
  Nil = Nil
  MaxClientsOf <- MCMaxClientsOf
  Disabled = {t3}
  DefaultTenant = t1
  Deny = {"PING", "GET"}
  SockBuf = 1
  Configs <- AllSettings
INVARIANTS
  TypeOK
  ClientSlots
  TenantSlots
  HubAgrees
  NumSubHonest
PROPERTIES
  DeliveryInScope
  ImplementsAdmission
  OnlyOneInHand
  CommandsEnd
  
  SlotsComeBack
