SPECIFICATION Spec
CONSTANTS
  s1 = s1 s2 = s2 s3 = s3 host = host user = user db = db h1 = h1 h2 = h2 h3 = h3
  k0 = k0 a1 = a1 a2 = a2 a3 = a3 b1 = b1 b2 = b2 c0 = c0 c1 = c1
  NoKey = NoKey
  HostCA = host
  Servers = {s1, s2}
  Running = {s1, s2}
  HSM = {}
  Host <- SeparateHosts
  Types = {host}
  Position <- OneType
  Keys = {k0, a1, b1}
  Owner <- OwnerOfKeys
  InitialKeys <- HostKey
  UpdateClientsAt = 0
  UpdateServersAt = 1
  StandbyAt = 1
  Admins = {s1, s2}
  RequestModes = {"auto"}
  Grace = FALSE
  Faulty = FALSE
  MaxRotations = 1
INVARIANTS TypeOK RollbackRestores
PROPERTIES PhasesInOrder AutoCompletes
