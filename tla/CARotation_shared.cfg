SPECIFICATION Spec
CONSTANTS
  s1 = s1 s2 = s2 s3 = s3 host = host user = user db = db h1 = h1 h2 = h2 h3 = h3
  k0 = k0 a1 = a1 a2 = a2 a3 = a3 b1 = b1 b2 = b2 c0 = c0 c1 = c1
  NoKey = NoKey
  HostCA = host
  Servers = {s1}
  Running = {s1}
  HSM = {}
  Host <- SingleHost
  Types = {host, user, db}
  Position <- OrderOfTypes
  Keys = {k0, c0, a1, a2, a3}
  Owner <- OneOwner
  InitialKeys <- SharedKey
  UpdateClientsAt = 0
  UpdateServersAt = 0
  StandbyAt = 0
  Admins = {s1}
  RequestModes = {"manual"}
  Grace = TRUE
  Faulty = FALSE
  MaxRotations = 1
SYMMETRY KeySymmetry
PROPERTIES SharedInStep OldKeysRetired
