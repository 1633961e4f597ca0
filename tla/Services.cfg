CONSTANTS
  p1 = p1
  p2 = p2
  Parts = {"trust", "profile", "up", "forward", "mount", "bundle", "config", "snap", "secret", "cert", "crowd", "tap", "seed", "catalog", "extract", "doctor", "pf", "vmware", "dns", "log", "mon", "helper", "vfkit", "image", "choice"}
SPECIFICATION Spec
SYMMETRY Alike
INVARIANTS
  TrustSound ObservationSound UpSound HostRecordsSound BundleSound ConfigSound
  RunsFiltered SecretsSound CertsSound SeedSound CatalogSound DoctorSound PfSound
  VMwareSound DnsSound LogsSound PrivilegeSound VfkitSound CloneSourced
PROPERTIES StepsSound
CHECK_DEADLOCK FALSE
