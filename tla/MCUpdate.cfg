SPECIFICATION FairSpec
CONSTANTS
  Versions = {1, 2}
  Installed = 1
  Admins = {a1}
  MaxRequests = 2
  MaxApprovals = 2
  MaxFaults = 1
  code = code
  modules = modules
  version = version
  extra = extra
  Entries = {code, modules, version, extra}
  VersionFile = version
  Skipped = {modules}
  Ships <- ShipsMore
INVARIANTS AgentTypeOK OneExecutionPerRequest NothingUnapprovedInstalled RestsOnWholeRelease
PROPERTIES ConfirmedMeansInstalled ExecutionsEnd ReportedCatchesUp
