SPECIFICATION Spec
CONSTANTS
  src = src
  lib = lib
  log = log
  old = old
  new = new
  None = None
  Nowhere = Nowhere
  File = {src, lib, log}
  Text = {old, new}
  Original <- MCOriginal
  Seen = {src, lib, log}
  Roots = {lib}
  Docs = {}
  Default = {src}
  Authorized = {src}
  Base <- MCOriginal
  Sandbox = {src, lib}
  Touched = {log}
  MaxAttempts = 2
  Http = {"no_token", "timeout", "429", "oversized", "connection_failure", "json_list", "list", "prose", "valid", "outside", "invalid"}
  Changes <- MCChanges
  Configurations <- MCConfigurations
  MaxCalls = 2
INVARIANTS
  NoStray
  DeliveredTested
  Audited
  CompleteMeansReady
  
  AskedBounded
PROPERTIES
  Returns
CHECK_DEADLOCK FALSE
