SPECIFICATION SlackSpec
CONSTANTS
  Flows = {"launch", "mce", "simple"}
  Platforms = {"aws", "hypershift-hosted"}
  Architectures = {"amd64", "multi"}
  Durations = {}
  TagsOf <- MCTagsOf
  StableStreams = {"4-stable"}
  HostedStreams = {"4-stable", "4.19-nightly"}
  MinorOf <- MCMinorOf
  HostedMinors = {"4.19"}
  StartsWith <- MCStartsWith
  Customs = {"spec"}
  PRs = {"p1"}
  ValidPRs = {"p1"}
  ParamsFor <- MCParamsFor
  MaxOptions = 1
  MaxPending = 2
  Faults = {"fetch", "slack", "network", "race", "restart"}
  Nil = Nil
  member = member
  leaver = leaver
  guest = guest
  Texts <- MCTexts
  Senders = {member, leaver, guest}
  KnownPlatforms = {"aws", "hypershift-hosted"}
  KnownArchitectures = {"amd64", "arm64", "multi"}
  KnownParameters = {"fips", "test"}
  KnownTests = {"e2e"}
  UpgradeTests = {"e2e-upgrade"}
  HostedPrefixed = {"4.19"}
  CurrentHosted = TRUE
  KeyOf <- MCKeyOf
  ValueOf <- MCValueOf
  WorkflowConfig <- MCWorkflowConfig
  Hours = {"3h"}
  ManagedBy <- MCManagedBy
  BySlackID <- MCBySlackID
  ByEmail <- MCByEmail
  WithEmail = {member, leaver}
  HybridPlatforms = {"employee"}
  MaxTries = 1
  None = None
INVARIANTS
  RequestIsChosen
  RequestFits
  BackLeadsOut
  ProcessingGoesOn
  RunsWhatWasTyped
  LaunchFits
  GrantedToMembers
CHECK_DEADLOCK FALSE
