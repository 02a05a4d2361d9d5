SPECIFICATION FairSpec
CONSTANTS
  mail = mail
  chat = chat
  hook = hook
  a = a
  b = b
  plain = plain
  vault = vault
  conf = conf
  None = None
  Keys <- MCKeys
  Specs <- MCSpecs
  ConfigRefs <- MCConfigRefs
  SecretRefs <- MCSecretRefs
  SecretTexts = {vault}
  ConfigTexts = {conf}
INVARIANTS
  EveryInstallAnswered
  DiagnosisNamesTheMissing
  EmitReachesItsInstall
PROPERTIES
  RoutingEnds
CHECK_DEADLOCK FALSE
