SPECIFICATION LiveSpec
CONSTANTS
  build = build
  lint = lint
  test = test
  deploy = deploy
  Tasks <- ChainTasks
  Deps <- ChainDeps
  Groups <- ChainGroups
  Steps <- ChainSteps
  Gated = {lint, deploy}
  Deploys = {deploy}
INVARIANTS DependenciesFirst RowsSettle HonestVerdict
PROPERTIES CancelEndsRun
CHECK_DEADLOCK FALSE
