SPECIFICATION Spec
CONSTANTS
  Packages = {1, 2}
  Deps <- MCDeps
  Commits <- MCCommits
  Ambiguous <- MCAmbiguous
  Reruns = TRUE
INVARIANTS ReleaseTypeOK DependenciesFirst TagsAreRight InterruptedIsResumed
CHECK_DEADLOCK FALSE
