SPECIFICATION Spec
CONSTANTS
  Packages = {1, 2}
  Deps <- MCDeps
  Commits <- MCCommits
  Ambiguous <- MCAmbiguous
  Reruns = FALSE
INVARIANT PublishedIsOwn
CHECK_DEADLOCK FALSE
