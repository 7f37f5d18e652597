\* Repositories of every kind; one interference by people or the network and
\* one job cut short, anywhere on the way from the spec to the pull request.
CONSTANTS
  Path <- RepoFile
  Text <- MCText
  HumanFiles <- MCHumanFiles
  MaxDisturbances = 1
  Repos <- Single
  Language <- MCLanguage
  MaxRevisions = 1
  MaxCrashes = 1
SPECIFICATION FairSpec
INVARIANTS RetriesAccepted SetupOnce NoteTrue
PROPERTIES WorkKept SetupHarmless JobsEnd
CHECK_DEADLOCK FALSE
