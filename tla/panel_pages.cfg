SPECIFICATION MCSpec
CONSTANTS
  Sites = {a, b}
  Subs = {sub}
  Presets = {a}
  Bundles = {a}
  Providers <- TwoProviders
  none = none
  MaxAsks = 2
  MaxRuns = 2
  MaxMade = 3
CONSTRAINT MCBound
INVARIANT ListsAreTrue
INVARIANT ShownIsOfPicked
INVARIANT FormsKeepTheirOwn
INVARIANT OneAtATime
INVARIANT ShownSecretsWork
 
CHECK_DEADLOCK FALSE
