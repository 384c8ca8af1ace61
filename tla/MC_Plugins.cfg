SPECIFICATION Spec
CONSTANTS
  Programs = {"station", "training", "plugininfo"}
  Names <- MCNames
  Builtins = {"fw"}
  Files = {"f1", "f2", "f3", "f4", "f5", "f6"}
  Nothing = "none"
  Declares <- MCDeclares
  Builds <- MCBuilds
  Sound = {"f1", "f2", "f3", "f4", "f5"}
  Specs = {"a", "b", "c", "e", "g", "u", "x"}
  Explicit = {"c", "e", "g", "u", "x"}
  Dirs = {"d1", "d2"}
  Here = "here"
  FileAt <- MCFileAt
  Blocks <- MCBlocks
  MaxForms = 4
  MaxBuilds = 2
CHECK_DEADLOCK FALSE
INVARIANTS EveryNameReachesItsPlugin OneMakerPerName AssertedNamesAreServed
PROPERTIES RepeatIsHarmless OwnersSpec
