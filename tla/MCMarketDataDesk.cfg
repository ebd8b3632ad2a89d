\* Two tidy inputs, one of which cannot be downloaded, and an untidy one.
SPECIFICATION Spec
CONSTANTS
  tidy = tidy untidy = untidy
  Strategies = {tidy, untidy}
  Inputs <- MCInputs
  Typed <- MCTyped
  Undownloadable <- MCUndownloadable
  NoStrategy = NoStrategy
  MaxErrors = 1
INVARIANTS TypeOK PreviewIsKept ListedIsFound
PROPERTIES GapsGoAway
