SPECIFICATION Spec
CONSTANTS
  Files <- MCFiles
  Docs <- MCDocs
  Declared <- MCDeclared
  Releases <- MCReleases
  Options <- MCOptions
  MaxEdits = 1
  SigningKey = {"k"}
  TrustedKey = {"k"}
  Env = {"s1", "s2"}
  CoreImports = {"body"}
  file_base <- MCBase
  json_files = {"a.json"}
  NameOrder <- MCNames
INVARIANTS SealedAsCompiled LoadedIsSealed ServedAsDeclared DocsShowTheApi
