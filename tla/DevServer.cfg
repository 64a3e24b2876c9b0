SPECIFICATION DevSpec
CONSTANTS
  Folders <- MCFolders
  Manifests <- MCManifests
  Contents <- MCContents
  DevConns = {"c1"}
  MaxEdits = 3
INVARIANTS StaleOnlyIfMissed
PROPERTIES Settles
