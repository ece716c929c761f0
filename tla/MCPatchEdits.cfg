SPECIFICATION Spec
CONSTANTS
  StartScenes <- MCStartScenes
  Offered <- MCOffered
  MaxAdded <- MCMaxAdded
  Room <- MCRoom
INVARIANTS
  LegalCablesBuild
  TakingAwayBuilds
