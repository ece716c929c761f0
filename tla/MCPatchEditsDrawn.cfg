SPECIFICATION Spec
CONSTANTS
  StartScenes <- MCStartScenes
  Offered <- MCOffered
  MaxAdded <- MCMaxAdded
  Room <- MCRoom
INVARIANT
  DragDirectionDoesNotMatter
