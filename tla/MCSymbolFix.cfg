SPECIFICATION Spec
CONSTANTS
  t1 = t1
  t2 = t2
  Threads <- MCThreads
  Main = t1
  Usages <- MCUsages
  Libraries <- MCLibraries
  WindowClasses <- MCClasses
  Ids <- MCIds
  Dirs <- MCDirs
  Appdir = TRUE
INVARIANTS ForcedId Reached ErrorContract NotSandboxed
