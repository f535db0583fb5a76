SPECIFICATION Spec
CONSTANTS
  Files <- SomeFiles
  Parts <- SomeParts
  Programs <- SomePrograms
  Headers <- SomeHeaders
  Graders <- SomeGraders
  Kind <- SomeKinds
  Elf <- SomeElf
  Mtime <- SomeTimes
  Now = 3
INVARIANTS TypeOK LeftoversExact PairsRight HelpersKept BinaryNewerThanManifest
CHECK_DEADLOCK FALSE
