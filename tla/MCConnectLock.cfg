\* A background connect, a watch, a down and a `try --force`: every kind of
\* command the lock tells apart.  Holders may hang; the waits must end.
SPECIFICATION FairSpec
CONSTANTS
  NoProc = NoProc
  auto = auto
  hop = hop
  watch = watch
  down = down
  try = try
  Procs = {auto, watch, down, try}
  Watchers = {watch}
  Downs = {down}
  Trials = {try}
  Forced = {try}
  Background = {auto}
  AskPolls = 0
  KillPolls = 0
  DownPolls = 1
  MaxAlive = 3
INVARIANTS
  TypeOK
  HolderIsOwner
  MutualExclusion
  NoteIsHolders
PROPERTIES
  ImplementsOneConnect
  DownActs
  ForcedHolderGoes
