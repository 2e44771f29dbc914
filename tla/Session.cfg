CONSTANTS
  FeatureSets <- MCFeatureSets
  Pid = {5, 6, 7, 8}
  Slots = 3
  Guarded = {8}
  Namesakes = {5}
  Reused = {6}
  Others = {"a", "b"}
  Typed <- MCTyped
  Remains <- MCRemains
  Runs = 2
  Edits = 2
  Window = {"main", "dialog", "other"}
  Mozilla = {"main", "dialog"}
  Main = {"main", "other"}
  Hotkeys <- MCHotkeys
  Presses = 2
  Caller = {"plugin", "run_process"}
  RunProcessId = "run_process"
  Prog <- MCProg
  Module = {"dll"}
  Items = 1
  Relative = {3}
  EntryOf <- MCEntryOf
  Gui = {"helper"}
  Risky = {"java"}
  ExPath = "helper"
  Versions <- MCVersions
  Calls = 2
SPECIFICATION Spec
INVARIANTS SessionTypeOK HandleTable EndsOnlyOwn AllFound KeepsOthers Rewritten TurnedOncePerPress WhitelistAnswer AskedStaysSuspended CodeStays
PROPERTIES SearchEnds ChildRuns
CHECK_DEADLOCK FALSE
