-------------------------------- MODULE MCSession --------------------------------
(* A small instance of Session. *)
EXTENDS Session

(* Each feature alone, and the two that meet in the hook of process creation *)
MCFeatureSets == {{"ProxyExe"}, {"GmpPath"}, {"Bosskey"}, {"SafeEx"}, {"ProxyExe", "SafeEx"}}

(* None, a key with a modifier, and a key with a modifier named twice *)
MCHotkeys == {<<>>, <<2, 65>>, <<4, 4, 66>>}

(* What the user writes: a plain line of each preference, one that has a managed name in  *)
(* it and one that begins with a space *)
Written(name, form) == [name |-> name, value |-> 0, form |-> form]
MCTyped ==
  {Written("a", "plain"), Written("b", "plain"), Written("b", "mentions"), Written("a", "indented")}
MCRemains == {Written("none", "plain")}

(* A program of the browser's, a risky one, a module the section lists, if there is one *)
MCProg == {"helper", "java", "dll"}

MCEntryOf == [p \in MCProg |-> CASE p = "helper" -> Rest [] p = "java" -> -1 [] p = "dll" -> Rest + 1]

(* Windows 8 and, taken for an old one, 10 *)
MCVersions == {<<6, 2>>, <<10, 0>>}
===============================================================================
