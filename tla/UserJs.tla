-------------------------------- MODULE UserJs --------------------------------
(***************************************************************************)
(* The thread gmpservice_check (prefjs.c): it copies the profile's user.js *)
(* line by line into user.js.tmp001, leaves out the preferences it manages *)
(* itself, appends these and moves the copy over the original.  Nothing of *)
(* it is atomic: every step may fail or be the last one before the process *)
(* ends, and the next run finds what this one left.                        *)
(*                                                                         *)
(* A file is the sequence of its lines, and a file that is not there is    *)
(* empty: the thread treats both alike.  A line is what fgets reads at     *)
(* once: the preference it sets, if any, the value, and its form, on which *)
(* it depends whether the thread copies it.                                *)
(***************************************************************************)
EXTENDS Integers, Sequences, FiniteSets, SequencesExt

CONSTANTS
  Others,   \* preferences the thread does not manage
  Typed,    \* lines the user may write
  Remains,  \* what may be left of a line that was cut in two
  Runs,     \* bound: how often the program is started
  Edits     \* bound: how often the user edits user.js

(* NamedEntities: gmp-gmpopenh264.path, gmp-gmpopenh264.version, gmp-manager.url *)
Managed == <<"path", "version", "url">>

(* The values: what the user wrote, or "%s", which the path has at first; "(null)"; those *)
(* of version and url, which never change.  A path is the run it was written in. *)
Own == 0
Null == -1
Fixed == -2

(* The form says what the thread tells apart: a line begins with a space, begins with /   *)
(* or *, has the name of a managed preference somewhere in it, in its value, a remark or a   *)
(* longer name, or is none of these. *)
Line ==
  [name : Others \union ToSet(Managed) \union {"none"}, value : Fixed..Runs,
   form : {"plain", "indented", "comment", "mentions"}]

ASSUME UserJsAssumption ==
  /\ Runs \in Nat /\ Edits \in Nat
  /\ Others \intersect {"path", "version", "url", "none"} = {}
  /\ Typed \subseteq {line \in Line : line.value = Own}
  /\ Remains \subseteq {line \in Line : line.name = "none" /\ line.value = Own}

VARIABLES
  job,      \* where the thread is
  user,     \* user.js
  tmp,      \* user.js.tmp001
  pos,      \* the lines of user.js that were read
  out,      \* the lines that were written to the copy
  held,     \* the stream of user.js is still open when the file is moved
  run,      \* MOZ_GMP_PATH, another one for every run
  path,     \* NamedEntities[0].value
  edit,     \* the edits of the user
  mine,     \* (history) the lines the user has in user.js for other preferences
  old,      \* (history) user.js when the run began
  clean,    \* (history) there was no copy left when the run began
  flaw      \* (history) a write failed in this run, or user.js was there and not read

userVars == <<job, user, tmp, pos, out, held, run, path, edit, mine, old, clean, flaw>>

Entry(name, p) ==
  [name |-> name, value |-> IF name = "path" THEN p ELSE Fixed, form |-> "plain"]

Names(file) == {file[i].name : i \in DOMAIN file}

(* What fgets reads is copied unless a managed name is found in it, wherever, or its      *)
(* first character is a space, / or *: the thread has no other mark of a line it manages.   *)
Mentions(line) == line.name \in ToSet(Managed) \/ line.form = "mentions"

Keep(line) == ~Mentions(line) /\ line.form \notin {"indented", "comment"}

(* What is left of a line that was cut in two, if anything is *)
Pieces == {<<>>} \union {<<line>> : line \in Remains}

(* The managed preferences as they are written; a path longer than what fgets reads at    *)
(* once leaves a line more, which the next run copies or not. *)
Appended(p, rest) == <<Entry("path", p)>> \o rest \o <<Entry("version", p), Entry("url", p)>>

UserInit ==
  /\ job = "off" /\ tmp = <<>> /\ pos = 0 /\ out = 0 /\ held = FALSE
  /\ run = 0 /\ path = Own /\ edit = 0 /\ old = <<>> /\ clean = TRUE /\ flaw = FALSE
  /\ user = <<>> /\ mine = {}

(* The user edits the file while the program does not run: writes a line, a preference    *)
(* that is not there yet, one the thread manages, or none; takes a line out. *)
EditUserJs ==
  /\ job \in {"off", "gone"} /\ edit < Edits
  /\ \/ \E line \in Typed :
          /\ line.name \in Others => line.name \notin Names(user)
          /\ user' = user \o <<line>> \/ user' = <<line>> \o user
          /\ mine' = IF line.name \in Others
                     THEN {m \in mine : m.name # line.name} \union {line} ELSE mine
     \/ \E i \in DOMAIN user : user' = RemoveAt(user, i) /\ mine' = mine \ {user[i]}
  /\ edit' = edit + 1
  /\ UNCHANGED <<job, tmp, pos, out, held, run, path, old, clean, flaw>>

StartCheck ==
  /\ job \in {"off", "gone"} /\ run < Runs
  /\ job' = "open" /\ run' = run + 1 /\ path' = Own
  /\ pos' = 0 /\ out' = 0 /\ held' = FALSE
  /\ old' = user /\ clean' = (tmp = <<>>) /\ flaw' = FALSE
  /\ UNCHANGED <<user, tmp, edit, mine>>

(* MOZ_GMP_PATH is not set or getProfilesDir finds no profile. *)
NothingToDo ==
  /\ job = "open"
  /\ job' = "done"
  /\ UNCHANGED <<user, tmp, pos, out, held, run, path, edit, mine, old, clean, flaw>>

(* openPrefsFile *)
OpenPrefsFile ==
  /\ job = "open"
  /\ job' = "copy" /\ held' = TRUE
  /\ UNCHANGED <<user, tmp, pos, out, run, path, edit, mine, old, clean, flaw>>

OpenFails ==
  /\ job = "open"
  /\ job' = "append" /\ flaw' = (user # <<>>)
  /\ UNCHANGED <<user, tmp, pos, out, held, run, path, edit, mine, old, clean>>

(* PrefsRewrite finds no memory or cannot open the copy: user.js stays open. *)
NoCopy ==
  /\ job = "copy" /\ pos = 0
  /\ job' = "append"
  /\ UNCHANGED <<user, tmp, pos, out, held, run, path, edit, mine, old, clean, flaw>>

(* A line is written behind those that are.  The copy was opened with OPEN_ALWAYS: what   *)
(* an older one has at this place is overwritten byte by byte, so whole lines of it may      *)
(* stay behind, and what is left of one that was cut. *)
Write(line) ==
  /\ \/ out = Len(tmp) /\ tmp' = Append(tmp, line)
     \/ \E piece \in Pieces, k \in out + 2..Len(tmp) + 1 :
          tmp' = SubSeq(tmp, 1, out) \o <<line>> \o piece \o SubSeq(tmp, k, Len(tmp))
  /\ out' = out + 1

(* Mutant: a line that names a managed preference stays. *)
CopyEveryLine ==
  /\ job = "copy" /\ pos < Len(user)
  /\ pos' = pos + 1
  /\ \/ Write(user[pos + 1]) /\ flaw' = flaw
     \/ flaw' = TRUE /\ UNCHANGED <<tmp, out>>
  /\ UNCHANGED <<job, user, held, run, path, edit, mine, old, clean>>

(* One line of the file, a WriteFile that may fail *)
CopyLine ==
  /\ job = "copy" /\ pos < Len(user)
  /\ pos' = pos + 1
  /\ \/ Keep(user[pos + 1]) /\ Write(user[pos + 1]) /\ flaw' = flaw
     \/ Keep(user[pos + 1]) /\ flaw' = TRUE /\ UNCHANGED <<tmp, out>>
     \/ ~Keep(user[pos + 1]) /\ UNCHANGED <<tmp, out, flaw>>
  /\ UNCHANGED <<job, user, held, run, path, edit, mine, old, clean>>

CopyEnds ==
  /\ job = "copy" /\ pos = Len(user)
  /\ job' = "append" /\ held' = FALSE
  /\ UNCHANGED <<user, tmp, pos, out, run, path, edit, mine, old, clean, flaw>>

(* gmp_write appends what it manages: the path, or "(null)" when unicode_ansi finds no     *)
(* memory for it.  The stream reaches the disk when it is closed, the whole of it or, when   *)
(* the write fails, the first lines. *)
AppendManaged ==
  /\ job = "append"
  /\ path' \in {run, Null}
  /\ \E rest \in IF path' = Null THEN {<<>>} ELSE Pieces :
       LET lines == Appended(path', rest) IN
       \E n \in 0..Len(lines) :
         tmp' = tmp \o SubSeq(lines, 1, n) /\ flaw' = (flaw \/ n < Len(lines))
  /\ job' = "move"
  /\ UNCHANGED <<user, pos, out, held, run, edit, mine, old, clean>>

(* _wfopen of the copy fails: gmp_write gives up. *)
AppendFails ==
  /\ job = "append"
  /\ job' = "done"
  /\ UNCHANGED <<user, tmp, pos, out, held, run, path, edit, mine, old, clean, flaw>>

(* Mutant: the stream left open does not keep the file from being replaced. *)
MoveShared ==
  /\ job = "move"
  /\ job' = "moved" /\ user' = tmp /\ tmp' = <<>>
  /\ UNCHANGED <<pos, out, held, run, path, edit, mine, old, clean, flaw>>

(* MoveFileExW replaces a file that nobody has open, at once or not at all. *)
Move ==
  /\ job = "move" /\ ~held
  /\ job' = "moved" /\ user' = tmp /\ tmp' = <<>>
  /\ UNCHANGED <<pos, out, held, run, path, edit, mine, old, clean, flaw>>

MoveFails ==
  /\ job = "move"
  /\ job' = "done"
  /\ UNCHANGED <<user, tmp, pos, out, held, run, path, edit, mine, old, clean, flaw>>

(* The process ends, wherever the thread is: the files stay, and what a flawed run lost is *)
(* lost. *)
EndUserJs ==
  /\ job \notin {"off", "gone"}
  /\ job' = "gone" /\ pos' = 0 /\ out' = 0 /\ held' = FALSE /\ path' = Own
  /\ mine' = IF flaw THEN mine \intersect ToSet(user) ELSE mine
  /\ old' = <<>> /\ clean' = TRUE /\ flaw' = FALSE
  /\ UNCHANGED <<user, tmp, run, edit>>

CheckStep ==
  \/ NothingToDo \/ OpenPrefsFile \/ OpenFails \/ NoCopy \/ CopyLine \/ CopyEnds
  \/ AppendManaged \/ AppendFails \/ Move \/ MoveFails

UserNext == EditUserJs \/ StartCheck \/ CheckStep \/ EndUserJs

UserSpec == UserInit /\ [][UserNext]_userVars

-------------------------------------------------------------------------------
UserTypeOK ==
  /\ job \in {"off", "open", "copy", "append", "move", "moved", "done", "gone"}
  /\ {user, tmp, old} \subseteq Seq(Line)
  /\ pos \in 0..Len(old) /\ out \in 0..pos
  /\ run \in 0..Runs /\ path \in Null..Runs /\ edit \in 0..Edits
  /\ mine \subseteq {line \in Typed : line.name \in Others}
  /\ {held, clean, flaw} \subseteq BOOLEAN

(* No line of the user's for another preference is ever lost, at no step and whatever     *)
(* earlier runs left behind, if it begins with the preference and has no managed name in     *)
(* it: the others are dropped by a run in which nothing fails.  And it may be lost by a run   *)
(* whose write failed or that could not read a user.js that is there: nothing checks the     *)
(* writes, and a file that cannot be read is taken for none. *)
KeepsOthers == flaw \/ \A line \in mine : Keep(line) => line \in ToSet(user)

(* Where line i of a file comes in a copy that has all lines which are kept *)
CopyPlace(file, i) == Cardinality({k \in 1..i : Keep(file[k])})

(* When the copy has replaced the file, each managed preference has the value the thread  *)
(* has for it in the last line that names it, which is the one that counts, and the path      *)
(* is the present one or "(null)"; and if there was no copy from an earlier run, the file     *)
(* is what was there, without the lines that are not kept, and these lines. *)
Rewritten ==
  job = "moved" /\ ~flaw =>
    /\ path \in {run, Null}
    /\ \A n \in ToSet(Managed) :
         LET at == {i \in DOMAIN user : user[i].name = n} IN
         \E i \in at : user[i] = Entry(n, path) /\ \A j \in at : j <= i
    /\ clean =>
         \E rest \in Pieces :
           LET kept == CopyPlace(old, Len(old))
               lines == Appended(path, rest)
           IN
           /\ Len(user) = kept + Len(lines)
           /\ \A i \in DOMAIN old : Keep(old[i]) => user[CopyPlace(old, i)] = old[i]
           /\ \A i \in DOMAIN lines : user[kept + i] = lines[i]
===============================================================================
