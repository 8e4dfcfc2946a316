------------------------------- MODULE LoadFile -------------------------------
(***************************************************************************)
(* The files of the scripts: scriptEngine::loadFile, which a script calls   *)
(* as require, and luaL_loadfile, which it calls as loadfile and dofile.   *)
(* Both depend on the current directory of the process.  loadFile changes  *)
(* it while the file is executed and restores it when it returns; but an   *)
(* error (panic_reload), F12, F11 and the start of a battle load a script  *)
(* anew inside of it, and then it never returns.  luaL_loadfile notes its  *)
(* FILE in the list of my_luacode.c, so that end() can close it (ffree).   *)
(*                                                                         *)
(* A directory is the sequence of its names, <<>> that of the program.     *)
(* The frames that reload() and reload2() leave behind are dropped; that   *)
(* reload2() returns to them is ScriptEngine's matter.  Required files     *)
(* are not empty.                                                          *)
(***************************************************************************)
EXTENDS Integers, Sequences, SequencesExt

CONSTANTS
  Tree,     \* the directories
  Files,    \* the files: <<directory, name>>
  Chosen,   \* paths of the settings (StartupAI)
  Picked,   \* paths of the dialog, all absolute
  Required, \* paths that scripts load
  FILEs,    \* the streams of C
  Memory    \* addresses for the nodes of the list

VARIABLES
  cwd,         \* the current directory
  stack,       \* the loads that go on, innermost last
  streams,     \* who opened each FILE that is open, "loadFile" or "lua"
  nodes,       \* the list's nodes: [fp, prev, next]
  head,        \* fopen_struct_head
  current,     \* fopen_struct_current
  scriptName,  \* engine->scriptName
  loadable,    \* engine->loadable
  protect_flag,
  loader,      \* who has loaded the script, or does: "OpenAI", "reload" or "reload2"
  ended,       \* No, or why the program has ended
  chosen,      \* history: the path the user chose, F11 before a first load apart
  moved        \* history: the dialog, or a load left behind, moved cwd

list == <<nodes, head, current>>
engine == <<scriptName, loadable, protect_flag, loader>>
vars == <<cwd, stack, streams, list, engine, ended, chosen, moved>>

App == <<>>
NULL == "NULL"
NoName == [absolute |-> FALSE, dir |-> <<>>, name |-> ""]
No == "no"

\* A frame of loadFile waits in convertFilePath's yield, or executes its file;
\* a frame of luaL_loadfile reads its FILE; api_main runs the script.
Frame(kind, path, prevDir, fp) == [kind |-> kind, path |-> path, prevDir |-> prevDir, fp |-> fp]
Waiting(path) == Frame("wait", path, App, NULL)
Main == Frame("api_main", NoName, App, NULL)
Top(kind) == ended = No /\ Last(stack).kind = kind
InScript == Top("api_main") \/ Top("chunk")

Put(f, x, v) == [y \in DOMAIN f \cup {x} |-> IF y = x THEN v ELSE f[y]]
Without(f, x) == [y \in DOMAIN f \ {x} |-> f[y]]
Dir(path) == IF path.absolute THEN path.dir ELSE cwd \o path.dir

\* SetCurrentDirectory, when the path has a directory: one that does not exist
\* is not entered, and the file is then looked for where the program is.
Entered(path) ==
  IF (path.absolute \/ path.dir # <<>>) /\ Dir(path) \in Tree THEN Dir(path) ELSE cwd
Exists(dir, path) == <<dir, path.name>> \in Files

-----------------------------------------------------------------------------
\* The list of my_luacode.c.
fopen2(fp, a) ==
  /\ streams' = Put(streams, fp, "lua")
  /\ nodes' = LET linked == IF head = NULL THEN nodes ELSE [nodes EXCEPT ![current].next = a]
                  prev == IF head = NULL THEN NULL ELSE current
              IN Put(linked, a, [fp |-> fp, prev |-> prev, next |-> NULL])
  /\ head' = IF head = NULL THEN a ELSE head
  /\ current' = a

\* The nodes reached from one of them along a field: those in every set that has the
\* first and, with a node, the next.
Reached(a, field) ==
  {b \in DOMAIN nodes :
     a \in DOMAIN nodes
     /\ \A C \in SUBSET DOMAIN nodes :
          a \in C /\ (\A c \in C : nodes[c][field] \in DOMAIN nodes => nodes[c][field] \in C)
            => b \in C}
Listed(field, a) == {nodes[b].fp : b \in Reached(a, field)}

fclose2(fp) ==
  /\ streams' = Without(streams, fp)
  /\ IF fp \notin Listed("next", head) THEN UNCHANGED list
     ELSE LET a == CHOOSE b \in Reached(head, "next") : nodes[b].fp = fp
              p == nodes[a].prev
              n == nodes[a].next
          IN /\ nodes' = [b \in DOMAIN nodes \ {a} |->
                           [nodes[b] EXCEPT !.next = IF b = p THEN n ELSE @,
                                            !.prev = IF b = n THEN p ELSE @]]
             /\ head' = IF a = head THEN n ELSE head
             /\ current' = IF a = current THEN p ELSE current

Closed(fps) == [fp \in DOMAIN streams \ fps |-> streams[fp]]

\* Fault: the list is left as it is.
Mutffree == streams' = Closed(Listed("next", head)) /\ UNCHANGED list

ffree ==
  /\ streams' = Closed(Listed("next", head))
  /\ nodes' = [a \in DOMAIN nodes \ Reached(head, "next") |-> nodes[a]]
  /\ head' = NULL /\ current' = NULL

-----------------------------------------------------------------------------
Init ==
  /\ chosen \in Chosen
  /\ cwd = App \/ (chosen.absolute /\ cwd = chosen.dir)  \* or chosen in the dialog
  /\ stack = <<Waiting(chosen)>>
  /\ streams = [f \in {} |-> NULL] /\ nodes = [a \in {} |-> NULL]
  /\ head = NULL /\ current = NULL
  /\ scriptName = chosen /\ loadable = FALSE /\ protect_flag = TRUE
  /\ loader = "OpenAI" /\ ended = No /\ moved = FALSE

Exit(why) ==
  /\ ended' = why
  /\ UNCHANGED <<cwd, stack, streams, list, engine>>

\* end(), init() and loadFile(path), up to the yield in it.
LoadAnew(path, by) ==
  /\ IF loadable THEN ffree ELSE UNCHANGED <<streams, list>>
  /\ scriptName' = IF loadable \/ scriptName = NoName THEN path ELSE scriptName
  /\ loadable' = FALSE
  /\ stack' = <<Waiting(path)>> /\ loader' = by
  /\ UNCHANGED <<protect_flag, ended>>

\* reload(): F12, a battle begins, or panic_reload.
reload ==
  /\ IF scriptName = NoName THEN Exit("no_name")
     ELSE LoadAnew(scriptName, "reload") /\ UNCHANGED cwd
  /\ moved' = (moved \/ cwd # App)
  /\ UNCHANGED chosen

\* reload2(): F11 and the dialog, which enters the directory of its choice.
\* Without a choice start() exits.
reload2(path) ==
  /\ LoadAnew(path, "reload2")
  /\ cwd' = path.dir
  /\ chosen' = (IF loadable THEN path ELSE chosen) /\ moved' = TRUE
cancelled == Exit("no_choice") /\ UNCHANGED <<chosen, moved>>

\* The user, the game or the report of an error loads a script anew.
LoadsAnew == reload \/ cancelled \/ \E path \in Picked : reload2(path)

\* While a script or loadFile yields.
Interrupted == (InScript \/ Top("wait")) /\ LoadsAnew

\* loadFile returns: to the script that called it; to reload(), which exits if it has
\* failed; or to one who starts whatever is loaded.  OpenAI only clears protect_flag
\* and goes back to the program's directory.
Return(below, dir, why) ==
  \/ below # <<>> /\ stack' = below /\ cwd' = dir /\ UNCHANGED <<protect_flag, ended>>
  \/ /\ below = <<>> /\ loader = "reload" /\ why # "ok"
     /\ ended' = why /\ cwd' = dir /\ UNCHANGED <<stack, protect_flag>>
  \/ /\ below = <<>> /\ (loader = "reload" => why = "ok")
     /\ stack' = <<Main>>
     /\ cwd' = IF loader = "OpenAI" THEN App ELSE dir
     /\ protect_flag' = (protect_flag /\ loader # "OpenAI")
     /\ UNCHANGED ended

\* Faults: the directory is not restored; every file loaded gives its name.
MutRestored(path) == Entered(path)
MutNamed(path) == path

\* The directory after a file that could not be opened, and the script's name.
Restored(path) == cwd
Named(path) == IF scriptName = NoName THEN path ELSE scriptName

loadFile(path, below) ==
  LET dir == Entered(path)
      free == FILEs \ DOMAIN streams
  IN /\ IF Exists(dir, path) /\ free # {}
        THEN \E fp \in free :
               /\ streams' = Put(streams, fp, "loadFile")
               /\ stack' = Append(below, Frame("chunk", path, cwd, fp))
               /\ cwd' = dir
               /\ UNCHANGED <<protect_flag, ended>>
        ELSE /\ Return(below, Restored(path), IF free = {} THEN "no_FILE" ELSE "not_found")
             /\ UNCHANGED streams
     /\ scriptName' = Named(path)
     /\ UNCHANGED <<list, loader, chosen, moved>>

YieldReturns ==
  /\ Top("wait") /\ loadable' = TRUE
  /\ loadFile(Last(stack).path, <<>>)

require(path) ==
  /\ InScript /\ UNCHANGED loadable
  /\ loadFile(path, stack)

\* The end of a file, and an error in it that lua_pcall has caught.
ChunkEnds(why) ==
  /\ Top("chunk")
  /\ LET f == Last(stack)
     IN /\ streams' = Without(streams, f.fp)
        /\ Return(Front(stack), f.prevDir, why)
  /\ UNCHANGED <<list, scriptName, loadable, loader, chosen, moved>>

luaL_loadfile(path) ==
  /\ InScript
  /\ <<Dir(path), path.name>> \in Files
  /\ \E fp \in FILEs \ DOMAIN streams, a \in Memory \ DOMAIN nodes :
       /\ fopen2(fp, a)
       /\ stack' = Append(stack, Frame("parse", path, cwd, fp))
  /\ UNCHANGED <<cwd, engine, ended, chosen, moved>>

\* lua_load has read it, or has caught an error in it.
Parsed ==
  /\ Top("parse")
  /\ fclose2(Last(stack).fp)
  /\ stack' = Front(stack)
  /\ UNCHANGED <<cwd, engine, ended, chosen, moved>>

\* luaD_throw: with protect_flag a file's error is caught by its loadFile and that of a
\* coroutine ends no more than it (no step here), but what api_main itself runs into,
\* as when it finds no main, is caught by nobody.  All others are reported by
\* panic_reload, which looks for F11 and F12 meanwhile and reloads.
luaD_throw ==
  \/ protect_flag /\ ChunkEnds("error")
  \/ /\ ~protect_flag \/ Top("api_main")
     /\ InScript \/ Top("parse")
     /\ LoadsAnew

ScriptEnds == Top("api_main") /\ Exit("script_ends") /\ UNCHANGED <<chosen, moved>>

Next ==
  \/ Interrupted \/ YieldReturns
  \/ \E path \in Required : require(path) \/ luaL_loadfile(path)
  \/ ChunkEnds("ok") \/ Parsed \/ luaD_throw \/ ScriptEnds

Spec == Init /\ [][Next]_vars

-----------------------------------------------------------------------------
\* The list holds the FILEs that luaL_loadfile has opened and nobody has closed,
\* from either end, whatever was left behind; so ffree closes them all
\* (my_luacode.c:10-70).
ListIsOpenFiles ==
  LET opened == {fp \in DOMAIN streams : streams[fp] = "lua"}
  IN Listed("next", head) = opened /\ Listed("prev", current) = opened

\* A script that no file is being loaded for runs in the program's directory,
\* where its relative paths are looked for (document.txt:114-117), as long as
\* the dialog was not used and no load was left behind in another directory.
DirectoryRestored == Top("api_main") /\ ~moved => cwd = App

\* A script chosen by its absolute path is found again by every reload, whatever
\* files it has loaded since (scriptBase.cpp:40-42, History.txt:14).
AbsoluteIsFound == ended = "not_found" => ~chosen.absolute

\* History.txt:14: a reload of a script that uses require does not end the
\* program.
ReloadFindsScript == ended # "not_found"
=============================================================================
