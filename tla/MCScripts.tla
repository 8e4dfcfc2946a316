----------------------------- MODULE MCScripts ------------------------------
(***************************************************************************)
(* The scripts' side of the bot for TLC: the life of the scripts           *)
(* (ScriptEngine), the files they are in (LoadFile), those that they read  *)
(* and write (LuaIO), and the reports of their errors (HttpClient).  A     *)
(* behaviour is one of the part that it chooses at its start; the others   *)
(* rest.                                                                   *)
(***************************************************************************)
EXTENDS ScriptEngine, MCFiles, TLC

CONSTANTS
  Tree, Chosen, Picked, Required, FILEs, Memory, \* of LoadFile, with DiskFiles its Files
  DiskFiles,
  Numbers, OtherFile, UserdataMemory, Streams, MaxItems, \* of LuaIO
  MaxData                                                \* of HttpClient

VARIABLES
  part,  \* "engine", "files", "io" or "report"
  cwd, loads, load_streams, nodes, head, current, load_name, load_loadable,
  load_protect, loader, load_ended, load_chosen, moved,      \* of LoadFile
  disk, streams, udata, env, script, iterator, lua_open,     \* of LuaIO
  pc, caller, handles, strings, code, data, coming, asked, corrected \* of HttpClient

files == <<cwd, loads, load_streams, nodes, head, current, load_name, load_loadable,
           load_protect, loader, load_ended, load_chosen, moved>>
io == <<disk, streams, udata, env, script, iterator, lua_open>>
report == <<pc, caller, handles, strings, code, data, coming, asked, corrected>>

L == INSTANCE LoadFile WITH
       Files <- DiskFiles, stack <- loads, streams <- load_streams,
       scriptName <- load_name, loadable <- load_loadable,
       protect_flag <- load_protect, ended <- load_ended, chosen <- load_chosen
IO == INSTANCE LuaIO WITH Memory <- UserdataMemory, FILEs <- Streams, open <- lua_open
H == INSTANCE HttpClient

ASSUME StreamsAssumption ==
  IO!NULL \notin Streams \cup UserdataMemory /\ IO!Standard \cap Streams = {}

\* The absolute paths that the user chooses name files of the disk.
ASSUME PathsAssumption ==
  /\ \A p \in Picked : p.absolute
  /\ \A p \in Chosen \cup Picked : p.absolute => p.dir \in Tree /\ <<p.dir, p.name>> \in DiskFiles

Symmetry == Permutations(UserdataMemory) \cup Permutations(Streams)

-----------------------------------------------------------------------------
\* Where a part rests: as it starts, with the first script of those it may have.
EngineRests == Init /\ chosen = CHOOSE f \in Files : TRUE
FilesRest == L!Init /\ cwd = L!App /\ load_chosen = CHOOSE p \in Chosen : TRUE
IORests == IO!Init /\ disk = [f \in IO!DataFiles |-> IO!Missing]

MCInit ==
  /\ part \in {"engine", "files", "io", "report"}
  /\ H!Init
  /\ IF part = "engine" THEN Init ELSE EngineRests
  /\ IF part = "files" THEN L!Init ELSE FilesRest
  /\ IF part = "io" THEN IO!Init ELSE IORests

EngineStep == part = "engine" /\ Next /\ UNCHANGED <<part, files, io, report>>
FilesStep == part = "files" /\ L!Next /\ UNCHANGED <<part, vars, io, report>>
IOStep == part = "io" /\ IO!Next /\ UNCHANGED <<part, vars, files, report>>
ReportStep == part = "report" /\ H!Next /\ UNCHANGED <<part, vars, files, io>>

MCNext == EngineStep \/ FilesStep \/ IOStep \/ ReportStep

MCSpec == MCInit /\ [][MCNext]_<<part, vars, files, io, report>>

-----------------------------------------------------------------------------
\* The list of my_luacode.c holds the FILEs that luaL_loadfile has opened and
\* nobody has closed, from either end (my_luacode.c:10-70).
ListIsOpenFiles == L!ListIsOpenFiles

\* While no file is loaded a script runs in the program's directory, unless the
\* dialog was used or a load left behind (scriptBase.cpp:54-66).
DirectoryRestored == L!DirectoryRestored

\* A script chosen by its absolute path is found again by every reload
\* (scriptBase.cpp:40-42).
AbsoluteIsFound == L!AbsoluteIsFound

\* Each userdata that is not closed has an open FILE of its own
\* (liolib.c:99-149).
EachItsOwnFile == IO!EachItsOwnFile

\* All that the script has opened is closed, so written, before it is loaded again
\* (liolib.c:143-149).
AllClosed == IO!AllClosed

\* While the bot plays nothing of an earlier report is left open or allocated
\* (network.cpp:13-22, 76-109).
NothingLeft == H!NothingLeft
=============================================================================
