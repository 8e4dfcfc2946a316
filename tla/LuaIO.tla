-------------------------------- MODULE LuaIO --------------------------------
(***************************************************************************)
(* The io library of the scripts (liolib.c), which opens only the files    *)
(* script_data/<number>.dat.  A userdata of the library holds a FILE, or   *)
(* NULL once it is closed; its environment says how to close it.  C reuses *)
(* the FILEs that are closed.                                              *)
(*                                                                         *)
(* A file is the number of its items (lines, say); a read takes some or    *)
(* finds the end, a write puts one in the buffer of its FILE.  Formats,    *)
(* seek offsets and the texts of errors are left out; a call that raises   *)
(* an error changes nothing and is left out too.                           *)
(***************************************************************************)
EXTENDS Integers, FiniteSets

CONSTANTS
  Numbers,   \* of script_data/<number>.dat
  OtherFile, \* any other file of the disk
  Memory,    \* addresses for userdata
  FILEs,     \* C's streams beyond the standard ones
  MaxItems   \* bound: items of a file

VARIABLES
  disk,      \* the items of each file, Missing when there is none
  streams,   \* the FILEs that are open: [file, mode, pos, buffered]
  udata,     \* the userdata: [f, noclose]
  env,       \* IO_INPUT and IO_OUTPUT in the library's environment
  script,    \* the userdata in the script's variables
  iterator,  \* what the last io.lines or file:lines returned, or NoIterator
  open       \* the Lua state is open

vars == <<disk, streams, udata, env, script, iterator, open>>

DataFiles == Numbers \cup {OtherFile}
Missing == -1
NULL == "NULL"
Standard == {"stdin", "stdout"}
NoIterator == [u |-> NULL, toclose |-> FALSE]

\* luaopen_io: io.stdin and io.stdout are the defaults, and are never closed.
StandardFiles == [u \in Standard |-> [f |-> u, noclose |-> TRUE]]
Defaults == [input |-> "stdin", output |-> "stdout"]

Init ==
  /\ disk \in [DataFiles -> {Missing, 1}]
  /\ streams = [s \in {} |-> NULL]
  /\ udata = StandardFiles /\ env = Defaults /\ script = Standard
  /\ iterator = NoIterator /\ open = TRUE

-----------------------------------------------------------------------------
Put(f, x, v) == [y \in DOMAIN f \cup {x} |-> IF y = x THEN v ELSE f[y]]
Without(f, x) == [y \in DOMAIN f \ {x} |-> f[y]]
IsOpen(u) == udata[u].f # NULL

\* The userdata that a call can name: its argument, or a default.
Reachable == script \cup {env.input, env.output} \cup ({iterator.u} \ {NULL})

\* The items of a file once what is buffered for it is written.
Flushed(dsk, s) ==
  IF s \notin DOMAIN streams THEN dsk
  ELSE LET o == streams[s] IN
       [dsk EXCEPT ![o.file] = IF o.pos + o.buffered > @ /\ o.buffered > 0
                               THEN o.pos + o.buffered ELSE @]

\* Fault: the userdata keeps its FILE.
Mutio_fclose(u) ==
  /\ streams' = Without(streams, udata[u].f)
  /\ disk' = Flushed(disk, udata[u].f)
  /\ UNCHANGED udata

io_fclose(u) ==
  /\ streams' = Without(streams, udata[u].f)
  /\ disk' = Flushed(disk, udata[u].f)
  /\ udata' = [udata EXCEPT ![u].f = NULL]

aux_close(u) ==
  IF udata[u].noclose THEN UNCHANGED <<streams, disk, udata>> ELSE io_fclose(u)

\* newfile, then fopen: the userdata is there even when the file is not opened.
\* fopen of C: "w" creates or empties the file.
CanOpen(file, mode) == mode = "w" \/ disk[file] # Missing
newfile(file, mode, u) ==
  /\ u \in Memory \ DOMAIN udata
  /\ IF CanOpen(file, mode)
     THEN \E s \in FILEs \ DOMAIN streams :
            /\ streams' = Put(streams, s, [file |-> file, mode |-> mode, pos |-> 0, buffered |-> 0])
            /\ disk' = IF mode = "w" THEN [disk EXCEPT ![file] = 0] ELSE disk
            /\ udata' = Put(udata, u, [f |-> s, noclose |-> FALSE])
     ELSE /\ udata' = Put(udata, u, [f |-> NULL, noclose |-> FALSE])
          /\ UNCHANGED <<streams, disk>>

-----------------------------------------------------------------------------
\* The functions of the library.
io_open(n, mode, u) ==
  /\ newfile(n, mode, u)
  /\ script' = IF CanOpen(n, mode) THEN script \cup {u} ELSE script
  /\ UNCHANGED <<env, iterator, open>>

\* io.close(f), f:close(), and io.close() of the default output.
io_close(u) ==
  /\ u \in Reachable /\ IsOpen(u)
  /\ aux_close(u)
  /\ UNCHANGED <<env, script, iterator, open>>

\* io.input and io.output of a file that is open, or of a number; a file that
\* cannot be opened is an error, and the default stays.
g_iofile(which, u) ==
  /\ u \in script /\ IsOpen(u)
  /\ env' = [env EXCEPT ![which] = u]
  /\ UNCHANGED <<disk, streams, udata, script, iterator, open>>

g_iofile_number(which, n, u) ==
  LET mode == IF which = "input" THEN "r" ELSE "w" IN
  /\ newfile(n, mode, u)
  /\ env' = IF CanOpen(n, mode) THEN [env EXCEPT ![which] = u] ELSE env
  /\ UNCHANGED <<script, iterator, open>>

\* io.lines() and f:lines(); io.lines() looks at its default like a method.
f_lines(u) ==
  /\ u \in Reachable /\ IsOpen(u)
  /\ iterator' = [u |-> u, toclose |-> FALSE]
  /\ UNCHANGED <<disk, streams, udata, env, script, open>>

\* io.lines(n): the name is given to fopen before n is written into it, so that it
\* is whatever the buffer on the C stack holds.
io_lines(u) ==
  \E garbage \in DataFiles :
    /\ newfile(garbage, "r", u)
    /\ iterator' = IF CanOpen(garbage, "r")
                   THEN [u |-> u, toclose |-> TRUE] ELSE iterator
    /\ UNCHANGED <<env, script, open>>

\* What fgets finds; a FILE opened for writing reads as one at its end, and so
\* does the console.
AtEnd(u) ==
  \/ udata[u].f \in Standard
  \/ LET o == streams[udata[u].f] IN o.mode = "w" \/ o.pos >= disk[o.file]

\* The iterator: at the end it closes the file that io.lines opened.
io_readline ==
  /\ iterator # NoIterator /\ IsOpen(iterator.u)
  /\ IF ~AtEnd(iterator.u)
     THEN /\ streams' = [streams EXCEPT ![udata[iterator.u].f].pos = @ + 1]
          /\ UNCHANGED <<disk, udata>>
     ELSE IF iterator.toclose THEN aux_close(iterator.u) ELSE UNCHANGED <<disk, streams, udata>>
  /\ UNCHANGED <<env, script, iterator, open>>

\* g_read and f_seek of a file opened for reading: formats take items until one
\* finds none.
g_read(u) ==
  /\ u \in script \cup {env.input} /\ IsOpen(u) /\ ~AtEnd(u)
  /\ \E to \in 0 .. disk[streams[udata[u].f].file] :
       streams' = [streams EXCEPT ![udata[u].f].pos = to]
  /\ UNCHANGED <<disk, udata, env, script, iterator, open>>

\* A FILE opened for reading refuses.
g_write(u) ==
  /\ u \in script \cup {env.output} /\ IsOpen(u) /\ udata[u].f \notin Standard
  /\ LET o == streams[udata[u].f]
     IN o.mode = "w" /\ o.pos + o.buffered < MaxItems
  /\ streams' = [streams EXCEPT ![udata[u].f].buffered = @ + 1]
  /\ UNCHANGED <<disk, udata, env, script, iterator, open>>

\* f:flush(), io.flush(), f:setvbuf(), or C does it.
f_flush(u) ==
  /\ u \in Reachable /\ IsOpen(u) /\ udata[u].f \notin Standard
  /\ disk' = Flushed(disk, udata[u].f)
  /\ streams' = [streams EXCEPT ![udata[u].f].pos = @ + streams[udata[u].f].buffered,
                                ![udata[u].f].buffered = 0]
  /\ UNCHANGED <<udata, env, script, iterator, open>>

\* The script forgets a file or an iterator.
Forget ==
  /\ \/ \E u \in script \ Standard : script' = script \ {u} /\ UNCHANGED iterator
     \/ iterator # NoIterator /\ iterator' = NoIterator /\ UNCHANGED script
  /\ UNCHANGED <<disk, streams, udata, env, open>>

\* Fault: the userdata goes, its FILE stays open.
Mutio_gc(u) ==
  /\ u \in DOMAIN udata /\ (open => u \notin Reachable)
  /\ udata' = Without(udata, u)
  /\ UNCHANGED <<disk, streams, env, script, iterator, open>>

\* The collector calls io_gc, once, for what is out of reach or, in lua_close,
\* for everything.
io_gc(u) ==
  /\ u \in DOMAIN udata /\ (open => u \notin Reachable)
  /\ LET closes == IsOpen(u) /\ ~udata[u].noclose
     IN /\ streams' = IF closes THEN Without(streams, udata[u].f) ELSE streams
        /\ disk' = IF closes THEN Flushed(disk, udata[u].f) ELSE disk
  /\ udata' = Without(udata, u)
  /\ UNCHANGED <<env, script, iterator, open>>

lua_close ==
  /\ open /\ open' = FALSE
  /\ script' = {} /\ iterator' = NoIterator
  /\ UNCHANGED <<disk, streams, udata, env>>

\* The script is loaded again into a new state.
luaopen_io ==
  /\ ~open /\ DOMAIN udata = {}
  /\ udata' = StandardFiles /\ env' = Defaults /\ script' = Standard
  /\ iterator' = NoIterator /\ open' = TRUE
  /\ UNCHANGED <<disk, streams>>

Call ==
  \/ \E n \in Numbers, u \in Memory :
       \/ \E mode \in {"r", "w"} : io_open(n, mode, u)
       \/ \E which \in {"input", "output"} : g_iofile_number(which, n, u)
  \/ \E u \in Memory : io_lines(u)
  \/ \E u \in DOMAIN udata :
       \/ io_close(u) \/ f_lines(u) \/ g_read(u) \/ g_write(u) \/ f_flush(u)
       \/ \E which \in {"input", "output"} : g_iofile(which, u)
  \/ io_readline \/ Forget

Next ==
  \/ open /\ Call
  \/ \E u \in DOMAIN udata : io_gc(u)
  \/ lua_close \/ luaopen_io

Spec == Init /\ [][Next]_vars

-----------------------------------------------------------------------------
\* Each userdata that is not closed has a FILE of its own that is open: none is
\* used after it was closed, closed twice, or closed for another that C has put
\* in its place (liolib.c:99-125, 128-149).
EachItsOwnFile ==
  /\ \A u \in DOMAIN udata : IsOpen(u) /\ ~udata[u].noclose => udata[u].f \in DOMAIN streams
  /\ \A u, v \in DOMAIN udata : u # v /\ IsOpen(u) => udata[u].f # udata[v].f

\* Whatever the script forgot, replaced as a default or left open at the end is
\* closed, so written, before the script is loaded again (liolib.c:143-149).
AllClosed == DOMAIN udata = {} => DOMAIN streams = {}
=============================================================================
