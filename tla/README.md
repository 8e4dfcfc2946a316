# TLA+ models of th123_ai

th123_ai is a bot for two fighting games, 東方緋想天 ("SWR", th105) and 東方非想天則 ("SWRS" or
"soku", th123). It is a single-threaded Windows program: it finds the game's window, reads the
game's memory with `ReadProcessMemory`, lets a Lua script decide, and presses keys with
`keybd_event`. It carries its own copy of Lua 5.1. What makes it hard is what goes on around that one thread: the game runs on while
its memory is read and its keyboard is written, scenes change at any moment, the user reloads
scripts inside any wait, several bots share the machine, and the game may end and come back.

This directory holds models of the bot's own logic, the TLC configurations that check them, and
proofs of their safety properties, all but three, for all values of the constants. Paths without a directory are under
`src/th123_ai/`, those of Lua (`l*.c`, `l*.h`, `my_luacode.c`) under `src/lua_engine/`; `document.txt`
and `History.txt` are in `src/`.

## 1. Inventory

| part | state | operations | interacts with |
|---|---|---|---|
| key manager, key events (`key_manager.cpp`, `keybd_event.*`) | `on[]`, `key[]`, `action_list`, `key_frame`, `key_delay` | `key_on`, `key_off`, `key_reset`, `AddEvent`, `ProcessEvent`, `Clear`, `set_key_delay` | scripts call it; `yield` drains it; the game samples the keyboard |
| data delay (`main.cpp` 813-835, 894-908) | `act`, `act_block`, `frame`, `delay`, `data_delay` | `set_data_delay`, the two halves of `yield` | scripts read `enemy_act`, `enemy_frame` |
| script threads (`api.ai` 26-92) | `thread_list`, `thread_num`, the coroutines | `create_thread`, `thread_main`, `yield`, `frame_skip`, `api_main` | `frame_skip` calls `_yield` |
| settings (`lib.h`, `lib.cpp`) | sections of parameters | `Add`, `Search`, `SetType` | everything reads it |
| player selection (`main.cpp` 461-509, `key_manager.cpp` 18-121) | a named mutex per side, `Player`, the key map | `change_player`, `search_key` | the other bots on the machine |
| script engine (`script.cpp`, `scriptBase.cpp`, `scriptLua.cpp`) | the Lua state, `loadable`, `scriptName`, `protect_flag`, the C stack | `OpenAI`, `reload`, `reload2`, `end`, `init`, `loadFile`, `panic_reload` | called from inside `yield` by `reload_check` and `get_th105param` |
| frame loop (`main.cpp` 645-913) | `seen`, `mode`, `bt`, `t1` | `yield`, `get_th105param`, `reload_check` | keys, engine, battle data |
| command library (`api.ai` 83-348) | the string, the position, the direction held | `command`, `dash`, `wait` | key manager, `yield` |
| battle data (`character.*`, `obj_base.*`, `obj.*`, `main.cpp`) | two `Character`s with their objects, cards, areas | `Reload`, `ReloadObject`, `ReloadLuaValue`, `is_bullethit`, the getters | the game's memory; scripts |
| game process (`main.cpp` 314-440, 623-643, `address.h`) | `ph`, the address cache, `g_ini.type`, `is_first_run` | `GetProcessHandle`, `check_th105`, `address::operator[]` | all reads |
| script files (`scriptBase.cpp` 35-87, `my_luacode.c`, `lauxlib.c`) | the current directory, the list of open `FILE`s | `loadFile`, `luaL_loadfile`, `fopen2`, `fclose2`, `ffree` | `require`, `dofile`; the engine's `end` |
| network (`network.cpp`) | the WinHTTP handles and strings of one request | `SimplePost` and what it calls | `panic_reload`, the exception filter `exep` |
| Lua compiler (`lparser.c`, `lcode.c`) | a function being compiled: code, constants, registers, jump lists, blocks | a function per rule of the grammar, `luaK_*` | the lexer before it, the machine after |
| code checker (`ldebug.c`) | none | `luaG_checkcode` | run on what was compiled |
| virtual machine (`lvm.c`, `ldo.c`, `lfunc.c`) | stack, active calls, closures, upvalues | `luaV_execute`, `luaD_precall`, `luaD_poscall`, `luaF_close` | tables, collector |
| tables (`ltable.c`) | array part, hash part, the last free node | `luaH_set`, `luaH_get`, `luaH_next`, `luaH_getn`, `rehash` | every other part of Lua |
| collector (`lgc.c`) | colours, gray lists, sweep position, finalizers to call | `singlestep`, the barriers, `luaC_fullgc`, `lua_close` | the script, between any two of its steps |
| io library (`liolib.c`) | userdata with a `FILE` each, the default files | `io.open` .. `io.lines`, methods, `__gc` | the collector; C's `FILE`s |
| other Lua libraries and API, lexer, start-up, windows, build tools | - | - | - |

The behaviours that are hard, and what makes each part correct:

- Keys: events are late by `key_delay` frames and leave one at a time, so the game may look in
  between. Correct means: never left and right together, nothing lost or left pressed.
- Delay: three arrays replaced when the delay changes, and statics that outlive the script. Correct
  means: the value of exactly `delay` frames ago, or a blank.
- Threads: a list that counts from 0 under a library that counts from 1, changed while it is walked.
  Correct means: order kept, one turn per update, none forgotten, and the right thread ends the
  program.
- Players: unlocked steps of several processes, abandoned mutexes. Correct means: never two bots on
  a side, and giving up only when there is none.
- Engine: `yield` loads scripts, loading scripts yields; `reload` never returns, `reload2` does.
  Correct means: an open state, a name to reload, a fresh script in each battle, and the script that
  the user chose.
- Frame loop: a scene is read several times in one `yield` and changes between the reads. Correct
  means: keys released outside of battles, and before the keys' meaning changes.
- Commands: characters swap sides between the characters of a command. Correct means: the direction
  meant is the direction held, and the command ends.
- Script files: the current directory belongs to the process, and a load that is interrupted never
  comes back to restore it or to close its `FILE`. Correct means: the chosen script is found again, and
  `end` closes exactly what is open.
- Network: seven calls in a row, each of which may fail. Correct means: nothing of a report is left.
- Lua compiler and machine: registers and jump lists are chosen while the expression is being read, and
  patched later. Correct means: a script does what its text says, within the frame it has reserved, and
  a variable outlives its block for the closures that use it, and for nothing else.
- Tables: keys move between nodes and parts. Correct means: a function, which `next` visits once.
- Collector: the script changes the graph of objects while it is being walked, and finalizers bring
  objects back. Correct means: nothing in use is freed, everything else is, each finalizer runs once.
- io library: a userdata outlives its `FILE`, and C gives the same `FILE` again. Correct means: each
  open userdata has a `FILE` of its own, and all are closed with the state.
- Battle data: a linked list walked in memory that is being changed, and reads that fail half-way.
  Correct means: what a script is told fits together, and the walk ends.
- Process: games closed and started, scripts loaded in the middle of the search. Correct means: one
  handle, the right game's addresses, attached in the end.

`PROJECT.json` lists each hazard at its line with the properties that cover it.

## 2. Modules

| module | models | composes or uses |
|---|---|---|
| `KeyInput` | key manager and key events; one send per step | |
| `KeyInputProofs` | its theorems | `KeyInput` |
| `DelayLine` | abstract: what `set_data_delay` promises | |
| `DataDelay` | the arrays of `yield`; implements `DelayLine` | `DelayLine` by `INSTANCE` |
| `ScriptThreads` | the coroutines of `api.ai` | |
| `IniStore` | the settings store: `Add`, `Search` over sections | |
| `PlayerMutex`, `MCPlayerMutex` | several bots, one Win32 call per step | `IniStore` |
| `ScriptEngine` | loads, reloads and errors, with the C stack as a sequence | |
| `FrameLoop` | `yield` and `get_th105param` against the scenes of the game | the keys of `KeyInput`, as a prefix queue |
| `CommandInput` | `command`, `dash`, `wait` | |
| `ObjectList` | a character's poll and its object list | |
| `GameProcess` | the search for the game and the address cache | |
| `LoadFile` | the files of scripts: current directory, list of `FILE`s | |
| `HttpClient` | the reports of errors | |
| `LuaOpcodes`, `LuaCode`, `LuaParser` | instructions, code generator, parser | each extends the one before |
| `LuaCheck` | the code checker | `LuaOpcodes` |
| `LuaVM` | a script from its tokens to its results | `LuaParser`, `LuaCheck` |
| `LuaTableSpec` | abstract: what a table promises | |
| `LuaTable` | `ltable.c`; implements `LuaTableSpec` | `LuaTableSpec` by `INSTANCE` |
| `LuaGC` | the collector against a script | |
| `LuaIO` | the io library | |
| `MCProcess` | for TLC: `GameProcess`, `FrameLoop`, `ScriptThreads` | the three |
| `MCBattle` | for TLC: `ObjectList`, `DataDelay` | the two |
| `MCScripts`, `MCFiles` | for TLC: `ScriptEngine`, `LoadFile`, `LuaIO`, `HttpClient`; a disk | the four |
| `MCLoadFile`, `MCLuaVM`, `MCLuaGC` | for TLC: the disk, scripts and their meanings | `LuaVM` with `LuaTable` in `MCLuaVM` |
| `PlayerMutexProofs`, `CommandInputProofs`, `LuaTableProofs` | theorems of these components | the component |
| `ProcessProofs` | theorems of `GameProcess`, `FrameLoop`, `ScriptThreads` | `MCProcess` |
| `ObjectListProofs` | theorems of `ObjectList` and `DataDelay` | `MCBattle` |
| `ScriptsProofs` | theorems of `ScriptEngine`, `LoadFile`, `LuaIO`, `HttpClient` | `MCScripts` |
| `LuaGCProofs` | theorems of `LuaGC` | `LuaGC` |

How state and actions correspond to the code is in each module's head comment, and line by line in
the `map` of `PROJECT.json`. In short:

- **KeyInput.** `on`, `queue` (= `action_list`), `key_delay` are the code's; an event's frame is kept
  relative to `key_frame`, which makes the counter unnecessary. `held` is what the game sees.
  `ProcessEvent_*`, `Clear_step`, `key_reset_step` are the iterations of the loops; script calls are
  atomic because no other thread sees `action_list`.
- **DataDelay.** `yield_begin` is lines 758-835, `yield_end` 894-908; `reload` may come between them.
- **ScriptThreads.** `thread_list` is a function from 0; `table_remove` does to it what Lua's
  `table.remove` does to a table filled from 0.
- **PlayerMutex.** `Start`, `CreateMutex`, `FirstWait`, `ReleaseMutex`, `CloseHandle`, `SecondWait`
  are the calls of `change_player` in the order in which the code makes them; `search_key` calls it
  again when a battle shows the bot on the other side. Death may come between any two.
- **ScriptEngine.** A frame on `stack` per C function that waits for something; `LoadAnew` is
  `end(); init(); loadFile()` up to the yield in it.
- **FrameLoop.** `WaitActive`, `WaitFrame`, `WaitFrameTimeout`, `ProcessEvent`, `WaitBattle`, `Sync`,
  `Return` are the stages of `yield` in order; `Poll` is `get_th105param`.
- **CommandInput.** `Read*` are the branches of the loop in `command`, one per kind of character;
  `Frame` is one `yield` of `wait`, in which the sides may swap.
- **ObjectList.** A step per read on which something depends; freed memory yields anything, or cannot
  be read. A node and the object it holds share an address.
- **GameProcess.** `pc` is the place in the search loop, `list[a]` the game whose address the cache
  holds for `a`; `outer` counts searches that an F11 interrupted.

- **LoadFile.** A frame of `stack` per `loadFile` or `luaL_loadfile` that goes on; `reload` and
  `reload2` drop them all, as nothing comes back to them but what `ScriptEngine` models. `loader` is who
  loads the script, which decides what the end of its load leads to: `reload` exits if the load has failed and
  starts the script if not, `reload2` starts whatever is loaded, and `OpenAI` alone clears `protect_flag` and
  goes back to the program's directory before it starts. A script that a reload has started loads files, fails
  and is reloaded like the first. `nodes`, `head`
  and `current` are the list of my_luacode.c, with the pointers as fields.
- **HttpClient.** `pc` is the call that comes next; `Returns` is the way out of a call that fails, where
  the smart pointers let go of the handles.
- **LuaCode, LuaParser.** Operators from a function state to a function state, one per C function,
  with the names of the source. `fs` has the code, constants, free register and pending jumps; an
  `expdesc` is a record. Jump lists are kept as in the C code: each JMP's argument leads to the next.
  A word that is no instruction, as the number of a batch after its SETLIST, is the instruction that its bits
  are (`Word`), and read as one by whatever looks at the instruction before.
  Tokens are given, numbers are integers.
- **LuaVM.** One action per instruction, or per group that differs in a function; `stack`, `top`, `ci`
  and `upvals` are the code's. `TFORLOOP` calls a `luaV_execute` of its own, whose return is
  `ForCallReturns`.
- **LuaTable.** `node` with `next` as index, `lastfree`, and the dummy node of an empty hash part; `Hash` is
  any function. `Construct` is what a constructor does (`luaH_new`, then the sizes of its NEWTABLE), and an
  assignment is `luaH_set` with the value stored after it. The searches of the code are recursive functions.
  The refinement is that a table is the function for which `LuaVM` takes it.
- **LuaGC.** A colour per object, the lists as sets; `atomic` is one action because the code does not
  return to the script in it. `Create`, `SetTable`, `SetUpval`, `CloseUpvals`, `Resume` and so on are what
  a script does between two steps of the collector, each with its barrier.
- **LuaIO.** `streams` are C's `FILE`s, reused once closed; `udata` the userdata; an entry of `script` is
  one the script can still name.

### Composite runs

`MCProcess`, `MCBattle`, `MCScripts` and `MCLuaVM` put modules that share no state under one run. Their
variable `part`, chosen at the start, says which of them a behaviour is of; the others keep a state in
which they start. The reachable states are the sum of the modules' own, not the product, and each
property speaks of its part alone; the fairness of a part is conditioned on it.

## 3. Runs

| run | states | what it shows | bounds |
|---|---|---|---|
| `key_steady` | 32 565 | no opposite directions in the game, nothing lost or stuck | keys 2, 3 (left, right) and 11 (a diagonal), delays 0 and 2, three events queued |
| `process` | 49 989 | *process*: the found game's addresses, one handle, attached in the end. *frame*: keys released after battles and before `search_key` remaps them. *threads*: one turn per update, none forgotten, the first thread ends the program | two addresses, two interrupted searches; two keys, three events; `main`, `frame_skip` and three more, one of them created outside any function |
| `command` | 255 512 | the direction meant is held, the inputs are those of the notation, it ends | commands of up to 3 of 16 characters, 2 dash tries, 3 frames of H |
| `battle` | 605 682 | *objects*: exact on a quiet list, ends on any other, count and objects agree. *delay*: `enemy_frame` refines `DelayLine`; no sample of an old script is read | three objects, two of them attached; values 1, 2, delays 0..2, 4 frames between changes |
| `lua` | 156 640 | *script*: results are those the text means, code is valid, open upvalues are registers of active calls. *table*: refines `LuaTableSpec`, the length is a border | 4734 scripts, limits scaled down; keys 1, 2, 3, 8 and two strings, with hashes that collide |
| `gc` | 328 666 | nothing in use is freed, finalizers once, weak entries kept, garbage freed | three addresses, five kinds of scripts |
| `scripts` | 294 418 | *engine*: open state, fresh script per battle, chosen script. *files*: list of `FILE`s, directory, script found again. *io*: a `FILE` each, all closed. *report*: nothing left | two scripts, five Lua states; three directories, four `FILE`s, two nodes; two userdata and two streams, symmetric; answers of two bytes |
| `players` | 302 218 | one bot per side, on the keys of its side, giving up only when full | three bots, settings 2 and 3, symmetry of the bots |
| `delay_act` | - | **violated**: `enemy_act` is not delayed (`main.cpp:903`) | as `battle` |
| `engine_protect` | - | **violated**: `protect_flag` stays set (`script.cpp:37`) | as `scripts` |
| `objects_attached` | - | **violated**: `get_opt_xy` finds nothing above 0 (`character.cpp:514`) | as `battle` |
| `reload_require` | - | **violated**: a reload inside of `require` looks for a relative path in the wrong directory (`scriptBase.cpp:49`) | as `scripts`, three `FILE`s |

Why the bounds are enough:

- `key_steady`: three events are a release with the two presses of a diagonal, the longest batch one
  call queues (further calls wait for room); delay 2 against 0 leaves events of different age in the
  queue. The proofs take the bounds away for all but the liveness.
- `process`: one address that a poll reads and one that only a reload reads; a search within a search
  within a search. With two keys one can be held while the other is pending. Three more threads allow
  a removal in front of, at and behind the walk's position.
- `command`: three characters are a repeated direction followed by a button, or a direction, its
  repetition and its repetition; the 30 tries of dash and the 40 frames of H only count down.
- `battle`: three objects allow a removal before, at and after the cursor, and a walk in circles.
  Delay 2 is the first with an entry that is neither the front nor the back; four frames are two more
  than it takes to fill and to read the arrays. At the bound the history stops growing, not the
  system: the arrays still change, and the delay can still be set anew.
- `lua`: every expression of one operator over seven atoms in seven places (returned, stored,
  condition of `if`, of `while` and of `until`, assigned to an upvalue, a field), and of two and three
  logical operators over nine conditions; jump lists have up to four members and both polarities. Its
  meaning is a recursive definition over the expression, by the rules of the manual, which shares
  nothing with the code generator. 48 scripts have the statements: assignments, calls with open results,
  varargs, loops and `break`, closures in blocks and loops, methods, tail calls, errors. The limits
  (`MAXSTACK`, `LUAI_MAXVARS`, `LFIELDS_PER_FLUSH`, `MAXARG_C`, `MAXINDEXRK` and so on) are constants small
  enough for a script to pass them. Numbers of batches begin at 4 there, which looks like an instruction
  that nothing patches (section 4 says which do not). The table starts with any sizes up to `MaxSizes` = 2 and grows to eight nodes or
  slots (`MAXBITS` = 3, with the largest int, `MAX_INT`, at 9), with collisions in, and outside of, the main
  position; 8 is a key that an array is too sparse for. Tables so large that `unbound_search` counts
  instead of doubling are left to the proof.
- `gc`: a container, what it holds, and one more object; with three addresses each barrier has an
  object on either side and a third to be freed. The scripts separate what would only multiply: tables,
  weak tables with userdata and strings, coroutines with closures, closures with strings, full
  collections with userdata.
- `scripts`: five Lua states are a first load and four reloads. Paths that exist relative to the program,
  to the script, and nowhere. Three nested loads can be left behind before the last `FILE` is gone. With
  two streams a closed one is given again while the userdata that had it is still there. Two nodes are one
  more than the list of `FILE`s ever has: nothing is loaded from inside of `lua_load`, and a reload from there
  empties the list (section 5). That `fclose2` takes a node out from between two others never happens.
- `players`: three bots on two sides is one too many; setting 3 is one that is neither 1 nor 2.

A type invariant is stated and proved for `KeyInput` and `GameProcess`; in the other modules the
invariants are about what could go wrong, and a value out of its type shows in them as an error of TLC.

Deadlock checking is off (`CHECK_DEADLOCK FALSE`) in `process`, `command`, `scripts`, `lua`, `gc` and the
violation runs, where the program, the call, the script or the state really ends.

### Fairness

Safety is checked without any. For the liveness properties:

- `KeyInput`: the loops go on (one thread, weak fairness), and a script yields again and again, so
  that `ProcessEvent` runs (strong, as other calls disable it meanwhile). A script that never yields
  hangs the bot; document.txt:14 asks it to.
- `ScriptThreads`: the loop goes on, and each thread yields or returns in its turn, for the same
  reason.
- `FrameLoop`: `yield` goes on and is called again. The 320 ms of a wait pass (strong: a frame in
  time disables the timeout). The wait for the window ends if the window is active again and again,
  by strong fairness of that step alone; nothing is assumed of the user.
- `CommandInput`: the thread is resumed each frame. `ObjectList`: the poll goes on; the game owes
  nothing. `GameProcess`: the bot goes on; games are started and keys pressed at will.
- `LuaGC`: the script allocates again and again, which is what runs the collector (`Collected`, weak
  fairness of `singlestep` with its enabling condition written out, since ENABLED of so large an action
  is slow); `lua_close` runs to its end (weak fairness of `Closes`: its finalizers, then `FreeAll`). A script that allocates nothing more keeps its garbage, and
  nothing promises otherwise.

### Assumptions of the models

- `KeyInput` and what refers to it speak of scripts that shorten `key_delay` only with no event pending
  (`DelayKept`): otherwise releases overtake presses, which document.txt:158-166 describes.
- `FrameLoop`: a scene lasts until the bot has read it, and a battle begins through menus while the bot
  waits for one or while the user is in another window.
- `ScriptEngine`: a scene lasts until `get_th105param` has seen it.
- `PlayerMutex`: mutexes do what Windows documents, including `WAIT_ABANDONED`; dev.ini, a developer's
  file, does not set `Player`.
- `ObjectList`: without a battle the vector of characters has not two elements.

- `LuaVM`: no value has a metatable, numbers are integers, and a script neither calls C functions nor
  creates coroutines. `numop` is exact where the scripts use it.
- `LuaGC`: malloc gives the addresses of a script in one order (they are interchangeable) and never
  fails, all strings are the same text, a table has one entry and a closure one upvalue.
  nil and plain values are no addresses (`ValuesAssumption`).
- `LuaTable`: a traversal assigns only to fields that have a value, as the manual asks.
- `LuaIO`: a call that raises an error changes nothing. `LoadFile`: `luaL_loadfile` finds a node for each
  `FILE`.

### Exceptions written into properties

These are behaviours of the code, found by TLC, that the property has to leave out; each is named by
a history variable.

- `FrameLoop!skips`: the scene is checked at main.cpp:837 and read again at 860 without a check, so
  `yield` can return outside of a battle (document.txt:8 says it does not), and the next one sends
  keys into a menu.
- `ScriptEngine!plain`: F11 before the first load has ended leaves the old `scriptName`
  (scriptBase.cpp:191), and the script of an F11 that ends returns into a closed Lua state.
- `PlayerMutex!calm`: a bot that met an abandoned mutex may give up with a side free (`WAIT_ABANDONED`
  is taken for a failure).
- `GameProcess!resumed`: a search that goes on after the script of an F11 pressed in it has ended does
  not reset the addresses again.
- `CommandInput`: the digit 9 (next section).
- `LoadFile!moved`: after the dialog, which does not restore the directory (no `OFN_NOCHANGEDIR`), or a
  load that was left behind, a script need not run in the program's directory.
- `LuaGC!EntriesKept`: a userdata with a finalizer that is in use again still loses the entries that have
  it as a value (lgc.c:337-349 asks for its mark only), as the Lua manual says of resurrected userdata.

## 4. Where code and documents disagree

With a run: `enemy_act` (`delay_act`), `protect_flag` (`engine_protect`), `get_opt_xy`
(`objects_attached`), a reload inside of `require` (`reload_require`). Seen while modelling, without one:

- api.ai:225-226 press and test down in the branch of 9, where 7 (212-216) has up: the lines are those of
  the branch of 3. 29, 19 and 69 leave down and forward held, not up and forward; `Diagonal` does the same.
- main.cpp:688 takes any `Player` but 1 for the second player, `change_player` any but 2 for the first
  (th123_ai.ini:14, History.txt:82): with 3 the bot presses one side's keys and reads the other's data.
- main.cpp:882 hides the weather behind an aurora while `1000-weather_delay<weather_time`, so it can be
  read at equality; document.txt:182 says only while `1000-weather_delay>weather_time`.
- `set_data_delay` with the delay already in force does not blank anything (document.txt:170).
- A thread created outside any function, not `main`, ends the program (document.txt:9).
- `key_event2` returns after 2 frames, document.txt:104 says 4.
- `get_card_cost2` uses the weather without its delay (document.txt:191); `get_card_id` accepts n = 5
  (document.txt:146-147); `my_card` is a poll old (character.cpp:297).
- `GetSpecialData` accepts n = `SPECIALDATA_MAX` (main.cpp:1058).
- `hitarea_n` is the old one when `Reload` returns at obj_base.cpp:39 or 59, after `hitarea.clear()`.
- Objects are told apart by their address (document.txt:176), which the game may use again.
- F12 in the search, before a game was ever found, ends the program with `AppDownExit=0`
  (main.cpp:393, th123_ai.ini:38-41): starting a game by itself sets `is_first_run` to false, and the
  script that F12 loads searches anew.
- `io.lines(n)` gives `fopen` a buffer that `sprintf` fills only afterwards (liolib.c:264-267): it opens
  whatever file the stack's contents name. `LuaIO` takes any file, or none.
- network.cpp:202 gives `WinHttpQueryHeaders` the address of the pointer `code`, so that the status
  replaces the pointer and `*code` at 206 reads the address 200 or the like; when the call fails, `*code`
  is a variable nobody has set. The report of History.txt:362 ends there at the latest; `exep` then asks
  whether to send a report on the report.
- `GetResponseHeaderSelect` takes `ERROR_INSUFFICIENT_BUFFER`, the answer it asked for, as a failure; the
  length is never known, and the loop for an unknown one (network.cpp:303) ends only when a call fails.
- A table weak in keys and values is not looked into by `traversetable` (lgc.c:177), and `cleartable` passes
  over empty entries (367): the key of an entry that a script has emptied stays in the table when its object
  is freed. The key is only ever compared by its address; `LuaGC` keeps it (`Forgets`), and `LiveIsKept` excepts
  it.
- The number of a batch of list items above `MAXARG_C` (511) is a raw word behind its SETLIST
  (lcode.c:835; lopcodes.h:227: "next `instruction' is real C"), and the code generator takes it for an
  instruction. 539 reads as `TESTSET 8 0 0`; when a jump follows it, as for a list of 26901 items or more before
  a `break`, an `else` or the end of a loop, `patchtestreg` makes it `TEST 0 0 0`, the number 26, and the
  items from 26901 on are stored from 1251 on. `LuaVM` shows it with `MAXARG_C` = 26, one item per batch
  and a list of 27 before a `break`. `luaK_nil` extends the number 16387, which reads as `LOADNIL 0 0`, when
  a local without a value follows it in register 1. For a number whose lower six bits are 38 or more
  `luaP_opmodes` is read behind its end (lopcodes.h:258), with no effect, since what is found there is not a TESTSET.
- `loadFile` leaks its `FILE` (scriptBase.cpp:61) whenever the file it executes is left by a reload: it
  is not in the list that `ffree` closes. With all `FILE`s of C leaked no script is found any more.
- A battle that ends, and one that begins, while another window is in the foreground go unnoticed
  (main.cpp:775 reads the scene only).

## 5. Proofs

All proofs follow one scheme: an invariant with `Init => Inv`, `Inv /\ [Next]_vars => Inv'` with a step
per action, and `Inv =>` the property, combined by PTL. Every leaf is checked by Z3, Zenon and LS4. What is
assumed of the constants are the named ASSUMEs of the modules, which TLC evaluates in the runs, and the
hypothesis `NoOverride` of the theorems on the players' sides (below). Nothing is bounded by the sizes of
the runs: the sets of keys, bots, threads, objects, files, streams and so on are arbitrary.

| module | theorems | the run checks |
|---|---|---|
| `KeyInputProofs` | `TypeCorrect`, `NeverOpposite`, `DrainedAgrees` | `NoOppositeHeld`, `DrainedMatches` |
| `ProcessProofs` | `AddressesCorrect`, `HandlesAgree`; `KeysFreeAtBattle`; `UpdatesAfterAll` | `AddressesOfTheGame`, `OneHandle`; `RemapsReleased`; `UpdateAfterAll` |
| `PlayerMutexProofs` | `MutexSafe`, `GivesUp`, `OwnSideAlways`, `NeverTheSameSide` | `GivesUpOnlyWhenFull`, `PlaysItsOwnSide`, `OneBotPerSide` |
| `CommandInputProofs` | `DigitsAreHeld`, `InputsAreShown` | `DirectionHeld`, `InputsShown` |
| `ObjectListProofs` | `BattleOwnSamples`, `BattleFrameDelayed`, `ExactWalk`, `CountIsSeen` | `OwnSamples`, `FrameDelayed`, `WalkIsExact`, `ScriptSeesCount` |
| `ScriptsProofs` | `YieldsIntoOpenState`, `BattleRunsFresh`, `ChosenRuns`; `ListedAreOpen`, `DirectoryComesBack`, `ChosenIsFound`; `OwnStreams`, `NoStreamIsLost`; `ReportLeavesNothing` | `StateIsOpen`, `FreshPerBattle`, `RunsChosen`; `ListIsOpenFiles`, `DirectoryRestored`, `AbsoluteIsFound`; `EachItsOwnFile`, `AllClosed`; `NothingLeft` |
| `LuaGCProofs` | `FinalizersOnce`, `ReachableIsKept`, `OnlyWeakEntriesGo` | `FinalizedOnce`, `LiveIsKept`, `EntriesKept` |
| `LuaTableProofs` | `TableInvariant`, `TableImplements`, `TableLength` | `Implements`, `LengthIsBorder` |

### The invariants, and why they are needed

**Keys** (`KeyInput`, under `SteadySpec`). Neither property is inductive: each is about what the game sees,
while a script's call changes only `on` and the queue. The invariant relates the two by the events between
them. `After(h, q, j, n)` is whether the game would hold key n once the first j events of q were sent;
`PrefixesOK` says that at every j no opposite directions are held, `EndsInOn` that at the end it is what
`on` says, `Sorted` that the waits never fall along the queue; `Good` is the three of them, and
`PassedNotDue` that the events `ProcessEvent` has passed over are not due. A call appends (`AppendGood`),
which adds a new j; a send takes the first event away (`TailAfter`), which moves every j by one. The event
that is sent is the first because the queue is sorted, and `DelayKept` keeps it so: it is what makes the
due events a prefix.

**Process** (`GameProcess`). The invariant adds to the properties what holds in the middle of a search: the
cache is empty (`EmptyWhileSearching`, but for a resumed search), a filled entry is of the type last found
(`FilledForType`), there is no handle where the loop goes round (`SearchesWithout`), and a handle is of the
game that `type` names or dead (`TypeOfHandle`).

**Frame loop** (`FrameLoop` in `MCProcess`). `RemapsReleased` is about one moment, the read of a scene that
begins a battle. What must be excluded is a key pressed in every place from which `yield` can come there,
and the proof says for each place why there is none, or why the scene is still that of the battle the key
was pressed for: `BattleAfterMenu` (a battle is not read right after a scene without keys), `MovedInBattle`
(the clock of a battle moved, so the wait was over at once), `SentInBattle` and `SyncNotInMenu` (with keys
pressed the loop goes on only in the battle, or ends in a menu). `EventsLead`, that the pending events turn
the keys held into those the script holds, is what makes "no key pressed" and "no event pending" survive
`key_reset`. `skips` is the gap of main.cpp:837-860: there alone the invariant claims nothing.

**Threads** (`ScriptThreads` in `MCProcess`). The list is rotated by `i`, and `frame_skip` may stand anywhere
in it. `Turns` says of each pair of places whether the thread at p has had its turn since the one at f,
which updates (`HadTurn`); a removal at `i` moves all places behind it, with their threads, by one. `Listed`
says that the list has each live thread once and that the one running is at `i`. Both fail when the thread
at place 0 ends, for there `table.remove` removes nothing: from then on (`RunsDown`) nothing is ever
resumed and the program ends.

**Players** (`PlayerMutex`). `Handles`: a bot has a handle of the mutex it is about to wait for or plays
with, so that the object stays; `Owns`: it owns that mutex, and a mutex has one owner; `FirstTaken`: if
nothing happened meanwhile, the side that was tried first still has another owner. That keys and mutex are
of one side needs a fact about the settings: `Search` finds the section created last, so the side written
by `change_player` is the one it reads only if "Option" is the last section with a `Player`. This is the
hypothesis `NoOverride` of those theorems (no dev.ini sets `Player`); without it they are false, which is
the hazard of lib.cpp:232. The run has `Overrides = {0}` for the same reason.

**Commands** (`CommandInput`). What a digit leaves held depends on what was held before: `NoOpposites`, no
two keys of one axis, and `ButtonsPass`, that no button is held where a character is read. With them
`DiagonalHeld` and `StraightHeld` compute the keys after `key_off` of what does not belong to the digit.
`InputsShown` is about the end of a command alone; `Shows` says what has been shown at each place on the way:
where a character is read, the reference reading of those before it, with the keys of the last direction
held (`Upto`), or a 5 more, with no key held, when a straight direction has just been let go and the same
character is read again (`LetGo`); where a button is released, the button, too (`Pushed`). `ReadPlain` is
then an equation for `Read`, `KeysDiffer` makes the digit that the game sees the one that was meant, and the
function that is the reference reading exists by induction over the characters (`ReadingExists`).

**Delay** (`DataDelay`, a refinement). `FrameHolds`: the array has exactly the last `delay` samples, with
zeros where none were taken since the delay was set; the front is then what `DelayLine` gives out, and
`BeginRefines`, `EndRefines` and so on map each step to one of the line's, or a stutter. `OldOnlyAtLoad`: arrays older
than the script are only those it has not called `yield` with yet.

**Objects** (`ObjectList`). At any moment of a walk of a list left alone, what was read is a prefix of the
list, and the node read next the one after it (`Walked`); `Distinct`, no object is in the list twice, gives
that a node has one successor. `Counted`: nothing touches the objects between the end of a poll and the
next `ReloadObject`, whichever early return ended the poll.

**Engine** (`ScriptEngine`). All three properties are about the frame on top of the C stack, while frames
below come to the top again. `reload()` never returns, so the scripts that `FreshPerBattle` must look at
are those with no frame of `reload()` above (`Fresh`); those of `RunsChosen` the ones above the last load,
as long as nothing that F11 loaded has ended (`Follows`). `OutsideInBattle` says that control is outside of
`yield` only in a battle that `get_th105param` has seen.

**Files** (`LoadFile`). `KeepsDirectory` says that a script is loaded by a reload in the program's directory only, and
of the first load in the script's own directory that its frame remembers the program's; all later ones
restore what the first set. For `OpenAI`'s own load nothing of the kind is needed, since it sets the directory
after it: hence the condition on `loader`. `KeepsName`: the name that a reload
will load is the chosen one, in `scriptName` and in each frame that waits. `Shape`: the loads are nested as the C calls are.
`ListInv` is why the list of `FILE`s cannot be left wrong: it has one node, the `FILE` of the frame on top,
while that is `luaL_loadfile`'s, and none at any other time. With a file being read there is a state to
close (`loadable`), so that every reload from there goes through `ffree`.

**io** (`LuaIO`). `Named` (a userdata has a standard file, or an open `FILE`, or NULL), `Apart` (no two share
one) and `Held` (an open `FILE` has a userdata) survive C's reuse of a `FILE` only together: a stream is
given again only after the userdata that had it was set to NULL. `IteratorHeld`: the iterator of `io.lines`
keeps its userdata from the collector.

**Reports** (`HttpClient`). `ReportInv` says where a request goes on and that the strings of the proxy are
freed in the step that gets them.

**Collector** (`LuaGC`). That a finalizer is called once is about the way of a userdata from the mark
"finalized" over `tmudata` to the call, with sweeps, barriers, revivals and `lua_close` in between. `Final`
says where on this way each one is (waiting: not called; finalized and not waiting: called once; else: not
called), and that a dead one has been called: at the end of a marking each white userdata with a finalizer
is separated and then marked, before the white flips. `AllFinal` carries this through `lua_close`, which
frees what is not dead too. All other steps only change what `Final` does not speak of, and are two
relations between heaps that compose: `Keeps` (only dead userdata go; no colour becomes dead) and `Grows`
(new userdata have their finalizer still to come). Of the marking the proofs use that what it starts from is
reached: `Reached` is a least closed set, not a recursion.

That what the script can reach is kept (`LiveIsKept`) is not inductive: it says nothing of what is gray or
black. `LiveInv` has four parts.
- `Sound`, always: what is not dead refers to nothing dead or free (`Closed`, which counts weak and empty
  entries too, but for the key of an empty entry of a table weak in both sides), every function has its
  upvalue, and an open upvalue points into a thread and is not black.
- `Tricolor`, while marking: nothing is dead; an object that is not white refers to a white one only if it is
  gray, on `grayagain` or `weak`, or an open upvalue; a marked thread is on one of the lists, so that it is
  walked again in `atomic`; a marked table on none of them is not weak, so that its empty entry has lost
  its key. The write barriers keep this for tables and upvalues, a new
  object is white, and stores into stacks need no barrier because of the clause about threads.
- `Coloured`, during the sweeps: what is not white is still to be swept, or an open upvalue of a thread
  that is, or waits for its finalizer; so when the next cycle starts nothing but `tmudata` has an old colour.
- `RunningInv`: the running threads are a chain, each resumed by the one before it. Without this a
  coroutine that runs, and what its stack holds, could be outside of what is marked.

The step that all hangs on is `atomic`: each of its two markings is closed under strong references
(`MarkedAllFacts`), so what is dead after the flip is referred to only from what is dead and from entries that
are weak, and `Cleaned` says that these are cleared (`AtomicCleans`). The white of a revived string or
upvalue changes under the sweep; `Retains` (no good object goes, no reference is new) and `Writes` (a
reference that is new is to a value the script held) are the relations between heaps that nearly all other
steps are, and compose. `EntriesKept` then follows step by step: only `atomic` clears entries, and the
reason `Cleaned` gives for each is the one the property allows.

**Tables** (`LuaTable`, a refinement and an invariant). That a table is a function (`Implements`) needs to know
where each key can be found, after any history of collisions. `TableInv` says of the nodes: from each the
chain ends (`Acyclic`), a node without a key is in no chain (`Unused`), the node that is the main position of a
key in the table has a key that is at home there (`Native`: newkey moves away the one that is not, so no chain
starts in the middle of another), each key is found in its node along the chain from its main position
(`Linked`), no key is in both parts (`Apart`), and no node above `lastfree` is free (`Passed`). `Inserted` and `Moved` show that `newkey` keeps this in each of
its cases, and that it gives one key a value without a change to any other; `HashSet`, `SetInRoomFact` and the
facts about `resize` and `rehash` are built on them. That a rehash leaves a free node rests on its counting:
the array part that `computesizes` chooses and the nodes for the rest have room for all keys. The traversal has its own part, `VisitInv`: it has seen the keys with a value up to the one it has
reached, in the order of `findindex`, and perhaps some that were cleared since. An assignment to a key with a value leaves every key
where it is, which is why the manual asks for no other.

The searches (`NodeOf`, `Between`, `unbound_search`, the moves of `resize`) are recursive functions, whose
equations must be shown to have a solution before they say anything. `Recursion` and `OneSolution` do this once for every
founded relation, given as a set of pairs: the chains end, or a number gets less (`MeasureFounded`). Induction
over them is then the choice of a smallest counterexample (`Least`, `WFMin`), since the induction theorems of the
library cannot be cited. The constants are assumed to be what C gives: `SizesAssumption` (the largest array,
2^`MAXBITS`, is less than the largest int) and `KeysAssumption` (a hash for every key; no more keys than the
largest array has slots, so that `table overflow` is not met; nil is no value).

Theorems about composed runs (`MCSpec`) rest on the parts' own: where `part` is another one a part's state
is unchanged from one it can start in, so `MCSpec` implies each part's `Init` and `[Next]`.

### Only model-checked

- Liveness, with ENABLED in its fairness: `OffIsReleased`, `EveryThreadRuns`, `FirstEndsProgram`,
  `ReleasedAfterBattle`, `CommandEnds`, `WalkEnds`, `Reattaches`, `GarbageIsFreed`.
- `MeansWhatItSays`, `CodeIsValid` and `UpvaluesInFrames`. They rest on the modules of the compiler and of the
  checker, which use RECURSIVE operators, as the C functions of `lparser.c` call each other; tlapm has no
  SMT backend there. The first two are moreover inductions over all scripts, and the third needs from the
  compiler that no call uses a captured register for its function. The recursions of the other modules are
  recursive functions, about which what matters is proved.
- The violation runs: a counterexample needs no proof.

## 6. Not modelled

- Start-up (`main.cpp` arguments, registry), windows, `utility.cpp`: calls into Windows. The parser of ini
  files: text processing. `deploy`, `inc_version`, `common`: build tools.
- Of `network.cpp`, `AIZipPost` and `PostDeleteMethod`, which nothing calls, and the encoding of forms.
- Of Lua: the lexer, dump and undump (text and byte formats); `lapi.c` and the libraries but for io,
  `table.remove` and `loadfile`: functions of their arguments. Metatables, C functions and hooks in the
  machine, and `lua_resume`, `lua_yield` and `lua_pcall` of ldo.c, whose effects are in `ScriptThreads`
  (coroutines) and `ScriptEngine` (errors). That a script that should end does end: `MeansWhatItSays` is
  about the results of those that do. How much the collector does at a time (its debt).
- The names and positions of Lua's messages (the rest of `ldebug.c`).
- Real time: of all waits only the 320 ms are kept, as a step that may happen.

## 7. Plan

The order was: keys first, since everything the bot does ends there; then the data it acts on; threads,
players, engine and frame loop, where the interleavings are; the command library, object list and
process; then the files, reports and the interpreter that the scripts depend on. Next:

1. `LuaDo`: `lua_pcall`, `lua_resume` and `lua_yield` over the stack of C calls (ldo.c), with
   `protect_flag` in `luaD_throw`, so that `ScriptThreads` and `ScriptEngine` rest on it.
2. `HandCards`: `ReloadVal`'s cards (character.cpp:302-325), `GetCardId`, `GetCardCost`, `GetCardCost2`,
   `is_CardUse` and the weather that `yield` shows (main.cpp:881-892), with the card numbers the script
   is told against a reference.
3. The composition of `KeyInput` and `FrameLoop`: that the prefix queue of `FrameLoop` is implemented by
   `KeyInput` under `DelayKept`.
