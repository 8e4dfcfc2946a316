------------------------------- MODULE MCLuaGC -------------------------------
(***************************************************************************)
(* LuaGC for TLC: the scripts, by what they use together.                  *)
(***************************************************************************)
EXTENDS LuaGC

CONSTANTS a1, a2, a3

Script(kinds, memory, slots, collects) ==
  [kinds |-> kinds, memory |-> memory, slots |-> slots, collects |-> collects]
SmallScripts ==
  {Script({"strong"}, {a1, a2}, 2, FALSE),
   Script({"kv", "gcuserdata", "string"}, {a1, a2}, 2, FALSE),
   Script({"thread", "function"}, {a1, a2, a3}, 1, FALSE),
   Script({"function", "string"}, {a1, a2, a3}, 2, FALSE),
   Script({"gcuserdata"}, {a1, a2, a3}, 1, TRUE)}
=============================================================================
