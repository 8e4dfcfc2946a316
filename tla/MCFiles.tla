------------------------------- MODULE MCFiles -------------------------------
(***************************************************************************)
(* A disk for LoadFile: x, in the directory script, is the script; it may  *)
(* load y in script/sub and files that are not where it looks for them.    *)
(***************************************************************************)
Path(absolute, dir, name) == [absolute |-> absolute, dir |-> dir, name |-> name]

ScriptTree == {<<>>, <<"script">>, <<"script", "sub">>}
ScriptFiles == {<< <<"script">>, "x">>, << <<"script", "sub">>, "y">>, << <<>>, "z">>}
ChosenPaths == {Path(FALSE, <<"script">>, "x"), Path(TRUE, <<"script">>, "x")}
PickedPaths == {Path(TRUE, <<"script">>, "x")}
RequiredPaths ==
  {Path(FALSE, <<"sub">>, "y"), Path(FALSE, <<"script", "sub">>, "y"),
   Path(FALSE, <<"script", "sub">>, "w"), Path(FALSE, <<>>, "x"),
   Path(FALSE, <<"none">>, "x")}
=============================================================================
