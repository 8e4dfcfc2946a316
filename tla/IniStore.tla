------------------------------ MODULE IniStore ------------------------------
(***************************************************************************)
(* The settings store of lib.h and lib.cpp: sections in the order they     *)
(* were first named, each with the values of its keys.  Every ini file and *)
(* the program itself write with Add into the same list; a setting is read *)
(* by its key alone.                                                       *)
(***************************************************************************)
EXTENDS Integers, Sequences

EmptyStore == <<>>

Section(name, key, value) == [name |-> name, params |-> [k \in {key} |-> value]]

\* The section is found by its name or appended, the key replaced or appended.
Add(sectionList, name, key, value) ==
  IF \E s \in DOMAIN sectionList : sectionList[s].name = name
  THEN [s \in DOMAIN sectionList |->
          IF sectionList[s].name = name
          THEN [name |-> name,
                params |-> [k \in DOMAIN sectionList[s].params \cup {key} |->
                              IF k = key THEN value ELSE sectionList[s].params[k]]]
          ELSE sectionList[s]]
  ELSE Append(sectionList, Section(name, key, value))

\* The section created last wins, not the value written last.
Search(sectionList, key) ==
  LET s == CHOOSE s \in DOMAIN sectionList :
             /\ key \in DOMAIN sectionList[s].params
             /\ \A r \in DOMAIN sectionList : key \in DOMAIN sectionList[r].params => r <= s
  IN  sectionList[s].params[key]
=============================================================================
