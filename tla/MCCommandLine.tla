---------------------------- MODULE MCCommandLine -----------------------------
(***************************************************************************)
(* Small strings for CommandLine: every list of arguments that four        *)
(* characters and the ends of the list can make, empty strings in the      *)
(* middle included, what is no list, and what is too long.                 *)
(***************************************************************************)
EXTENDS CommandLine

ListCharacter == {"x", Space, Tab, Backslash, NUL}

Lists ==
  {s \o <<NUL, NUL>> : s \in UNION {[1 .. n -> ListCharacter] : n \in 0 .. 4}}
    \cup {<<NUL>>}

(* Without an end, and, the last one, longer than the buffer.               *)
NoLists ==
  {<<>>, <<"x">>, <<"x", NUL>>, <<NUL, "x">>,
   <<"x", "x", "x", "x", "x", NUL, NUL>>}

Data == Lists \cup NoLists

Programs == {<<"x">>, <<"x", Space, "x">>}

Identifiers == {<<>>, <<"x">>, <<"x", Space, "x">>}

Paths ==
  {<<"x">>, <<"x", Space, "x">>, <<"x", Apostrophe, "x">>,
   <<Apostrophe, "x", Apostrophe>>}

ASSUME StringsArePlain == PlainStrings
=============================================================================
