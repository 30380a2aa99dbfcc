------------------------------ MODULE MCParts ------------------------------
(* Parts on small instances; uploads have dimensions in pixels and a limit  *)
(* of 3 seconds.                                                            *)
EXTENDS Parts

OnePerWindow == [open |-> 1, guarded |-> 1]

Of(formats, sizes, longs, extras, forms) ==
  {[format |-> f, x |-> s[1], y |-> s[2], long |-> l, extra |-> e, form |-> o] :
     f \in formats, s \in sizes, l \in longs, e \in extras, o \in forms}

Dimensions == {<<100, 5000>>, <<5000, 100>>, <<99, 640>>, <<640, 99>>, <<5001, 640>>,
               <<640, 5001>>, <<640, 1300>>, <<0, 640>>}

\* Texts with a wildcard and with letters in both cases, and accounts that hold
\* them by name, by email or not at all.
SearchTexts == {<<"_">>, <<"A", "b">>}
Account(name, mail, live, caller) ==
  [username |-> name, email |-> mail, isActive |-> live, isCaller |-> caller]
People ==
  {Account(<<"x", "a", "b">>, <<"x", "@">>, TRUE, FALSE),
   Account(<<"A", "_">>, <<"y", "@">>, TRUE, FALSE),
   Account(<<>>, <<"a", "b">>, TRUE, FALSE),
   Account(<<"_", "A", "b">>, <<"z", "@">>, TRUE, TRUE),
   Account(<<"_">>, <<"_", "@">>, FALSE, FALSE)}

\* Every container, in the layouts its writers use: the scale comes first.
PlainMedia ==
  Of({"mp4", "mov"}, {<<9, 3>>, <<10, 3>>, <<0, 3>>, <<9, 0>>}, BOOLEAN, BOOLEAN,
     {"plain", "open", "extended"})
  \cup Of({"mp4"}, {<<33, 11>>, <<34, 11>>}, {TRUE}, BOOLEAN, {"plain", "extended"})
  \cup Of({"webm"}, {<<6, 2>>, <<7, 2>>, <<4, 3>>, <<5, 3>>}, BOOLEAN, BOOLEAN, {"plain", "open"})
  \cup Of({"webm"}, {<<33, 2>>}, {TRUE}, BOOLEAN, {"plain"})
  \cup Of({"avi"}, {<<6, 8>>, <<7, 7>>, <<20, 5>>, <<0, 8>>}, {FALSE}, BOOLEAN, {"plain", "open"})
  \cup Of({"png", "gif"}, Dimensions, {FALSE}, {FALSE}, {"plain"})
  \cup Of({"jpeg"}, Dimensions, BOOLEAN, BOOLEAN, {"plain"})
  \cup Of({"vp8l", "vp8x"}, Dimensions \ {<<0, 640>>}, {FALSE}, {FALSE}, {"plain"})
=============================================================================
