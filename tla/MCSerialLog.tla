---------------------------- MODULE MCSerialLog ----------------------------
(* All formats of up to two characters, and longer ones: flags and widths in every order, and *)
(* formats that fill newfmt and buf exactly or are cut, at a character, within a conversion   *)
(* and within an argument.  Each is logged once, and some after another message that is       *)
(* longer or shorter than the queue.                                                          *)
EXTENDS SerialLog

Characters == {"a", "%", "0", "3", "u", "x", "s"}

AllFormats ==
  UNION {[1..len -> Characters] : len \in 0..2} \cup
  {<<"%", a, b>> : a, b \in Characters} \cup
  {<<"%", "0", "3", "x">>, <<"%", "3", "u", "a">>, <<"%", "u", "%", "x">>, <<"%", "s", "%", "u">>,
   <<"a", "a", "a", "a", "a">>, <<"a", "a", "a", "%", "u">>, <<"a", "%", "0", "3", "x">>,
   <<"a", "a", "a", "a", "%", "x">>, <<"a", "a", "a", "a", "%", "0", "3", "x">>,
   <<"a", "a", "a", "a", "a", "%", "u">>, <<"%", "s", "a", "a", "a", "%", "u">>,
   <<"a", "a", "a", "a", "a", "a", "%", "u", "a">>, <<"%", "s", "a", "%">>, <<"%", "0", "0", "s">>,
   <<"%", "3", "0", "u">>}

SomeArgs ==
  {<<[num |-> 0, str |-> <<>>], [num |-> 255, str |-> <<"b", "c">>], [num |-> 0, str |-> <<>>]>>,
   <<[num |-> 65535, str |-> <<"%", "x", "b", "b">>], [num |-> 10, str |-> <<"c">>],
     [num |-> 1, str |-> <<"d">>]>>}

Call(f, as) == [fmt |-> f, args |-> as]

SomePrograms ==
  {<<Call(f, as)>> : f \in AllFormats, as \in SomeArgs}
  \cup {<<Call(f, as), Call(g, as)>> :
          f \in {<<"%", "s">>, <<"%", "3", "0", "u">>}, g \in {<<>>, <<"%", "u", "a">>}, as \in SomeArgs}
=============================================================================
