------------------------------- MODULE MCBoot -------------------------------
(* Boot on a screen of three columns and two lines, where every             *)
(* announcement wraps and the second one clears the screen, with three      *)
(* device slots of two functions and room for three devices.                *)
EXTENDS Boot, TLC

Memory == [type |-> 4, size |-> 16, contents |-> "memory"]
LaterMemory == [type |-> 4, size |-> 16, contents |-> "later memory"]
Rgb == [type |-> 8, size |-> 37, contents |-> [type |-> "rgb", colours |-> "positions"]]
Palette == [type |-> 8, size |-> 41, contents |-> [type |-> "palette", colours |-> "two"]]
Text == [type |-> 8, size |-> 31, contents |-> [type |-> "text", colours |-> Unset]]
CommandLine == [type |-> 1, size |-> 13, contents |-> "command line"]
End == [type |-> 0, size |-> 8, contents |-> Unset]

TestInfos ==
    { [size |-> 16, tags |-> 8 :> End],
      [size |-> 48, tags |-> 8 :> Memory @@ 24 :> CommandLine @@ 40 :> End],
      [size |-> 72, tags |-> 8 :> Rgb @@ 48 :> Memory @@ 64 :> End],
      [size |-> 112, tags |-> 8 :> Palette @@ 56 :> Text @@ 88 :> LaterMemory @@ 104 :> End],
      [size |-> 104, tags |-> 8 :> Palette @@ 56 :> Rgb @@ 96 :> End] }

TestMachines ==
    { {}, {<<0, 0>>, <<2, 0>>}, {<<1, 0>>, <<1, 1>>}, {<<0, 1>>, <<2, 0>>, <<2, 1>>},
      Address }

Svga == {<<2, 0>>}
ShortBanner == <<"glyph", "glyph">>
ShortName == [driver \in Names |-> <<"glyph", "glyph">>]
=============================================================================
