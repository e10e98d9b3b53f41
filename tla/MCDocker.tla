------------------------------ MODULE MCDocker ------------------------------
(***************************************************************************)
(* Docker for TLC: two images, a variable given as a block and flat, a     *)
(* variable whose name contains an '=', a spec without an image; the       *)
(* Engine adds PATH.                                                       *)
(***************************************************************************)
EXTENDS Docker

CONSTANTS Img1, Img2

NoVars == <<>>
Var(name, value) == [k \in {name} |-> value]

App(image, env, flat) == [image |-> image, env |-> env, flat |-> flat, wellFormed |-> TRUE]

MCSpecs ==
  {App(Img1, Var(<<"A">>, <<"x">>), NoVars),
   App(Img2, Var(<<"A">>, <<"x">>), Var(<<"A">>, <<"y">>)),
   App(Img1, Var(<<"A", "B">>, <<"x">>), NoVars),
   App(Blank, NoVars, NoVars)}

MCInjected == {<<"PATH", "bin">>}

\* Enough for the container, the pass and every request given up, and one more.
MCIds == 1 .. MaxFaults + MaxCrashes + 3

MCForeign == {[image |-> Img2, env |-> Var(<<"A">>, <<"x">>)]}
=============================================================================
