------------------------------ MODULE MCScreen ------------------------------
(* A window of two by two cells with a pixel to spare either way; the boot  *)
(* console's "OK" lies across all four of them.                             *)
EXTENDS Screen
MCDeltas == {<<0, -10>>, <<0, 10>>}
MCPrompt == <<"NL", "$">>
MCBanner == <<>>
MCOutputs == {<<"a", "a">>}
MCWelcomes == {<<"dash">>}
=============================================================================
