----------------------------- MODULE MCKeyboard -----------------------------
(* Translation tables for small keyboards: two printing keys, one key      *)
(* without a character, one shift and one other modifier.                  *)
EXTENDS Keyboard

CONSTANTS a, A, b, B, kA, kB, kEsc, kShift, kCtrl

MCChars == {a, A, b, B}
MCScancodes == {kA, kB, kEsc, kShift, kCtrl}
MCPlain == [k \in MCScancodes |-> IF k = kA THEN a ELSE IF k = kB THEN b ELSE NUL]
MCShifted == [k \in MCScancodes |-> IF k = kA THEN A ELSE IF k = kB THEN B ELSE NUL]
=============================================================================
