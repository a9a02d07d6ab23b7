----------------------------- MODULE MCKeyboard -----------------------------
(* Keyboard.tla on small sets of keys; the .cfg files give the constants.    *)
EXTENDS Keyboard
=============================================================================
