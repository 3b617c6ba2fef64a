---------------------------- MODULE MCTextEditor ----------------------------
(* The editor on a file with a character whose lower case is two characters  *)
(* long, as it is for the dotted capital I.                                  *)
EXTENDS TextEditor

DottedFile == {<<<<"I", "b">>>>}
=============================================================================
