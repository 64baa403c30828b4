---------------------------- MODULE MCFileLoader ----------------------------
(* FileLoader for TLC.                                                     *)
EXTENDS FileLoader

(* Two areas, with less room together than the longest file.               *)
SmallAreas == <<1, 1>>
=============================================================================
