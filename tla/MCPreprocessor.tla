--------------------------- MODULE MCPreprocessor ---------------------------
(* The preprocessor on short sources: a name or nothing as a macro's text,  *)
(* a pool two lines can fill.                                               *)
EXTENDS Preprocessor
CONSTANTS a, b, c
MCBodies == {<<>>, <<a>>, <<Text, b>>}
MCTexts == {<<a>>, <<b, "/*">>, <<"*/", a>>, <<"/*", "*/">>, <<c, "*/">>}
=============================================================================
