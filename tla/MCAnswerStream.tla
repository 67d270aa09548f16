--------------------------- MODULE MCAnswerStream ---------------------------
(* Two letters, one marker of two letters that fragments may split.      *)
EXTENDS AnswerStream
CONSTANTS letA, letB, letT, letX, letE
MCMarkers == {<<letA, letB>>}
MCFragments == {<<letA>>, <<letB>>, <<letB, letA>>}
MCTagged == {<<Opening, letB>>, <<letB, Closing>>, <<letA, Closing, letA>>}
MCThought == <<letT>>
MCArgument == <<letX>>
MCTrouble == <<letE>>
=============================================================================
