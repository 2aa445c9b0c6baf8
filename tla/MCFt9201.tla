------------------------------- MODULE MCFt9201 -------------------------------
(* Small instances of Ft9201: two templates on file, one that cannot be      *)
(* loaded and one malformed print, in galleries that put each kind first.    *)
EXTENDS Ft9201

MCInfoReplies  == {<<96, 112>>}
MCVerifyPrints == {"p1", Unusable, Malformed}
MCGalleries    == {<<>>, <<"p1", "p2">>, <<Unusable, "p2", Malformed>>}
==============================================================================
