--------------------------- MODULE MCVersionRace ---------------------------
(* A small grammar for VersionRace. *)
EXTENDS VersionRace

MCState == {"start", "s", "t", "goal", "error"}
\* In "start" a token can be shifted, or a reduction made first, to either of two states;
\* one of them also takes a token of no width.
MCShifts == {<<"start", 1, "start">>, <<"s", 1, "start">>, <<"s", 0, "t">>,
             <<"t", 1, "start">>, <<"goal", 1, "start">>}
MCReduces == {<<"start", "s">>, <<"start", "t">>}
=============================================================================
