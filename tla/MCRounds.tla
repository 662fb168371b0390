------------------------------ MODULE MCRounds ------------------------------
(***************************************************************************)
(* Two bundles, two proposals with two options, and a host that edits the  *)
(* ballot or changes the roster once, or twice in the round that holds a   *)
(* rejected vote.  The last round holds a rejected batch.                  *)
(***************************************************************************)
EXTENDS Rounds

MCStarts == {
    Start("SkipBundle", "self", <<"prepared", "absent">>, {}, <<"yes", "yes">>, <<{}, {}>>, 1),
    Start("SkipBundle", "self", <<"prepared", "absent">>, {}, <<"yes", "open">>, <<{}, {}>>, 0),
    Start("SkipBundle", "stored", <<"prepared", "prepared">>, {}, <<"yes", "skip">>, <<{}, {}>>, 0),
    Start("StopRound", "self", <<"managed", "submitted">>, {2}, <<"yes", "skip">>, <<{}, {}>>, 0),
    Start("SkipBundle", "absent", <<"absent", "absent">>, {}, <<"yes", "skip">>, <<{}, {}>>, 0),
    Start("StopRound", "self", <<"confirmed", "confirmed">>, {}, <<"yes", "skip">>, <<{}, {}>>, 0),
    Start("SkipBundle", "self", <<"confirmed", "absent">>, {}, <<"yes", "yes">>, <<{1}, {}>>, 2),
    Start("SkipBundle", "self", <<"confirmed", "absent">>, {}, <<"yes", "yes">>, <<{1, 2}, {}>>, 1)}

=============================================================================
