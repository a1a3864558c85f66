---------------------------- MODULE MCVoiceCall ----------------------------
\* The instances of VoiceCall that TLC checks.
EXTENDS VoiceCall, TLC

CONSTANTS ann, ben, c1, c2

\* Both calls are placed by the same peer.
SamePlaces == c1 :> ann @@ c2 :> ann
\* Each peer places one.
EachPlaces == c1 :> ann @@ c2 :> ben
\* There is one call.
OnePlaces == c1 :> ann

\* Sound with SamePlaces, which both calls enter alike.
CallSymmetry == Permutations({c1, c2})
=============================================================================
