------------------------- MODULE MCChainSubmission -------------------------
(* Small instances of ChainSubmission.  Generations are named by a letter   *)
(* for the kind (d delegation, i imported, v vote, b batch, c combined) and *)
(* a number, hashes by the generation they belong to.                       *)
EXTENDS ChainSubmission

NoMisreports == {}

\* Where no two generations are of one singleton vote.
OneProposal == [g \in Gen |-> 1]

\* One bundle: a delegation and two combined batches over it.
CombinedKind == [d1 |-> "delegation", c1 |-> "combined", c2 |-> "combined"]
CombinedBundle == [d1 |-> 1, c1 |-> 1, c2 |-> 1]
CombinedHashOf == [hd1 |-> "d1", hc1 |-> "c1", hc2 |-> "c2"]

\* One bundle: an imported delegation, a vote that is signed twice (v1, v2) and
\* a vote on another proposal.
ResignedKind == [i1 |-> "imported", v1 |-> "vote", v2 |-> "vote", v3 |-> "vote"]
ResignedBundle == [i1 |-> 1, v1 |-> 1, v2 |-> 1, v3 |-> 1]
ResignedProposal == [i1 |-> 1, v1 |-> 1, v2 |-> 1, v3 |-> 2]
ResignedHashOf == [hi1 |-> "i1", hv1 |-> "v1", hv2 |-> "v2", hv3 |-> "v3"]

\* Two bundles, a batch over an imported delegation in one and a delegation in
\* the other; an endpoint mixes up their hashes.
MixedKind == [i1 |-> "imported", b1 |-> "batch", d2 |-> "delegation"]
MixedBundle == [i1 |-> 1, b1 |-> 1, d2 |-> 2]
MixedHashOf == [hi1 |-> "i1", hb1 |-> "b1", hd2 |-> "d2"]
MixedMisreports == {<<"d2", "hb1">>}

\* One delegation, alone, with one or with two hashes.
LoneKind == [d1 |-> "delegation"]
LoneBundle == [d1 |-> 1]
LoneHashOf == [hd1 |-> "d1"]
TwiceHashOf == [hd1 |-> "d1", hd1x |-> "d1"]

\* One bundle, for two concurrent passes, and a delegation signed anew for its
\* second POST, so that its two copies have two hashes.
PairKind == [d1 |-> "delegation", c1 |-> "combined"]
PairBundle == [d1 |-> 1, c1 |-> 1]
PairHashOf == [hd1 |-> "d1", hd1x |-> "d1", hc1 |-> "c1"]
=============================================================================
