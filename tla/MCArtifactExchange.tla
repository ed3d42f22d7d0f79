------------------------- MODULE MCArtifactExchange -------------------------
(* A small instance of ArtifactExchange for TLC. *)
EXTENDS ArtifactExchange, TLC

CONSTANTS p1, p2, zip1, zip2, latest

TwoProcesses == {p1, p2}

linux == [kind |-> "provider", version |-> "1", platform |-> "linux"]
darwin == [kind |-> "provider", version |-> "1", platform |-> "darwin"]
TwoIds == {linux, darwin}

(* Two archives of the provider: the server cannot tell their platforms.   *)
TwoContents == {zip1, zip2}
ProviderFits == [id \in TwoIds |-> TwoContents]
Sizes == [b \in TwoContents \cup {Damaged} |-> 1]

OneTag == {latest}

foreign(id, bytes) ==
    [media |-> "image", artifact |-> "terraform", id |-> id,
     layers |-> <<[type |-> "provider", bytes |-> bytes, size |-> 1]>>]

(* A copy of what another registry serves for darwin, and a copy of        *)
(* something that is no archive, correct as a manifest.                    *)
ForeignManifests == {foreign(darwin, zip2), foreign(linux, Damaged)}

Symmetry == Permutations(TwoProcesses)
=============================================================================
