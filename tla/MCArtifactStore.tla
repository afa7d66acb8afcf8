-------------------------- MODULE MCArtifactStore --------------------------
(* Instances of ArtifactStore for TLC: an upload and a capture. *)
EXTENDS ArtifactStore

CONSTANTS a1, a2, l1, c1, c2

TwoArtifacts == {a1, a2}
OneUpload == {a1}
OneListing == {l1}
OneConversation == {c1}
TwoConversations == {c1, c2}
OneByte == [a \in Artifacts |-> 1]
=============================================================================
