----------------------------- MODULE MCDeployment -----------------------------
(* Instances of Deployment for TLC: outputs for three faces, in different   *)
(* lengths, the last the opposite of the second.                            *)
EXTENDS Deployment

MCRaws == {<<3, 4>>, <<2, 0>>, <<-1, 0>>}

MCStreamingPolicy == [enroll |-> [warmup_discard |-> 1, max_frames |-> 1],
                      verify |-> [warmup_discard |-> 0, max_frames |-> 2]]

(* The bundled file sets only one limit of enroll.                          *)
MCBundled == [enable_rgb |-> TRUE, enroll |-> [warmup_discard |-> 2]]
MockYaml == [mock |-> TRUE, mock_embedder |-> TRUE, mock_detector |-> TRUE]
BothCameras == [enable_ir |-> TRUE]
MCYamls == {MCBundled, MockYaml, BothCameras}

===============================================================================
