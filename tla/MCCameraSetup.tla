--------------------------- MODULE MCCameraSetup ---------------------------
(* Small instances of CameraSetup: two cameras, of which a search hears    *)
(* both, one twice, or text that is none.                                  *)
EXTENDS CameraSetup

Full == [info |-> "ok", named |-> TRUE, capabilities |-> "ok", profiles |-> "ok",
         features |-> {"ptz", "presets", "continuous"},
         list |-> <<[token |-> FALSE, stream |-> "ok", score |-> 3],
                    [token |-> TRUE, stream |-> "ok", score |-> 1]>>]
NoStream == [Full EXCEPT !.list = <<[token |-> TRUE, stream |-> "timeout", score |-> 1]>>]
MCOnvifAnswers == {Full, NoStream, [Full EXCEPT !.features = {"presets"}],
                   [Full EXCEPT !.capabilities = "unauthorized"]}

Streams == [address |-> "ok", connect |-> "ok", options |-> "ok", describe |-> "ok"]
MCRtspAnswers == {Streams, [Streams EXCEPT !.describe = "missing"]}

Names(camera) == [text |-> TRUE, camera |-> camera]
MCSearches == {<<Names(1), Names(0), Names(2), Names(1)>>, <<[text |-> FALSE, camera |-> 0]>>}
=============================================================================
