-------------------------- MODULE MCSourceManager --------------------------
(* Small instances of SourceManager. *)
EXTENDS SourceManager, TLC

CONSTANTS cam, a, b, file

\* The built-in camera and virtual sources of different kinds.
OwnKinds ==
  (cam :> {"built_in"}) @@ (a :> {"synthetic"}) @@ (b :> {"rtsp"}) @@ (file :> {"video_file"})

\* a may be registered again under another kind.
ChangingKinds == (cam :> {"built_in"}) @@ (a :> {"synthetic", "mjpeg"}) @@ (b :> {"rtsp"})
=============================================================================
