------------------------------ MODULE CodecTable ------------------------------
(***************************************************************************)
(* codec_info (tools/replay_transcode.c): how the transcoder handles each  *)
(* video format number.  Names, module paths and colour models are left    *)
(* out; what steers the program is kept.                                   *)
(***************************************************************************)
EXTENDS Integers

\* Run under the ARM sandbox on the chunk's payload as it stands.
ModuleCodecs == {1, 7, 17, 19, 20, 800} \cup {2, 3, 4, 5, 6, 8, 9, 10, 11, 16}
                  \cup {21, 22, 24, 25}

\* Run under the sandbox on a payload stripped of MovieFS wrappers.
MovieFsCodecs == {602, 608, 615, 626} \cup {604, 606, 607, 609, 613, 624}
                   \cup {600, 622, 623, 614}

\* Handed on to the player of the NUT stream, frame by frame.
PassMovieFs == {601, 603, 605, 610, 628, 629}
PassVideoFs == {901, 902}

EscapeRoute(codec) ==
  CASE codec \in {100, 102} -> "esc100"
    [] codec = 122 -> "esc122"
    [] codec = 124 -> "esc124"
    [] codec = 130 -> "esc130"

Info(codec) ==
  [route |->
     CASE codec \in ModuleCodecs \cup MovieFsCodecs    -> "module"
       [] codec \in PassMovieFs \cup PassVideoFs       -> "pass"
       [] codec \in {100, 102, 122, 124, 130}          -> EscapeRoute(codec)
       [] codec = 500 -> "tca"
       [] codec = 23  -> "type23"
       [] OTHER       -> "unknown",
   wrapper |-> codec \in MovieFsCodecs,
   palette |-> codec = 600,
   wrap    |-> IF codec \in PassVideoFs THEN "videofs" ELSE "moviefs"]
=============================================================================
