----------------------------- MODULE MCAe7Layout -----------------------------
(* Sizes around the powers of ten at which a numeral, and with it a line,  *)
(* grows: with 260 bytes of fixed text the catalogue starts near 1000 for  *)
(* the sprites chosen, near 10000 with the longer keys.                    *)
EXTENDS Ae7Layout

Silent(n, bytes) == [i \in 1 .. n |-> [video |-> bytes, sound |-> <<>>]]

Tracks(n, count, bytes) ==
  [i \in 1 .. n |-> [video |-> 1000, sound |-> [t \in 1 .. count |-> bytes]]]

SpriteSizes == {0, 80} \cup 600 .. 730
MovieSet == {Silent(1, 0), Silent(2, 998), Silent(3, 2046), Tracks(3, 1, 640), Tracks(2, 4, 100000),
             <<[video |-> 9, sound |-> <<100, 7>>], [video |-> 40, sound |-> <<2, 0>>]>>}

\* Eight tracks make a catalogue line longer than the 30 bytes reserved.
ManyTracks == {Tracks(n, 8, 100000) : n \in 1 .. 5}
=============================================================================
