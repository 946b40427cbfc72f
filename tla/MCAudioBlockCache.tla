------------------------- MODULE MCAudioBlockCache -------------------------
(* A small instance of AudioBlockCache for TLC: a source of three blocks, another
   resolution of it with two blocks of double size, and no source at all.          *)
EXTENDS AudioBlockCache

CONSTANTS NoSource, Fine, Coarse

MCBlockCount ==
  [c \in Configs |-> CASE c = NoSource -> 0 [] c = Fine -> 3 [] c = Coarse -> 2]
MCBlockBytes ==
  [k \in {"spectrum", "waveform"} |->
     [c \in Configs |-> IF k = "spectrum" /\ c = Coarse THEN 2 ELSE 1]]

============================================================================
