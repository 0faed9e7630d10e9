----------------------------- MODULE MC_VidFrames -----------------------------
(* Streams of six frames at most, in decoding order, with reordered pictures, *)
(* an open group of pictures, a configuration or headers in the frames, and   *)
(* the end of the stream with or without data.                                *)
EXTENDS NX_VidFrames

Frame(pts, key, head) == [pts |-> pts, config |-> FALSE, key |-> key, data |-> TRUE,
                          eos |-> FALSE, head |-> head]
I(pts) == Frame(pts, TRUE, "none")
P(pts) == Frame(pts, FALSE, "none")
Config == [pts |-> 0, config |-> TRUE, key |-> FALSE, data |-> TRUE, eos |-> FALSE,
           head |-> "same"]
Eos == [pts |-> 0, config |-> FALSE, key |-> FALSE, data |-> FALSE, eos |-> TRUE,
        head |-> "none"]
WithEos(b) == [b EXCEPT !.eos = TRUE]

Reordered == << Config, I(1), P(3), P(2), I(5), P(4), WithEos(P(6)) >>
InFrames == << Frame(1, TRUE, "same"), P(3), P(2), Eos >>
NoHeader == << P(1), P(2), P(3), P(4), P(5), WithEos(P(6)) >>
NewHeader == << Config, I(1), Frame(2, TRUE, "new"), P(3), Eos >>

MCStreams == {Reordered, InFrames, NoHeader, NewHeader}

=============================================================================
