------------------------------ MODULE MCReadDiff ------------------------------
(* Small instances of ReadDiff: two reads, the answers they may get. *)
EXTENDS ReadDiff, TLC

CONSTANTS r1, r2

Answer(status, json, tweets, spelling, splits) ==
    [status |-> status, json |-> json, digest |-> "same", content |-> tweets,
     spelling |-> spelling, splits |-> splits]

TwoReads == r1 :> "timeline" @@ r2 :> "other"

\* Two timelines in one order, spelled differently, one in the other order,
\* a refusal, an error page.
Answers ==
    {Answer(200, TRUE, <<1, 2>>, "compact", FALSE),
     Answer(200, TRUE, <<1, 2>>, "spaced", FALSE),
     Answer(200, TRUE, <<2, 1>>, "compact", FALSE),
     Answer(404, FALSE, <<>>, "page", FALSE),
     Answer(503, FALSE, <<>>, "page", FALSE)}

\* The same, and one that is cut inside a character.
LongAnswers == Answers \cup {Answer(200, TRUE, <<1, 2, 3>>, "compact", TRUE)}
=============================================================================
