----------------------------- MODULE MCTerminal -----------------------------
(* Terminal.tla with texts of a few characters; the .cfg files give the size *)
(* of the screen and of the buffers.                                         *)
EXTENDS Terminal

MCBootText == <<"o", "\n", "\n">>
MCLoginPrompt == <<"l">>
MCPasswordPrompt == <<"p">>
MCIncorrect == <<"i", "\n">>
MCWelcome == <<"w", "\n", "\n">>
MCHalting == <<"h", "\n">>
MCPrompt == <<"$">>
\* Nothing; a line ended by CR LF, as in a file from elsewhere; one with a return
\* within it, which takes the cursor astray; a line of more than a row of four; and
\* one that fills the row and is not ended.
MCOutputs == { <<>>, <<"o", "\r", "\n">>, <<"o", "o", "\r", " ">>, <<"o", "o", " ", "o", "o", "\n">>,
               <<"o", "o", " ", "o">> }
=============================================================================
