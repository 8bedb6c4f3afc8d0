------------------------------ MODULE MC_PathReuse ------------------------------
(* Instantiates PathReuse for TLC; the constants are in quote_reuse.cfg.   *)
EXTENDS PathReuse

\* A plain path and one with a quote, both fitting the buffer.
MCPaths == { <<"/", "a">>, <<"/", "a", "'", "b">> }

\* What a stack buffer last held: an earlier path.
MCStaleNames == { <<"/", "b">> }
=============================================================================
