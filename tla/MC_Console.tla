---------------------------- MODULE MC_Console ----------------------------
(* Small instances of Console for TLC.  Each run tells two states apart by  *)
(* what its properties, and the steps they depend on, read.                *)
EXTENDS Console, TLC

\* Tabs, sessions and prompts are interchangeable; used for safety only.
Symmetry == Permutations(Tabs) \cup Permutations(Sessions) \cup Permutations(Prompts)

\* No step reads the error shown, and the history variables that are left out
\* only to write them again.
Transcripts == <<server, turns, tab, selected, failed, rebound,
                 [t \in Tabs |-> [view[t] EXCEPT !.error = FALSE]]>>

\* A transcript is only ever copied to a page.
Pages == <<status, owner, turns, tab, selected, rebound, detached, own,
           [t \in Tabs |-> [view[t] EXCEPT !.messages = <<>>]]>>
=============================================================================
