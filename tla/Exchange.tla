------------------------------ MODULE Exchange ------------------------------
(***************************************************************************)
(* What a chat turn promises, whatever strategy answers it: the text only  *)
(* grows, is judged once, is called grounded only if it reports no error,  *)
(* and is what the conversation keeps, if the turn was judged at all.      *)
(***************************************************************************)
EXTENDS Sequences, SequencesExt

CONSTANTS Piece, Error

VARIABLES
    said,       \* the text of the answer
    verdict,    \* "open", "grounded", "ungrounded" or "failed"
    kept        \* the stored assistant messages

exchangeVars == <<said, verdict, kept>>

Init == said = <<>> /\ verdict = "open" /\ kept = {}

Grows == IsPrefix(said, said') /\ ToSet(said') \subseteq Piece

Say == verdict = "open" /\ Grows /\ UNCHANGED <<verdict, kept>>

Judge ==
    /\ verdict = "open"
    /\ \/ verdict' = "ungrounded"
       \/ verdict' = "grounded" /\ Error \notin ToSet(said)
    /\ UNCHANGED <<said, kept>>

Keep ==
    /\ verdict \in {"grounded", "ungrounded"} /\ kept = {}
    /\ kept' = {said}
    /\ UNCHANGED <<said, verdict>>

\* The turn raises, perhaps after some words.
Abandon == verdict = "open" /\ verdict' = "failed" /\ Grows /\ UNCHANGED kept

Next == Say \/ Judge \/ Keep \/ Abandon

Spec == Init /\ [][Next]_exchangeVars
=============================================================================
