----------------------------- MODULE KeyRelease -----------------------------
(***************************************************************************)
(* What a derivation promises about the opening of its output.  The        *)
(* evaluator's labels on the output wires decode to the keys, so they may  *)
(* leave it only when both garblers have confirmed that the circuit's      *)
(* check bit is set; a garbler has the keys only after that, and the       *)
(* evaluator only when both garblers have them.  A party may also stop     *)
(* for ever at any point.                                                  *)
(***************************************************************************)
CONSTANTS
    Garblers,   \* the parties that confirm and decode
    Evaluator   \* the party that opens

VARIABLES
    said,   \* the garblers that confirmed; the evaluator once it has opened
    done    \* the parties that have the keys

Init == said = {} /\ done = {}

Confirm(g) ==
    /\ said' = said \cup {g}
    /\ UNCHANGED done

Open ==
    /\ Garblers \subseteq said
    /\ said' = said \cup {Evaluator}
    /\ UNCHANGED done

Decode(g) ==
    /\ {g, Evaluator} \subseteq said
    /\ done' = done \cup {g}
    /\ UNCHANGED said

Complete ==
    /\ Garblers \subseteq done
    /\ done' = done \cup {Evaluator}
    /\ UNCHANGED said

Next == Open \/ Complete \/ \E g \in Garblers : Confirm(g) \/ Decode(g)

Spec == Init /\ [][Next]_<<said, done>>
=============================================================================
