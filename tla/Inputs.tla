-------------------------------- MODULE Inputs --------------------------------
(***************************************************************************)
(* The text that the pure algorithms of lib/ are given: any text over the  *)
(* symbols of one kind of input, up to a bound.  The algorithms have no    *)
(* state of their own; what they compute is an operator of the text.       *)
(***************************************************************************)
EXTENDS Integers, Sequences, SequencesExt

CONSTANTS Symbols,   \* Symbols[k], the symbols of a text of kind k
          MaxText    \* bound: MaxText[k], how many of them

ASSUME InputAssumption == DOMAIN Symbols = DOMAIN MaxText

VARIABLES kind, text

inputVars == <<kind, text>>

InputInit == kind = "none" /\ text = <<>>

Begin(k) == kind = "none" /\ kind' = k /\ UNCHANGED text

Extend(c) == /\ kind # "none" /\ Len(text) < MaxText[kind]
             /\ text' = Append(text, c)
             /\ UNCHANGED kind

InputNext == \/ \E k \in DOMAIN Symbols : Begin(k)
             \/ kind # "none" /\ \E c \in Symbols[kind] : Extend(c)

InputSpec == InputInit /\ [][InputNext]_inputVars
=============================================================================
