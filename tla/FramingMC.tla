----------------------------- MODULE FramingMC -----------------------------
(* Framing for TLC: what the bytes inside frames say. *)
EXTENDS Framing

\* Every length there is to read, at some position of every kind of frame.
MCSaidBy(p) == CHOOSE n \in SaidLengths :
                    Cardinality({m \in SaidLengths : m < n}) = p % Cardinality(SaidLengths)
=============================================================================
