-------------------------------- MODULE Codecs --------------------------------
(***************************************************************************)
(* How a session picks the formats it forwards.  The code asks the session *)
(* description for one codec after the other (FindFormat) and takes the    *)
(* first it finds; a codec is its name here.                               *)
(***************************************************************************)
EXTENDS Naturals, Sequences

None == "none"

\* The first codec of order that the stream has, or None: the chain of
\* FindFormat() calls of the servers.
FirstIn(order, formats) ==
    LET found == {i \in DOMAIN order : order[i] \in formats}
    IN  IF found = {} THEN None
        ELSE order[CHOOSE i \in found : \A j \in found : i <= j]
=============================================================================
