---------------------------- MODULE MCPathManager ----------------------------
(***************************************************************************)
(* Instances of PathManager for TLC: a name, a regular expression that     *)
(* matches it, and all_others.                                             *)
(***************************************************************************)
EXTENDS PathManager, TLC

CONSTANTS a, re, all

MCMatches == {<<re, a>>}

\* Two values of a setting that can be updated in place, and two of one that
\* cannot.
S11 == [fixed |-> 1, hot |-> 1]
S12 == [fixed |-> 1, hot |-> 2]
S21 == [fixed |-> 2, hot |-> 1]

MCSettings == {S11, S12, S21}

Entries(f) == [cn \in ConfNames |-> IF cn \in DOMAIN f THEN f[cn] ELSE None]

\* An entry appears, disappears, or changes in a setting of either kind, for
\* a plain name, for a regular expression and for all_others.
MCConfigurations ==
    {Entries(a :> S11),
     Entries(a :> S12),
     Entries(a :> S21 @@ all :> S11),
     Entries(re :> S11),
     Entries(re :> S12 @@ all :> S21),
     Entries(all :> S12)}

\* Configurations in which a plain name is only updated in place.
HotConfigurations == {Entries(a :> S11), Entries(a :> S12)}
=============================================================================
