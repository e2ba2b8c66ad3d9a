------------------------------- MODULE MCPool -------------------------------
EXTENDS Pool, TLC
CONSTANTS a, b, s1, s2, s3
MCInstances == {a, b}
MCSessions == {s1, s2, s3}
MCLimit == a :> 2 @@ b :> 1
MCKey == a :> "home" @@ b :> "home"
Sym == Permutations(MCSessions)
=============================================================================
