-------------------------- MODULE MCMBFEnumeration --------------------------
(* The classes of monotonic Boolean functions of three variables, named by *)
(* their bits: the two with four are {}, a, b, c and {}, a, b, ab.         *)
EXTENDS MBFEnumeration, TLC

MCClasses == {"0", "1", "2", "3", "abc", "ab", "5", "6", "7", "8"}
MCSucc ==
     ("0" :> {"1"}) @@ ("1" :> {"2"}) @@ ("2" :> {"3"}) @@ ("3" :> {"abc", "ab"})
  @@ ("abc" :> {"5"}) @@ ("ab" :> {"5"}) @@ ("5" :> {"6"}) @@ ("6" :> {"7"})
  @@ ("7" :> {"8"}) @@ ("8" :> {})
MCRank ==
     ("0" :> 0) @@ ("1" :> 1) @@ ("2" :> 2) @@ ("3" :> 3) @@ ("abc" :> 4) @@ ("ab" :> 4)
  @@ ("5" :> 5) @@ ("6" :> 6) @@ ("7" :> 7) @@ ("8" :> 8)
=============================================================================
