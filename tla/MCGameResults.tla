--------------------------- MODULE MCGameResults ----------------------------
(* Model-checking instance of GameResults: games of two and of three whose       *)
(* clients claim different things (that players of two teams won, or other       *)
(* races), and a ranked game of three that all see alike, where one may be        *)
(* outvoted in a desync.                                                     *)
EXTENDS GameResults, TLC

CONSTANTS u1, u2, u3

Teams == u1 :> 1 @@ u2 :> 2 @@ u3 :> 2
Pair == {u1, u2}
Trio == {u1, u2, u3}

PairAndTrio == {<<Pair, TRUE>>, <<Pair, FALSE>>, <<Trio, TRUE>>, <<Trio, FALSE>>}

Claim(says, races) == [says |-> says, races |-> races]
First == u1 :> "v" @@ u2 :> "d" @@ u3 :> "d"
Second == u1 :> "d" @@ u2 :> "v" @@ u3 :> "v"
Both == u1 :> "v" @@ u2 :> "v" @@ u3 :> "d"
Reports == [g \in PairAndTrio |->
                IF g = <<Trio, TRUE>> THEN {Claim(First, 1)}
                ELSE IF g = <<Trio, FALSE>> THEN {Claim(First, 1), Claim(Both, 1)}
                ELSE IF g = <<Pair, TRUE>> THEN {Claim(First, 1), Claim(Second, 1), Claim(Both, 1)}
                ELSE {Claim(First, 1), Claim(First, 2)}]
Faults == [g \in PairAndTrio |-> IF g[1] = Pair THEN 1 ELSE 0]
Desyncs == [g \in PairAndTrio |-> IF g = <<Trio, FALSE>> THEN 0 ELSE 1]
=============================================================================
