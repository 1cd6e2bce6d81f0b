------------------------------ MODULE MCStartup ------------------------------
(* Every name and every password of up to three characters, and one configuration
   for each other case. *)
EXTENDS Startup

Good == [valid |-> TRUE, backends |-> TRUE, dynamic |-> FALSE, commands |-> FALSE,
         type |-> "pg", dbname |-> <<"x">>, password |-> <<"x">>]

MCConfigs ==
  {[Good EXCEPT !.dbname = n] : n \in UNION {[1..k -> Character] : k \in 1..3}}
  \cup {[Good EXCEPT !.password = w] : w \in UNION {[1..k -> Character] : k \in 0..3}}
  \cup {[Good EXCEPT !.type = t] : t \in {"sqlite", "postgresql", "mysql"}}
  \cup {[Good EXCEPT !.dbname = <<"'", "x">>, !.password = <<" ", "\\", "x">>],
        [Good EXCEPT !.valid = FALSE], [Good EXCEPT !.backends = FALSE],
        [Good EXCEPT !.backends = FALSE, !.commands = TRUE]}
=============================================================================
