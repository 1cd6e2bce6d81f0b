------------------------------- MODULE MCPanel -------------------------------
(* An instance of Panel for TLC: three requests, the first within the first second
   of a day of UTC+8, the second in its night, on a whole second, and the third in
   the night of the day after, less than a day after the second. *)
EXTENDS Panel

MCCreatedAt == << [sec |-> 16 * Hour, frac |-> <<5>>], [sec |-> 20 * Hour, frac |-> <<>>],
                  [sec |-> 43 * Hour, frac |-> <<2, 5>>] >>
MCBackend == <<"a", "b", "a">>
MCOutcome == << [status |-> 400, errorText |-> FALSE], [status |-> 502, errorText |-> TRUE],
                [status |-> 200, errorText |-> FALSE] >>

(* The page was opened on that first day; the other filter is "errors only",
   with the range of times cleared. *)
MCToday   == [errorsOnly |-> FALSE, from |-> [sec |-> 16 * Hour, frac |-> <<>>],
              to |-> [sec |-> 40 * Hour - 1, frac |-> <<9, 9, 9>>]]
MCFilters == {MCToday, [NoFilter EXCEPT !.errorsOnly = TRUE]}
=============================================================================
