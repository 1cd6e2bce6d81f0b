--------------------------- MODULE MCResponseCopy ---------------------------
(* TLC's instance of ResponseCopy. *)
EXTENDS ResponseCopy

Says(p, c, t) ==
  [f \in Fields |-> CASE f = "prompt" -> p [] f = "completion" -> c
                      [] f = "total" -> t [] OTHER -> <<>>]
Silent == Says(<<>>, <<>>, <<>>)

Delta == [kind |-> "data",  size |-> 2, says |-> Says(<<0, 1>>, <<>>, <<>>)]
Usage == [kind |-> "data",  size |-> 2, says |-> Says(<<2, 1>>, <<0, 0, 3>>, <<6>>)]
Long  == [kind |-> "data",  size |-> 4, says |-> Says(<<>>, <<4>>, <<>>)]
DONE  == [kind |-> "done",  size |-> 3, says |-> Silent]
Blank == [kind |-> "other", size |-> 0, says |-> Silent]

(* The bytes of lines; the last newline may be missing. *)
TextOf(lines, cut) ==
  LET bytes(i) == [k \in 1..(lines[i].size + 1) |-> <<i, k>>]
      all      == FlattenSeq([i \in DOMAIN lines |-> bytes(i)])
  IN IF cut /\ lines # <<>> THEN Front(all) ELSE all

(* At most two lines, and then [DONE] or not. *)
Streams == {lines \o end : lines \in BoundedSeq({Delta, Usage, Long, Blank}, 2),
                           end \in {<<>>, <<DONE>>}}
MCResponses ==
  {[type |-> "sse", lines |-> lines, text |-> TextOf(lines, cut)] :
     lines \in Streams, cut \in BOOLEAN}
  \cup {[type |-> "json", lines |-> <<line>>, text |-> TextOf(<<line>>, TRUE)] :
          line \in {[Usage EXCEPT !.kind = "json"], [Long EXCEPT !.kind = "json"]}}

MCLimits == {0, 4, 7}
=============================================================================
