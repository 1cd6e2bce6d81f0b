----------------------------- MODULE MCFailover -----------------------------
(* Instances of Failover for TLC: two static backends, the first of weight 2,
   and the local node.  The second and the local one carry the tag "tools", the
   local one alone the tag "night"; "c" is a URL that a request may name. *)
EXTENDS Failover, TLC

CONSTANTS r1, r2

MCNode  == "a" :> [weight |-> 2, tags |-> {}, tool_call |-> FALSE, model |-> "m"]
        @@ "b" :> [weight |-> 0, tags |-> {"tools", ""}, tool_call |-> FALSE, model |-> ""]
        @@ "local" :> [weight |-> 0, tags |-> {"tools", "night"}, tool_call |-> TRUE, model |-> ""]
MCOrder == <<"a", "a", "b", "local">>

MCRules == << [agent |-> "bot", header |-> {<<"x", "1">>, <<"y", "1">>}, pool |-> "tools"],
              [agent |-> "", header |-> {<<"x", "1">>}, pool |-> "night"],
              [agent |-> "bot", header |-> {}, pool |-> "nowhere"] >>

Plain == [agent |-> {}, headers |-> {}, xBackendURL |-> "", backend |-> "", model |-> "asked",
          asJSON |-> TRUE]
Ruled == [Plain EXCEPT !.agent = {"bot"}, !.headers = {<<"x", "1">>}, !.xBackendURL = "c"]

PerRoute == r1 :> {Plain, [Plain EXCEPT !.backend = "c"],
                   [Plain EXCEPT !.xBackendURL = "d", !.backend = "c"]}
         @@ r2 :> {Ruled, [Ruled EXCEPT !.headers = {}], [Ruled EXCEPT !.agent = {}]}
SamePool == r1 :> {Plain} @@ r2 :> {Plain}
=============================================================================
