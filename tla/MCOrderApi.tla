----------------------------- MODULE MCOrderApi ----------------------------
(***************************************************************************)
(* The requests TLC tries on OrderApi: every object of up to three fields  *)
(* as a body for both operations that take one, and every verb, path and   *)
(* content type with one valid body of each.                               *)
(***************************************************************************)
EXTENDS OrderApiProperties

CONSTANTS p1, p2, o1, x1, t1, t2

JsonOf(strings) == {Str(s) : s \in strings} \cup {JsonNull}

Members == {"hull_uuid", "engine_uuid", "shield_uuid"} \X JsonOf({p1, p2, o1, Garbage})
             \cup {"payment_method"} \X JsonOf({"CARD", "SBP", Garbage})
             \cup {<<"other", Str(Garbage)>>, <<"payment_method", Num(1)>>}

Bodies == UNION {[1 .. n -> Members] : n \in 0 .. 3}

Paths == {<<>>} \cup UNION {[1 .. n -> {o1, Garbage, "", "pay", "cancel"}] : n \in 1 .. 3}

Good == <<<<"hull_uuid", Str(p1)>>, <<"engine_uuid", Str(p2)>>, <<"payment_method", Str("SBP")>>>>

Ship(shield, weapon) ==
  [hull_uuid |-> p1, engine_uuid |-> p2, shield_uuid |-> shield, weapon_uuid |-> weapon]

MCShips == {Ship(Null, Null), Ship(p2, Null)}

\* t1 lies between two seconds, t2 on one.
MCRfc3339 == t1 :> t2 @@ t2 :> t2

Http(verb, known, path, ctype, body, members) ==
  [verb |-> verb, known |-> known, path |-> path, ctype |-> ctype, body |-> body,
   members |-> members]

MCHttpRequests ==
  {Http("POST", TRUE, path, "json", "object", members) :
     path \in {<<>>, <<o1, "pay">>}, members \in Bodies}
  \cup
  {Http(verb, known, path, ctype, body, Good) :
     verb \in {"GET", "POST", "OPTIONS", "DELETE"}, known \in BOOLEAN, path \in Paths,
     ctype \in {"json", "other", "unparsable"}, body \in {"missing", "not json", "object"}}
=============================================================================
