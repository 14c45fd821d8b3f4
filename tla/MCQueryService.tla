-------------------------- MODULE MCQueryService --------------------------
(***************************************************************************)
(* Small units and 7 bit intervals, six names and twelve policies; every   *)
(* statement in four layouts; and, for some of them, every text one atom   *)
(* away: one dropped, one replaced, one put in.                            *)
(***************************************************************************)
EXTENDS QueryService

MCUnits == <<1, 2, 4, 8, 24, 40, 88>>
MCNumber ==
  [a \in {"0", "1", "2", "3", "4", "5", "60", "100", "128"} |->
     CASE a = "0" -> 0 [] a = "1" -> 1 [] a = "2" -> 2 [] a = "3" -> 3 [] a = "4" -> 4
       [] a = "5" -> 5 [] a = "60" -> 60 [] a = "100" -> 100 [] a = "128" -> 128]

Keywords ==
  {"create", "drop", "update", "select", "show", "metric", "keep", "add", "at", "from", "between",
   "and", "group", "by", "policy", "status", "like", "for", "min", "max", "sum", "avg", "count",
   "stddev", "sec", "hour", "day", "week", "month", "year", "s"}
MCNameAtoms == Keywords \union DOMAIN MCNumber \union {"a", "b", "self.", "c", "d", "u"}
Capitals == [CREATE |-> "create", DROP |-> "drop", UPDATE |-> "update", SELECT |-> "select",
             SHOW |-> "show", METRIC |-> "metric", MIN |-> "min", SEC |-> "sec", A |-> "a", U |-> "u"]
MCAtoms == MCNameAtoms \union DOMAIN Capitals
             \union {" ", "'", "\"", ";", ",", "*", "|", "/"}
MCLower == [a \in MCAtoms |-> IF a \in DOMAIN Capitals THEN Capitals[a] ELSE a]
Capital(t) ==
  [k \in DOMAIN t |-> IF \E c \in DOMAIN Capitals : Capitals[c] = t[k]
                      THEN CHOOSE c \in DOMAIN Capitals : Capitals[c] = t[k] ELSE t[k]]

(* Policies: element by element a number and a unit for each of the two.     *)
W(n, u, s) == [number |-> n, unit |-> u, plural |-> s]
E(n, u, m, v) == [freq |-> W(n, u, n > 1), duration |-> W(m, v, m > 1)]
Plain == <<E(1, 1, 1, 2)>>
MCDefaultPolicy == ReadPolicy(<<E(1, 2, 1, 4)>>)
Policies ==
  { Plain, <<E(1, 1, 1, 2), E(2, 1, 3, 5)>>,     (* Two blocks.               *)
    <<E(60, 1, 60, 2)>>,                         (* To be shown in hours.     *)
    <<E(100, 3, 100, 3)>>,                       (* Intervals that wrap.      *)
    <<E(1, 1, 0, 1)>>, <<E(1, 1, 2, 1), E(1, 1, 0, 7)>>,  (* Empty last block. *)
    <<E(1, 1, 0, 1), E(1, 1, 2, 1)>>,            (* Empty first block.        *)
    <<E(0, 1, 1, 1)>>, <<E(1, 1, 2, 1), E(0, 1, 4, 1)>>,  (* Zero frequency.  *)
    <<E(2, 1, 3, 1)>>, <<E(2, 1, 4, 1), E(3, 1, 3, 2)>>,  (* Not multiples.   *)
    <<E(1, 1, 2, 1), E(4, 1, 4, 2)>> }           (* Out of reach.             *)

MCNames == {<<"a">>, <<"self.", "a">>, <<"a", " ", "b">>, <<>>}
QueryNames == {<<"a">>, <<"self.", "A">>}
Keep(n, p) == [kind |-> "create", name |-> n, policy |-> p]
Add(n, v, ts) == [kind |-> "update", name |-> n, value |-> v, ts |-> ts]
Pick(f, n, b, e, g) ==
  [kind |-> "select", fields |-> f, name |-> n, ts_begin |-> b, ts_end |-> e, group_by |-> g]

Selects ==
  { Pick(<<"*">>, <<"a">>, 1, 5, <<>>), Pick(<<"min", "max">>, <<"A">>, 5, 5, <<>>),
    Pick(<<"count">>, <<"metric">>, 2, 128, <<W(2, 1, TRUE)>>),
    Pick(<<"sum", "avg", "stddev">>, <<"min", "s">>, 0, 1, <<W(1, 6, FALSE)>>) }
QueryStatements ==
  {Keep(<<"a">>, <<p>>) : p \in Policies} \union {Keep(<<"self.", "A">>, <<>>)}
    \union {[kind |-> k, name |-> n] : k \in {"drop", "show_policy"}, n \in QueryNames}
    \union {Add(<<"A">>, "3", <<>>), Add(<<"self.", "A">>, "128", <<4>>)}
    \union Selects
    \union {[kind |-> k, like |-> l] : k \in {"show_metrics", "show_status"},
                                       l \in {<<>>, << <<"A">> >>, << <<"self.">> >>}}
UpdateStatements ==
  {Keep(<<" ", "a">>, <<p>>) : p \in Policies}
    \union {Keep(n, <<Plain>>) : n \in {<<"a", " ", "b">>, <<>>, <<"/">>}}
    \union {[kind |-> "drop", name |-> n] : n \in {<<"a", " ", "b">>, <<>>}}
    \union {Add(n, "3", ts) : n \in {<<"A", " ">>, <<>>, <<"a", "/">>}, ts \in {<<>>, <<5>>}}

MCStatements == QueryStatements \union UpdateStatements

Query(t, meant) == [port |-> "tcp", text |-> t, meant |-> meant]
Command(t, meant) == [port |-> "udp", text |-> t, meant |-> meant]

(* The UDP server's parser already refuses a policy that is not accepted.    *)
Parsable(st) ==
  st.kind = "create" => LET p == ReadPolicy(st.policy[1]) IN Accepted(p) \/ DividesByZero(p)

(* The words of the statement of a text in capitals, except in its names:    *)
(* those are taken as written.                                               *)
Shouted(st) ==
  Separated([k \in DOMAIN QueryTokens(st, "'", FALSE) |->
    IF QueryTokens(st, "'", FALSE)[k][1] = "'" THEN QueryTokens(st, "'", FALSE)[k]
    ELSE IF st.kind = "update" THEN QueryTokens(st, "'", FALSE)[k]
    ELSE Capital(QueryTokens(st, "'", FALSE)[k])], <<" ", " ">>) \o <<" ", ";", " ">>

MCRequests ==
  UNION {{Query(QueryText(st, "'", TRUE, <<" ">>), <<st>>), Query(QueryText(st, "\"", FALSE, <<>>), <<st>>),
          Query(QueryText(st, "\"", TRUE, <<>>), <<st>>), Query(Shouted(st), <<st>>)} :
           st \in QueryStatements}
    \union {Command(UpdateText(st, gap), IF Parsable(st) THEN <<st>> ELSE <<>>) :
              st \in UpdateStatements, gap \in {<<>>, <<" ">>}}
    \union {Query(<<>>, <<>>)}

Junk == {"s", "metric", "'", ";", ",", "a", "|", " "}
Edits(t) ==
  {RemoveAt(t, k) : k \in DOMAIN t}
    \union {[t EXCEPT ![k] = a] : k \in DOMAIN t, a \in Junk}
    \union {InsertAt(t, k, a) : k \in 1 .. Len(t) + 1, a \in Junk}
GarbledQueries ==
  Selects \union {Keep(<<"a">>, << <<E(1, 1, 1, 2), E(2, 1, 3, 5)>> >>), Add(<<"self.", "A">>, "128", <<4>>),
     [kind |-> "drop", name |-> <<"self.", "A">>], [kind |-> "show_policy", name |-> <<"a">>],
     [kind |-> "show_metrics", like |-> << <<"self.">> >>], [kind |-> "show_status", like |-> <<>>]}
GarbledCommands ==
  {Keep(<<"a">>, << <<E(1, 1, 1, 2), E(2, 1, 3, 5)>> >>), Add(<<"A", " ">>, "3", <<5>>),
   [kind |-> "drop", name |-> <<"a", " ", "b">>]}
MCGarbled ==
  {Query(t, <<>>) : t \in UNION {Edits(QueryText(st, "'", TRUE, <<" ">>)) : st \in GarbledQueries}}
    \union {Command(t, <<>>) : t \in UNION {Edits(UpdateText(st, <<" ">>)) : st \in GarbledCommands}}
=============================================================================
