---------------------------- MODULE QueryService ----------------------------
(***************************************************************************)
(* The languages and the execution of statements together: a text arrives  *)
(* at one of the two servers, is parsed, and executed if it parses.  To    *)
(* say that a text was understood, statements are written down here in     *)
(* every way LANGUAGE.md has for them, without a look at the grammar.      *)
(***************************************************************************)
EXTENDS QueryLanguage

CONSTANTS
  Requests,     (* What clients send: records as in Request.                 *)
  Garbled,      (* The same with something wrong.  Bound: only sent while    *)
                (* there is no metric.                                       *)
  Names         (* Bound: nothing is sent once a metric has another name,    *)
                (* which garbled texts give.                                 *)

(* A text for one of the servers, and the statement it was written for.      *)
Request(r) ==
  /\ DOMAIN r = {"port", "text", "meant"}
  /\ r.port \in {"tcp", "udp"} /\ r.text \in Seq(Atoms)
  /\ r.meant # <<>> => Statement(r.meant[1])

ASSUME ServiceAssumption ==
  (\A r \in Requests : Request(r)) /\ \A r \in Garbled : Request(r)

VARIABLES
  request       (* What is being served, none or one, and what it parsed to. *)

serviceVars == <<vars, request>>

Init == ExecutionInit /\ request = <<>>

Parse(r) == IF r.port = "tcp" THEN ParseQuery(r.text) ELSE ParseUpdate(r.text)

Receive(r) ==
  /\ running /\ request = <<>> /\ DOMAIN metrics \subseteq Names
  /\ request' = <<[sent |-> r, parsed |-> Parse(r)]>>
  /\ answer' = Done /\ UNCHANGED <<running, metrics>>

(* execute_query_statement, execute_update_statement: an exception of the    *)
(* parser is an error like any other.                                        *)
Serve ==
  /\ running /\ request # <<>>
  /\ LET r == request[1].parsed
     IN  \/ ~Ok(r) /\ Reply(Failed)
         \/ Ok(r) /\ Execute(r.is)
  /\ request' = <<>>

StartAgain == Restart /\ request' = <<>>

ReceiveGarbled ==
  /\ running /\ request = <<>> /\ DOMAIN metrics = {}
  /\ \E r \in Garbled : Receive(r)

Next == (\E r \in Requests : Receive(r)) \/ ReceiveGarbled \/ Serve \/ StartAgain
Spec == Init /\ [][Next]_serviceVars

-----------------------------------------------------------------------------
(* A statement as tokens; quote, noise and the semicolon as the text has it. *)
Numeral(n) == <<CHOOSE a \in DOMAIN Number : Number[a] = n>>
Quoted(n, quote) == <<quote>> \o n \o <<quote>>
IntervalTokens(w) == <<Numeral(w.number), UnitName(w)>>
PolicyTokens(p) ==
  FlattenSeq([k \in DOMAIN p |->
    (IF k > 1 THEN << <<",">> >> ELSE <<>>) \o IntervalTokens(p[k].freq)
      \o << <<"for">> >> \o IntervalTokens(p[k].duration)])
FieldTokens(f) ==
  FlattenSeq([k \in DOMAIN f |-> (IF k > 1 THEN << <<",">> >> ELSE <<>>) \o << <<f[k]>> >>])
Maybe(optional, words, Tokens(_)) ==
  IF optional = <<>> THEN <<>> ELSE words \o Tokens(optional[1])

QueryTokens(st, quote, noise) ==
  LET metric == IF noise THEN << <<"metric">> >> ELSE <<>>
      Name1(n) == <<Quoted(n, quote)>>
      like == Maybe(st.like, << <<"like">> >>, Name1)
  IN  CASE st.kind = "create" ->
             << <<"create">> >> \o metric \o Name1(st.name)
               \o Maybe(st.policy, << <<"keep">> >>, PolicyTokens)
        [] st.kind = "drop" -> << <<"drop">> >> \o metric \o Name1(st.name)
        [] st.kind = "update" ->
             << <<"update">> >> \o metric \o Name1(st.name) \o << <<"add">>, <<st.value>> >>
               \o Maybe(st.ts, << <<"at">> >>, LAMBDA n : <<Numeral(n)>>)
        [] st.kind = "select" ->
             << <<"select">> >> \o FieldTokens(st.fields) \o << <<"from">> >> \o metric
               \o Name1(st.name) \o << <<"between">>, Numeral(st.ts_begin), <<"and">>,
                                       Numeral(st.ts_end) >>
               \o Maybe(st.group_by, << <<"group">>, <<"by">> >>, IntervalTokens)
        [] st.kind = "show_policy" ->
             << <<"show">> >> \o metric \o << <<"policy">> >> \o Name1(st.name)
        [] st.kind = "show_metrics" -> << <<"show">>, <<"metric", "s">> >> \o like
        [] st.kind = "show_status" -> << <<"show">>, <<"status">> >> \o like

(* The query, its tokens apart or not; and the command of the UDP server.    *)
Separated(tokens, gap) ==
  FlattenSeq([k \in DOMAIN tokens |-> (IF k > 1 THEN gap ELSE <<>>) \o tokens[k]])
QueryText(st, quote, noise, gap) ==
  Separated(Append(QueryTokens(st, quote, noise), <<";">>), gap)
UpdateText(st, gap) ==
  Separated(CASE st.kind = "create" ->
                   << <<"c">>, st.name, Separated(PolicyTokens(st.policy[1]), gap) >>
              [] st.kind = "drop" -> << <<"d">>, st.name >>
              [] st.kind = "update" ->
                   << <<"u">>, st.name, <<st.value>> >>
                     \o Maybe(st.ts, <<>>, LAMBDA n : <<Numeral(n)>>),
            <<"|">>)

(* The text without its spaces, in lower case: what is left of it is words.  *)
Words(t) == [k \in DOMAIN SelectSeq(t, LAMBDA a : a # Space) |->
             Lower[SelectSeq(t, LAMBDA a : a # Space)[k]]]

-----------------------------------------------------------------------------
TypeOK ==
  /\ ExecutionTypeOK
  /\ \A k \in DOMAIN request : Ok(request[k].parsed) => Statement(request[k].parsed.is)

(* Every statement, written in any of the ways the language has, is parsed   *)
(* to that statement: no alternative that comes first takes it, no optional  *)
(* part swallows what follows (statement_grammar, statement_update_parse).   *)
Understood ==
  \A k \in DOMAIN request :
    request[k].sent.meant # <<>> => request[k].parsed.is = request[k].sent.meant[1]

(* What is executed is what was written: a text that parses is, up to spaces *)
(* and case, a text of the statement it parses to, and nothing is dropped    *)
(* behind it.  Only the empty query is taken for one.                        *)
NothingElse ==
  \A k \in DOMAIN request :
    LET r == request[k].sent
        st == request[k].parsed.is
    IN  r.text # <<>> /\ Ok(request[k].parsed) =>
          IF r.port = "udp" THEN Words(r.text) = Words(UpdateText(st, <<>>))
          ELSE \E quote \in {"'", "\""}, noise \in BOOLEAN :
                 Words(r.text) = Words(QueryText(st, quote, noise, <<>>))

(* A metric can be named in a query, however it was created and stored,      *)
(* unless its name is empty or has spaces in it, which only the UDP server   *)
(* lets through (metric_name_grammar, normalize_name).                       *)
MetricsNameable ==
  \A n \in DOMAIN metrics : n # <<>> /\ Space \notin Range(n) =>
    LET r == ParseQuery(QueryText([kind |-> "drop", name |-> n], "'", TRUE, <<Space>>))
    IN  Ok(r) /\ Normalize(r.is.name) = n
=============================================================================
