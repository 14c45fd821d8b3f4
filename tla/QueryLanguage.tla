--------------------------- MODULE QueryLanguage ---------------------------
(***************************************************************************)
(* The two languages: the statements of the TCP server and the commands of *)
(* the UDP server, from a text to a statement.                             *)
(*                                                                         *)
(* A text is a sequence of atoms: keywords, pieces of names, numerals,     *)
(* single spaces and punctuation.  The grammar knows no word boundaries:   *)
(* "secs" is "sec" followed by "s", and starts with the keyword "sec".     *)
(* A parser takes a text and a place in it and returns where it stopped    *)
(* and what it read; it may fail, which lets an alternative try, or throw. *)
(***************************************************************************)
EXTENDS StatementExecution, SequencesExt

CONSTANTS
  Number      (* Number[a]: the value of numeral a.                          *)

Read(at, is) == [at |-> at, is |-> is]
Fails == Read(0, <<>>)
Throws == Read(-1, <<>>)
Ok(r) == r.at > 0

(* One parser after another; and one that has to succeed: `>' where `>>'     *)
(* would let it fail.                                                        *)
Then(r, Next(_)) == IF Ok(r) THEN Next(r) ELSE r
Hard(hard, r) == IF hard /\ r.at = 0 THEN Throws ELSE r
Must(r) == Hard(TRUE, r)

(* The skipper, before every literal, number and character of a name.        *)
At(t, i) == IF i \in DOMAIN t THEN t[i] ELSE "end"
Skip(t, i) ==
  CHOOSE j \in i .. Len(t) + 1 : At(t, j) # Space /\ \A k \in i .. j - 1 : t[k] = Space

(* nocaselit: the atoms of a word, adjacent and in any case.                 *)
Lit(t, i, w) ==
  LET j == Skip(t, i)
  IN  IF j + Len(w) - 1 <= Len(t) /\ \A k \in DOMAIN w : Lower[t[j + k - 1]] = w[k]
      THEN Read(j + Len(w), <<>>) ELSE Fails

(* uint_ stops at 2^32; double_ and ulong_ are not bounded here.             *)
ParseNumeral(t, i) ==
  LET j == Skip(t, i) IN IF At(t, j) \in DOMAIN Number THEN Read(j + 1, t[j]) ELSE Fails
ParseNumber(t, i) == Then(ParseNumeral(t, i), LAMBDA r : Read(r.at, Number[r.is]))
ParseUint(t, i) ==
  Then(ParseNumber(t, i), LAMBDA r : IF r.is < Modulus THEN r ELSE Fails)

(* metric_quoted_name_grammar: spaces are skipped in a name as well.         *)
ParseName(t, i) ==
  LET j == Skip(t, i)
      end == CHOOSE k \in j + 1 .. Len(t) + 1 :
               /\ k <= Len(t) => Lower[t[k]] \notin NameAtoms \union {Space}
               /\ \A l \in j + 1 .. k - 1 : Lower[t[l]] \in NameAtoms \union {Space}
      name == SelectSeq(SubSeq(t, j + 1, end - 1), LAMBDA a : a # Space)
  IN  IF At(t, j) \notin {"'", "\""} THEN Fails
      ELSE IF name = <<>> \/ At(t, end) # t[j] THEN Throws
      ELSE Read(end + 1, name)

(* interval_grammar: a number and a unit, in the plural if that fits; both   *)
(* are due once an interval is.                                              *)
UnitName(w) ==
  << <<"sec", "min", "hour", "day", "week", "month", "year">>[w.unit] >>
    \o IF w.plural THEN <<"s">> ELSE <<>>
ParseUnit(t, n) ==
  LET fits == {w \in [number : {n.is}, unit : UnitIds, plural : BOOLEAN] :
                 Ok(Lit(t, n.at, UnitName(w)))}
      w == CHOOSE v \in fits : v.plural \/ \A x \in fits : ~x.plural
  IN  IF fits = {} THEN Fails ELSE Read(Lit(t, n.at, UnitName(w)).at, w)
ParseInterval(t, i) == Then(Must(ParseUint(t, i)), LAMBDA n : Must(ParseUnit(t, n)))

(* An element of a t_retention_policy_grammar, a field of a                  *)
(* select_result_grammar; and the list of either, items between commas, with *)
(* one due after r.                                                          *)
ParseElement(t, i) ==
  Then(ParseInterval(t, i), LAMBDA freq :
    Then(Must(Lit(t, freq.at, <<"for">>)), LAMBDA for :
      Then(ParseInterval(t, for.at), LAMBDA duration :
        Read(duration.at, [freq |-> freq.is, duration |-> duration.is]))))

Fields == {"min", "max", "sum", "avg", "count", "stddev", "*"}
ParseField(t, i) ==
  LET j == Skip(t, i)
  IN  IF j <= Len(t) /\ Lower[t[j]] \in Fields THEN Read(j + 1, Lower[t[j]]) ELSE Fails

RECURSIVE ParseItems(_, _, _)
ParseItems(t, r, type) ==
  Then(Must(IF type = "policy" THEN ParseElement(t, r.at) ELSE ParseField(t, r.at)), LAMBDA item :
    LET items == Append(r.is, item.is)
        comma == Lit(t, item.at, <<",">>)
    IN  IF Ok(comma) THEN ParseItems(t, Read(comma.at, items), type)
        ELSE Read(item.at, items))
ParseList(t, i, type) == ParseItems(t, Read(i, <<>>), type)

ParseValue(t, i, type) ==
  CASE type = "name" -> ParseName(t, i)
    [] type = "time" -> ParseNumber(t, i)
    [] type = "double" -> ParseNumeral(t, i)
    [] type = "interval" -> ParseInterval(t, i)
    [] OTHER -> ParseList(t, i, type)

-----------------------------------------------------------------------------
(* The statements' rules.  A part is a word, the value of a member of the    *)
(* statement, or both; it may be optional.  The first `soft' parts may fail, *)
(* later ones, and what follows the word of an optional part, throw: `>>'    *)
(* and `>'.                                                                  *)
Part(word, rest, type, member, optional) ==
  [word |-> word, rest |-> rest, type |-> type, member |-> member, optional |-> optional]
Word(w) == Part(<<w>>, <<>>, "none", "none", FALSE)
Plural(w) == Part(<<w, "s">>, <<>>, "none", "none", FALSE)
Noise == Part(<<"metric">>, <<>>, "none", "none", TRUE)
Value(type, member) == Part(<<>>, <<>>, type, member, FALSE)
Clause(w, type, member) == Part(<<w>>, <<>>, type, member, TRUE)
GroupBy == Part(<<"group">>, <<"by">>, "interval", "group_by", TRUE)

Rules ==
  << [soft |-> 1,
      of |-> [kind |-> "create", name |-> <<>>, policy |-> <<>>],
      parts |-> << Word("create"), Noise, Value("name", "name"),
                   Clause("keep", "policy", "policy") >>],
     [soft |-> 1,
      of |-> [kind |-> "drop", name |-> <<>>],
      parts |-> << Word("drop"), Noise, Value("name", "name") >>],
     [soft |-> 1,
      of |-> [kind |-> "update", name |-> <<>>, value |-> "0", ts |-> <<>>],
      parts |-> << Word("update"), Noise, Value("name", "name"),
                   Word("add"), Value("double", "value"),
                   Clause("at", "time", "ts") >>],
     [soft |-> 1,
      of |-> [kind |-> "select", fields |-> <<>>, name |-> <<>>,
              ts_begin |-> 0, ts_end |-> 0, group_by |-> <<>>],
      parts |-> << Word("select"), Value("fields", "fields"), Word("from"), Noise,
                   Value("name", "name"), Word("between"), Value("time", "ts_begin"),
                   Word("and"), Value("time", "ts_end"),
                   GroupBy >>],
     [soft |-> 3,
      of |-> [kind |-> "show_policy", name |-> <<>>],
      parts |-> << Word("show"), Noise, Word("policy"), Value("name", "name") >>],
     [soft |-> 2,
      of |-> [kind |-> "show_metrics", like |-> <<>>],
      parts |-> << Word("show"), Plural("metric"),
                   Clause("like", "name", "like") >>],
     [soft |-> 2,
      of |-> [kind |-> "show_status", like |-> <<>>],
      parts |-> << Word("show"), Word("status"),
                   Clause("like", "name", "like") >>] >>

(* A part of statement r.is, and the parts of a rule from the k-th on.       *)
ParsePart(t, r, part) ==
  LET word == Lit(t, r.at, part.word)
      is(v) == IF part.optional THEN <<v>> ELSE v
  IN  IF ~Ok(word) /\ part.optional THEN r
      ELSE Then(word, LAMBDA w : Then(Must(Lit(t, w.at, part.rest)), LAMBDA x :
             IF part.type = "none" THEN Read(x.at, r.is)
             ELSE Then(Hard(part.optional, ParseValue(t, x.at, part.type)), LAMBDA v :
                    Read(v.at, [r.is EXCEPT ![part.member] = is(v.is)]))))

(* Mutant of Soft: `>' after the first word of every rule.                   *)
SoftFirst(rule, k) == k = 1
Soft(rule, k) == k <= rule.soft
RECURSIVE ParseParts(_, _, _, _)
ParseParts(t, r, rule, k) ==
  IF k > Len(rule.parts) THEN r
  ELSE Then(Hard(~Soft(rule, k), ParsePart(t, r, rule.parts[k])),
            LAMBDA n : ParseParts(t, n, rule, k + 1))

(* The first rule, from the k-th on, that does not fail.                     *)
RECURSIVE ParseRules(_, _)
ParseRules(t, k) ==
  IF k > Len(Rules) THEN Fails
  ELSE LET r == ParseParts(t, Read(1, Rules[k].of), Rules[k], 1)
       IN  IF r.at = 0 THEN ParseRules(t, k + 1) ELSE r

(* Nothing but spaces from i on: beg == end after phrase_parse.              *)
(* Mutant of Whole: not compared.                                            *)
WholeAlways(t, i) == TRUE
Whole(t, i) == Skip(t, i) > Len(t)

(* statement_query_parse: a statement, a semicolon, and nothing else.  The   *)
(* empty text is no failure: it leaves the variant's first alternative as it *)
(* was constructed.                                                          *)
ParseQuery(t) ==
  IF t = <<>> THEN Read(1, Rules[1].of)
  ELSE Then(Must(ParseRules(t, 1)), LAMBDA r :
         Then(Must(Lit(t, r.at, <<";">>)), LAMBDA stop :
           IF Whole(t, stop.at) THEN Read(stop.at, r.is) ELSE Throws))

-----------------------------------------------------------------------------
(* statement_update_parse: the fields between the bars, taken as they are    *)
(* but for the policy.                                                       *)
Split(t) ==
  LET bars == SetToSortSeq({0, Len(t) + 1} \union {k \in DOMAIN t : t[k] = "|"}, <)
  IN  [k \in 1 .. Len(bars) - 1 |-> SubSeq(t, bars[k] + 1, bars[k + 1] - 1)]

(* lexical_cast.                                                             *)
IsNumber(f) == Len(f) = 1 /\ f[1] \in DOMAIN Number

ParseCreate(name, policy) ==
  Then(ParseList(policy, 1, "policy"), LAMBDA p :
    IF /\ Whole(policy, p.at)
       /\ Accepted(ReadPolicy(p.is)) \/ DividesByZero(ReadPolicy(p.is))
    THEN Read(1, [kind |-> "create", name |-> name, policy |-> <<p.is>>])
    ELSE Throws)

ParseUpdate(t) ==
  LET f == Split(t)
      Is(cmd) == Len(f[1]) = 1 /\ Lower[f[1][1]] = cmd
  IN  CASE Is("u") /\ Len(f) \in {3, 4} /\ (\A k \in 3 .. Len(f) : IsNumber(f[k])) ->
             Read(1, [kind |-> "update", name |-> f[2], value |-> f[3][1],
                      ts |-> [k \in 1 .. Len(f) - 3 |-> Number[f[4][1]]]])
        [] Is("c") /\ Len(f) = 3 -> ParseCreate(f[2], f[3])
        [] Is("d") /\ Len(f) = 2 -> Read(1, [kind |-> "drop", name |-> f[2]])
        [] OTHER -> Throws
=============================================================================
