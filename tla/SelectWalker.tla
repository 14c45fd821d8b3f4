---------------------------- MODULE SelectWalker ----------------------------
(***************************************************************************)
(* What a SELECT makes of the tuples of a metric.  rrdb_metric::select     *)
(* hands the walker one tuple after the other, a finer block before a      *)
(* coarser one and newer before older; the blocks overlap in time, so the  *)
(* walker decides what of each tuple it still wants.  A row is a group of  *)
(* pieces: with GROUP BY, the piece of a tuple between two instants stands *)
(* for that share of its count and sum.                                    *)
(***************************************************************************)
EXTENDS MetricBlocks, SequencesExt

CONSTANT Queries    (* Statements [from, to, group]; group 0: no GROUP BY.   *)

ASSUME QueryAssumption ==
  Queries \subseteq {q \in [from : Nat, to : Nat, group : Nat] : q.from < q.to}

(* What walker.append is called with for the tuple in a slot.                *)
Call(b, s) ==
  [block |-> b, slot |-> s, count |-> tuples[b][s].count,
   from |-> tuples[b][s].ts, to |-> tuples[b][s].ts + Freq[b]]

(* The calls of walker.append, in order: one block's, and all blocks'.       *)
AppendedBy(q, b, calls) ==
  LET reached == Selected(b, q.from, q.to)
      hand(done, a) ==
        LET s == Back(b, pos[b], a - 1)
        IN  IF s \in reached THEN Append(done, Call(b, s)) ELSE done
  IN  FoldLeft(hand, calls, [a \in 1 .. Count[b] |-> a])
Appended(q) ==
  LET hand(done, b) == AppendedBy(q, b, done)
  IN  FoldLeft(hand, <<>>, [b \in Blocks |-> b])

-----------------------------------------------------------------------------
(* data_walker_select_no_group_by: a tuple that starts before all the others *)
(* is a row.                                                                 *)
PlainAppend(q, w, t) ==
  IF q.from <= t.from /\ t.from < w.last /\ t.count > 0
  THEN [rows |-> Append(w.rows, [ts |-> t.from, pieces |-> {t}]), last |-> t.from]
  ELSE w

PlainRows(q) ==
  LET append(w, t) == PlainAppend(q, w, t)
  IN  FoldLeft(append, [rows |-> <<>>, last |-> q.to + 1], Appended(q)).rows

-----------------------------------------------------------------------------
(***************************************************************************)
(* data_walker_select.  The walker is at the group [beg, ...) and wants    *)
(* nothing from instant ts on any more; `cur' are the pieces of the group. *)
(***************************************************************************)
Later(i, j) == IF i > j THEN i ELSE j
Earlier(i, j) == IF i < j THEN i ELSE j

(* reset_cur_tuple.                                                          *)
Reset(q, w, end) ==
  [w EXCEPT !.ts = end, !.beg = Later(end - q.group, q.from), !.cur = {}]

(* The end of the first group, a whole number of groups after q.from.        *)
FirstEnd(q) ==
  LET x == (q.to - q.from) % q.group IN IF x > 0 THEN q.to + q.group - x ELSE q.to

FlushRow(w) ==
  IF \E p \in w.cur : p.count > 0
  THEN [w EXCEPT !.rows = Append(@, [ts |-> w.beg, pieces |-> w.cur])]
  ELSE w

NextGroup(q, w) == Reset(q, FlushRow(w), w.beg)

(* A loop never goes through more than all the groups.                       *)
Loop(q, body(_, _), w) ==
  FoldLeft(body, w, [i \in 1 .. (FirstEnd(q) - q.from) \div q.group + 1 |-> i])

(* Groups that begin after the tuple's end get nothing of it.                *)
SkipGroups(q, w, t) ==
  Loop(q, LAMBDA v, i : IF t.to <= v.beg THEN NextGroup(q, v) ELSE v, w)

(* Mutant of Piece: does not mind what finer tuples have covered.            *)
PieceRepeated(w, t) == [t EXCEPT !.from = Later(@, w.beg)]

(* The piece of the tuple that goes to the current group, perhaps empty.     *)
Piece(w, t) == [t EXCEPT !.from = Later(@, w.beg), !.to = Earlier(@, w.ts)]

Took(w, p) == IF p.from < p.to THEN [w EXCEPT !.cur = @ \cup {p}] ELSE w

(* Mutant of Share: goes on to the next group without the tuple.             *)
ShareOnce(q, w, t) ==
  IF w.done \/ t.from >= w.ts \/ w.ts <= q.from THEN w
  ELSE LET v == Took(w, Piece(w, t))
       IN  IF w.beg <= t.from THEN [v EXCEPT !.ts = t.from, !.done = TRUE]
                              ELSE [NextGroup(q, v) EXCEPT !.done = TRUE]

(* One round of the second loop; `done' is the break.                        *)
Share(q, w, t) ==
  IF w.done \/ t.from >= w.ts \/ w.ts <= q.from THEN w
  ELSE LET v == Took(w, Piece(w, t))
       IN  IF w.beg <= t.from THEN [v EXCEPT !.ts = t.from, !.done = TRUE]
                              ELSE NextGroup(q, v)

GroupAppend(q, w, t) ==
  Loop(q, LAMBDA v, i : Share(q, v, t), SkipGroups(q, [w EXCEPT !.done = FALSE], t))

GroupRows(q) ==
  LET append(w, t) == GroupAppend(q, w, t)
      new == [ts |-> 0, beg |-> 0, cur |-> {}, rows |-> <<>>, done |-> FALSE]
  IN  FlushRow(FoldLeft(append, Reset(q, new, FirstEnd(q)), Appended(q))).rows

(* statement_execute_visitor on a statement_select.                          *)
Rows(q) == IF q.group > 0 THEN GroupRows(q) ELSE PlainRows(q)

-----------------------------------------------------------------------------
(***************************************************************************)
(* "The stored data between two timestamps" is returned: if an accepted    *)
(* point lies in the time of a non-empty tuple that the statement may      *)
(* return, some row stands for that time.  (Without GROUP BY, a tuple that *)
(* begins before the statement's interval is not returned.)  The statement *)
(* must start late enough to reach none of the slots that were never       *)
(* written: those are stamped 0, and once a grouping walker sees one it    *)
(* wants nothing any more, and the coarser blocks are lost.                *)
(***************************************************************************)
Shows(rows, t) ==
  \E r \in 1 .. Len(rows) : \E p \in rows[r].pieces : p.from <= t /\ t < p.to
Returnable(q, call, t) ==
  /\ call.count > 0 /\ call.from <= t /\ t < call.to
  /\ q.group = 0 => q.from <= call.from
SelectShowsData ==
  ctx = Idle => \A q \in Queries :
    (\A b \in Blocks : Freq[b] <= q.from) =>
      LET rows == Rows(q)
          calls == Range(Appended(q))
      IN  \A u \in Times \X Values :
            LET t == NormalizedTs(u[1])
            IN  accepted[u] > 0 /\ q.from <= t /\ t < q.to
                /\ (\E call \in calls : Returnable(q, call, t))
                  => Shows(rows, t)

(***************************************************************************)
(* Rows come most recent first; with GROUP BY no instant counts twice,     *)
(* neither for two tuples of one block nor for a fine and a coarse one     *)
(* ("otherwise we will get duplicate data", says data_walker_select), and  *)
(* a group gets only pieces of its own time.                               *)
(***************************************************************************)
SelectCountsOnce ==
  ctx = Idle => \A q \in Queries :
    LET rows == Rows(q)
        R == 1 .. Len(rows)
    IN  /\ \A r, s \in R : r < s => rows[s].ts < rows[r].ts
        /\ q.group > 0 =>
             /\ \A r \in R : \A p \in rows[r].pieces :
                  rows[r].ts <= p.from /\ p.from < p.to /\ p.to <= rows[r].ts + q.group
             /\ \A r, s \in R : \A p \in rows[r].pieces, o \in rows[s].pieces :
                  p = o \/ p.to <= o.from \/ o.to <= p.from
=============================================================================
