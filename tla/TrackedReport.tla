--------------------------- MODULE TrackedReport ---------------------------
(***************************************************************************)
(* The pages of the administrator's report (AnalyticsReport), computed     *)
(* from whatever rows a report of EventTracker has read: what each row     *)
(* says is a constant, which rows there are is the tracker's state.        *)
(***************************************************************************)
EXTENDS EventTracker, AnalyticsReport

CONSTANTS EventRow,      \* EventRow[e]: what the row of event e says
          GenerationRow, \* GenerationRow[e]: what its row of generation_logs says
          Transactions   \* the rows of star_transactions

ASSUME RowsAssumption ==
  /\ EventRow \in [Event \cup Foreign -> EventRows]
  /\ GenerationRow \in [Foreign -> GenerationRows]
  /\ Transactions \in Seq(TransactionRows)

Rows(seq, of) == [i \in DOMAIN seq |-> of[seq[i]]]

ReportOf(r) == Summary(Rows(shown[r].events, EventRow), Rows(shown[r].gens, GenerationRow),
                       Transactions)

(* The report has read its rows.                                           *)
Finished(r) == stage[r] = "idle" /\ shown[r].from # "nowhere"

(* The pages of one report agree, with themselves and with each other,     *)
(* whatever was stored twice or read in between (_compute_metrics_summary  *)
(* counts totals and breakdowns in separate loops; analytics.py and        *)
(* formatters.py cut the tables).                                          *)
ReportAddsUp == \A r \in Report : Finished(r) => PagesAgree(ReportOf(r))

(* The button table of a report is what it says: each clicked name once,   *)
(* the most clicked first, with its clicks and its known users counted     *)
(* from the rows, in whatever order the flushes stored them                *)
(* (supabase_client.py:796-820).                                           *)
TablesRanked ==
  \A r \in Report : Finished(r) =>
    LET events == Rows(shown[r].events, EventRow)
    IN  CountsClicks(TopButtons(events), events)
=============================================================================
