-------------------------- MODULE AnalyticsReport --------------------------
(***************************************************************************)
(* _compute_metrics_summary of platform_core/db/supabase_client.py: what   *)
(* the administrator's reports are computed from rows of bot_events,       *)
(* generation_logs and star_transactions.  The loops that fill one dict    *)
(* per breakdown are a fold (Tally), a comprehension with an if is one     *)
(* too (Only); a dict keeps its keys in the order of their first           *)
(* appearance, and sorted() is stable.                                     *)
(*                                                                         *)
(* A row of bot_events is [bot, user, type, name, prefix, about]: prefix   *)
(* is what its name starts with before the colon, about what its metadata  *)
(* says: [message_type, status, error_type].  0 and "" stand for values    *)
(* Python takes for false.  Left out are the averages of durations and     *)
(* lengths, the popular presets and the feed of recent events, which no    *)
(* count depends on.                                                       *)
(***************************************************************************)
EXTENDS Naturals, Sequences, FiniteSets, SequencesExt

CONSTANT MaxRows \* [:15] of a table that is shown

ASSUME ReportAssumption == MaxRows \in Nat

(* The rows of the three tables.                                           *)
EventRows ==
  [bot : STRING, user : Nat, type : STRING, name : STRING, prefix : STRING,
   about : [message_type : STRING, status : STRING, error_type : STRING]]

GenerationRows == [bot : STRING, user : Nat, model : STRING, status : STRING]

TransactionRows == [bot : STRING, user : Nat, stars : Nat]

Top(n, seq) == SubSeq(seq, 1, IF Len(seq) < n THEN Len(seq) ELSE n)

-----------------------------------------------------------------------------
(* A breakdown: its names in the order of first appearance, and for each   *)
(* the count and the users that are not 0.  What a row adds to it is an    *)
(* item.                                                                   *)
Item(name, user) == [name |-> name, user |-> user]

Nothing == [names |-> <<>>, of |-> <<>>]

Fresh == [count |-> 0, users |-> {}]

Put(stats, name, entry) ==
  [names |-> IF name \in DOMAIN stats.of THEN stats.names ELSE Append(stats.names, name),
   of |-> [n \in DOMAIN stats.of \cup {name} |-> IF n = name THEN entry ELSE stats.of[n]]]

(* Variant for mutation: the first row of a name only opens its entry.     *)
CountedLate(stats, item) ==
  Put(stats, item.name, IF item.name \in DOMAIN stats.of
                        THEN [stats.of[item.name] EXCEPT !.count = @ + 1] ELSE Fresh)

Counted(stats, item) ==
  LET old == IF item.name \in DOMAIN stats.of THEN stats.of[item.name] ELSE Fresh
  IN  Put(stats, item.name, [count |-> old.count + 1,
                             users |-> old.users \cup ({item.user} \ {0})])

Tally(items) == FoldLeft(Counted, Nothing, items)

(* Variant for mutation: reverse=True is forgotten.                        *)
BeforeUp(key, i, j) == key[i] < key[j] \/ (key[i] = key[j] /\ i < j)

(* sorted(..., reverse=True): the greater key first, and with equal keys   *)
(* the place that came first.  Sorted(key)[k] is the place that has k - 1  *)
(* places before it.                                                       *)
Before(key, i, j) == key[i] > key[j] \/ (key[i] = key[j] /\ i < j)

Sorted(key) ==
  [k \in DOMAIN key |-> CHOOSE i \in DOMAIN key :
                          Cardinality({j \in DOMAIN key : Before(key, j, i)}) = k - 1]

Ranked(stats) ==
  LET places == Sorted([i \in DOMAIN stats.names |-> stats.of[stats.names[i]].count])
      row(n) == [name |-> n, count |-> stats.of[n].count, users |-> stats.of[n].users]
  IN  [k \in DOMAIN stats.names |-> row(stats.names[places[k]])]

-----------------------------------------------------------------------------
(* The rows at the places picked, in their order.                          *)
Only(rows, picked) ==
  FoldLeftDomain(LAMBDA kept, i : IF i \in picked THEN Append(kept, rows[i]) ELSE kept,
                 <<>>, rows)

Where(rows, Test(_)) == Only(rows, {i \in DOMAIN rows : Test(rows[i])})

IsMessage(e) == e.type = "message_sent" \/ e.prefix = "message_sent"

IsError(e) == e.type = "error" \/ e.prefix = "error" \/ e.about.status = "error"

MessageType(e) == IF e.about.message_type = "" THEN "text" ELSE e.about.message_type

ErrorType(e) == IF e.about.error_type # "" THEN e.about.error_type
                ELSE IF e.name # "" THEN e.name ELSE "UnknownError"

Clicks(events) == Where(events, LAMBDA e : e.type = "click")
Commands(events) == Where(events, LAMBDA e : e.type = "command")
Messages(events) == Where(events, IsMessage)
Errors(events) == Where(events, IsError)
OfStatus(gens, s) == Where(gens, LAMBDA g : g.status = s)
OfBot(rows, b) == Where(rows, LAMBDA r : r.bot = b)
Stars(trans) == SumFunction([i \in DOMAIN trans |-> trans[i].stars])

Users(events, gens) ==
  ({e.user : e \in ToSet(events)} \cup {g.user : g \in ToSet(gens)}) \ {0}

Named(e, default) == IF e.name = "" THEN default ELSE e.name

-----------------------------------------------------------------------------
(* The breakdowns.                                                         *)
MessageItem(e) == Item(MessageType(e), e.user)
ErrorItem(e) == Item(ErrorType(e), e.user)
ButtonItem(e) == Item(Named(e, "unknown_button"), e.user)
CommandItem(e) == Item(Named(e, "unknown_command"), e.user)

Model(g) == IF g.model = "" THEN "default" ELSE g.model
ModelItem(g) == Item(Model(g), g.user)

Breakdown(rows, ItemOf(_)) == Ranked(Tally([i \in DOMAIN rows |-> ItemOf(rows[i])]))

MessagesBreakdown(events) == Breakdown(Messages(events), MessageItem)
ErrorsBreakdown(events) == Breakdown(Errors(events), ErrorItem)
TopButtons(events) == Breakdown(Clicks(events), ButtonItem)
TopCommands(events) == Breakdown(Commands(events), CommandItem)

ModelsBreakdown(gens) ==
  LET ranked == Breakdown(gens, ModelItem)
      part(m, s) == Len(Where(gens, LAMBDA g : Model(g) = m /\ g.status = s))
  IN  [i \in DOMAIN ranked |->
         [name |-> ranked[i].name, count |-> ranked[i].count,
          success |-> part(ranked[i].name, "success"),
          failed |-> part(ranked[i].name, "failed")]]

BotBreakdown(events, gens, trans, b) ==
  LET own == OfBot(events, b)
      jobs == OfBot(gens, b)
  IN  [bot_id |-> b,
       users |-> Cardinality(Users(own, jobs)),
       clicks |-> Len(Clicks(own)),
       commands |-> Len(Commands(own)),
       generations |-> Len(jobs),
       messages_sent |-> Len(Messages(own)),
       stars |-> Stars(OfBot(trans, b)),
       events |-> Len(own)]

Bots(events, gens, trans) ==
  {r.bot : r \in ToSet(events) \cup ToSet(gens) \cup ToSet(trans)}

Summary(events, gens, trans) ==
  [total_users |-> Cardinality(Users(events, gens)),
   total_events |-> Len(events),
   total_commands |-> Len(Commands(events)),
   total_button_clicks |-> Len(Clicks(events)),
   total_generations |-> Len(gens),
   successful_generations |-> Len(OfStatus(gens, "success")),
   failed_generations |-> Len(OfStatus(gens, "failed")),
   total_messages_sent |-> Len(Messages(events)),
   total_errors |-> Len(Errors(events)),
   total_stars_earned |-> Stars(trans),
   top_buttons |-> TopButtons(events),
   top_commands |-> TopCommands(events),
   bots_breakdown |-> {BotBreakdown(events, gens, trans, b) : b \in Bots(events, gens, trans)},
   models_breakdown |-> ModelsBreakdown(gens),
   messages_breakdown |-> MessagesBreakdown(events),
   errors_breakdown |-> ErrorsBreakdown(events)]

-----------------------------------------------------------------------------
(* The pages of the admin bot, each of them drawn from a summary of its    *)
(* own: the first rows of a table, and the totals beside it.               *)
Page(table, total) == [rows |-> Top(MaxRows, table), total |-> total, distinct |-> Len(table)]

ButtonsPage(s) == Page(s.top_buttons, s.total_button_clicks)
CommandsPage(s) == Page(s.top_commands, s.total_commands)
MessagesPage(s) == Page(s.messages_breakdown, s.total_messages_sent)
ErrorsPage(s) == Page(s.errors_breakdown, s.total_errors)

GenerationsPage(s) == [rows |-> s.models_breakdown, total |-> s.total_generations]

BotsPage(s) == [rows |-> s.bots_breakdown, distinct |-> Cardinality(s.bots_breakdown)]

(* users: what is shown when the count of the table users fails.           *)
Overview(s) ==
  [users |-> s.total_users,
   events |-> s.total_events, commands |-> s.total_commands, clicks |-> s.total_button_clicks,
   generations |-> s.total_generations, succeeded |-> s.successful_generations,
   messages |-> s.total_messages_sent, errors |-> s.total_errors,
   stars |-> s.total_stars_earned]

-----------------------------------------------------------------------------
(* What the pages promise.  A page whose table is not cut adds up to the   *)
(* total beside it, and one that is cut stays below it.                    *)
AddsUp(page) ==
  LET sum == SumFunction([i \in DOMAIN page.rows |-> page.rows[i].count])
  IN  /\ sum <= page.total
      /\ page.distinct <= MaxRows => sum = page.total

(* The pages of one summary agree, with themselves and with each other.    *)
PagesAgree(s) ==
  LET models == GenerationsPage(s).rows
      bots == BotsPage(s).rows
      over == Overview(s)
  IN  /\ AddsUp(ButtonsPage(s)) /\ AddsUp(CommandsPage(s))
      /\ AddsUp(MessagesPage(s)) /\ AddsUp(ErrorsPage(s))
      /\ SumFunction([i \in DOMAIN models |-> models[i].count]) = GenerationsPage(s).total
      /\ SumFunction([i \in DOMAIN models |-> models[i].success]) = over.succeeded
      /\ SumFunction([i \in DOMAIN models |-> models[i].failed]) = s.failed_generations
      /\ SumFunction([b \in bots |-> b.events]) = over.events
      /\ SumFunction([b \in bots |-> b.clicks]) = ButtonsPage(s).total
      /\ SumFunction([b \in bots |-> b.stars]) = over.stars
      /\ over.users <= SumFunction([b \in bots |-> b.users])

(* A table of buttons has each clicked name once, the most clicked first,  *)
(* with the clicks and the known users that the events have for it.        *)
CountsClicks(table, events) ==
  LET name(e) == Named(e, "unknown_button")
      clicks(n) == {i \in DOMAIN events : events[i].type = "click" /\ name(events[i]) = n}
  IN  /\ {table[i].name : i \in DOMAIN table} =
           {name(e) : e \in {x \in ToSet(events) : x.type = "click"}}
      /\ \A i, j \in DOMAIN table : i < j => /\ table[i].name # table[j].name
                                             /\ table[i].count >= table[j].count
      /\ \A i \in DOMAIN table :
           /\ table[i].count = Cardinality(clicks(table[i].name))
           /\ table[i].users = {events[k].user : k \in clicks(table[i].name)} \ {0}
=============================================================================
