--------------------------- MODULE MCConversions ---------------------------
EXTENDS Conversions

Lengths == <<15, 14, 16>>

On(ord, weekday) == [ord |-> ord, weekday |-> weekday]

AllRules ==
  [freq : {"DAILY", "WEEKLY", "MONTHLY", "YEARLY", "HOURLY"},
   start : {4, 11, 18}, interval : {1, 2}, wkst : {0, 6},
   byday : {<<>>, <<On(0, 4)>>, <<On(0, 1), On(0, 4)>>, <<On(1, 4)>>, <<On(-1, 4)>>,
            <<On(2, 4)>>},
   bymonthday : {<<>>, <<4>>, <<5>>, <<-1>>, <<4, 5>>}, bymonth : {<<>>, <<1>>, <<2>>},
   bysetpos : {0, 1, -1}, byweekno : {0, 1},
   count : {NoEnd, 3}, until : {NoEnd, 40}, untilUTC : {NoEnd, 40, 41}]

\* Only a weekly rule has a first day, and parts that are seldom combined are not.
SomeRules == {rule \in AllRules :
  /\ rule.wkst # 0 => rule.freq = "WEEKLY"
  /\ rule.count # NoEnd => rule.until = NoEnd
  /\ rule.until = NoEnd <=> rule.untilUTC = NoEnd
  /\ rule.untilUTC = 41 => rule.freq = "DAILY"
  /\ rule.byweekno # 0 => rule.byday = <<>> /\ rule.bysetpos = 0
  /\ rule.bymonthday # <<>> => rule.bysetpos = 0 /\ rule.byday \in {<<>>, <<On(0, 4)>>}
  /\ rule.freq \in {"DAILY", "WEEKLY"} => \A i \in DOMAIN rule.byday : rule.byday[i].ord = 0
  /\ rule.freq = "HOURLY" => rule.byday = <<>> /\ rule.bymonthday = <<>>
  /\ rule.freq # "HOURLY" => BeginsRight(rule)}

Line(rule) == [type |-> "RRULE", rule |-> rule]
ExDate == [type |-> "EXDATE"]

SomeEvents ==
  {[lines |-> <<Line(rule)>>] : rule \in SomeRules} \cup
  {[lines |-> <<ExDate, Line(rule)>>] : rule \in {r \in SomeRules : r.freq = "DAILY"}} \cup
  {[lines |-> <<>>]}

\* An event becomes single, or gets a rule, one that Graph has and one it has not.
Bare == [freq |-> "WEEKLY", start |-> 4, interval |-> 2, wkst |-> 6, byday |-> <<>>,
         bymonthday |-> <<>>, bymonth |-> <<>>, bysetpos |-> 0, byweekno |-> 0,
         count |-> 3, until |-> NoEnd, untilUTC |-> NoEnd]
SomeEdits ==
  {[lines |-> <<>>], [lines |-> <<Line(Bare)>>],
   [lines |-> <<Line([Bare EXCEPT !.freq = "HOURLY"])>>]}

\* Names of up to four characters, and a few that are longer.
Characters == {"x", "?", " ", ".", "_", "vti", "CON"}
SomeNames ==
  UNION {[1..n -> Characters] : n \in 1..4} \cup
  {<<"x", ".">> \o [i \in 1..n |-> "x"] : n \in 3..7} \cup
  {[i \in 1..n |-> "x"] : n \in 5..7} \cup
  {<<"desktop", ".", "ini">>, <<"x", ".", "docx">>, <<"_", "vti", "_", "vti", "_">>,
   <<"x", "x", "x", "x", "x", ".", "x">>}

SomeDocuments ==
  [name : SomeNames, mime : {"text", Folder, "document", "form"}]

Path == [Work |-> <<"Work">>, Trip |-> <<"Travel", "Trip">>, Old |-> <<"Old">>]
SomeMessages ==
  [labels : UNION {{s \in [1..n -> {"INBOX", "TRASH", "UNREAD", "STARRED", "IMPORTANT",
                                    "CATEGORY_PERSONAL", "Work", "Trip", "Old"}] :
                    IsInjective(s)} : n \in 0..4},
   policy : {"categories", "duplicate"}]

ReservedWords == {"CON"}
ForbiddenNames == {<<"desktop", ".", "ini">>}
=============================================================================
