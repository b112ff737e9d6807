---------------------------- MODULE MCPageInput ----------------------------
(* The pages that TLC looks at. *)
EXTENDS PageInput

CONSTANTS q, x, y, r, g, w, d,       \* controls
          yes, no,                   \* answers of questions with options
          one, two,                  \* items of checkboxes
          good, better, bad,         \* what may be typed
          maskGood, maskBetter, maskAny  \* redacted answers

MCLate == 2099
OptionsOf == {yes, no}
Texts == {Blank, good, bad}
Date(ymd) == [day |-> ymd[3], month |-> ymd[2], year |-> ymd[1]]
NoDate == Date(<<Blank, Blank, Blank>>)
NotWhole == Date(<<2024, 1, Blank>>)
NotThere == Date(<<2023, 2, 29>>)
TooLate == Date(<<MCLate, 1, 1>>)
Early == Date(<<2024, 2, 28>>)
OnThe31st == Date(<<2024, 1, 31>>)
Months == {[month |-> md[2], year |-> md[1]] :
             md \in {<<Blank, Blank>>, <<2024, Blank>>, <<2024, 2>>, <<2024, bad>>}}
If(c, v) == [of |-> c, is |-> v]

\* what a redacted answer looks like: a pattern that keeps something of it, and one
\* that does not, which also stands in for no answer
KeepMask == [v \in {Blank, good, better, bad, maskGood, maskBetter, maskAny} |->
               CASE v = good -> maskGood [] v = better -> maskBetter [] v = bad -> maskAny
                 [] OTHER -> v]
FixedMask == [v \in {Blank, good, better, bad, maskGood, maskBetter, maskAny} |-> maskAny]

Plain(cs) == [c \in Range(cs) |-> None]

Page(cs, kind, choices, when, show, required, redacted, mask, parts, limits) ==
  [controls |-> cs, kind |-> kind, choices |-> choices, when |-> when, show |-> show,
   required |-> required, redacted |-> redacted, mask |-> mask,
   parts |-> parts, limits |-> limits]

\* a question, a question under one of its options and a text under an option of that,
\* with a question after them
Nested ==
  LET cs == <<q, x, y, r>> IN
  Page(cs,
       [c \in Range(cs) |-> IF c \in {q, x} THEN "radios" ELSE "text"],
       [c \in Range(cs) |-> IF c \in {q, x} THEN OptionsOf ELSE Texts],
       [Plain(cs) EXCEPT ![x] = If(q, yes), ![y] = If(x, yes)],
       Plain(cs), {q, x, y}, {}, KeepMask, {}, <<>>)

\* a redacted text, alone and under an option
Redacted(mask) ==
  LET cs == <<q, r, y>> IN
  Page(cs,
       [c \in Range(cs) |-> IF c = q THEN "radios" ELSE "text"],
       [c \in Range(cs) |-> CASE c = q -> OptionsOf [] c = r -> Texts \cup {better} [] OTHER -> {Blank, good}],
       [Plain(cs) EXCEPT ![y] = If(q, yes)],
       Plain(cs), {r}, {r, y}, mask, {}, <<>>)

\* checkboxes with a text under an item, and a date under a question of another page
Grouped(texts, dates, required, limits) ==
  LET cs == <<g, w, d>> IN
  Page(cs,
       [c \in Range(cs) |-> CASE c = g -> "checkboxes" [] c = w -> "text" [] OTHER -> "date"],
       [c \in Range(cs) |-> CASE c = g -> {{}, {one}, {one, two}} [] c = w -> texts [] OTHER -> dates],
       [Plain(cs) EXCEPT ![w] = If(g, one)],
       [Plain(cs) EXCEPT ![d] = If(Outside, yes)], required, {}, KeepMask,
       {"day", "month", "year"}, limits)

\* a component whose condition is the answer to a question of the same page, and a text
SamePage ==
  LET cs == <<q, r, d, y>> IN
  Page(cs,
       [c \in Range(cs) |-> CASE c = q -> "radios" [] c \in {r, y} -> "text" [] OTHER -> "date"],
       [c \in Range(cs) |-> CASE c = q -> OptionsOf [] c = r -> Texts [] c = y -> {Blank, good} [] OTHER -> Months],
       [Plain(cs) EXCEPT ![d] = If(q, no)],
       [Plain(cs) EXCEPT ![r] = If(q, yes)], {q, r, d, y}, {}, KeepMask,
       {"month", "year"}, <<>>)

MCPageDefs ==
  {Nested, Redacted(KeepMask), Redacted(FixedMask), SamePage,
   Grouped({Blank, bad}, {NoDate, NotThere, TooLate, Early}, {g, w, d},
           <<"date.invalid.before", "date.invalid.within.next">>),
   Grouped({Blank, good}, {NoDate, NotWhole, OnThe31st}, {w}, <<>>)}
MCOutsides == {yes, no}
\* a day of a short month, and one whose number is too much for other months
MCDays == {Date(<<2026, 11, 19>>), Date(<<2026, 1, 31>>)}
MCWrong == {bad}
=============================================================================
