--------------------------- MODULE MCDateRangePicker ---------------------------
(***************************************************************************)
(* DateRangePicker on two days of two slots, in months of one day,         *)
(* in a zone one slot ahead of UTC.                                        *)
(***************************************************************************)
EXTENDS DateRangePicker

\* The presets end when the page was loaded.
Ranges == [recent |-> <<1, 2>>]
Recent == <<1, 2>>
\* A range that has not begun when the page is loaded.
Addresses == {<<2, 2>>}
\* What a user types ends before it starts.
TypedBackwards == {<<2, 1>>}
=============================================================================
