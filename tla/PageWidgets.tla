------------------------------ MODULE PageWidgets ------------------------------
(***************************************************************************)
(* What Bootstrap makes of every page (static/bootstrap/3.3.6/js): a       *)
(* dialog (modal.js), the menus of the navigation bar (dropdown.js) and    *)
(* the bar itself, which a small window collapses (collapse.js), as the    *)
(* templates use them: with fading, a backdrop and the keyboard.           *)
(*                                                                         *)
(* A transition ends by the browser's event or by the timer that emulates  *)
(* it; either calls all that wait for the end on the same element.  `waits'*)
(* is what the user does meanwhile: she waits for the end, or not.         *)
(***************************************************************************)
EXTENDS Integers, Sequences, FiniteSets, SequencesExt

CONSTANTS Menus,        \* menus of the navigation bar
          Items,        \* number of items of a menu
          MaxBackdrops, \* backdrops on the page and dialogs sliding in at once
          ScrollWidth,  \* width of the scrollbar that a dialog hides
          MaxPad        \* padding with which a page may still open the dialog

ASSUME WidgetsAssumption ==
    /\ Menus \subseteq Nat \ {0} /\ IsFiniteSet(Menus)
    /\ Items \in Nat \ {0} /\ MaxBackdrops \in Nat \ {0} /\ ScrollWidth \in Nat \ {0}
    /\ MaxPad \in Nat \ {0}

None == 0
Nowhere == [menu |-> None, at |-> 0]
Places == {Nowhere} \cup [menu : Menus, at : 0 .. Items]

VARIABLES modal,  \* the dialog and what it changes of the page
          nav,    \* the collapsible part of the navigation bar
          open,   \* menus that are open
          focus,  \* where in the menus the focus is: 0 is the toggle, then the items
          waits

vars == <<modal, nav, open, focus, waits>>

-----------------------------------------------------------------------------
(***************************************************************************)
(* Modal.  atBackdrop, atDialog and atElement are what waits for the end   *)
(* of a transition there.  keepsFocus: a focus outside is brought back,    *)
(* which a dialog that is not visible cannot do.                           *)
(***************************************************************************)
Backdrops == 1 .. MaxBackdrops

Dialog ==
    [isShown |-> FALSE, told |-> "hidden", visible |-> FALSE, inDialog |-> FALSE,
     keepsFocus |-> FALSE, backdrop |-> None, onPage |-> {},
     atBackdrop |-> [b \in Backdrops |-> <<>>], atDialog |-> 0, atElement |-> 0,
     modalOpen |-> FALSE, pad |-> 0, originalPad |-> 0]

NewBackdrop(m, callback) ==
    LET b == CHOOSE b \in Backdrops \ m.onPage : TRUE
    IN  [m EXCEPT !.backdrop = b, !.onPage = @ \cup {b}, !.atBackdrop[b] = <<callback>>]

\* checkScrollbar and setScrollbar: a page that does not scroll any more has no scrollbar.
SetScrollbar(m) ==
    [m EXCEPT !.originalPad = m.pad, !.pad = @ + IF m.modalOpen THEN 0 ELSE ScrollWidth]

Show(m) ==
    NewBackdrop([SetScrollbar(m) EXCEPT !.isShown = TRUE, !.told = "show", !.modalOpen = TRUE,
                                        !.inDialog = FALSE],
                "slideIn")

SlideIn(m) == [m EXCEPT !.visible = TRUE, !.keepsFocus = TRUE, !.atDialog = @ + 1]

Hide(m) ==
    [m EXCEPT !.isShown = FALSE, !.told = "hide", !.keepsFocus = FALSE, !.atElement = @ + 1]

\* What follows when the backdrop is gone.
\* Faulty variant: the padding of the body is left.
HiddenOnly(m) == [m EXCEPT !.modalOpen = FALSE, !.told = "hidden"]

Hidden(m) == [m EXCEPT !.modalOpen = FALSE, !.pad = m.originalPad, !.told = "hidden"]

RemoveBackdrop(m) ==
    IF m.backdrop = None
    THEN m
    ELSE [m EXCEPT !.onPage = @ \ {m.backdrop}, !.atBackdrop[m.backdrop] = <<>>,
                   !.backdrop = None]

\* backdrop() asks again whether the dialog is shown.
\* Faulty variant: the dialog is said to be hidden before its backdrop is.
HideModalAtOnce(m) ==
    LET h == [m EXCEPT !.visible = FALSE, !.inDialog = FALSE]
    IN  IF h.isShown THEN NewBackdrop(h, "hidden") ELSE Hidden(h)

HideModal(m) ==
    LET h == [m EXCEPT !.visible = FALSE, !.inDialog = FALSE]
    IN  IF h.isShown              THEN NewBackdrop(h, "hidden")
        ELSE IF h.backdrop # None THEN [h EXCEPT !.atBackdrop[h.backdrop] = Append(@, "remove")]
        ELSE                           Hidden(h)

Call(m, callback) ==
    CASE callback = "slideIn" -> SlideIn(m)
      [] callback = "remove"  -> Hidden(RemoveBackdrop(m))
      [] callback = "hidden"  -> Hidden(m)

Settled(m) ==
    m.atDialog = 0 /\ m.atElement = 0 /\ \A b \in Backdrops : m.atBackdrop[b] = <<>>

BackdropEnds(b) ==
    /\ modal.atBackdrop[b] # <<>>
    /\ modal' = FoldLeft(Call, [modal EXCEPT !.atBackdrop[b] = <<>>], modal.atBackdrop[b])
    /\ UNCHANGED <<nav, open, focus, waits>>

DialogEnds ==
    /\ modal.atDialog > 0
    /\ modal' = [modal EXCEPT !.atDialog = 0, !.told = "shown", !.inDialog = modal.visible]
    /\ focus' = IF modal.visible THEN Nowhere ELSE focus
    /\ UNCHANGED <<nav, open, waits>>

HideModals(m, n) == FoldLeft(LAMBDA h, i : HideModal(h), m, [i \in 1 .. n |-> i])

ElementEnds ==
    /\ modal.atElement > 0
    /\ Cardinality(modal.onPage) + modal.atElement <= MaxBackdrops
    /\ modal' = HideModals([modal EXCEPT !.atElement = 0], modal.atElement)
    /\ UNCHANGED <<nav, open, focus, waits>>

MayAct == waits => Settled(modal)

-----------------------------------------------------------------------------
(***************************************************************************)
(* Dropdown.                                                               *)
(***************************************************************************)
\* Faulty variant: the menus stay as they are.
ClearNone == UNCHANGED open

ClearMenus == open' = {}

\* Keys reach the page unless the focus is in the dialog.
OnPage == ~modal.inDialog /\ MayAct

\* A focus on the page; enforceFocus brings it back to the dialog.
FocusOn(place) ==
    LET caught == modal.keepsFocus /\ modal.visible
    IN  /\ modal' = [modal EXCEPT !.inDialog = caught]
        /\ focus' = IF caught THEN Nowhere ELSE place

\* The keyboard moves the focus to any toggle, to an item of an open menu or elsewhere,
\* out of a dialog as well, and whether a backdrop covers the page or not.
Tab(place) ==
    /\ MayAct
    /\ place.at > 0 => place.menu \in open
    /\ FocusOn(place)
    /\ UNCHANGED <<nav, open, waits>>

ToggleMenu(m) == open' = IF m \in open THEN {} ELSE {m}

ClickToggle(m) ==
    /\ OnPage /\ modal.onPage = {} /\ ~modal.visible
    /\ ToggleMenu(m)
    /\ focus' = [menu |-> m, at |-> 0]
    /\ UNCHANGED <<modal, nav, waits>>

\* A click anywhere else, an item included; its link is hidden with the menu.  A dialog that
\* is visible covers the page: what is clicked is in it, unless Enter clicks an item.
Click ==
    /\ MayAct
    /\ ClearMenus
    /\ modal' \in {modal, [modal EXCEPT !.inDialog = modal.visible]}
    /\ focus' = Nowhere
    /\ UNCHANGED <<nav, waits>>

Moved(at, key) ==
    CASE key = "down" -> IF at < Items THEN at + 1 ELSE at
      [] key = "up"   -> IF at > 1 THEN at - 1 ELSE 1
      [] OTHER        -> IF at = 0 THEN 1 ELSE at

BackToToggle(f) == [f EXCEPT !.at = 0]

Keydown(key) ==
    LET m == focus.menu
    IN  /\ OnPage /\ m # None
        /\ CASE m \notin open /\ key # "escape" -> ToggleMenu(m) /\ FocusOn(focus)
             [] m \in open /\ key = "escape"    -> ClearMenus /\ FocusOn(BackToToggle(focus))
             [] m \in open /\ key # "escape"    -> /\ FocusOn([focus EXCEPT !.at = Moved(@, key)])
                                                   /\ UNCHANGED open
             [] OTHER                           -> UNCHANGED <<modal, open, focus>>
        /\ UNCHANGED <<nav, waits>>

-----------------------------------------------------------------------------
(***************************************************************************)
(* Opening and closing the dialog.                                         *)
(***************************************************************************)
\* A button that toggles the dialog; the click reaches the menus too.
ToggleDialog ==
    /\ OnPage
    /\ \/ /\ modal.isShown
          /\ modal' = Hide(modal)
       \/ /\ ~modal.isShown
          /\ Cardinality(modal.onPage) + modal.atDialog < MaxBackdrops /\ modal.pad < MaxPad
          /\ modal' = Show(modal)
    /\ ClearMenus
    /\ focus' = Nowhere
    /\ UNCHANGED <<nav, waits>>

\* The dialog's cross, its Close button, a click beside it, or Escape inside.
Dismiss ==
    /\ modal.isShown /\ modal.visible /\ MayAct
    /\ ClearMenus \/ (modal.inDialog /\ UNCHANGED open)
    /\ modal' = [Hide(modal) EXCEPT !.inDialog = TRUE]
    /\ focus' = Nowhere
    /\ UNCHANGED <<nav, waits>>

-----------------------------------------------------------------------------
(***************************************************************************)
(* Collapse.                                                               *)
(***************************************************************************)
ShowNav(n) ==
    IF n.transitioning \/ n.in
    THEN n
    ELSE [n EXCEPT !.expanded = TRUE, !.transitioning = TRUE, !.told = "show",
                   !.waiting = Append(@, "shown")]

HideNav(n) ==
    IF n.transitioning \/ ~n.in
    THEN n
    ELSE [n EXCEPT !.expanded = FALSE, !.in = FALSE, !.transitioning = TRUE, !.told = "hide",
                   !.waiting = Append(@, "hidden")]

\* Faulty variant: a press during a transition is not ignored.
ToggleNavAlways ==
    /\ OnPage
    /\ LET n == [nav EXCEPT !.transitioning = FALSE]
       IN  nav' = IF n.in THEN HideNav(n) ELSE ShowNav(n)
    /\ ClearMenus
    /\ focus' = Nowhere
    /\ UNCHANGED <<modal, waits>>

ToggleNav ==
    /\ OnPage
    /\ nav' = IF nav.in THEN HideNav(nav) ELSE ShowNav(nav)
    /\ ClearMenus
    /\ focus' = Nowhere
    /\ UNCHANGED <<modal, waits>>

Complete(n, event) == [n EXCEPT !.in = event = "shown", !.transitioning = FALSE, !.told = event]

NavEnds ==
    /\ nav.waiting # <<>>
    /\ nav' = FoldLeft(Complete, [nav EXCEPT !.waiting = <<>>], nav.waiting)
    /\ UNCHANGED <<modal, open, focus, waits>>

-----------------------------------------------------------------------------
Init ==
    /\ modal = Dialog
    /\ nav = [in |-> FALSE, expanded |-> FALSE, transitioning |-> FALSE, told |-> "hidden",
              waiting |-> <<>>]
    /\ open = {}
    /\ focus = Nowhere
    /\ waits \in BOOLEAN

Next ==
    \/ \E b \in Backdrops : BackdropEnds(b)
    \/ DialogEnds \/ ElementEnds \/ NavEnds
    \/ \E m \in Menus : ClickToggle(m)
    \/ \E key \in {"up", "down", "space", "escape"} : Keydown(key)
    \/ \E place \in Places : Tab(place)
    \/ Click \/ ToggleDialog \/ Dismiss \/ ToggleNav

\* Every transition ends, by its timer if nothing else.
Spec ==
    /\ Init /\ [][Next]_vars
    /\ \A b \in Backdrops : WF_vars(BackdropEnds(b))
    /\ WF_vars(DialogEnds) /\ WF_vars(ElementEnds) /\ WF_vars(NavEnds)

-----------------------------------------------------------------------------
(***************************************************************************)
(* Properties.                                                             *)
(***************************************************************************)
\* A dialog that is closed leaves the page as it was, when the user waits: no backdrop over
\* it, its scrollbar and the width that makes up for it.
PageIsLeftAsItWas ==
    waits /\ modal.told = "hidden" =>
        modal.onPage = {} /\ ~modal.modalOpen /\ modal.pad = 0

\* One menu is open at most, the focus is on no item of a menu that is closed, and no menu
\* is open over a dialog that is shown to a user who waits for it; while it comes, a key may
\* open one.
OneThingAtATime ==
    /\ Cardinality(open) <= 1
    /\ focus.at > 0 => focus.menu \in open
    /\ waits /\ modal.isShown => open = {}

\* Listeners of the dialog's events may rely on their order, and on there being an end to
\* each transition, when the user waits.
DialogPromise == INSTANCE ShowAndHide WITH told <- modal.told,
                     there <- modal.visible \/ modal.onPage # {}
DialogKeepsPromise ==
    /\ [][waits => [DialogPromise!Next]_(DialogPromise!vars)]_vars
    /\ (waits /\ modal.told = "show") ~> (modal.told = "shown")
    /\ (waits /\ modal.told = "hide") ~> (modal.told = "hidden")

\* Those of the navigation bar may, whatever the user does.
NavPromise == INSTANCE ShowAndHide WITH told <- nav.told, there <- nav.in
NavKeepsPromise == NavPromise!Spec
=============================================================================
